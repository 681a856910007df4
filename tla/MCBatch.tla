------------------------------ MODULE MCBatch ------------------------------
(* Instances of Batch for TLC. *)
EXTENDS Batch

CONSTANTS pay, Pay, part, tail, tiny, d1, d2, a1, a2, acme, heir

(* Two spellings of one reference, two parts of it, and one that is too     *)
(* short to be compared with anything.                                      *)
Folded == [n \in References |-> IF n = Pay THEN pay ELSE n]
Contains == (References \ {tiny}) \X (References \ {tiny})
            \ {<<part, tail>>, <<tail, part>>}

Entry(number, date, amount, owner) ==
    [number |-> number, date |-> date, amount |-> amount, owner |-> owner]
SomeReceipts == {Entry(n, d1, a1, acme) : n \in {pay, part, tiny, None}}
                \cup {Entry(Pay, d1, a1, heir), Entry(tail, None, a2, None),
                      Entry(part, d2, None, heir)}
SomeHeaders == [reference : {None, pay, part, tiny}, date : {None, d1},
                amount : {None, a1}, name : {None, acme}]
============================================================================
