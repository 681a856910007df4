--------------------------- MODULE MCLedgerMatch ---------------------------
(* Instances of LedgerMatch for TLC. *)
EXTENDS LedgerMatch, TLC

CONSTANTS n1, n2, n3, d1, d2, a1, a2, t1, t2

(* n2 is one misread character away from n1 and from n3, which are two apart. *)
Resembles == {<<n, n>> : n \in Numbers}
             \cup {<<n1, n2>>, <<n2, n1>>, <<n2, n3>>, <<n3, n2>>}

(* Rows that have a number and an amount; one of them in two spellings. *)
AnchoredRows ==
    [number : {n1}, date : {d1, d2}, amount : {a1, a2}, text : {t1}]
    \cup [number : {n2}, date : {d1, None}, amount : {a1, a2}, text : {t1}]
    \cup {[number |-> n1, date |-> d1, amount |-> a1, text |-> t2]}

(* Lines with or without each field; n3 is a number the ledger does not have. *)
AnyLines == [number : {n1, n3, None}, date : {d1, d2, None}, amount : {a1, a2, None}]

(* Rows that lack cells, or have an amount nobody can read. *)
RaggedRows ==
    [number : {n1, n2, None}, date : {d1, None}, amount : {a1, a2, None, Unreadable}, text : {t1}]
RaggedLines == [number : {n1, n3, None}, date : {d1, None}, amount : {a1, a2, None}]
============================================================================
