------------------------------ MODULE Identify ------------------------------
(***************************************************************************)
(* What discover_potential_customers promises, without the machinery that  *)
(* Discovery models: no chunks, no tasks, no order of reading, nothing     *)
(* cancelled halfway.  Oracle replies to the queries of a level whenever   *)
(* it likes; a level is decided by what the replies say together.          *)
(***************************************************************************)
EXTENDS Naturals

CONSTANTS Names, MaxLines, MaxQueries, None    \* as in Discovery

VARIABLES
    named, referred, numbered,    \* the request, as in Discovery
    level,                        \* the level of detail
    replies,                      \* what Oracle said to each query of it
    outcome

vars == <<named, referred, numbered, level, replies, outcome>>
Request == <<named, referred, numbered>>

Queries == 1..numbered
Reply(kind, who) == [kind |-> kind, who |-> who]
Silent == Reply("silent", {})
Errors == {"failed", "cancelled"}

Outcome(kind, name) == [kind |-> kind, name |-> name]
Open == Outcome("open", None)

Quiet   == \A i \in Queries : replies[i] = Silent
Settled == \A i \in Queries : replies[i].kind = "found"
Owners  == UNION {replies[i].who : i \in Queries}
Torn    == \E x, y \in Owners : x # y

Init ==
    /\ named \in Names \cup {None}
    /\ referred \in BOOLEAN
    /\ numbered \in 0..MaxLines
    /\ level = 1
    /\ replies = [i \in Queries |-> Silent]
    /\ outcome = Open

Conclude(o) ==
    /\ outcome = Open
    /\ outcome' = o
    /\ UNCHANGED <<Request, level, replies>>

(* Lines are asked for only when there are few enough of them.              *)
Answer(i) ==
    /\ outcome = Open /\ replies[i] = Silent
    /\ numbered <= MaxQueries
    /\ \E r \in {Reply("found", who) : who \in SUBSET Names} \cup {Reply(e, {}) : e \in Errors} :
         replies' = [replies EXCEPT ![i] = r]
    /\ UNCHANGED <<Request, level, outcome>>

(* The receipt report is asked before any line is, for a reference that was *)
(* supplied and for a name that was; its error is the end.                  *)
ByReport ==
    /\ level = 1 /\ Quiet
    /\ \/ referred /\ \E name \in Names : Conclude(Outcome("receipt", name))
       \/ named # None /\ Conclude(Outcome("name", named))
       \/ (referred \/ named # None) /\ \E e \in Errors : Conclude(Outcome(e, None))

(* Every query was answered, and the answers name one customer.             *)
ByLines ==
    \E name \in Names :
        /\ Settled /\ Owners = {name}
        /\ Conclude(Outcome("invoices", name))

(* A level is given up for two customers, or for none in all its answers.   *)
Undecided == Torn \/ (Settled /\ Owners = {})

TryNext ==
    /\ outcome = Open /\ Undecided /\ level < 3
    /\ level' = level + 1
    /\ replies' = [i \in Queries |-> Silent]
    /\ UNCHANGED <<Request, outcome>>

Nobody ==
    /\ Undecided /\ (level = 3 \/ numbered = 0)
    /\ Conclude(Outcome("nobody", None))

TooMany ==
    /\ numbered > MaxQueries
    /\ Conclude(Outcome("limit", None))

(* An error is Oracle's, never the promise's own.                           *)
Fail ==
    \E i \in Queries :
        /\ replies[i].kind \in Errors
        /\ Conclude(Outcome(replies[i].kind, None))

Next ==
    \/ \E i \in Queries : Answer(i)
    \/ ByReport \/ ByLines \/ TryNext \/ Nobody \/ TooMany \/ Fail

Spec == Init /\ [][Next]_vars

=============================================================================
