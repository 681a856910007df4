----------------------------- MODULE Discovery -----------------------------
(***************************************************************************)
(* discover_potential_customers in discovery.py: which customer a batch    *)
(* belongs to.  It asks the receipt report for the payment reference, then *)
(* for the supplied name, and then the invoice report for the numbered     *)
(* lines, at three levels of detail.  The queries of a level run as tasks, *)
(* a chunk at a time; their answers are read as they come; the tasks that  *)
(* are left when a second customer appears are cancelled and awaited.      *)
(*                                                                         *)
(* A query of either report is one call of BipFetch.  Here it ends as a    *)
(* call there may end: with rows (of which only the customers named        *)
(* matter), with a failure, or cancelled, which also happens to a query    *)
(* that joined the flight of another request whose own discovery cancelled *)
(* it.                                                                     *)
(***************************************************************************)
EXTENDS Naturals, FiniteSets

CONSTANTS
    Names,        \* customers' names, as reports and callers spell them
    Fold,         \* a name's case-folded form
    MaxLines,     \* bound on the numbered lines of a batch
    MaxQueries,   \* BIP_MAX_DISCOVERY_INVOICES
    Width,        \* DEFAULT_CONCURRENCY, the size of a chunk
    None

Levels == 1..3    \* number; number and amount; number, amount and date

ASSUME DiscoveryAssumption ==
    /\ DOMAIN Fold = Names
    /\ None \notin Names
    /\ MaxLines \in Nat
    /\ MaxQueries \in Nat
    /\ Width \in Nat \ {0}

VARIABLES
    named,       \* the customer name the caller supplied, or None
    referred,    \* the caller supplied a payment reference
    numbered,    \* how many lines carry an invoice number
    pc,          \* where the coroutine is
    level,       \* the level of detail
    sent,        \* the queries of this level that tasks were made for
    answer,      \* what each query of this level came to
    read,        \* the queries of this level whose answer was read
    candidates,  \* discovered_candidates
    raising,     \* what ended the reading of a chunk, if not a break
    outcome

vars == <<named, referred, numbered, pc, level, sent, answer, read, candidates,
          raising, outcome>>

Queries == 1..numbered

Answer(kind, who) == [kind |-> kind, who |-> who]
Found(names) == Answer("found", names)
Unsent    == Answer("unsent", {})
Asked     == Answer("asked", {})
Failed    == Answer("failed", {})
Cancelled == Answer("cancelled", {})   \* with the flight it had joined
Dropped   == Answer("dropped", {})     \* by this discovery
Answers == {Found(names) : names \in SUBSET Names}
           \cup {Unsent, Asked, Failed, Cancelled, Dropped}

Outcome(kind, name) == [kind |-> kind, name |-> name]
Open == Outcome("open", None)
Outcomes == {Outcome(kind, None) : kind \in {"open", "nobody", "limit", "failed", "cancelled"}}
            \cup {Outcome(kind, name) : kind \in {"receipt", "name", "invoices"}, name \in Names}

Several(S) == \E x, y \in S : x # y
Pending == {i \in Queries : answer[i] = Asked}
Ended   == {i \in Queries : answer[i] \notin {Unsent, Asked}}

-----------------------------------------------------------------------------
Init ==
    /\ named \in Names \cup {None}
    /\ referred \in BOOLEAN
    /\ numbered \in 0..MaxLines
    /\ pc = "start"
    /\ level = 1
    /\ sent = 0
    /\ answer = [i \in Queries |-> Unsent]
    /\ read = {}
    /\ candidates = {}
    /\ raising = "nothing"
    /\ outcome = Open

Batch == <<named, referred, numbered>>
Sequence == <<level, sent, answer, read, candidates, raising>>

End(o) == pc' = "done" /\ outcome' = o
Go(where) == pc' = where /\ UNCHANGED outcome

(* The reference first, then the name; with neither, straight to the lines. *)
Start ==
    /\ pc = "start"
    /\ Go(IF referred THEN "receipt" ELSE IF named # None THEN "name" ELSE "level")
    /\ UNCHANGED <<Batch, Sequence>>

(* Step 1.  The customers of the receipts whose number resembles the        *)
(* reference: one is an answer.                                             *)
ReceiptAnswers ==
    /\ pc = "receipt"
    /\ \E owners \in SUBSET Names :
         \/ \E name \in owners : owners = {name} /\ End(Outcome("receipt", name))
         \/ /\ \A name \in owners : owners # {name}
            /\ Go(IF named # None THEN "name" ELSE "level")
    /\ UNCHANGED <<Batch, Sequence>>

(* Step 2.  The name is confirmed when the receipts name it and nobody      *)
(* else, whatever the case; the caller's spelling is kept.                  *)
NameAnswers ==
    /\ pc = "name"
    /\ \E owners \in SUBSET Names :
         IF {Fold[name] : name \in owners} = {Fold[named]}
         THEN End(Outcome("name", named))
         ELSE Go("level")
    /\ UNCHANGED <<Batch, Sequence>>

(* The report's failure is discovery's, and so is a cancellation that came  *)
(* with the flight the call had joined.                                     *)
ReceiptFails ==
    /\ pc \in {"receipt", "name"}
    /\ \E kind \in {"failed", "cancelled"} : End(Outcome(kind, None))
    /\ UNCHANGED <<Batch, Sequence>>

-----------------------------------------------------------------------------
(* Step 3.                                                                  *)

(* No line carries a number: every level is passed over.                    *)
NothingToAsk ==
    /\ pc = "level" /\ numbered = 0
    /\ End(Outcome("nobody", None))
    /\ UNCHANGED <<Batch, Sequence>>

TooManyToAsk ==
    /\ pc = "level" /\ numbered > MaxQueries
    /\ End(Outcome("limit", None))
    /\ UNCHANGED <<Batch, Sequence>>

(* Wrong on purpose: a chunk is always full.                                *)
ChunkEndFull == sent + Width
ChunkEnd == IF sent + Width < numbered THEN sent + Width ELSE numbered

(* Tasks are made for the next chunk; they start before anything is read,   *)
(* and the semaphore, as wide as a chunk, holds none of them back.          *)
SendChunk ==
    /\ pc = "level" /\ numbered \in 1..MaxQueries
    /\ sent < numbered /\ ~Several(candidates)
    /\ sent' = ChunkEnd
    /\ answer' = [i \in Queries |-> IF i \in sent + 1..sent' THEN Asked ELSE answer[i]]
    /\ Go("reading")
    /\ UNCHANGED <<Batch, level, read, candidates, raising>>

QueryEnds(i) ==
    /\ pc = "reading" /\ answer[i] = Asked
    /\ \E a \in {Found(names) : names \in SUBSET Names} \cup {Failed, Cancelled} :
         answer' = [answer EXCEPT ![i] = a]
    /\ UNCHANGED <<Batch, pc, level, sent, read, candidates, raising, outcome>>

(* Wrong on purpose: a query that fails breaks off the reading quietly.     *)
RaisedIfCancelled(a) == IF a.kind = "cancelled" THEN a.kind ELSE raising
(* Wrong on purpose: a query that fails cancels its siblings, and that is   *)
(* what is raised.                                                          *)
RaisedAsCancel(a) == IF a.kind = "found" THEN raising ELSE "cancelled"
Raised(a) == IF a.kind = "found" THEN raising ELSE a.kind

(* Wrong on purpose: the reading ends with a full chunk's answers.          *)
LastOfFull(seen) == Cardinality(seen) % Width = 0
LastOfChunk(seen) == seen = 1..sent

(* as_completed hands over an answer.  A second customer breaks off the     *)
(* reading and a query that did not succeed raises; either way, and when    *)
(* everything is read, the `finally` cancels the tasks that are left.       *)
Read(i) ==
    LET known == candidates \cup answer[i].who IN
    /\ pc = "reading" /\ i \in Ended \ read
    /\ read' = read \cup {i}
    /\ candidates' = known
    /\ raising' = Raised(answer[i])
    /\ IF answer[i].kind # "found" \/ Several(known) \/ LastOfChunk(read')
       THEN Go("draining") ELSE Go("reading")
    /\ UNCHANGED <<Batch, level, sent, answer>>

Unwind(i) ==
    /\ pc = "draining" /\ answer[i] = Asked
    /\ answer' = [answer EXCEPT ![i] = Dropped]
    /\ UNCHANGED <<Batch, pc, level, sent, read, candidates, raising, outcome>>

(* Wrong on purpose: the tasks are cancelled and not awaited.               *)
GatheredEarly == TRUE
Gathered == Pending = {}

(* gather has every task of the chunk: what was raised goes on, else the    *)
(* level does.                                                              *)
Drained ==
    /\ pc = "draining" /\ Gathered
    /\ IF raising = "nothing" THEN Go("level") ELSE End(Outcome(raising, None))
    /\ UNCHANGED <<Batch, Sequence>>

(* Wrong on purpose: the next level starts with the candidates of this one. *)
CandidatesKept == candidates
NoCandidates == {}

(* The level is over: one candidate is the customer; none or several send   *)
(* the discovery to the next level.                                         *)
Judge ==
    /\ pc = "level" /\ numbered \in 1..MaxQueries
    /\ sent = numbered \/ Several(candidates)
    /\ \/ \E name \in candidates :
            /\ candidates = {name}
            /\ End(Outcome("invoices", name))
            /\ UNCHANGED Sequence
       \/ /\ \A name \in candidates : candidates # {name}
          /\ IF level = 3
             THEN End(Outcome("nobody", None)) /\ UNCHANGED Sequence
             ELSE /\ level' = level + 1
                  /\ sent' = 0 /\ read' = {} /\ candidates' = NoCandidates
                  /\ answer' = [i \in Queries |-> Unsent]
                  /\ UNCHANGED raising
                  /\ Go("level")
    /\ UNCHANGED Batch

Finished == pc = "done" /\ UNCHANGED vars

Steps ==
    \/ Start \/ ReceiptAnswers \/ NameAnswers \/ ReceiptFails
    \/ NothingToAsk \/ TooManyToAsk \/ SendChunk
    \/ \E i \in Queries : QueryEnds(i) \/ Read(i) \/ Unwind(i)
    \/ Drained \/ Judge

Next == Steps \/ Finished

Spec == Init /\ [][Next]_vars

(* Every call of BipFetch ends (EveryCallEnds there), and the event loop    *)
(* runs what is ready.                                                      *)
FairSpec == Spec /\ WF_vars(Steps)

-----------------------------------------------------------------------------
(* Properties *)

(* Every variable has its type.                                             *)
TypeOK ==
    /\ named \in Names \cup {None}
    /\ referred \in BOOLEAN
    /\ numbered \in 0..MaxLines
    /\ pc \in {"start", "receipt", "name", "level", "reading", "draining", "done"}
    /\ level \in Levels
    /\ sent \in 0..numbered
    /\ answer \in [Queries -> Answers]
    /\ read \in SUBSET Queries
    /\ candidates \in SUBSET Names
    /\ raising \in {"nothing", "failed", "cancelled"}
    /\ outcome \in Outcomes

(* No task outlives the chunk it was made for: when discovery goes on, ends *)
(* or raises, no query of its own is still with Oracle.                     *)
NoStrayQuery == pc \notin {"reading", "draining"} => Pending = {}

(* The customers the queries of this level have named so far.               *)
Owners == UNION {answer[i].who : i \in Queries}
Settled == \A i \in Queries : answer[i].kind = "found"

(* A customer found by the lines is named by an answer to every query of    *)
(* the level taken together, and nobody else is: no query failed, was cut   *)
(* short or went unread, in whatever order the answers came.                *)
CustomerIsSole ==
    outcome.kind = "invoices" => Settled /\ Owners = {outcome.name}

(* A level is given up for two customers, or because every query of it was  *)
(* answered and named none: never because of a failure, and never because   *)
(* of what an earlier level found.                                          *)
GivesUpForCause ==
    [][level' # level \/ (outcome.kind # "nobody" /\ outcome'.kind = "nobody")
         => Several(Owners) \/ (Settled /\ Owners = {})]_vars

(* Discovery ends cancelled only if one of its calls was cancelled with     *)
(* another request's flight: a query of a line, or the call of the receipt  *)
(* report that comes before any line is asked for.  The tasks it cancels    *)
(* itself, and queries that fail, never make it end so.                     *)
CancelComesFromOutside ==
    outcome.kind = "cancelled" =>
        \/ \E i \in Queries : answer[i] = Cancelled
        \/ (referred \/ named # None) /\ level = 1 /\ sent = 0

(* Chunks, tasks, the order of reading and the cancelling of what is left   *)
(* change nothing: discovery does what Identify does, which decides a level *)
(* from what Oracle's replies say together.  A query that was not sent or   *)
(* was dropped counts as not answered.                                      *)
Told == [i \in Queries |-> IF answer[i].kind \in {"found", "failed", "cancelled"}
                           THEN answer[i] ELSE Answer("silent", {})]
Promise == INSTANCE Identify WITH replies <- Told
Identifies == Promise!Spec

(* Discovery ends, whatever fails.                                          *)
DiscoveryEnds == <>(pc = "done")

=============================================================================
