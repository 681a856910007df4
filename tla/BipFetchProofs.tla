--------------------------- MODULE BipFetchProofs ---------------------------
(***************************************************************************)
(* Theorems about BipFetch, for any number of calls, workers, keys, paths, *)
(* attempts and any time to live, with or without Redis.                   *)
(***************************************************************************)
EXTENDS BipFetch, FiniteSetTheorems, TLAPS

-----------------------------------------------------------------------------
(* The inductive invariant *)

(* A call that has no flight yet for the attempt it is at.                  *)
Looking == {"idle", "reading", "gotEntry", "readFailed"}

(* A sleeping call has an attempt left.                                     *)
RetriesLeft == \A c \in Callers : pc[c] = "backoff" => attempt[c] < MaxAttempts

(* A call that has not been made is at its first attempt.                   *)
FirstAttempt == \A c \in Callers : pc[c] = "idle" => attempt[c] = 1

(* An owner is registered in its slot, and rides on its own flight.         *)
Registered == \A c \in Callers : pc[c] \in Fetching =>
    inflight[Slot(c)] = Own(c) /\ on[c][attempt[c]] = Own(c)

(* An unresolved future is in _inflight.                                    *)
PendingRegistered == \A c \in Callers, n \in Attempts :
    future[<<c, n>>] = Pending => inflight[Slot(c)] = <<c, n>>

(* A call has started no flight for an attempt it has not come to.          *)
NotYetFlown == \A c \in Callers, n \in Attempts :
    n > attempt[c] \/ (n = attempt[c] /\ pc[c] \in Looking)
        => future[<<c, n>>] = Unborn /\ on[c][n] = None

(* A flight that was joined was started, for the same report and worker.    *)
Joined == \A c \in Callers, n \in Attempts : on[c][n] # None =>
    future[on[c][n]] # Unborn /\ Slot(on[c][n][1]) = Slot(c)

WaiterJoined == \A c \in Callers : pc[c] = "waiting" => on[c][attempt[c]] # None

Ended == \A c \in Callers : pc[c] # "done" => outcome[c] = Unborn

(* A cancelled flight's owner was cancelled.                                *)
CancelledByOwner == \A c \in Callers, n \in Attempts :
    future[<<c, n>>].kind = "cancelled" => c \in struck

(* The attempts already spent went on resolved flights, all different.      *)
Spent(c, n) == on[c][n] # None /\ future[on[c][n]].kind = "transient"
PastAttempts == \A c \in Callers, n \in Attempts :
    n < attempt[c] \/ (n = attempt[c] /\ pc[c] = "backoff") => Spent(c, n)
LastAttempt == \A c \in Callers : outcome[c].kind = "transient" =>
    attempt[c] = MaxAttempts /\ Spent(c, attempt[c])
Distinct == \A c \in Callers : \A m, n \in Attempts :
    m # n /\ on[c][m] # None => on[c][m] # on[c][n]

Core ==
    /\ RetriesLeft /\ FirstAttempt /\ Ended
    /\ NoOrphan /\ Registered /\ PendingRegistered /\ NotYetFlown
    /\ Joined /\ WaiterJoined
    /\ CancelledByOwner /\ CancelBlame
    /\ PastAttempts /\ LastAttempt /\ Distinct

IInv == TypeOK /\ Core

(* An entry a call has read was live when the call was made, and a flight a *)
(* call waits on was not resolved before.                                   *)
AskedBefore == \A c \in Callers : asked[c] <= clock
HeldIsFresh == \A c \in Callers :
    /\ pc[c] \notin {"gotEntry", "stored"} => held[c] = 0
    /\ pc[c] = "gotEntry" /\ held[c] # 0 => held[c] > asked[c]
JoinedIsFresh == \A c \in Callers :
    pc[c] = "waiting" /\ future[on[c][attempt[c]]].kind = "rows"
        => future[on[c][attempt[c]]].at >= asked[c]
FreshInv == AskedBefore /\ HeldIsFresh /\ JoinedIsFresh /\ FreshRows

-----------------------------------------------------------------------------
(* Lemmas about the helpers' types *)

LEMMA SlotType == ASSUME NEW c \in Callers PROVE Slot(c) \in Slots
BY FetchAssumption DEF Slot, Slots

LEMMA OwnType == ASSUME TypeOK, NEW c \in Callers PROVE Own(c) \in Flights
BY DEF Own, Flights, TypeOK

LEMMA AttemptType == Attempts \subseteq Nat /\ 1 \in Attempts
BY FetchAssumption DEF Attempts

(* Receive, Settle, UseEntry, RunReport and StoreLocally keep their         *)
(* variables' types.                                                        *)
LEMMA ReceiveType ==
    ASSUME TypeOK, NEW c \in Callers, NEW r \in Endings, Receive(c, r)
    PROVE  /\ pc' \in [Callers -> Suspended \cup {"idle", "done"}]
           /\ outcome' \in [Callers -> Endings \cup {Unborn}]
BY DEF TypeOK, Receive, AttemptLeft, Suspended

LEMMA SettleType ==
    ASSUME TypeOK, NEW c \in Callers, NEW r \in Endings, Settle(c, r)
    PROVE  /\ pc' \in [Callers -> Suspended \cup {"idle", "done"}]
           /\ outcome' \in [Callers -> Endings \cup {Unborn}]
           /\ future' \in [Flights -> Endings \cup {Pending, Unborn}]
           /\ inflight' \in [Slots -> Flights \cup {None}]
<1>1. Receive(c, r)
  BY DEF Settle, Resolved, Dropped
<1>2. /\ future' \in [Flights -> Endings \cup {Pending, Unborn}]
      /\ inflight' \in [Slots -> Flights \cup {None}]
  BY DEF TypeOK, Settle, Resolved, Dropped
<1> QED BY <1>1, <1>2, ReceiveType

LEMMA RowsType ==
    ASSUME NEW t \in Nat, NEW at \in Nat
    PROVE  Rows(t, at) \in Endings /\ Rows(t, at).kind = "rows" /\ Rows(t, at).at = at
BY DEF Rows, Result, Endings, Failures

LEMMA FailureType == ASSUME NEW k \in Failures PROVE Failure(k) \in Endings
BY DEF Failure, Result, Endings, Failures

LEMMA UseEntryType ==
    ASSUME TypeOK, NEW c \in Callers, NEW n \in Attempts, NEW e \in Nat, UseEntry(c, n, e)
    PROVE  /\ pc' \in [Callers -> Suspended \cup {"idle", "done"}]
           /\ outcome' \in [Callers -> Endings \cup {Unborn}]
           /\ future' \in [Flights -> Endings \cup {Pending, Unborn}]
           /\ inflight' \in [Slots -> Flights \cup {None}]
           /\ path' \in [Callers -> 1..NumPaths]
           /\ on' \in [Callers -> [Attempts -> Flights \cup {None}]]
<1>1. CASE e # 0
  <2>1. Rows(e, 0) \in Endings
    BY RowsType
  <2> QED BY <1>1, <2>1 DEF TypeOK, UseEntry
<1>2. CASE e = 0 /\ inflight[Slot(c)] # None
  <2>1. inflight[Slot(c)] \in Flights
    BY <1>2, SlotType DEF TypeOK
  <2>2. /\ on' = [on EXCEPT ![c][n] = inflight[Slot(c)]]
        /\ pc' = [pc EXCEPT ![c] = "waiting"]
        /\ UNCHANGED <<inflight, future, path, outcome>>
    BY <1>2 DEF UseEntry, JoinOrOwn
  <2> QED BY <2>1, <2>2 DEF TypeOK, Suspended
<1>3. CASE e = 0 /\ inflight[Slot(c)] = None
  <2>1. <<c, n>> \in Flights /\ Slot(c) \in Slots /\ 1 \in 1..NumPaths
    BY SlotType, FetchAssumption DEF Flights
  <2>2. /\ on' = [on EXCEPT ![c][n] = <<c, n>>]
        /\ inflight' = [inflight EXCEPT ![Slot(c)] = <<c, n>>]
        /\ future' = [future EXCEPT ![<<c, n>>] = Pending]
        /\ path' = [path EXCEPT ![c] = 1]
        /\ pc' = [pc EXCEPT ![c] = "posting"]
        /\ UNCHANGED outcome
    BY <1>3 DEF UseEntry, JoinOrOwn
  <2>3. on' \in [Callers -> [Attempts -> Flights \cup {None}]]
    BY <2>1, <2>2 DEF TypeOK
  <2>4. inflight' \in [Slots -> Flights \cup {None}]
    BY <2>1, <2>2 DEF TypeOK
  <2>5. future' \in [Flights -> Endings \cup {Pending, Unborn}]
    BY <2>1, <2>2 DEF TypeOK
  <2> QED BY <2>1, <2>2, <2>3, <2>4, <2>5 DEF TypeOK, Suspended, Fetching
<1> QED BY <1>1, <1>2, <1>3

LEMMA UnexpiredType ==
    ASSUME TypeOK, NEW c \in Callers
    PROVE  Unexpired(LocalEntry(c)) \in Nat /\ Unexpired(redis[KeyOf[c]]) \in Nat
BY FetchAssumption DEF TypeOK, Unexpired, LocalEntry

LEMMA RunReportType ==
    ASSUME TypeOK, NEW c \in Callers, NEW n \in Attempts, RunReport(c, n)
    PROVE  /\ pc' \in [Callers -> Suspended \cup {"idle", "done"}]
           /\ outcome' \in [Callers -> Endings \cup {Unborn}]
           /\ future' \in [Flights -> Endings \cup {Pending, Unborn}]
           /\ inflight' \in [Slots -> Flights \cup {None}]
           /\ path' \in [Callers -> 1..NumPaths]
           /\ on' \in [Callers -> [Attempts -> Flights \cup {None}]]
<1>1. CASE RedisOn
  BY <1>1 DEF TypeOK, RunReport, Suspended
<1>2. CASE ~RedisOn
  <2>1. UseEntry(c, n, Unexpired(LocalEntry(c)))
    BY <1>2 DEF RunReport
  <2> QED BY <2>1, UseEntryType, UnexpiredType
<1> QED BY <1>1, <1>2

LEMMA StoreType ==
    ASSUME TypeOK, NEW c \in Callers, StoreLocally(c)
    PROVE  local' \in [Workers -> [Keys -> Nat]]
<1>1. clock + TTL \in Nat
  BY FetchAssumption DEF TypeOK
<1> QED BY <1>1, FetchAssumption DEF TypeOK, StoreLocally

-----------------------------------------------------------------------------
(* Type correctness *)

LEMMA InitType == Init => TypeOK
<1> SUFFICES ASSUME Init PROVE TypeOK
  OBVIOUS
<1>1. 1 \in 1..NumPaths
  BY FetchAssumption
<1> QED BY <1>1, AttemptType DEF Init, TypeOK

LEMMA ProgressType ==
    ASSUME TypeOK, RetriesLeft, NEW c \in Callers, Progress(c)
    PROVE  TypeOK'
<1> USE DEF Suspended, Fetching
<1>1. CASE Retry(c)
  <2>1. attempt[c] + 1 \in Attempts
    BY <1>1, FetchAssumption DEF Retry, TypeOK, RetriesLeft, Attempts
  <2> QED BY <1>1, <2>1, RunReportType DEF Retry, TypeOK
<1>2. CASE RedisReads(c)
  BY <1>2, UnexpiredType DEF RedisReads, TypeOK
<1>3. CASE RedisReadFails(c)
  BY <1>3 DEF RedisReadFails, TypeOK
<1>4. CASE ReadReturns(c)
  <2> DEFINE e == IF pc[c] = "gotEntry" THEN held[c] ELSE Unexpired(LocalEntry(c))
  <2>1. e \in Nat /\ attempt[c] \in Attempts
    BY UnexpiredType DEF TypeOK
  <2>2. UseEntry(c, attempt[c], e)
    BY <1>4 DEF ReadReturns
  <2> HIDE DEF e
  <2> QED BY <1>4, <2>1, <2>2, UseEntryType DEF ReadReturns, TypeOK
<1>5. CASE OracleRows(c)
  <2>1. CASE RedisOn
    BY <1>5, <2>1 DEF OracleRows, TypeOK
  <2>2. CASE ~RedisOn
    <3>1. clock \in Nat /\ clock + TTL \in Nat
      BY FetchAssumption DEF TypeOK
    <3>2. Rows(clock + TTL, clock) \in Endings
      BY <3>1, RowsType
    <3> QED BY <1>5, <2>2, <3>2, StoreType, SettleType DEF OracleRows, TypeOK
  <2> QED BY <2>1, <2>2
<1>6. CASE OracleManyRows(c)
  <2>1. Rows(0, clock) \in Endings
    BY RowsType DEF TypeOK
  <2> QED BY <1>6, <2>1, SettleType DEF OracleManyRows, TypeOK
<1>7. CASE OracleHasNoReport(c)
  <2>1. CASE path[c] < NumPaths
    <3>1. path[c] + 1 \in 1..NumPaths
      BY <2>1, FetchAssumption DEF TypeOK
    <3> QED BY <1>7, <2>1, <3>1 DEF OracleHasNoReport, TypeOK
  <2>2. CASE ~(path[c] < NumPaths)
    <3>1. Failure("missing") \in Endings
      BY FailureType DEF Failures
    <3> QED BY <1>7, <2>2, <3>1, SettleType DEF OracleHasNoReport, TypeOK
  <2> QED BY <2>1, <2>2
<1>8. CASE OracleFails(c)
  <2>1. PICK kind \in {"transient", "fatal"} : Settle(c, Failure(kind))
    BY <1>8 DEF OracleFails
  <2>2. Failure(kind) \in Endings
    BY FailureType DEF Failures
  <2> QED BY <1>8, <2>1, <2>2, SettleType DEF OracleFails, TypeOK
<1>9. CASE RedisStores(c)
  <2>1. clock + TTL \in Nat
    BY FetchAssumption DEF TypeOK
  <2> QED BY <1>9, <2>1 DEF RedisStores, TypeOK
<1>10. CASE WriteReturns(c)
  <2>1. Rows(held[c], clock) \in Endings
    BY RowsType DEF TypeOK
  <2> QED BY <1>10, <2>1, SettleType DEF WriteReturns, TypeOK
<1>11. CASE WriteFails(c)
  <2>1. clock \in Nat /\ clock + TTL \in Nat
    BY FetchAssumption DEF TypeOK
  <2>2. Rows(clock + TTL, clock) \in Endings
    BY <2>1, RowsType
  <2> QED BY <1>11, <2>2, StoreType, SettleType DEF WriteFails, TypeOK
<1>12. CASE WaiterResumes(c)
  BY <1>12, ReceiveType DEF WaiterResumes, TypeOK
<1>13. CASE Unwind(c)
  <2>1. Failure("cancelled") \in Endings
    BY FailureType DEF Failures
  <2>2. CASE pc[c] \in Fetching
    BY <1>13, <2>1, <2>2, SettleType DEF Unwind, Leave, TypeOK
  <2>3. CASE pc[c] \notin Fetching
    BY <1>13, <2>1, <2>3, ReceiveType DEF Unwind, Leave, TypeOK
  <2> QED BY <2>2, <2>3
<1> QED BY <1>1, <1>2, <1>3, <1>4, <1>5, <1>6, <1>7, <1>8, <1>9, <1>10,
           <1>11, <1>12, <1>13 DEF Progress

LEMMA NextType == ASSUME TypeOK, RetriesLeft, [Next]_vars PROVE TypeOK'
<1> USE DEF Suspended, Fetching
<1>1. CASE UNCHANGED vars
  BY <1>1 DEF vars, TypeOK
<1>2. CASE Tick
  BY <1>2 DEF Tick, TypeOK
<1>3. ASSUME NEW c \in Callers, Call(c) PROVE TypeOK'
  BY <1>3, RunReportType, AttemptType DEF Call, TypeOK
<1>4. ASSUME NEW c \in Callers, Cancel(c) PROVE TypeOK'
  BY <1>4 DEF Cancel, TypeOK
<1>5. CASE Finished
  BY <1>5 DEF Finished, vars, TypeOK
<1> QED BY <1>1, <1>2, <1>3, <1>4, <1>5, ProgressType DEF Next

-----------------------------------------------------------------------------
(* Each kind of step keeps the invariant *)

(* An owner resolves its flight.                                            *)
LEMMA SettleStep ==
    ASSUME IInv, TypeOK', NEW c \in Callers, NEW r \in Endings,
           pc[c] \in Fetching, Settle(c, r),
           r.kind = "cancelled" => c \in struck,
           UNCHANGED <<attempt, on, struck>>
    PROVE  Core'
<1> USE DEF Own
<1>a. /\ Own(c) \in Flights /\ Slot(c) \in Slots
      /\ \A d \in Callers : Slot(d) \in Slots /\ attempt[d] \in Attempts
      /\ Attempts \subseteq Nat /\ MaxAttempts \in Nat /\ MaxAttempts \in Attempts
  <2>1. TypeOK
    BY DEF IInv
  <2>2. MaxAttempts \in Nat /\ MaxAttempts \in Attempts
    BY FetchAssumption DEF Attempts
  <2> QED BY <2>1, <2>2, OwnType, SlotType, AttemptType DEF TypeOK
<1>b. /\ future' = [future EXCEPT ![Own(c)] = r]
      /\ inflight' = [inflight EXCEPT ![Slot(c)] = None]
      /\ Receive(c, r)
  BY DEF Settle, Resolved, Dropped
<1>c. /\ pc' = [pc EXCEPT ![c] = "backoff"] /\ outcome' = outcome
         /\ r.kind = "transient" /\ attempt[c] < MaxAttempts
      \/ /\ pc' = [pc EXCEPT ![c] = "done"] /\ outcome' = [outcome EXCEPT ![c] = r]
         /\ r.kind = "transient" => attempt[c] = MaxAttempts
  <2>1. CASE r.kind = "transient" /\ attempt[c] < MaxAttempts
    BY <1>b, <2>1 DEF Receive, AttemptLeft
  <2>2. CASE ~(r.kind = "transient" /\ attempt[c] < MaxAttempts)
    <3>1. r.kind = "transient" => attempt[c] = MaxAttempts
      BY <1>a, <2>2 DEF Attempts
    <3> QED BY <1>b, <2>2, <3>1 DEF Receive, AttemptLeft
  <2> QED BY <2>1, <2>2
<1>d. inflight[Slot(c)] = Own(c) /\ on[c][attempt[c]] = Own(c)
  BY DEF IInv, Core, Registered
<1>e. r # Pending /\ r # Unborn
  BY DEF Endings, Failures, Pending, Unborn, Result
<1>f. future[Own(c)] = Pending
  BY <1>a, <1>d, FetchAssumption DEF NoOrphan, IInv, Core
<1>1. RetriesLeft' /\ FirstAttempt'
  BY <1>c DEF RetriesLeft, FirstAttempt, IInv, Core, TypeOK
<1>2. Ended'
  BY <1>c DEF Ended, IInv, Core, TypeOK, Fetching
<1>3. NoOrphan'
  BY <1>a, <1>b, <1>c, <1>d, FetchAssumption DEF NoOrphan, IInv, Core, TypeOK, Flights
<1>4. Registered'
  BY <1>a, <1>b, <1>c, <1>d DEF Registered, IInv, Core, TypeOK, Fetching
<1>5. PendingRegistered'
  BY <1>a, <1>b, <1>c, <1>d, <1>e DEF PendingRegistered, IInv, Core, TypeOK, Flights
<1>6. NotYetFlown'
  BY <1>a, <1>b, <1>c DEF NotYetFlown, IInv, Core, TypeOK, Flights, Looking, Fetching
<1>7. Joined'
  BY <1>a, <1>b, <1>e DEF Joined, IInv, Core, TypeOK
<1>8. WaiterJoined'
  BY <1>c DEF WaiterJoined, IInv, Core, TypeOK
<1>9. CancelledByOwner'
  BY <1>a, <1>b DEF CancelledByOwner, IInv, Core, TypeOK, Flights
<1>10. CancelBlame'
  <2>1. CancelBlame /\ pc \in [Callers -> Suspended \cup {"idle", "done"}]
        /\ outcome \in [Callers -> Endings \cup {Unborn}]
    BY DEF IInv, Core, TypeOK
  <2>2. \A d \in Callers \ {c} : outcome'[d] = outcome[d]
    BY <1>c, <2>1
  <2>3. outcome'[c].kind = "cancelled" => c \in struck
    BY <1>c, <2>1, <1>d DEF CancelBlame
  <2> QED BY <2>1, <2>2, <2>3 DEF CancelBlame
<1>11. \A d \in Callers, n \in Attempts : Spent(d, n) => Spent(d, n)'
  <2> SUFFICES ASSUME NEW d \in Callers, NEW n \in Attempts, Spent(d, n)
               PROVE  Spent(d, n)'
    OBVIOUS
  <2>1. on[d][n] \in Flights
    BY DEF Spent, IInv, TypeOK
  <2>2. future[Own(c)].kind = "pending"
    BY <1>f DEF Pending, Result
  <2>3. on[d][n] # Own(c)
    BY <2>2 DEF Spent
  <2>4. future'[on[d][n]] = future[on[d][n]]
    BY <1>a, <1>b, <2>1, <2>3 DEF IInv, TypeOK
  <2> QED BY <2>4 DEF Spent
<1>12. r.kind = "transient" => Spent(c, attempt[c])'
  BY <1>a, <1>b, <1>d, FetchAssumption DEF Spent, IInv, TypeOK, Flights
<1>13. PastAttempts'
  BY <1>a, <1>c, <1>11, <1>12 DEF PastAttempts, IInv, Core, TypeOK
<1>14. LastAttempt'
  BY <1>a, <1>c, <1>11, <1>12 DEF LastAttempt, IInv, Core, TypeOK
<1>15. Distinct'
  BY DEF Distinct, IInv, Core
<1> QED BY <1>1, <1>2, <1>3, <1>4, <1>5, <1>6, <1>7, <1>8, <1>9, <1>10,
           <1>13, <1>14, <1>15 DEF Core

(* A call comes to an attempt of its own: it starts a flight, joins one or  *)
(* finds rows in the cache.                                                 *)
LEMMA StartStep ==
    ASSUME IInv, TypeOK', NEW c \in Callers, NEW n \in Attempts, NEW e \in Nat,
           \/ pc[c] \in Looking /\ n = attempt[c]
           \/ pc[c] = "backoff" /\ n = attempt[c] + 1,
           attempt' = [attempt EXCEPT ![c] = n],
           UseEntry(c, n, e),
           struck' = struck
    PROVE  Core'
<1> USE DEF Own
<1>a. /\ <<c, n>> \in Flights /\ Slot(c) \in Slots
      /\ \A d \in Callers : Slot(d) \in Slots /\ attempt[d] \in Attempts
      /\ Attempts \subseteq Nat
  <2>1. TypeOK
    BY DEF IInv
  <2> QED BY <2>1, SlotType, AttemptType DEF TypeOK, Flights
<1>b. future[<<c, n>>] = Unborn /\ on[c][n] = None
  <2>1. n > attempt[c] \/ (n = attempt[c] /\ pc[c] \in Looking)
    <3>1. n \in Nat /\ attempt[c] \in Nat
      BY <1>a
    <3> QED BY <3>1
  <2> QED BY <2>1 DEF IInv, Core, NotYetFlown
<1>c. \A m \in Attempts : m < n => Spent(c, m)
  <2>1. PastAttempts
    BY DEF IInv, Core
  <2>2. SUFFICES ASSUME NEW m \in Attempts, m < n
                 PROVE  m < attempt[c] \/ (m = attempt[c] /\ pc[c] = "backoff")
    BY <2>1 DEF PastAttempts
  <2>3. m \in Nat /\ n \in Nat /\ attempt[c] \in Nat
    BY <1>a
  <2>4. CASE n = attempt[c]
    BY <2>2, <2>4
  <2>5. CASE pc[c] = "backoff" /\ n = attempt[c] + 1
    BY <2>2, <2>3, <2>5
  <2> QED BY <2>4, <2>5
<1>d. pc[c] \notin Fetching \cup {"done", "waiting"}
  BY DEF Looking, Fetching
<1>e. /\ n >= attempt[c] /\ attempt'[c] = n
      /\ \A d \in Callers \ {c} : attempt'[d] = attempt[d]
  <2>1. n \in Nat /\ attempt[c] \in Nat
    BY <1>a
  <2>2. n >= attempt[c]
    BY <2>1
  <2> QED BY <2>2 DEF IInv, TypeOK
<1>f. \A m \in Attempts : m > n => future[<<c, m>>] = Unborn /\ on[c][m] = None
  <2>1. \A m \in Attempts : m > n => m > attempt[c]
    <3>1. n \in Nat /\ attempt[c] \in Nat /\ (\A m \in Attempts : m \in Nat)
      BY <1>a
    <3> QED BY <1>e, <3>1
  <2> QED BY <2>1 DEF NotYetFlown, IInv, Core
<1>g. \A d \in Callers \ {c}, m \in Attempts :
         m > attempt[d] \/ (m = attempt[d] /\ pc[d] \in Looking)
           => future[<<d, m>>] = Unborn /\ on[d][m] = None
  BY DEF NotYetFlown, IInv, Core
<1>1. CASE e # 0
  <2>1. /\ pc' = [pc EXCEPT ![c] = "done"]
        /\ outcome' = [outcome EXCEPT ![c] = Rows(e, 0)]
        /\ inflight' = inflight /\ future' = future /\ on' = on
    BY <1>1 DEF UseEntry
  <2>2. Rows(e, 0).kind = "rows"
    BY DEF Rows, Result
  <2> QED
    <3>1. RetriesLeft' /\ FirstAttempt' /\ Ended' /\ WaiterJoined'
      BY <2>1 DEF RetriesLeft, FirstAttempt, Ended, WaiterJoined, IInv, Core, TypeOK
    <3>2. NoOrphan'
      BY <1>a, <1>d, <2>1, FetchAssumption DEF NoOrphan, IInv, Core, TypeOK, Flights
    <3>3. Registered'
      BY <1>a, <2>1 DEF Registered, IInv, Core, TypeOK, Fetching
    <3>4. PendingRegistered' /\ Joined' /\ CancelledByOwner' /\ Distinct'
      BY <2>1 DEF PendingRegistered, Joined, CancelledByOwner, Distinct, IInv, Core
    <3>5. NotYetFlown'
      <4>1. \A m \in Attempts : m > n \/ (m = n /\ pc'[c] \in Looking)
                => future'[<<c, m>>] = Unborn /\ on'[c][m] = None
        BY <1>a, <1>f, <2>1 DEF IInv, TypeOK, Looking, Flights
      <4>2. \A d \in Callers \ {c}, m \in Attempts :
              m > attempt[d] \/ (m = attempt[d] /\ pc'[d] \in Looking)
                => future'[<<d, m>>] = Unborn /\ on'[d][m] = None
        BY <1>a, <1>g, <2>1 DEF IInv, TypeOK, Flights
      <4> QED BY <1>e, <4>1, <4>2 DEF NotYetFlown
    <3>6. CancelBlame'
      BY <1>a, <2>1, <2>2 DEF CancelBlame, IInv, Core, TypeOK
    <3>7. PastAttempts'
      BY <1>a, <1>c, <2>1 DEF PastAttempts, Spent, IInv, Core, TypeOK
    <3>8. LastAttempt'
      BY <1>a, <2>1, <2>2 DEF LastAttempt, Spent, IInv, Core, TypeOK
    <3> QED BY <3>1, <3>2, <3>3, <3>4, <3>5, <3>6, <3>7, <3>8 DEF Core
<1>2. CASE e = 0 /\ inflight[Slot(c)] # None
  <2> DEFINE f == inflight[Slot(c)]
  <2>1. /\ on' = [on EXCEPT ![c][n] = f]
        /\ pc' = [pc EXCEPT ![c] = "waiting"]
        /\ inflight' = inflight /\ future' = future /\ outcome' = outcome
    BY <1>2 DEF UseEntry, JoinOrOwn
  <2>2. f \in Flights /\ future[f] = Pending /\ Slot(f[1]) = Slot(c)
    BY <1>2, <1>a DEF NoOrphan, IInv, Core, TypeOK
  <2>3. \A d \in Callers, m \in Attempts : Spent(d, m) => Spent(d, m)'
    BY <1>b, <2>1 DEF Spent, IInv, TypeOK
  <2>4. future[f].kind = "pending" /\ future[f] # Unborn
    BY <2>2 DEF Pending, Unborn, Result
  <2> HIDE DEF f
  <2> QED
    <3>1. RetriesLeft' /\ FirstAttempt' /\ Ended'
      BY <2>1, <1>d DEF RetriesLeft, FirstAttempt, Ended, IInv, Core, TypeOK
    <3>2. NoOrphan'
      BY <1>a, <1>d, <2>1, FetchAssumption DEF NoOrphan, IInv, Core, TypeOK, Flights
    <3>3. Registered'
      BY <1>a, <2>1 DEF Registered, IInv, Core, TypeOK, Fetching
    <3>4. PendingRegistered' /\ CancelledByOwner'
      BY <2>1 DEF PendingRegistered, CancelledByOwner, IInv, Core
    <3>5. NotYetFlown'
      <4>1. \A m \in Attempts : m > n \/ (m = n /\ pc'[c] \in Looking)
                => future'[<<c, m>>] = Unborn /\ on'[c][m] = None
        BY <1>a, <1>f, <2>1 DEF IInv, TypeOK, Looking, Flights
      <4>2. \A d \in Callers \ {c}, m \in Attempts :
              m > attempt[d] \/ (m = attempt[d] /\ pc'[d] \in Looking)
                => future'[<<d, m>>] = Unborn /\ on'[d][m] = None
        BY <1>a, <1>g, <2>1 DEF IInv, TypeOK, Flights
      <4> QED BY <1>e, <4>1, <4>2 DEF NotYetFlown
    <3>6. Joined'
      BY <2>1, <2>2, <2>4 DEF Joined, IInv, Core, TypeOK
    <3>7. WaiterJoined'
      BY <1>a, <2>1, <2>2, FetchAssumption DEF WaiterJoined, IInv, Core, TypeOK
    <3>8. CancelBlame'
      BY <1>a, <1>d, <2>1 DEF CancelBlame, Ended, Unborn, Result, IInv, Core, TypeOK
    <3>9. PastAttempts'
      BY <1>a, <1>c, <2>1, <2>3 DEF PastAttempts, IInv, Core, TypeOK
    <3>10. LastAttempt'
      <4>1. outcome'[c].kind # "transient"
        BY <1>d, <2>1 DEF Ended, Unborn, Result, IInv, Core
      <4> QED BY <1>a, <1>e, <2>1, <2>3, <4>1 DEF LastAttempt, Spent, IInv, Core
    <3>11. Distinct'
      <4>1. \A m \in Attempts : m # n => on[c][m] # f
        <5>1. \A m \in Attempts : m < n => on[c][m] # f
          BY <1>c, <2>4 DEF Spent
        <5>2. \A m \in Attempts : m > n => on[c][m] # f
          BY <1>f, <2>2, FetchAssumption
        <5> QED BY <1>a, <5>1, <5>2
      <4> QED BY <1>b, <2>1, <4>1 DEF Distinct, IInv, Core, TypeOK
    <3> QED BY <3>1, <3>2, <3>3, <3>4, <3>5, <3>6, <3>7, <3>8, <3>9, <3>10, <3>11 DEF Core
<1>3. CASE e = 0 /\ inflight[Slot(c)] = None
  <2>1. /\ on' = [on EXCEPT ![c][n] = <<c, n>>]
        /\ inflight' = [inflight EXCEPT ![Slot(c)] = <<c, n>>]
        /\ future' = [future EXCEPT ![<<c, n>>] = Pending]
        /\ pc' = [pc EXCEPT ![c] = "posting"]
        /\ outcome' = outcome
    BY <1>3 DEF UseEntry, JoinOrOwn
  <2>2. \A d \in Callers, m \in Attempts : on[d][m] # <<c, n>>
    BY <1>a, <1>b, FetchAssumption DEF Joined, IInv, Core
  <2>3. \A d \in Callers, m \in Attempts : Spent(d, m) => Spent(d, m)'
    <3> SUFFICES ASSUME NEW d \in Callers, NEW m \in Attempts, Spent(d, m)
                 PROVE  Spent(d, m)'
      OBVIOUS
    <3>1. ~(d = c /\ m = n)
      BY <1>b DEF Spent
    <3>2. on'[d][m] = on[d][m] /\ on[d][m] \in Flights
      BY <2>1, <3>1 DEF Spent, IInv, TypeOK
    <3>3. future'[on[d][m]] = future[on[d][m]]
      BY <2>1, <2>2, <3>2 DEF IInv, TypeOK
    <3> QED BY <3>2, <3>3 DEF Spent
  <2>4. Pending.kind = "pending" /\ Pending # Unborn
    BY DEF Pending, Unborn, Result
  <2> QED
    <3>1. RetriesLeft' /\ FirstAttempt' /\ Ended' /\ WaiterJoined'
      BY <1>d, <2>1 DEF RetriesLeft, FirstAttempt, Ended, WaiterJoined, IInv, Core, TypeOK
    <3>2. NoOrphan'
      <4> SUFFICES ASSUME NEW s \in Slots, inflight'[s] # None
                   PROVE  /\ Slot(inflight'[s][1]) = s
                          /\ inflight'[s] = <<inflight'[s][1], attempt'[inflight'[s][1]]>>
                          /\ pc'[inflight'[s][1]] \in Fetching
                          /\ future'[inflight'[s]] = Pending
        BY DEF NoOrphan
      <4>1. CASE s = Slot(c)
        BY <1>a, <2>1, <4>1 DEF Fetching, IInv, TypeOK
      <4>2. CASE s # Slot(c)
        <5>1. inflight'[s] = inflight[s] /\ inflight[s] \in Flights
          BY <1>a, <2>1, <4>2 DEF IInv, TypeOK
        <5>2. /\ Slot(inflight[s][1]) = s /\ inflight[s] = <<inflight[s][1], attempt[inflight[s][1]]>>
              /\ pc[inflight[s][1]] \in Fetching /\ future[inflight[s]] = Pending
              /\ inflight[s][1] \in Callers
          BY <5>1, FetchAssumption DEF NoOrphan, IInv, Core, Flights
        <5>3. inflight[s][1] # c
          BY <5>2, <4>2
        <5> QED BY <1>a, <2>1, <5>1, <5>2, <5>3 DEF IInv, TypeOK
      <4> QED BY <4>1, <4>2
    <3>3. Registered'
      <4>1. \A d \in Callers \ {c} : pc[d] \in Fetching => Slot(d) # Slot(c)
        BY <1>3, <1>a, FetchAssumption DEF Registered, Flights, IInv, Core
      <4>2. \A d \in Callers \ {c} :
              pc[d] \in Fetching => inflight[Slot(d)] = Own(d) /\ on[d][attempt[d]] = Own(d)
        BY DEF Registered, IInv, Core
      <4>3. inflight'[Slot(c)] = <<c, n>> /\ on'[c][n] = <<c, n>>
        BY <1>a, <2>1 DEF IInv, TypeOK
      <4> QED BY <1>a, <1>e, <2>1, <4>1, <4>2, <4>3 DEF Registered, IInv, TypeOK
    <3>4. PendingRegistered'
      <4>1. \A d \in Callers, m \in Attempts : future[<<d, m>>] = Pending =>
              inflight[Slot(d)] = <<d, m>> /\ Slot(d) # Slot(c)
        BY <1>3, <1>a, FetchAssumption DEF PendingRegistered, Flights, IInv, Core
      <4>2. inflight'[Slot(c)] = <<c, n>>
        BY <1>a, <2>1 DEF IInv, TypeOK
      <4>3. \A d \in Callers, m \in Attempts :
              <<d, m>> # <<c, n>> => future'[<<d, m>>] = future[<<d, m>>]
        BY <1>a, <2>1 DEF IInv, TypeOK, Flights
      <4> QED BY <1>a, <2>1, <4>1, <4>2, <4>3 DEF PendingRegistered, IInv, TypeOK
    <3>5. NotYetFlown'
      <4>1. \A m \in Attempts : m > n \/ (m = n /\ pc'[c] \in Looking)
                => future'[<<c, m>>] = Unborn /\ on'[c][m] = None
        BY <1>a, <1>f, <2>1 DEF IInv, TypeOK, Looking, Flights
      <4>2. \A d \in Callers \ {c}, m \in Attempts :
              m > attempt[d] \/ (m = attempt[d] /\ pc'[d] \in Looking)
                => future'[<<d, m>>] = Unborn /\ on'[d][m] = None
        BY <1>a, <1>g, <2>1 DEF IInv, TypeOK, Flights
      <4> QED BY <1>e, <4>1, <4>2 DEF NotYetFlown
    <3>6. Joined'
      BY <1>a, <2>1, <2>2, <2>4 DEF Joined, IInv, Core, TypeOK
    <3>7. CancelledByOwner'
      BY <1>a, <2>1, <2>4 DEF CancelledByOwner, IInv, Core, TypeOK
    <3>8. CancelBlame'
      BY <1>a, <1>d, <2>1 DEF CancelBlame, Ended, Unborn, Result, IInv, Core, TypeOK
    <3>9. PastAttempts'
      BY <1>a, <1>c, <2>1, <2>3 DEF PastAttempts, IInv, Core, TypeOK
    <3>10. LastAttempt'
      <4>1. outcome'[c].kind # "transient"
        BY <1>d, <2>1 DEF Ended, Unborn, Result, IInv, Core
      <4> QED BY <1>a, <1>e, <2>1, <2>3, <4>1 DEF LastAttempt, Spent, IInv, Core
    <3>11. Distinct'
      <4>1. \A d \in Callers : on'[d] = IF d = c THEN [on[c] EXCEPT ![n] = <<c, n>>] ELSE on[d]
        BY <2>1 DEF IInv, TypeOK
      <4>2. \A m \in Attempts : m # n => on[c][m] # <<c, n>>
        BY <2>2
      <4>3. on[c] \in [Attempts -> Flights \cup {None}]
        BY DEF IInv, TypeOK
      <4> QED BY <4>1, <4>2, <4>3 DEF Distinct, IInv, Core
    <3> QED BY <3>1, <3>2, <3>3, <3>4, <3>5, <3>6, <3>7, <3>8, <3>9, <3>10, <3>11 DEF Core
<1> QED BY <1>1, <1>2, <1>3

(* NoOrphan holds on as long as the owners go on fetching.                  *)
LEMMA OwnersStay ==
    ASSUME TypeOK, NoOrphan, inflight' = inflight, future' = future,
           \A d \in Callers : pc[d] \in Fetching =>
              pc'[d] \in Fetching /\ attempt'[d] = attempt[d]
    PROVE  NoOrphan'
<1> SUFFICES ASSUME NEW s \in Slots, inflight[s] # None
             PROVE  LET owner == inflight[s][1] IN
                    /\ Slot(owner) = s
                    /\ inflight[s] = <<owner, attempt'[owner]>>
                    /\ pc'[owner] \in Fetching
                    /\ future[inflight[s]] = Pending
  BY DEF NoOrphan, Own
<1>1. inflight[s] \in Flights
  BY DEF TypeOK
<1>2. inflight[s][1] \in Callers
  BY <1>1 DEF Flights
<1> QED BY <1>1, <1>2 DEF NoOrphan, Own

(* A call that owns no flight ends or goes to sleep: it heard from the      *)
(* flight it joined, or it was cancelled.                                   *)
LEMMA ReceiveStep ==
    ASSUME IInv, TypeOK', NEW c \in Callers, NEW r \in Endings,
           pc[c] \notin Fetching \cup {"idle", "done"}, Receive(c, r),
           r.kind = "transient" => Spent(c, attempt[c]),
           r.kind = "cancelled" =>
             c \in struck \/ (on[c][attempt[c]] # None /\ on[c][attempt[c]][1] \in struck),
           UNCHANGED <<inflight, future, attempt, on, struck>>
    PROVE  Core'
<1> USE DEF Own
<1>a. /\ attempt[c] \in Attempts /\ Attempts \subseteq Nat
      /\ \A d \in Callers : Slot(d) \in Slots
  BY AttemptType, SlotType DEF IInv, TypeOK
<1>b. \/ /\ pc' = [pc EXCEPT ![c] = "backoff"] /\ outcome' = outcome
         /\ r.kind = "transient" /\ attempt[c] < MaxAttempts
      \/ /\ pc' = [pc EXCEPT ![c] = "done"] /\ outcome' = [outcome EXCEPT ![c] = r]
         /\ r.kind = "transient" => attempt[c] = MaxAttempts
  <2>1. CASE r.kind = "transient" /\ attempt[c] < MaxAttempts
    BY <2>1 DEF Receive, AttemptLeft
  <2>2. CASE ~(r.kind = "transient" /\ attempt[c] < MaxAttempts)
    <3>1. r.kind = "transient" => attempt[c] = MaxAttempts
      BY <1>a, <2>2, FetchAssumption DEF Attempts
    <3> QED BY <2>2, <3>1 DEF Receive, AttemptLeft
  <2> QED BY <2>1, <2>2
<1>1. RetriesLeft' /\ FirstAttempt' /\ Ended' /\ WaiterJoined'
  BY <1>b DEF RetriesLeft, FirstAttempt, Ended, WaiterJoined, IInv, Core, TypeOK
<1>2. NoOrphan'
  <2>1. \A d \in Callers : pc[d] \in Fetching =>
            pc'[d] \in Fetching /\ attempt'[d] = attempt[d]
    BY <1>b DEF IInv, TypeOK
  <2> QED BY <2>1, OwnersStay DEF IInv, Core
<1>3. Registered'
  BY <1>b DEF Registered, IInv, Core, TypeOK, Fetching
<1>4. PendingRegistered' /\ Joined' /\ CancelledByOwner' /\ Distinct'
  BY DEF PendingRegistered, Joined, CancelledByOwner, Distinct, IInv, Core
<1>5. NotYetFlown'
  BY <1>b DEF NotYetFlown, IInv, Core, TypeOK, Looking
<1>c. /\ pc \in [Callers -> Suspended \cup {"idle", "done"}]
      /\ outcome \in [Callers -> Endings \cup {Unborn}]
  BY DEF IInv, TypeOK
<1>d. \A d \in Callers \ {c} : outcome'[d] = outcome[d] /\ pc'[d] = pc[d]
  BY <1>b, <1>c
<1>6. CancelBlame'
  <2>1. CancelBlame
    BY DEF IInv, Core
  <2>2. outcome'[c] = outcome[c] \/ outcome'[c] = r
    BY <1>b, <1>c
  <2> QED BY <1>d, <2>1, <2>2 DEF CancelBlame
<1>7. PastAttempts'
  BY <1>b DEF PastAttempts, Spent, IInv, Core, TypeOK
<1>8. LastAttempt'
  <2>1. LastAttempt
    BY DEF IInv, Core
  <2>2. \/ outcome'[c] = outcome[c]
        \/ outcome'[c] = r /\ (r.kind = "transient" => attempt[c] = MaxAttempts)
    BY <1>b, <1>c
  <2>3. \A d \in Callers, n \in Attempts : Spent(d, n) => Spent(d, n)'
    BY DEF Spent
  <2> QED BY <1>a, <1>c, <1>d, <2>1, <2>2, <2>3, AttemptType DEF LastAttempt, IInv, TypeOK
<1> QED BY <1>1, <1>2, <1>3, <1>4, <1>5, <1>6, <1>7, <1>8 DEF Core

(* Time passes, a cancellation is asked for, or Redis or Oracle moves a     *)
(* call along without an end.                                               *)
LEMMA QuietStep ==
    ASSUME IInv, TypeOK',
           UNCHANGED <<inflight, future, attempt, on, outcome>>,
           struck \subseteq struck',
           \A c \in Callers :
             \/ pc'[c] = pc[c]
             \/ pc[c] \in Fetching /\ pc'[c] \in Fetching
             \/ pc[c] \in Looking /\ pc'[c] \in Looking \ {"idle"}
    PROVE  Core'
<1> USE DEF Own
<1>1. RetriesLeft' /\ FirstAttempt' /\ Ended' /\ WaiterJoined'
  BY DEF RetriesLeft, FirstAttempt, Ended, WaiterJoined, IInv, Core, TypeOK, Fetching, Looking
<1>2. NoOrphan'
  BY OwnersStay DEF IInv, Core, Fetching, Looking
<1>3. Registered'
  BY DEF Registered, IInv, Core, TypeOK, Fetching, Looking
<1>4. PendingRegistered' /\ Joined' /\ CancelledByOwner' /\ Distinct'
  BY DEF PendingRegistered, Joined, CancelledByOwner, Distinct, IInv, Core
<1>5. NotYetFlown'
  <2>1. NotYetFlown
    BY DEF IInv, Core
  <2>2. \A c \in Callers : pc'[c] \in Looking => pc[c] \in Looking
    BY DEF Looking, Fetching
  <2> QED BY <2>1, <2>2 DEF NotYetFlown
<1>6. CancelBlame' /\ LastAttempt'
  BY DEF CancelBlame, LastAttempt, Spent, IInv, Core
<1>7. PastAttempts'
  BY DEF PastAttempts, Spent, IInv, Core, Fetching, Looking
<1> QED BY <1>1, <1>2, <1>3, <1>4, <1>5, <1>6, <1>7 DEF Core

(* The sleep ends and the call asks Redis.                                  *)
LEMMA AskAgainStep ==
    ASSUME IInv, TypeOK', NEW c \in Callers, pc[c] = "backoff",
           attempt' = [attempt EXCEPT ![c] = attempt[c] + 1],
           pc' = [pc EXCEPT ![c] = "reading"],
           UNCHANGED <<inflight, future, on, outcome, struck>>
    PROVE  Core'
<1> USE DEF Own
<1>a. /\ attempt[c] \in Nat /\ Attempts \subseteq Nat
      /\ \A d \in Callers : Slot(d) \in Slots
  BY AttemptType, SlotType DEF IInv, TypeOK
<1>1. RetriesLeft' /\ FirstAttempt' /\ Ended' /\ WaiterJoined'
  BY DEF RetriesLeft, FirstAttempt, Ended, WaiterJoined, IInv, Core, TypeOK
<1>2. NoOrphan'
  BY FetchAssumption DEF NoOrphan, IInv, Core, TypeOK, Flights, Fetching
<1>3. Registered'
  BY DEF Registered, IInv, Core, TypeOK, Fetching
<1>4. PendingRegistered' /\ Joined' /\ CancelledByOwner' /\ Distinct'
  BY DEF PendingRegistered, Joined, CancelledByOwner, Distinct, IInv, Core
<1>5. NotYetFlown'
  <2>1. \A d \in Callers, n \in Attempts :
          n > attempt'[d] \/ (n = attempt'[d] /\ pc'[d] \in Looking)
            => n > attempt[d] \/ (n = attempt[d] /\ pc[d] \in Looking)
    <3>1. /\ attempt'[c] = attempt[c] + 1
          /\ \A d \in Callers \ {c} : attempt'[d] = attempt[d] /\ pc'[d] = pc[d]
      BY DEF IInv, TypeOK
    <3>2. \A n \in Attempts : n >= attempt[c] + 1 => n > attempt[c]
      BY <1>a
    <3>3. \A n \in Attempts : n > attempt[c] + 1 \/ n = attempt[c] + 1 => n >= attempt[c] + 1
      BY <1>a
    <3> QED BY <3>1, <3>2, <3>3
  <2>2. NotYetFlown
    BY DEF IInv, Core
  <2> QED BY <2>1, <2>2 DEF NotYetFlown
<1>6. CancelBlame'
  <2>1. outcome[c].kind # "cancelled"
    BY DEF Ended, Unborn, Result, IInv, Core
  <2>2. \A d \in Callers \ {c} : attempt'[d] = attempt[d]
    BY DEF IInv, TypeOK
  <2> QED BY <2>1, <2>2 DEF CancelBlame, IInv, Core
<1>7. PastAttempts'
  <2>1. \A n \in Attempts : n < attempt[c] + 1 => Spent(c, n)
    <3>1. \A n \in Attempts : n < attempt[c] + 1 => n < attempt[c] \/ n = attempt[c]
      BY <1>a
    <3> QED BY <3>1 DEF PastAttempts, IInv, Core
  <2> QED BY <2>1 DEF PastAttempts, Spent, IInv, Core, TypeOK
<1>8. LastAttempt'
  <2>1. outcome[c].kind # "transient"
    BY DEF Ended, Unborn, Result, IInv, Core
  <2>2. \A d \in Callers \ {c} : attempt'[d] = attempt[d]
    BY DEF IInv, TypeOK
  <2> QED BY <2>1, <2>2 DEF LastAttempt, Spent, IInv, Core
<1> QED BY <1>1, <1>2, <1>3, <1>4, <1>5, <1>6, <1>7, <1>8 DEF Core

-----------------------------------------------------------------------------
(* Every step is of one of these kinds *)

LEMMA ProgressStep ==
    ASSUME IInv, TypeOK', NEW c \in Callers, Progress(c)
    PROVE  Core'
<1>a. /\ attempt[c] \in Attempts /\ held[c] \in Nat
      /\ attempt = [attempt EXCEPT ![c] = attempt[c]]
      /\ Unexpired(LocalEntry(c)) \in Nat
  <2>1. TypeOK
    BY DEF IInv
  <2> QED BY <2>1, UnexpiredType DEF TypeOK
<1>b. /\ Rows(clock + TTL, clock) \in Endings /\ Rows(clock + TTL, clock).kind = "rows"
      /\ Rows(0, clock) \in Endings /\ Rows(0, clock).kind = "rows"
      /\ Rows(held[c], clock) \in Endings /\ Rows(held[c], clock).kind = "rows"
  <2>1. clock \in Nat /\ clock + TTL \in Nat
    BY FetchAssumption DEF IInv, TypeOK
  <2> QED BY <1>a, <2>1, RowsType
<1>c. \A k \in Failures : Failure(k) \in Endings /\ Failure(k).kind = k
  BY FailureType DEF Failure, Result
<1>1. CASE Retry(c)
  <2>1. /\ pc[c] = "backoff" /\ attempt' = [attempt EXCEPT ![c] = attempt[c] + 1]
        /\ struck' = struck /\ RunReport(c, attempt[c] + 1)
    BY <1>1 DEF Retry
  <2>2. attempt[c] + 1 \in Attempts
    BY <1>a, <2>1, FetchAssumption DEF Attempts, IInv, Core, RetriesLeft
  <2>3. CASE RedisOn
    BY <2>1, <2>3, AskAgainStep DEF RunReport
  <2>4. CASE ~RedisOn
    BY <1>a, <2>1, <2>2, <2>4, StartStep DEF RunReport
  <2> QED BY <2>3, <2>4
<1>2. CASE RedisReads(c) \/ RedisReadFails(c)
  BY <1>2, QuietStep DEF RedisReads, RedisReadFails, Looking, IInv, TypeOK
<1>3. CASE ReadReturns(c)
  <2> DEFINE e == IF pc[c] = "gotEntry" THEN held[c] ELSE Unexpired(LocalEntry(c))
  <2>1. e \in Nat
    BY <1>a
  <2>2. UseEntry(c, attempt[c], e)
    BY <1>3 DEF ReadReturns
  <2>3. pc[c] \in Looking /\ attempt' = [attempt EXCEPT ![c] = attempt[c]] /\ struck' = struck
    BY <1>a, <1>3 DEF ReadReturns, Looking
  <2> HIDE DEF e
  <2> QED BY <1>a, <2>1, <2>2, <2>3, StartStep
<1>4. CASE OracleRows(c)
  <2>1. CASE RedisOn
    BY <1>4, <2>1, QuietStep DEF OracleRows, Fetching, IInv, TypeOK
  <2>2. CASE ~RedisOn
    BY <1>b, <1>4, <2>2, SettleStep DEF OracleRows, Fetching
  <2> QED BY <2>1, <2>2
<1>5. CASE OracleManyRows(c)
  BY <1>b, <1>5, SettleStep DEF OracleManyRows, Fetching
<1>6. CASE OracleHasNoReport(c)
  <2>1. CASE path[c] < NumPaths
    BY <1>6, <2>1, QuietStep DEF OracleHasNoReport
  <2>2. CASE ~(path[c] < NumPaths)
    <3>1. Failure("missing") \in Endings /\ Failure("missing").kind = "missing"
      BY <1>c DEF Failures
    <3> QED BY <3>1, <1>6, <2>2, SettleStep DEF OracleHasNoReport, Fetching
  <2> QED BY <2>1, <2>2
<1>7. CASE OracleFails(c)
  <2>1. PICK kind \in {"transient", "fatal"} : Settle(c, Failure(kind))
    BY <1>7 DEF OracleFails
  <2>2. Failure(kind) \in Endings /\ Failure(kind).kind # "cancelled"
    BY <1>c DEF Failures
  <2> QED BY <1>7, <2>1, <2>2, SettleStep DEF OracleFails, Fetching
<1>8. CASE RedisStores(c)
  BY <1>8, QuietStep DEF RedisStores, Fetching, IInv, TypeOK
<1>9. CASE WriteReturns(c) \/ WriteFails(c)
  BY <1>b, <1>9, SettleStep DEF WriteReturns, WriteFails, Fetching
<1>10. CASE WaiterResumes(c)
  <2> DEFINE r == future[on[c][attempt[c]]]
  <2>1. /\ pc[c] = "waiting" /\ r \in Endings /\ Receive(c, r)
        /\ UNCHANGED <<inflight, future, attempt, on, struck>>
    BY <1>10 DEF WaiterResumes
  <2>2. on[c][attempt[c]] # None /\ on[c][attempt[c]] \in Flights
    BY <1>a, <2>1 DEF WaiterJoined, IInv, Core, TypeOK
  <2>3. r.kind = "cancelled" => on[c][attempt[c]][1] \in struck
    BY <2>2 DEF CancelledByOwner, IInv, Core, Flights
  <2>4. r.kind = "transient" => Spent(c, attempt[c])
    BY <2>2 DEF Spent
  <2> HIDE DEF r
  <2> QED BY <2>1, <2>2, <2>3, <2>4, ReceiveStep DEF Fetching
<1>11. CASE Unwind(c)
  <2>1. /\ Failure("cancelled") \in Endings /\ Failure("cancelled").kind = "cancelled"
        /\ c \in struck /\ pc[c] \notin {"idle", "done"}
    BY <1>c, <1>11 DEF Failures, Unwind, Leave, Running, Suspended, Fetching
  <2>2. CASE pc[c] \in Fetching
    BY <1>11, <2>1, <2>2, SettleStep DEF Unwind, Leave
  <2>3. CASE pc[c] \notin Fetching
    BY <1>11, <2>1, <2>3, ReceiveStep DEF Unwind, Leave
  <2> QED BY <2>2, <2>3
<1> QED BY <1>1, <1>2, <1>3, <1>4, <1>5, <1>6, <1>7, <1>8, <1>9, <1>10, <1>11 DEF Progress

LEMMA NextStep == ASSUME IInv, [Next]_vars PROVE IInv'
<1>a. TypeOK'
  BY NextType DEF IInv, Core
<1>1. CASE UNCHANGED vars
  BY <1>1, <1>a, QuietStep DEF vars, IInv
<1>2. CASE Tick
  BY <1>2, <1>a, QuietStep DEF Tick, IInv
<1>3. ASSUME NEW c \in Callers, Call(c) PROVE IInv'
  <2>1. /\ 1 \in Attempts /\ Unexpired(LocalEntry(c)) \in Nat
        /\ attempt[c] \in Attempts
    <3>1. TypeOK
      BY DEF IInv
    <3> QED BY <3>1, UnexpiredType, AttemptType DEF TypeOK
  <2>2. /\ pc[c] = "idle" /\ RunReport(c, 1) /\ attempt' = attempt /\ struck' = struck
    BY <1>3 DEF Call
  <2>3. CASE RedisOn
    BY <1>a, <2>2, <2>3, QuietStep DEF RunReport, Looking, IInv, TypeOK
  <2>4. CASE ~RedisOn
    <3>1. attempt[c] = 1
      BY <2>2 DEF FirstAttempt, IInv, Core
    <3>2. attempt' = [attempt EXCEPT ![c] = 1]
      BY <2>2, <3>1 DEF IInv, TypeOK
    <3> QED BY <1>a, <2>1, <2>2, <2>4, <3>1, <3>2, StartStep DEF RunReport, Looking, IInv
  <2> QED BY <2>3, <2>4
<1>4. ASSUME NEW c \in Callers, Cancel(c) PROVE IInv'
  BY <1>4, <1>a, QuietStep DEF Cancel, IInv
<1>5. CASE Finished
  BY <1>5, <1>a, QuietStep DEF Finished, vars, IInv
<1> QED BY <1>1, <1>2, <1>3, <1>4, <1>5, <1>a, ProgressStep DEF Next, IInv

LEMMA InitStep == Init => IInv
<1> SUFFICES ASSUME Init PROVE IInv
  OBVIOUS
<1>1. TypeOK
  BY InitType
<1>2. RetriesLeft /\ FirstAttempt /\ Ended /\ Registered /\ WaiterJoined
  BY DEF Init, RetriesLeft, FirstAttempt, Ended, Registered, WaiterJoined, Fetching
<1>3. NoOrphan /\ Joined /\ Distinct
  BY DEF Init, NoOrphan, Joined, Distinct
<1>4. PendingRegistered /\ NotYetFlown /\ CancelledByOwner /\ CancelBlame
  BY DEF Init, PendingRegistered, NotYetFlown, CancelledByOwner, CancelBlame, Pending,
         Unborn, Result, Flights
<1>5. PastAttempts /\ LastAttempt
  BY DEF Init, PastAttempts, LastAttempt, Attempts, Unborn, Result
<1> QED BY <1>1, <1>2, <1>3, <1>4, <1>5 DEF IInv, Core

-----------------------------------------------------------------------------
(* The theorems *)

THEOREM Invariant == Spec => []IInv
<1>1. IInv /\ [Next]_vars => IInv'
  BY NextStep
<1> QED BY InitStep, <1>1, PTL DEF Spec

(* Every variable keeps its type.                                           *)
THEOREM TypeCorrect == Spec => []TypeOK
<1>1. IInv => TypeOK
  BY DEF IInv
<1> QED BY Invariant, <1>1, PTL

(* _inflight holds only flights that are pending and owned by a call that   *)
(* is still fetching: no failure or cancellation leaves a future behind.    *)
THEOREM NoOrphans == Spec => []NoOrphan
<1>1. IInv => NoOrphan
  BY DEF IInv, Core
<1> QED BY Invariant, <1>1, PTL

(* At most one call per worker and report has Oracle working for it.        *)
THEOREM OneFlight == Spec => []SingleFlight
<1>1. IInv => SingleFlight
  <2> SUFFICES ASSUME IInv, NEW c \in Callers, NEW d \in Callers,
                      pc[c] \in Fetching, pc[d] \in Fetching, Slot(c) = Slot(d)
               PROVE  c = d
    BY DEF SingleFlight
  <2>1. Own(c) = Own(d)
    BY DEF Registered, IInv, Core
  <2> QED BY <2>1 DEF Own
<1> QED BY Invariant, <1>1, PTL

(* A call that waits on a pending future waits on the registered one.       *)
THEOREM WaitersResolved == Spec => []WaitersHaveAResolver
<1>1. IInv => WaitersHaveAResolver
  <2> SUFFICES ASSUME IInv, NEW c \in Callers, pc[c] = "waiting",
                      future[on[c][attempt[c]]] = Pending
               PROVE  inflight[Slot(c)] = on[c][attempt[c]]
    BY DEF WaitersHaveAResolver
  <2> DEFINE f == on[c][attempt[c]]
  <2>1. f \in Flights /\ attempt[c] \in Attempts
    BY DEF WaiterJoined, IInv, Core, TypeOK
  <2>2. Slot(f[1]) = Slot(c)
    BY <2>1, FetchAssumption DEF Joined, IInv, Core
  <2>3. f[1] \in Callers /\ f[2] \in Attempts /\ f = <<f[1], f[2]>>
    BY <2>1 DEF Flights
  <2>4. inflight[Slot(f[1])] = f
    BY <2>3 DEF PendingRegistered, IInv, Core
  <2> QED BY <2>2, <2>4
<1> QED BY Invariant, <1>1, PTL

(* A call ends cancelled only when it was cancelled itself or the owner of  *)
(* the flight it had joined was.                                            *)
THEOREM CancelBlamed == Spec => []CancelBlame
<1>1. IInv => CancelBlame
  BY DEF IInv, Core
<1> QED BY Invariant, <1>1, PTL

(* A call that gives up has failed on a different flight at every attempt.  *)
THEOREM GivesUpLast == Spec => []ExhaustedHonestly
<1>1. IInv => ExhaustedHonestly
  <2> SUFFICES ASSUME IInv, NEW c \in Callers, outcome[c].kind = "transient",
                      NEW n \in Attempts
               PROVE  /\ Spent(c, n)
                      /\ \A m \in Attempts \ {n} : on[c][m] # on[c][n]
    BY DEF ExhaustedHonestly, Spent
  <2>1. attempt[c] = MaxAttempts /\ Spent(c, attempt[c])
    BY DEF LastAttempt, IInv, Core
  <2>2. n < attempt[c] \/ n = attempt[c]
    BY <2>1, FetchAssumption DEF Attempts
  <2>3. Spent(c, n)
    BY <2>1, <2>2 DEF PastAttempts, IInv, Core
  <2> QED BY <2>3 DEF Distinct, Spent, IInv, Core
<1> QED BY Invariant, <1>1, PTL

-----------------------------------------------------------------------------
(* Freshness *)

LEMMA FreshReceive ==
    ASSUME IInv, FreshInv, NEW c \in Callers, NEW r \in Endings,
           r.kind = "rows" => r.at >= asked[c] /\ on[c][attempt[c]] # None,
           Receive(c, r), UNCHANGED <<attempt, on, asked>>
    PROVE  /\ FreshRows'
           /\ pc'[c] \in {"backoff", "done"} /\ \A d \in Callers \ {c} : pc'[d] = pc[d]
BY DEF Receive, AttemptLeft, FreshRows, FreshInv, IInv, TypeOK

LEMMA FreshSettle ==
    ASSUME IInv, FreshInv, TypeOK', NEW c \in Callers, NEW r \in Endings,
           pc[c] \in Fetching, r.kind = "rows" => r.at = clock, Settle(c, r),
           held' = [held EXCEPT ![c] = 0],
           UNCHANGED <<clock, attempt, on, asked>>
    PROVE  FreshInv'
<1>a. /\ \A d \in Callers : asked[d] \in Nat /\ asked[d] <= clock
      /\ clock \in Nat /\ Own(c) \in Flights
  BY OwnType DEF FreshInv, AskedBefore, IInv, TypeOK
<1>b. /\ r.kind = "rows" => \A d \in Callers : r.at >= asked[d]
      /\ on[c][attempt[c]] # None
  BY <1>a, FetchAssumption DEF Registered, IInv, Core
<1>c. future' = [future EXCEPT ![Own(c)] = r] /\ Receive(c, r)
  BY DEF Settle, Resolved, Dropped
<1>d. /\ FreshRows'
      /\ pc'[c] \in {"backoff", "done"} /\ \A d \in Callers \ {c} : pc'[d] = pc[d]
  BY <1>b, <1>c, FreshReceive
<1>1. AskedBefore'
  BY DEF AskedBefore, FreshInv
<1>2. HeldIsFresh'
  BY <1>d DEF HeldIsFresh, FreshInv, IInv, TypeOK
<1>3. JoinedIsFresh'
  <2> SUFFICES ASSUME NEW d \in Callers, pc'[d] = "waiting",
                      future'[on[d][attempt[d]]].kind = "rows"
               PROVE  future'[on[d][attempt[d]]].at >= asked[d]
    BY DEF JoinedIsFresh
  <2>1. pc[d] = "waiting"
    BY <1>d
  <2>2. on[d][attempt[d]] \in Flights
    BY <2>1 DEF WaiterJoined, IInv, Core, TypeOK
  <2>3. CASE on[d][attempt[d]] = Own(c)
    BY <1>a, <1>b, <1>c, <2>3 DEF IInv, TypeOK
  <2>4. CASE on[d][attempt[d]] # Own(c)
    <3>1. future'[on[d][attempt[d]]] = future[on[d][attempt[d]]]
      BY <1>a, <1>c, <2>2, <2>4 DEF IInv, TypeOK
    <3> QED BY <2>1, <3>1 DEF JoinedIsFresh, FreshInv
  <2> QED BY <2>3, <2>4
<1> QED BY <1>1, <1>2, <1>3, <1>d DEF FreshInv

LEMMA FreshStart ==
    ASSUME IInv, FreshInv, TypeOK', NEW c \in Callers, NEW n \in Attempts, NEW e \in Nat,
           \/ pc[c] \in Looking /\ n = attempt[c]
           \/ pc[c] = "backoff" /\ n = attempt[c] + 1,
           attempt' = [attempt EXCEPT ![c] = n], UseEntry(c, n, e),
           asked' = asked \/ (pc[c] = "idle" /\ asked' = [asked EXCEPT ![c] = clock]),
           e # 0 => e > asked'[c],
           held' = [held EXCEPT ![c] = 0], clock' = clock
    PROVE  FreshInv'
<1>a. /\ \A d \in Callers \ {c} : /\ pc'[d] = pc[d] /\ asked'[d] = asked[d]
                                  /\ attempt'[d] = attempt[d] /\ on'[d] = on[d]
      /\ pc'[c] \in {"done", "posting", "waiting"}
      /\ \/ outcome' = [outcome EXCEPT ![c] = Rows(e, 0)] /\ on' = on /\ e # 0
         \/ outcome' = outcome
      /\ asked'[c] <= clock /\ clock \in Nat
  BY DEF UseEntry, JoinOrOwn, FreshInv, AskedBefore, IInv, TypeOK
<1>b. Rows(e, 0).kind = "rows" /\ Rows(e, 0).until = e
  BY DEF Rows, Result
<1>1. AskedBefore'
  BY <1>a DEF AskedBefore, FreshInv
<1>2. HeldIsFresh'
  BY <1>a DEF HeldIsFresh, FreshInv, IInv, TypeOK
<1>3. FreshRows'
  <2>1. outcome[c].kind # "rows"
    BY DEF Ended, Looking, Unborn, Result, IInv, Core
  <2>2. on[c][n] = None /\ attempt'[c] = n
    <3>1. attempt[c] \in Nat /\ attempt'[c] = n
      BY AttemptType DEF IInv, TypeOK
    <3>2. n > attempt[c] \/ (n = attempt[c] /\ pc[c] \in Looking)
      BY <3>1
    <3> QED BY <3>1, <3>2 DEF NotYetFlown, IInv, Core
  <2> QED BY <1>a, <1>b, <2>1, <2>2 DEF FreshRows, FreshInv, IInv, TypeOK
<1>4. JoinedIsFresh'
  <2> SUFFICES ASSUME NEW d \in Callers, pc'[d] = "waiting",
                      future'[on'[d][attempt'[d]]].kind = "rows"
               PROVE  future'[on'[d][attempt'[d]]].at >= asked'[d]
    BY DEF JoinedIsFresh
  <2>a. <<c, n>> \in Flights /\ Slot(c) \in Slots
    BY SlotType DEF Flights
  <2>b. Pending.kind = "pending"
    BY DEF Pending, Result
  <2>1. CASE d = c
    <3>1. /\ inflight[Slot(c)] # None /\ future' = future
          /\ on' = [on EXCEPT ![c][n] = inflight[Slot(c)]]
      BY <2>1, <2>a DEF UseEntry, JoinOrOwn, IInv, TypeOK
    <3>2. future[inflight[Slot(c)]] = Pending
      BY <2>a, <3>1 DEF NoOrphan, IInv, Core
    <3>3. on'[d][attempt'[d]] = inflight[Slot(c)]
      BY <2>1, <3>1 DEF IInv, TypeOK
    <3> QED BY <2>b, <3>1, <3>2, <3>3
  <2>2. CASE d # c
    <3>1. /\ pc[d] = "waiting" /\ on'[d][attempt'[d]] = on[d][attempt[d]]
          /\ asked'[d] = asked[d] /\ on[d][attempt[d]] \in Flights
      BY <1>a, <2>2 DEF WaiterJoined, IInv, Core, TypeOK
    <3>2. future' = future \/ future' = [future EXCEPT ![<<c, n>>] = Pending]
      BY DEF UseEntry, JoinOrOwn
    <3>3. future'[on[d][attempt[d]]] = future[on[d][attempt[d]]]
      <4>1. future \in [Flights -> Endings \cup {Pending, Unborn}]
        BY DEF IInv, TypeOK
      <4>2. on[d][attempt[d]] = <<c, n>> /\ future' # future
              => future'[on[d][attempt[d]]] = Pending
        BY <2>a, <3>2, <4>1
      <4>3. future'[on[d][attempt[d]]] # Pending
        BY <2>b, <3>1
      <4> QED BY <2>a, <3>1, <3>2, <4>1, <4>2, <4>3
    <3> QED BY <3>1, <3>3 DEF JoinedIsFresh, FreshInv
  <2> QED BY <2>1, <2>2
<1> QED BY <1>1, <1>2, <1>3, <1>4 DEF FreshInv

(* Steps that leave every flight and every outcome alone and make nobody    *)
(* wait.                                                                    *)
LEMMA FreshQuiet ==
    ASSUME IInv, FreshInv, clock' \in Nat, clock' >= clock,
           UNCHANGED <<future, on, outcome>>,
           \A d \in Callers :
             \/ UNCHANGED <<pc[d], held[d], asked[d], attempt[d]>>
             \/ /\ asked'[d] = asked[d] \/ asked'[d] = clock
                /\ outcome[d] = Unborn /\ pc'[d] # "waiting"
                /\ \/ held'[d] = 0
                   \/ pc'[d] = "gotEntry" /\ held'[d] > asked'[d]
                   \/ pc'[d] = "stored"
    PROVE  FreshInv'
<1>a. /\ \A d \in Callers : asked[d] \in Nat /\ asked[d] <= clock
      /\ clock \in Nat /\ Unborn.kind = "unborn"
  BY DEF FreshInv, AskedBefore, IInv, TypeOK, Unborn, Result
<1>1. AskedBefore'
  BY <1>a DEF AskedBefore
<1>2. HeldIsFresh'
  BY <1>a DEF HeldIsFresh, FreshInv
<1>3. JoinedIsFresh'
  BY DEF JoinedIsFresh, FreshInv
<1>4. FreshRows'
  BY <1>a DEF FreshRows, FreshInv
<1> QED BY <1>1, <1>2, <1>3, <1>4 DEF FreshInv

LEMMA UnexpiredFresh ==
    ASSUME TypeOK, NEW entry \in Nat
    PROVE  Unexpired(entry) \in Nat /\ (Unexpired(entry) # 0 => Unexpired(entry) > clock)
BY DEF Unexpired, Live, TypeOK

LEMMA FreshStep ==
    ASSUME IInv, FreshInv, [Next]_vars
    PROVE  FreshInv'
<1>a. TypeOK /\ TypeOK'
  BY NextType DEF IInv, Core
<1>b. /\ \A c \in Callers : /\ attempt[c] \in Attempts /\ held[c] \in Nat
                            /\ attempt = [attempt EXCEPT ![c] = attempt[c]]
                            /\ asked[c] \in Nat /\ asked[c] <= clock
                            /\ LocalEntry(c) \in Nat /\ redis[KeyOf[c]] \in Nat
      /\ clock \in Nat
  BY <1>a, FetchAssumption DEF TypeOK, LocalEntry, FreshInv, AskedBefore
<1>c. \A t \in Nat : Rows(t, clock) \in Endings /\ Rows(t, clock).at = clock
  BY <1>b, RowsType
<1>t. clock + TTL \in Nat /\ 0 \in Nat
  BY <1>b, FetchAssumption
<1>d. \A k \in Failures : Failure(k) \in Endings /\ Failure(k).kind = k
  BY FailureType DEF Failure, Result
<1>e. \A c \in Callers : pc[c] # "done" => outcome[c] = Unborn
  BY DEF Ended, IInv, Core
<1>f. \A c \in Callers : pc[c] \notin {"gotEntry", "stored"} => held[c] = 0
  BY DEF HeldIsFresh, FreshInv
<1>g. \A c \in Callers : held[c] = 0 /\ held' = held => held' = [held EXCEPT ![c] = 0]
  BY <1>a DEF TypeOK
<1>1. CASE UNCHANGED vars \/ Finished
  BY <1>1, <1>b, FreshQuiet DEF vars, Finished
<1>2. CASE Tick
  BY <1>2, <1>a, <1>b, FreshQuiet DEF Tick
<1>3. ASSUME NEW c \in Callers, Cancel(c) PROVE FreshInv'
  BY <1>3, <1>b, FreshQuiet DEF Cancel
<1>4. ASSUME NEW c \in Callers, Call(c) PROVE FreshInv'
  <2>1. /\ pc[c] = "idle" /\ RunReport(c, 1) /\ UNCHANGED <<clock, attempt, held>>
        /\ asked' = [asked EXCEPT ![c] = clock]
    BY <1>4 DEF Call
  <2>2. CASE RedisOn
    <3>1. pc' = [pc EXCEPT ![c] = "reading"] /\ UNCHANGED <<future, on, outcome>>
      BY <2>1, <2>2 DEF RunReport
    <3>2. outcome[c] = Unborn /\ held'[c] = 0 /\ pc'[c] = "reading" /\ asked'[c] = clock
      BY <1>a, <1>e, <1>f, <2>1, <3>1 DEF TypeOK
    <3> QED BY <1>b, <2>1, <3>1, <3>2, FreshQuiet
  <2>3. CASE ~RedisOn
    <3>1. /\ UseEntry(c, 1, Unexpired(LocalEntry(c)))
          /\ Unexpired(LocalEntry(c)) \in Nat
          /\ Unexpired(LocalEntry(c)) # 0 => Unexpired(LocalEntry(c)) > clock
      BY <1>a, <1>b, <2>1, <2>3, UnexpiredFresh DEF RunReport
    <3>2. asked'[c] = clock /\ held' = [held EXCEPT ![c] = 0]
      BY <1>a, <1>f, <2>1 DEF TypeOK
    <3>3. 1 \in Attempts /\ attempt[c] = 1 /\ attempt' = [attempt EXCEPT ![c] = 1]
      BY <1>b, <2>1, AttemptType DEF FirstAttempt, IInv, Core
    <3>4. pc[c] \in Looking
      BY <2>1 DEF Looking
    <3> QED BY <1>a, <2>1, <3>1, <3>2, <3>3, <3>4, FreshStart
  <2> QED BY <2>2, <2>3
<1>5. ASSUME NEW c \in Callers, Retry(c) PROVE FreshInv'
  <2>1. /\ pc[c] = "backoff" /\ RunReport(c, attempt[c] + 1)
        /\ attempt' = [attempt EXCEPT ![c] = attempt[c] + 1]
        /\ UNCHANGED <<clock, held, asked>>
    BY <1>5 DEF Retry
  <2>2. CASE RedisOn
    <3>1. pc' = [pc EXCEPT ![c] = "reading"] /\ UNCHANGED <<future, on, outcome>>
      BY <2>1, <2>2 DEF RunReport
    <3>2. outcome[c] = Unborn /\ held'[c] = 0 /\ pc'[c] = "reading"
      BY <1>a, <1>e, <1>f, <2>1, <3>1 DEF TypeOK
    <3>3. \A d \in Callers \ {c} : attempt'[d] = attempt[d]
      BY <1>a, <2>1 DEF TypeOK
    <3> QED BY <1>b, <2>1, <3>1, <3>2, <3>3, FreshQuiet
  <2>3. CASE ~RedisOn
    <3>1. /\ UseEntry(c, attempt[c] + 1, Unexpired(LocalEntry(c)))
          /\ Unexpired(LocalEntry(c)) \in Nat
          /\ Unexpired(LocalEntry(c)) # 0 => Unexpired(LocalEntry(c)) > clock
      BY <1>a, <1>b, <2>1, <2>3, UnexpiredFresh DEF RunReport
    <3>2. Unexpired(LocalEntry(c)) # 0 => Unexpired(LocalEntry(c)) > asked'[c]
      BY <1>b, <2>1, <3>1
    <3>3. held' = [held EXCEPT ![c] = 0]
      BY <1>a, <1>f, <2>1 DEF TypeOK
    <3>4. attempt[c] + 1 \in Attempts
      BY <1>b, <2>1, FetchAssumption DEF Attempts, IInv, Core, RetriesLeft
    <3> QED BY <1>a, <2>1, <3>1, <3>2, <3>3, <3>4, FreshStart
  <2> QED BY <2>2, <2>3
<1>6. ASSUME NEW c \in Callers, RedisReads(c) \/ RedisReadFails(c) PROVE FreshInv'
  <2>1. /\ pc[c] = "reading" /\ UNCHANGED <<clock, future, on, outcome, asked, attempt>>
        /\ \A d \in Callers \ {c} : pc'[d] = pc[d] /\ held'[d] = held[d]
        /\ \/ pc'[c] = "gotEntry" /\ held'[c] = Unexpired(redis[KeyOf[c]])
           \/ pc'[c] = "readFailed" /\ held'[c] = held[c]
    BY <1>6, <1>a DEF RedisReads, RedisReadFails, TypeOK
  <2>2. Unexpired(redis[KeyOf[c]]) # 0 => Unexpired(redis[KeyOf[c]]) > asked'[c]
    BY <1>a, <1>b, <2>1, UnexpiredFresh
  <2>3. outcome[c] = Unborn /\ held[c] = 0
    BY <1>e, <1>f, <2>1
  <2> QED BY <1>b, <2>1, <2>2, <2>3, FreshQuiet
<1>7. ASSUME NEW c \in Callers, ReadReturns(c) PROVE FreshInv'
  <2> DEFINE e == IF pc[c] = "gotEntry" THEN held[c] ELSE Unexpired(LocalEntry(c))
  <2>1. /\ UseEntry(c, attempt[c], e) /\ held' = [held EXCEPT ![c] = 0]
        /\ pc[c] \in Looking /\ UNCHANGED <<clock, attempt, asked>>
    BY <1>7 DEF ReadReturns, Looking
  <2>2. e \in Nat /\ (e # 0 => e > asked'[c])
    <3>1. CASE pc[c] = "gotEntry"
      BY <1>b, <2>1, <3>1 DEF HeldIsFresh, FreshInv
    <3>2. CASE pc[c] # "gotEntry"
      BY <1>a, <1>b, <2>1, <3>2, UnexpiredFresh
    <3> QED BY <3>1, <3>2
  <2>3. attempt' = [attempt EXCEPT ![c] = attempt[c]]
    BY <1>b, <2>1
  <2> HIDE DEF e
  <2> QED BY <1>a, <1>b, <2>1, <2>2, <2>3, FreshStart
<1>8. ASSUME NEW c \in Callers, OracleRows(c) PROVE FreshInv'
  <2>1. CASE RedisOn
    <3>1. pc'[c] # "waiting" /\ \A d \in Callers \ {c} : pc'[d] = pc[d]
      BY <1>8, <2>1, <1>a DEF OracleRows, TypeOK
    <3>2. outcome[c] = Unborn /\ held[c] = 0
      BY <1>8, <1>e, <1>f DEF OracleRows
    <3> QED BY <1>8, <1>b, <2>1, <3>1, <3>2, FreshQuiet DEF OracleRows
  <2>2. CASE ~RedisOn
    <3>1. Settle(c, Rows(clock + TTL, clock)) /\ held' = [held EXCEPT ![c] = 0]
      BY <1>8, <1>f, <1>g, <2>2 DEF OracleRows
    <3> QED BY <1>8, <1>a, <1>c, <1>t, <3>1, FreshSettle DEF OracleRows, Fetching
  <2> QED BY <2>1, <2>2
<1>9. ASSUME NEW c \in Callers, OracleManyRows(c) \/ WriteReturns(c) \/ WriteFails(c)
      PROVE  FreshInv'
  <2>1. PICK t \in Nat : Settle(c, Rows(t, clock))
    BY <1>9, <1>b, <1>t DEF OracleManyRows, WriteReturns, WriteFails
  <2>2. /\ pc[c] \in Fetching /\ held' = [held EXCEPT ![c] = 0]
        /\ UNCHANGED <<clock, attempt, on, asked>>
    BY <1>9, <1>f, <1>g DEF OracleManyRows, WriteReturns, WriteFails, Fetching
  <2> QED BY <1>a, <1>c, <2>1, <2>2, FreshSettle
<1>10. ASSUME NEW c \in Callers, OracleHasNoReport(c) PROVE FreshInv'
  <2>1. CASE path[c] < NumPaths
    BY <1>10, <1>b, <2>1, FreshQuiet DEF OracleHasNoReport
  <2>2. CASE ~(path[c] < NumPaths)
    <3>1. Failure("missing") \in Endings /\ Failure("missing").kind # "rows"
      BY <1>d DEF Failures
    <3>2. held' = [held EXCEPT ![c] = 0]
      BY <1>10, <1>f, <1>g DEF OracleHasNoReport
    <3> QED BY <1>10, <1>a, <2>2, <3>1, <3>2, FreshSettle DEF OracleHasNoReport, Fetching
  <2> QED BY <2>1, <2>2
<1>11. ASSUME NEW c \in Callers, OracleFails(c) PROVE FreshInv'
  <2>1. PICK kind \in {"transient", "fatal"} : Settle(c, Failure(kind))
    BY <1>11 DEF OracleFails
  <2>2. Failure(kind) \in Endings /\ Failure(kind).kind # "rows"
    BY <1>d DEF Failures
  <2>3. held' = [held EXCEPT ![c] = 0]
    BY <1>11, <1>f, <1>g DEF OracleFails
  <2> QED BY <1>11, <1>a, <2>1, <2>2, <2>3, FreshSettle DEF OracleFails, Fetching
<1>12. ASSUME NEW c \in Callers, RedisStores(c) PROVE FreshInv'
  <2>1. /\ pc'[c] = "stored"
        /\ \A d \in Callers \ {c} : pc'[d] = pc[d] /\ held'[d] = held[d]
    BY <1>12, <1>a DEF RedisStores, TypeOK
  <2>2. outcome[c] = Unborn
    BY <1>12, <1>e DEF RedisStores
  <2> QED BY <1>12, <1>b, <2>1, <2>2, FreshQuiet DEF RedisStores
<1>13. ASSUME NEW c \in Callers, NEW r \in Endings, Receive(c, r),
              r.kind = "rows" => r.at >= asked[c] /\ on[c][attempt[c]] # None,
              held' = [held EXCEPT ![c] = 0],
              UNCHANGED <<clock, future, attempt, on, asked>>
       PROVE  FreshInv'
  <2>1. /\ FreshRows'
        /\ pc'[c] \in {"backoff", "done"} /\ \A d \in Callers \ {c} : pc'[d] = pc[d]
    BY <1>13, FreshReceive
  <2>2. AskedBefore' /\ JoinedIsFresh'
    BY <1>13, <2>1 DEF AskedBefore, JoinedIsFresh, FreshInv
  <2>3. HeldIsFresh'
    BY <1>13, <1>a, <1>f, <2>1 DEF HeldIsFresh, FreshInv, TypeOK
  <2> QED BY <2>1, <2>2, <2>3 DEF FreshInv
<1>14. ASSUME NEW c \in Callers, WaiterResumes(c) PROVE FreshInv'
  <2> DEFINE r == future[on[c][attempt[c]]]
  <2>1. /\ pc[c] = "waiting" /\ r \in Endings /\ Receive(c, r)
        /\ UNCHANGED <<clock, future, attempt, on, asked, held>>
    BY <1>14 DEF WaiterResumes
  <2>2. r.kind = "rows" => r.at >= asked[c] /\ on[c][attempt[c]] # None
    BY <2>1 DEF JoinedIsFresh, FreshInv, WaiterJoined, IInv, Core
  <2>3. held' = [held EXCEPT ![c] = 0]
    BY <1>f, <1>g, <2>1
  <2> HIDE DEF r
  <2> QED BY <2>1, <2>2, <2>3, <1>13
<1>15. ASSUME NEW c \in Callers, Unwind(c) PROVE FreshInv'
  <2>1. Failure("cancelled") \in Endings /\ Failure("cancelled").kind # "rows"
    BY <1>d DEF Failures
  <2>2. CASE pc[c] \in Fetching
    BY <1>15, <1>a, <2>1, <2>2, FreshSettle DEF Unwind, Leave
  <2>3. CASE pc[c] \notin Fetching
    BY <1>15, <2>1, <2>3, <1>13 DEF Unwind, Leave
  <2> QED BY <2>2, <2>3
<1> QED BY <1>1, <1>2, <1>3, <1>4, <1>5, <1>6, <1>7, <1>8, <1>9, <1>10, <1>11, <1>12,
           <1>14, <1>15 DEF Next, Progress

(* Nobody is handed an entry of a cache that had lapsed when the call was   *)
(* made, nor the rows of a flight that was over by then, whatever the time  *)
(* to live and however long Redis takes to answer.                          *)
THEOREM RowsAreFresh == Spec => []FreshRows
<1>1. Init => FreshInv
  BY DEF Init, FreshInv, AskedBefore, HeldIsFresh, JoinedIsFresh, FreshRows, Unborn, Result
<1>2. IInv /\ FreshInv /\ [Next]_vars => FreshInv'
  BY FreshStep
<1>3. FreshInv => FreshRows
  BY DEF FreshInv
<1> QED BY Invariant, <1>1, <1>2, <1>3, PTL DEF Spec

-----------------------------------------------------------------------------
(* Without Redis *)

(* No call is inside a Redis read.                                          *)
LocalOnly == \A c \in Callers : pc[c] \notin {"reading", "gotEntry", "readFailed"}

(* The one step that starts a flight is a cache lookup that found nothing.  *)
LEMMA LocalStart ==
    ASSUME TypeOK, NEW c \in Callers, NEW n \in Attempts, ~RedisOn, RunReport(c, n)
    PROVE  /\ pc'[c] \in {"done", "waiting", "posting"}
           /\ \A d \in Callers \ {c} : pc'[d] = pc[d]
           /\ pc'[c] = "posting" => ~Live(LocalEntry(c))
BY DEF RunReport, UseEntry, JoinOrOwn, Unexpired, Live, TypeOK

LEMMA LocalStep ==
    ASSUME ~RedisOn, IInv, LocalOnly, [Next]_vars
    PROVE  /\ LocalOnly'
           /\ \A c \in Callers :
                pc[c] \notin Fetching /\ pc'[c] \in Fetching => ~Live(LocalEntry(c))
<1>a. TypeOK
  BY DEF IInv
<1>1. CASE UNCHANGED vars \/ Tick \/ Finished
  BY <1>1 DEF vars, Tick, Finished, LocalOnly
<1>2. ASSUME NEW c \in Callers, Call(c) \/ Retry(c)
      PROVE  /\ LocalOnly'
             /\ \A d \in Callers :
                  pc[d] \notin Fetching /\ pc'[d] \in Fetching => ~Live(LocalEntry(d))
  <2>1. PICK n \in Attempts : RunReport(c, n)
    <3>1. CASE Call(c)
      BY <3>1, AttemptType DEF Call
    <3>2. CASE Retry(c)
      <4>1. attempt[c] + 1 \in Attempts
        BY <1>a, <3>2, FetchAssumption DEF Retry, TypeOK, RetriesLeft, Attempts, IInv, Core
      <4> QED BY <3>2, <4>1 DEF Retry
    <3> QED BY <1>2, <3>1, <3>2
  <2> QED BY <1>a, <2>1, LocalStart DEF LocalOnly, Fetching
<1>3. ASSUME NEW c \in Callers, Cancel(c)
      PROVE  pc' = pc
  BY <1>3 DEF Cancel
<1>4. ASSUME NEW c \in Callers, Progress(c), ~Retry(c)
      PROVE  /\ \A d \in Callers \ {c} : pc'[d] = pc[d]
             /\ pc'[c] \in {"done", "backoff", "posting", "storing", "stored"}
             /\ pc'[c] \in Fetching => pc[c] \in Fetching
  <2>1. CASE RedisReads(c) \/ RedisReadFails(c) \/ ReadReturns(c)
    BY <2>1 DEF RedisReads, RedisReadFails, ReadReturns, LocalOnly
  <2>2. CASE OracleRows(c) \/ OracleManyRows(c) \/ OracleHasNoReport(c) \/ OracleFails(c)
    BY <2>2, <1>a DEF OracleRows, OracleManyRows, OracleHasNoReport, OracleFails, Settle, Resolved, Dropped,
                      Receive, Fetching, TypeOK
  <2>3. CASE RedisStores(c) \/ WriteReturns(c) \/ WriteFails(c)
    BY <2>3, <1>a DEF RedisStores, WriteReturns, WriteFails, Settle, Resolved, Dropped, Receive, AttemptLeft, Fetching, TypeOK
  <2>4. CASE WaiterResumes(c) \/ Unwind(c)
    BY <2>4, <1>a DEF WaiterResumes, Unwind, Leave, Settle, Resolved, Dropped, Receive, AttemptLeft, Fetching, TypeOK
  <2> QED BY <1>4, <2>1, <2>2, <2>3, <2>4 DEF Progress
<1> QED BY <1>1, <1>2, <1>3, <1>4 DEF Next, LocalOnly

(* Without Redis no request is sent to Oracle for an answer in the cache.   *)
THEOREM CacheSpares == ASSUME ~RedisOn PROVE Spec => NoRefetchWhileCached
<1>1. Init => LocalOnly
  BY DEF Init, LocalOnly
<1>2. IInv /\ LocalOnly /\ [Next]_vars =>
        LocalOnly' /\ [\A c \in Callers :
          pc[c] \notin Fetching /\ pc'[c] \in Fetching => ~Live(LocalEntry(c))]_vars
  BY LocalStep
<1> QED BY Invariant, <1>1, <1>2, PTL DEF Spec, NoRefetchWhileCached
-----------------------------------------------------------------------------
(* The size of the local cache *)

LiveIn(w) == {k \in Keys : Live(local[w][k])}
Bounded(w) == IsFiniteSet(LiveIn(w)) /\ Cardinality(LiveIn(w)) <= MaxEntries

(* A worker whose live entries are among those it had stays in bounds.      *)
LEMMA FewerEntries ==
    ASSUME NEW S, NEW T, T \subseteq S, IsFiniteSet(S), Cardinality(S) <= MaxEntries
    PROVE  IsFiniteSet(T) /\ Cardinality(T) <= MaxEntries
<1>1. IsFiniteSet(T) /\ Cardinality(T) <= Cardinality(S)
  BY FS_Subset
<1>2. Cardinality(S) \in Nat /\ Cardinality(T) \in Nat
  BY <1>1, FS_CardinalityType
<1> QED BY <1>1, <1>2, FetchAssumption

(* The new entry takes the place of its key's live entry, or of another's   *)
(* when the cache is full, or there is room for it.                         *)
LEMMA StoreIsBounded ==
    ASSUME TypeOK, NEW c \in Callers, Bounded(WorkerOf[c]), StoreLocally(c), clock' = clock
    PROVE  Bounded(WorkerOf[c])'
<1> DEFINE w == WorkerOf[c]
           key == KeyOf[c]
<1>1. w \in Workers /\ key \in Keys /\ MaxEntries \in Nat /\ MaxEntries > 0
  BY FetchAssumption
<1>2. PICK dropped \in IF Full(c) THEN {{k} : k \in Others(c)} ELSE {{}} :
        local' = [local EXCEPT ![w] = [k \in Keys |-> CASE k = key -> clock + TTL
                                                        [] k \in dropped -> 0
                                                        [] OTHER -> @[k]]]
  BY DEF StoreLocally
<1>3. LiveIn(w)' \subseteq (Others(c) \ dropped) \cup {key}
  <2> SUFFICES ASSUME NEW k \in Keys, Live(local[w][k])', k # key
               PROVE  k \in Others(c) /\ k \notin dropped
    BY DEF LiveIn
  <2>1. clock \in Nat /\ local \in [Workers -> [Keys -> Nat]]
    BY DEF TypeOK
  <2>2. local'[w][k] = IF k \in dropped THEN 0 ELSE local[w][k]
    BY <1>1, <1>2, <2>1
  <2> QED BY <2>1, <2>2 DEF Live, Others
<1>4. Others(c) = LiveIn(w) \ {key}
  BY DEF Others, LiveIn
<1>5. /\ IsFiniteSet(LiveIn(w)) /\ Cardinality(LiveIn(w)) \in Nat
      /\ Cardinality(LiveIn(w)) <= MaxEntries
      /\ key \in LiveIn(w) <=> Live(LocalEntry(c))
  BY <1>1, FS_CardinalityType DEF Bounded, LiveIn, LocalEntry
<1>6. /\ IsFiniteSet(Others(c)) /\ Cardinality(Others(c)) \in Nat
      /\ Cardinality(Others(c)) = IF Live(LocalEntry(c)) THEN Cardinality(LiveIn(w)) - 1
                                                          ELSE Cardinality(LiveIn(w))
  BY <1>4, <1>5, FS_RemoveElement, FS_CardinalityType
<1>7. IsFiniteSet(Others(c) \ dropped) /\ Cardinality(Others(c) \ dropped) <= MaxEntries - 1
  <2>1. CASE ~Full(c)
    <3>1. Others(c) \ dropped = Others(c)
      BY <1>2, <2>1
    <3>2. Cardinality(Others(c)) <= MaxEntries - 1
      BY <1>1, <1>5, <1>6, <2>1 DEF Full
    <3> QED BY <1>6, <3>1, <3>2
  <2>2. CASE Full(c)
    <3>1. PICK k \in Others(c) : dropped = {k}
      BY <1>2, <2>2
    <3>2. IsFiniteSet(Others(c) \ {k}) /\ Cardinality(Others(c) \ {k}) = Cardinality(Others(c)) - 1
      BY <1>6, <3>1, FS_RemoveElement
    <3>3. Cardinality(Others(c)) <= MaxEntries
      BY <1>1, <1>5, <1>6
    <3> QED BY <1>1, <1>6, <3>1, <3>2, <3>3
  <2> QED BY <2>1, <2>2
<1>8. /\ IsFiniteSet((Others(c) \ dropped) \cup {key})
      /\ Cardinality((Others(c) \ dropped) \cup {key}) <= MaxEntries
  <2>1. Cardinality(Others(c) \ dropped) \in Nat
    BY <1>7, FS_CardinalityType
  <2>2. /\ IsFiniteSet((Others(c) \ dropped) \cup {key})
        /\ Cardinality((Others(c) \ dropped) \cup {key}) <= Cardinality(Others(c) \ dropped) + 1
    <3> DEFINE S == Others(c) \ dropped
    <3>1. IsFiniteSet(S)
      BY <1>7
    <3>2. Cardinality(S) \in Nat
      BY <2>1
    <3> HIDE DEF S
    <3>3. IsFiniteSet(S \cup {key}) /\ Cardinality(S \cup {key}) <= Cardinality(S) + 1
      BY <3>1, <3>2, FS_AddElement
    <3> QED BY <3>3 DEF S
  <2>3. Cardinality((Others(c) \ dropped) \cup {key}) \in Nat
    BY <2>2, FS_CardinalityType
  <2>4. MaxEntries \in Nat
    BY FetchAssumption
  <2> QED BY <1>7, <2>1, <2>2, <2>3, <2>4
<1>9. IsFiniteSet(LiveIn(w)') /\ Cardinality(LiveIn(w)') <= MaxEntries
  BY <1>3, <1>8, FewerEntries
<1> QED BY <1>9 DEF Bounded

LEMMA BoundedStep ==
    ASSUME TypeOK, TypeOK', \A w \in Workers : Bounded(w), [Next]_vars
    PROVE  \A w \in Workers : Bounded(w)'
<1>1. CASE UNCHANGED <<clock, local>>
  BY <1>1 DEF Bounded, LiveIn, Live
<1>2. CASE Tick
  <2> SUFFICES ASSUME NEW w \in Workers PROVE Bounded(w)'
    OBVIOUS
  <2>1. LiveIn(w)' \subseteq LiveIn(w)
    BY <1>2 DEF Tick, LiveIn, Live, TypeOK
  <2>2. IsFiniteSet(LiveIn(w)') /\ Cardinality(LiveIn(w)') <= MaxEntries
    BY <2>1, FewerEntries DEF Bounded
  <2> QED BY <2>2 DEF Bounded
<1>3. ASSUME NEW c \in Callers, StoreLocally(c), clock' = clock
      PROVE  \A w \in Workers : Bounded(w)'
  <2>1. WorkerOf[c] \in Workers
    BY FetchAssumption
  <2>2. Bounded(WorkerOf[c])'
    BY <1>3, <2>1, StoreIsBounded
  <2>3. \A w \in Workers \ {WorkerOf[c]} : local'[w] = local[w]
    BY <1>3, <2>1 DEF StoreLocally, TypeOK
  <2>4. \A w \in Workers \ {WorkerOf[c]} : Bounded(w)'
    BY <1>3, <2>3 DEF Bounded, LiveIn, Live
  <2> QED BY <2>2, <2>4
<1>4. ASSUME NEW c \in Callers, Call(c) \/ Cancel(c) \/ Progress(c)
      PROVE  UNCHANGED <<clock, local>> \/ (StoreLocally(c) /\ clock' = clock)
  <2>1. CASE Call(c) \/ Cancel(c) \/ Retry(c)
    BY <2>1 DEF Call, Cancel, Retry
  <2>2. CASE RedisReads(c) \/ RedisReadFails(c) \/ ReadReturns(c)
    BY <2>2 DEF RedisReads, RedisReadFails, ReadReturns
  <2>3. CASE OracleRows(c) \/ OracleManyRows(c) \/ OracleHasNoReport(c) \/ OracleFails(c)
    BY <2>3 DEF OracleRows, OracleManyRows, OracleHasNoReport, OracleFails
  <2>4. CASE RedisStores(c) \/ WriteReturns(c) \/ WriteFails(c)
    BY <2>4 DEF RedisStores, WriteReturns, WriteFails
  <2>5. CASE WaiterResumes(c) \/ Unwind(c)
    BY <2>5 DEF WaiterResumes, Unwind
  <2> QED BY <1>4, <2>1, <2>2, <2>3, <2>4, <2>5 DEF Progress
<1> QED BY <1>1, <1>2, <1>3, <1>4 DEF Next, vars, Finished

(* No worker ever holds more live entries than its cache is sized for.      *)
THEOREM CacheIsBounded == Spec => []CacheBounded
<1>1. Init => \A w \in Workers : Bounded(w)
  <2> SUFFICES ASSUME Init, NEW w \in Workers PROVE Bounded(w)
    OBVIOUS
  <2>1. LiveIn(w) = {}
    BY DEF Init, LiveIn, Live
  <2> QED BY <2>1, FS_EmptySet, FetchAssumption DEF Bounded
<1>2. TypeOK /\ TypeOK' /\ (\A w \in Workers : Bounded(w)) /\ [Next]_vars =>
        (\A w \in Workers : Bounded(w))'
  BY BoundedStep
<1>3. (\A w \in Workers : Bounded(w)) => CacheBounded
  BY DEF CacheBounded, Bounded, LiveIn
<1> QED BY TypeCorrect, <1>1, <1>2, <1>3, PTL DEF Spec

-----------------------------------------------------------------------------
(* Why calls end: every step of a call uses up some of a budget it starts   *)
(* with, and no step of anybody else adds to it.                            *)

(* The steps an attempt can take at most, one for each path and five more.  *)
Longest == NumPaths + 5

Stage(c) ==
    CASE pc[c] = "idle" -> Longest + 1
      [] pc[c] = "reading" -> Longest
      [] pc[c] \in {"gotEntry", "readFailed"} -> Longest - 1
      [] pc[c] = "posting" -> NumPaths + 4 - path[c]
      [] pc[c] = "storing" -> 3
      [] pc[c] \in {"stored", "waiting"} -> 2
      [] pc[c] = "backoff" -> 1
      [] OTHER -> 0

(* The steps call c can still take.                                         *)
Left(c) == IF pc[c] = "done" THEN 0 ELSE (MaxAttempts - attempt[c]) * Longest + Stage(c)

LEMMA StageOf ==
    ASSUME NEW c
    PROVE  /\ pc[c] = "idle" => Stage(c) = Longest + 1
           /\ pc[c] = "reading" => Stage(c) = Longest
           /\ pc[c] \in {"gotEntry", "readFailed"} => Stage(c) = Longest - 1
           /\ pc[c] = "posting" => Stage(c) = NumPaths + 4 - path[c]
           /\ pc[c] = "storing" => Stage(c) = 3
           /\ pc[c] \in {"stored", "waiting"} => Stage(c) = 2
           /\ pc[c] = "backoff" => Stage(c) = 1
           /\ pc[c] = "done" => Stage(c) = 0
BY DEF Stage

LEMMA Budget ==
    ASSUME NEW a \in Attempts
    PROVE  /\ (MaxAttempts - a) * Longest \in Nat
           /\ (MaxAttempts - a) * Longest <= MaxAttempts * Longest - Longest
           /\ a < MaxAttempts =>
                (MaxAttempts - a) * Longest = (MaxAttempts - (a + 1)) * Longest + Longest
<1>1. Longest \in Nat /\ MaxAttempts \in Nat /\ a \in 1..MaxAttempts
  BY FetchAssumption DEF Longest, Attempts
<1> HIDE DEF Longest
<1>2. /\ (MaxAttempts - a) * Longest = MaxAttempts * Longest - a * Longest
      /\ (MaxAttempts - (a + 1)) * Longest = MaxAttempts * Longest - (a + 1) * Longest
      /\ (a + 1) * Longest = a * Longest + Longest
  BY <1>1
<1>3. a * Longest >= Longest /\ MaxAttempts * Longest \in Nat /\ a * Longest \in Nat
  BY <1>1
<1>4. (MaxAttempts - a) * Longest \in Nat
  BY <1>1
<1> QED BY <1>1, <1>2, <1>3, <1>4

(* Where a step of a call takes it.                                         *)
Asked(c) == pc'[c] \in {"done", "waiting", "reading"} \/ (pc'[c] = "posting" /\ path'[c] = 1)

Onward(c) ==
    \/ /\ pc[c] = "backoff" /\ attempt[c] < MaxAttempts
       /\ attempt'[c] = attempt[c] + 1 /\ Asked(c)
    \/ /\ attempt'[c] = attempt[c]
       /\ \/ pc[c] = "reading" /\ pc'[c] \in {"gotEntry", "readFailed"}
          \/ pc[c] \in {"gotEntry", "readFailed"} /\ pc'[c] # "reading" /\ Asked(c)
          \/ pc[c] = "posting" /\ pc'[c] \in {"storing", "backoff", "done"}
          \/ pc[c] = "posting" /\ pc'[c] = "posting" /\ path'[c] = path[c] + 1
          \/ pc[c] = "storing" /\ pc'[c] \in {"stored", "backoff", "done"}
          \/ pc[c] \in {"stored", "waiting"} /\ pc'[c] \in {"backoff", "done"}
          \/ pc[c] \in Suspended /\ pc'[c] = "done"

OnlyMoves(c) ==
    \A d \in Callers \ {c} : pc'[d] = pc[d] /\ attempt'[d] = attempt[d] /\ path'[d] = path[d]

LEMMA AskedStep ==
    ASSUME TypeOK, NEW c \in Callers, NEW n \in Attempts, RunReport(c, n)
    PROVE  /\ Asked(c)
           /\ \A d \in Callers \ {c} : pc'[d] = pc[d] /\ path'[d] = path[d]
BY DEF RunReport, UseEntry, JoinOrOwn, TypeOK, Asked

LEMMA ReceiveMoves ==
    ASSUME TypeOK, NEW c \in Callers, NEW r, Receive(c, r)
    PROVE  /\ pc'[c] \in {"backoff", "done"}
           /\ r.kind # "transient" => pc'[c] = "done"
           /\ \A d \in Callers \ {c} : pc'[d] = pc[d]
BY DEF Receive, AttemptLeft, TypeOK

LEMMA ProgressMoves ==
    ASSUME IInv, NEW c \in Callers, Progress(c)
    PROVE  Onward(c) /\ OnlyMoves(c)
<1>a. TypeOK
  BY DEF IInv
<1>r. \A r : Settle(c, r) => Receive(c, r)
  BY DEF Settle
<1> USE DEF Onward, OnlyMoves
<1>1. CASE Retry(c)
  <2>1. attempt[c] < MaxAttempts /\ attempt[c] + 1 \in Attempts
    BY <1>1, <1>a, FetchAssumption DEF Retry, TypeOK, RetriesLeft, Attempts, IInv, Core
  <2>2. RunReport(c, attempt[c] + 1) /\ pc[c] = "backoff" /\ attempt' = [attempt EXCEPT ![c] = @ + 1]
    BY <1>1 DEF Retry
  <2> QED BY <1>a, <2>1, <2>2, AskedStep DEF TypeOK
<1>2. CASE RedisReads(c) \/ RedisReadFails(c)
  BY <1>2, <1>a DEF RedisReads, RedisReadFails, TypeOK
<1>3. CASE ReadReturns(c)
  BY <1>3, <1>a DEF ReadReturns, UseEntry, JoinOrOwn, TypeOK, Asked
<1>4. CASE OracleRows(c)
  <2>1. CASE RedisOn
    BY <1>4, <1>a, <2>1 DEF OracleRows, TypeOK
  <2>2. CASE ~RedisOn
    <3>1. Receive(c, Rows(clock + TTL, clock)) /\ pc[c] = "posting" /\ UNCHANGED <<attempt, path>>
      BY <1>4, <1>r, <2>2 DEF OracleRows
    <3> QED BY <1>a, <3>1, ReceiveMoves
  <2> QED BY <2>1, <2>2
<1>5. CASE OracleManyRows(c)
  <2>1. Receive(c, Rows(0, clock)) /\ pc[c] = "posting" /\ UNCHANGED <<attempt, path>>
    BY <1>5, <1>r DEF OracleManyRows
  <2> QED BY <1>a, <2>1, ReceiveMoves
<1>6. CASE OracleHasNoReport(c)
  <2>1. CASE path[c] < NumPaths
    BY <1>6, <1>a, <2>1 DEF OracleHasNoReport, TypeOK
  <2>2. CASE ~(path[c] < NumPaths)
    <3>1. Receive(c, Failure("missing")) /\ pc[c] = "posting" /\ UNCHANGED <<attempt, path>>
      BY <1>6, <1>r, <2>2 DEF OracleHasNoReport
    <3> QED BY <1>a, <3>1, ReceiveMoves
  <2> QED BY <2>1, <2>2
<1>7. CASE OracleFails(c)
  <2>1. PICK kind : Settle(c, Failure(kind))
    BY <1>7 DEF OracleFails
  <2>2. Receive(c, Failure(kind)) /\ pc[c] = "posting" /\ UNCHANGED <<attempt, path>>
    BY <1>7, <1>r, <2>1 DEF OracleFails
  <2> QED BY <1>a, <2>2, ReceiveMoves
<1>8. CASE RedisStores(c)
  BY <1>8, <1>a DEF RedisStores, TypeOK
<1>9. CASE WriteReturns(c) \/ WriteFails(c)
  <2>1. PICK t : Settle(c, Rows(t, clock))
    BY <1>9 DEF WriteReturns, WriteFails
  <2>2. /\ Receive(c, Rows(t, clock)) /\ pc[c] \in {"storing", "stored"}
        /\ UNCHANGED <<attempt, path>>
    BY <1>9, <1>r, <2>1 DEF WriteReturns, WriteFails
  <2> QED BY <1>a, <2>2, ReceiveMoves
<1>10. CASE WaiterResumes(c)
  <2>1. /\ Receive(c, future[on[c][attempt[c]]]) /\ pc[c] = "waiting"
        /\ UNCHANGED <<attempt, path>>
    BY <1>10 DEF WaiterResumes
  <2> QED BY <1>a, <2>1, ReceiveMoves
<1>11. CASE Unwind(c)
  <2>1. /\ Receive(c, Failure("cancelled")) /\ pc[c] \in Suspended
        /\ UNCHANGED <<attempt, path>>
    BY <1>11, <1>r DEF Unwind
  <2>2. Failure("cancelled").kind # "transient"
    BY DEF Failure, Result
  <2> QED BY <1>a, <2>1, <2>2, ReceiveMoves
<1> QED BY <1>1, <1>2, <1>3, <1>4, <1>5, <1>6, <1>7, <1>8, <1>9, <1>10, <1>11 DEF Progress

LEMMA LeftType ==
    ASSUME TypeOK, NEW c \in Callers
    PROVE  /\ Left(c) \in 0..MaxAttempts * Longest + 1
           /\ Left(c) = 0 <=> pc[c] = "done"
<1> DEFINE T == (MaxAttempts - attempt[c]) * Longest
           M == MaxAttempts * Longest
<1>1. /\ attempt[c] \in Attempts /\ path[c] \in 1..NumPaths
      /\ pc[c] \in Suspended \cup {"idle", "done"} /\ NumPaths \in Nat \ {0}
  BY FetchAssumption DEF TypeOK
<1>2. T \in Nat /\ T <= M - Longest /\ M \in Nat
  <2>1. M \in Nat
    BY FetchAssumption DEF Longest
  <2> QED BY <1>1, <2>1, Budget
<1>3. CASE pc[c] = "done"
  BY <1>2, <1>3 DEF Left
<1>4. CASE pc[c] # "done"
  <2>1. Left(c) = T + Stage(c)
    BY <1>4 DEF Left
  <2>2. Stage(c) \in 1..Longest + 1
    BY <1>1, <1>4, StageOf DEF Longest, Suspended, Fetching
  <2>3. Longest \in Nat
    BY <1>1 DEF Longest
  <2> HIDE DEF T, M
  <2>4. T + Stage(c) \in 1..M + 1
    BY <1>2, <2>2, <2>3
  <2> QED BY <1>4, <2>1, <2>4 DEF M
<1> QED BY <1>3, <1>4

LEMMA OnwardCosts ==
    ASSUME TypeOK, TypeOK', NEW c \in Callers,
           Onward(c) \/ (pc[c] = "idle" /\ attempt'[c] = attempt[c] /\ Asked(c))
    PROVE  Left(c)' \in Nat /\ Left(c) \in Nat /\ Left(c)' < Left(c)
<1> DEFINE T(a) == (MaxAttempts - a) * Longest
           a == attempt[c]
<1>1. /\ a \in Attempts /\ attempt'[c] \in Attempts /\ path[c] \in 1..NumPaths
      /\ NumPaths \in Nat \ {0} /\ Longest = NumPaths + 5 /\ a \in Nat
  BY FetchAssumption DEF TypeOK, Longest, Attempts
<1>2. /\ T(a) \in Nat /\ T(attempt'[c]) \in Nat
      /\ a < MaxAttempts => T(a) = T(a + 1) + Longest
  BY <1>1, Budget
<1>3. pc[c] # "done"
  BY DEF Onward, Suspended, Fetching
<1>4. Left(c) = T(a) + Stage(c)
  BY <1>3 DEF Left
<1>5. Left(c)' = IF pc'[c] = "done" THEN 0 ELSE T(attempt'[c]) + Stage(c)'
  BY DEF Left, Longest
<1>6. /\ pc'[c] = "reading" => Stage(c)' = Longest
      /\ pc'[c] \in {"gotEntry", "readFailed"} => Stage(c)' = Longest - 1
      /\ pc'[c] = "posting" => Stage(c)' = NumPaths + 4 - path'[c]
      /\ pc'[c] = "storing" => Stage(c)' = 3
      /\ pc'[c] \in {"stored", "waiting"} => Stage(c)' = 2
      /\ pc'[c] = "backoff" => Stage(c)' = 1
  BY DEF Stage, Longest
<1>7. Stage(c) > 0 /\ Stage(c) \in Nat
  <2>1. pc[c] \in Suspended \cup {"idle"}
    BY <1>3 DEF TypeOK
  <2> QED BY <1>1, <2>1, StageOf DEF Suspended, Fetching
<1>8. CASE pc'[c] = "done"
  <2> HIDE DEF T
  <2> QED BY <1>2, <1>4, <1>5, <1>7, <1>8
<1>9. CASE pc'[c] # "done" /\ pc[c] = "backoff"
  <2>1. a < MaxAttempts /\ attempt'[c] = a + 1 /\ Asked(c) /\ Stage(c) = 1
    BY <1>9, StageOf DEF Onward
  <2>2. Stage(c)' \in Nat /\ Stage(c)' <= Longest
    BY <1>1, <1>6, <1>9, <2>1 DEF Asked
  <2>3. Left(c)' = T(a + 1) + Stage(c)'
    BY <1>5, <1>9, <2>1
  <2>4. T(a) = T(a + 1) + Longest /\ T(a + 1) \in Nat
    BY <1>2, <2>1
  <2> HIDE DEF T
  <2> QED BY <1>1, <1>4, <2>1, <2>2, <2>3, <2>4
<1>10. CASE pc'[c] # "done" /\ pc[c] # "backoff"
  <2>1. attempt'[c] = a
    BY <1>10 DEF Onward
  <2>2. Stage(c)' \in Nat /\ Stage(c)' < Stage(c)
    <3>1. CASE pc[c] = "idle"
      BY <1>1, <1>6, <1>10, <3>1, StageOf DEF Onward, Asked, Suspended, Fetching
    <3>2. CASE pc[c] # "idle"
      <4>1. path'[c] \in 1..NumPaths
        BY DEF TypeOK
      <4> QED BY <1>1, <1>6, <1>10, <3>2, <4>1, StageOf DEF Onward, Asked
    <3> QED BY <3>1, <3>2
  <2>3. Left(c)' = T(a) + Stage(c)'
    BY <1>5, <1>10, <2>1
  <2> HIDE DEF T
  <2> QED BY <1>2, <1>4, <1>7, <2>2, <2>3
<1> QED BY <1>8, <1>9, <1>10

LEMMA Rests ==
    ASSUME NEW d, pc'[d] = pc[d], attempt'[d] = attempt[d], path'[d] = path[d]
    PROVE  Left(d)' = Left(d)
BY DEF Left, Stage, Longest

Spends(c) == Left(c)' <= Left(c) /\ (Call(c) \/ Progress(c) => Left(c)' < Left(c))

LEMMA SpendStep == ASSUME IInv, [Next]_vars, NEW c \in Callers PROVE Spends(c)
<1>a. TypeOK /\ TypeOK' /\ Left(c) \in Nat
  <2>1. TypeOK /\ TypeOK'
    BY NextStep DEF IInv
  <2>2. MaxAttempts * Longest + 1 \in Nat
    BY FetchAssumption DEF Longest
  <2> QED BY <2>1, <2>2, LeftType
<1>1. CASE Call(c) \/ Progress(c)
  <2>1. Progress(c) => Onward(c)
    BY ProgressMoves
  <2>2. Call(c) => pc[c] = "idle" /\ attempt'[c] = attempt[c] /\ Asked(c)
    BY <1>a, AskedStep, AttemptType DEF Call
  <2>3. Left(c)' \in Nat /\ Left(c)' < Left(c)
    BY <1>1, <1>a, <2>1, <2>2, OnwardCosts
  <2> QED BY <1>a, <2>3 DEF Spends
<1>2. CASE ~(Call(c) \/ Progress(c))
  <2>1. pc'[c] = pc[c] /\ attempt'[c] = attempt[c] /\ path'[c] = path[c]
    <3>1. CASE UNCHANGED vars \/ Tick \/ Finished
      BY <3>1 DEF vars, Tick, Finished
    <3>2. ASSUME NEW d \in Callers, Cancel(d) PROVE UNCHANGED <<pc, attempt, path>>
      BY <3>2 DEF Cancel
    <3>3. ASSUME NEW d \in Callers \ {c}, Call(d)
          PROVE  pc'[c] = pc[c] /\ attempt'[c] = attempt[c] /\ path'[c] = path[c]
      BY <1>a, <3>3, AskedStep, AttemptType DEF Call
    <3>4. ASSUME NEW d \in Callers \ {c}, Progress(d)
          PROVE  pc'[c] = pc[c] /\ attempt'[c] = attempt[c] /\ path'[c] = path[c]
      BY <3>4, ProgressMoves DEF OnlyMoves
    <3> QED BY <1>2, <3>1, <3>2, <3>3, <3>4 DEF Next
  <2>2. Left(c)' = Left(c)
    BY <2>1, Rests
  <2> QED BY <1>2, <1>a, <2>2 DEF Spends
<1> QED BY <1>1, <1>2

(* What a call can still do is at most (NumPaths + 5) steps for each        *)
(* attempt, and 0 just when it has ended.                                   *)
THEOREM BudgetIsBounded ==
    Spec => [](\A c \in Callers : /\ Left(c) \in 0..MaxAttempts * Longest + 1
                                  /\ Left(c) = 0 <=> pc[c] = "done")
<1>1. IInv => \A c \in Callers : /\ Left(c) \in 0..MaxAttempts * Longest + 1
                                 /\ Left(c) = 0 <=> pc[c] = "done"
  BY LeftType DEF IInv
<1> QED BY Invariant, <1>1, PTL

(* Every step of a call, of Oracle and of Redis on its behalf uses up some  *)
(* of that, and no other step gives any of it back: calls that join each    *)
(* other's flights, cancel each other and retry cannot keep each other      *)
(* going.                                                                   *)
THEOREM StepsAreSpent == Spec => [][\A c \in Callers : Spends(c)]_vars
<1>1. IInv /\ [Next]_vars => [\A c \in Callers : Spends(c)]_vars
  BY SpendStep
<1> QED BY Invariant, <1>1, PTL DEF Spec
=============================================================================
