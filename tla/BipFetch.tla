------------------------------ MODULE BipFetch ------------------------------
(***************************************************************************)
(* How one Oracle BI Publisher report is fetched: oracle_bip.py from the   *)
(* retry decorator (fetch_bip_invoices, fetch_bip_receipts) through the    *)
(* cache (AsyncCache), the single flight per cache key (_fetch_once) and   *)
(* the walk over the candidate report paths (_post_bip_report).            *)
(*                                                                         *)
(* A caller is one call of fetch_bip_invoices or fetch_bip_receipts, made  *)
(* by some request handled in one worker process.  Everything a coroutine  *)
(* does between two awaits is one step; at each await any other step may   *)
(* come in between.  A worker has its own local cache and its own table of *)
(* flights; the workers share Redis when it is configured.                 *)
(***************************************************************************)
EXTENDS Naturals, FiniteSets

CONSTANTS
    Callers,      \* calls of fetch_bip_*
    Workers,      \* uvicorn worker processes
    WorkerOf,     \* the worker a call runs in
    Keys,         \* cache keys
    KeyOf,        \* the key a call's report, identity and parameters make
    NumPaths,     \* candidate report paths that are not blank
    MaxAttempts,  \* BIP_MAX_RETRIES
    MaxEntries,   \* BIP_MAX_CACHE_ENTRIES, of a worker's local cache
    TTL,          \* BIP_CACHE_TTL_SECONDS, in ticks of the clock
    RedisOn,      \* REDIS_URL is set
    MaxClock,     \* bound of the clock, for TLC
    None          \* no flight

Attempts == 1..MaxAttempts
Flights  == Callers \X Attempts    \* a flight is named by who started it, and when
Slots    == Workers \X Keys        \* an entry of some worker's _inflight

(* default report paths are constants that are not blank, so a walk has at
   least one path; a time to live may be anything *)
ASSUME FetchAssumption ==
    /\ WorkerOf \in [Callers -> Workers]
    /\ KeyOf \in [Callers -> Keys]
    /\ NumPaths \in Nat \ {0}
    /\ MaxAttempts \in Nat \ {0}
    /\ MaxEntries \in Nat \ {0}
    /\ TTL \in Nat
    /\ RedisOn \in BOOLEAN
    /\ MaxClock \in Nat
    /\ None \notin Flights

VARIABLES
    clock,     \* time, in ticks
    local,     \* when each worker's local entry for a key lapses; 0: no entry
    redis,     \* when the Redis entry for a key lapses; 0: no entry
    inflight,  \* _inflight of every worker
    future,    \* the future of every flight
    pc,        \* where each call is suspended
    attempt,   \* the attempt a call is at
    path,      \* the report path an owner is posting to
    held,      \* when the entry Redis read or stored lapses, until its reply
    on,        \* the flight each attempt of a call owned or joined
    struck,    \* calls whose task was asked to cancel
    asked,     \* when a call was made
    outcome    \* how a call ended

vars == <<clock, local, redis, inflight, future, pc, attempt, path, held, on,
          struck, asked, outcome>>

(* Rows carry the time at which their cache entry lapses, TTL after it was  *)
(* stored (0: they were not cached), and the time at which the flight that  *)
(* fetched them was resolved (0: they come from a cache).                   *)
Result(kind, until, at) == [kind |-> kind, until |-> until, at |-> at]
Rows(until, at) == Result("rows", until, at)
Failure(kind) == Result(kind, 0, 0)

Failures == {"missing", "transient", "fatal", "cancelled"}
Endings == [kind : {"rows"} \cup Failures, until : Nat, at : Nat]
Pending == Result("pending", 0, 0)
Unborn  == Result("unborn", 0, 0)

Slot(c) == <<WorkerOf[c], KeyOf[c]>>
Own(c) == <<c, attempt[c]>>

Fetching == {"posting", "storing", "stored"}    \* the owner of a flight
Suspended == Fetching \cup {"reading", "gotEntry", "readFailed", "waiting", "backoff"}
Running(c) == c \notin struck

(* Wrong on purpose: an entry still served in the tick it lapses.           *)
LiveTooLong(until) == clock <= until /\ until # 0
Live(until) == clock < until
LocalEntry(c) == local[WorkerOf[c]][KeyOf[c]]

-----------------------------------------------------------------------------
Init ==
    /\ clock = 0
    /\ local = [w \in Workers |-> [k \in Keys |-> 0]]
    /\ redis = [k \in Keys |-> 0]
    /\ inflight = [s \in Slots |-> None]
    /\ future = [f \in Flights |-> Unborn]
    /\ pc = [c \in Callers |-> "idle"]
    /\ attempt = [c \in Callers |-> 1]
    /\ path = [c \in Callers |-> 1]
    /\ held = [c \in Callers |-> 0]
    /\ on = [c \in Callers |-> [n \in Attempts |-> None]]
    /\ struck = {}
    /\ asked = [c \in Callers |-> 0]
    /\ outcome = [c \in Callers |-> Unborn]

-----------------------------------------------------------------------------
(* Wrong on purpose: one attempt too many.                                  *)
AttemptLeftOnceMore(c) == attempt[c] <= MaxAttempts
AttemptLeft(c) == attempt[c] < MaxAttempts

(* The retry decorator: a transient failure is retried after a sleep until  *)
(* the attempts run out; anything else ends the call as it is.              *)
Receive(c, r) ==
    IF r.kind = "transient" /\ AttemptLeft(c)
    THEN /\ pc' = [pc EXCEPT ![c] = "backoff"]
         /\ UNCHANGED outcome
    ELSE /\ pc' = [pc EXCEPT ![c] = "done"]
         /\ outcome' = [outcome EXCEPT ![c] = r]

(* _fetch_once, up to its first await, for the n-th attempt of c.           *)
JoinOrOwn(c, n) ==
    /\ IF inflight[Slot(c)] # None
       THEN /\ on' = [on EXCEPT ![c][n] = inflight[Slot(c)]]
            /\ pc' = [pc EXCEPT ![c] = "waiting"]
            /\ UNCHANGED <<inflight, future, path>>
       ELSE /\ on' = [on EXCEPT ![c][n] = <<c, n>>]
            /\ inflight' = [inflight EXCEPT ![Slot(c)] = <<c, n>>]
            /\ future' = [future EXCEPT ![<<c, n>>] = Pending]
            /\ path' = [path EXCEPT ![c] = 1]
            /\ pc' = [pc EXCEPT ![c] = "posting"]
    /\ UNCHANGED outcome

(* The rest of _run_bip_report once the cache has answered.                 *)
UseEntry(c, n, entry) ==
    IF entry # 0
    THEN /\ pc' = [pc EXCEPT ![c] = "done"]
         /\ outcome' = [outcome EXCEPT ![c] = Rows(entry, 0)]
         /\ UNCHANGED <<inflight, future, path, on>>
    ELSE JoinOrOwn(c, n)

(* Wrong on purpose: an entry is not served in its last tick.               *)
UnexpiredEarly(entry) == IF Live(entry) /\ entry # clock + 1 THEN entry ELSE 0
Unexpired(entry) == IF Live(entry) THEN entry ELSE 0

(* _run_bip_report from its start: with Redis the call awaits the read,     *)
(* without it the lookup and _fetch_once run in the same step.              *)
RunReport(c, n) ==
    IF RedisOn
    THEN /\ pc' = [pc EXCEPT ![c] = "reading"]
         /\ UNCHANGED <<inflight, future, path, on, outcome>>
    ELSE UseEntry(c, n, Unexpired(LocalEntry(c)))

(* Wrong on purpose: `except Exception`, which CancelledError is not.       *)
ResolvedUnlessCancelled(c, r) == IF r.kind = "cancelled" THEN future ELSE [future EXCEPT ![Own(c)] = r]
Resolved(c, r) == [future EXCEPT ![Own(c)] = r]

(* Wrong on purpose: the entry is dropped on success only.                  *)
DroppedOnSuccess(c) == [inflight EXCEPT ![Slot(c)] = IF future'[Own(c)].kind = "rows" THEN None ELSE @]
Dropped(c) == [inflight EXCEPT ![Slot(c)] = None]

(* The owner's end of _fetch_once: resolve the future, drop the entry, and  *)
(* return or raise to the retry decorator, with no await in between.        *)
Settle(c, r) ==
    /\ future' = Resolved(c, r)
    /\ inflight' = Dropped(c)
    /\ Receive(c, r)

(* The local cache drops lapsed entries first and then, when it is still    *)
(* full, a live one: whichever, as the order of use is not modelled.        *)
Others(c) == {k \in Keys \ {KeyOf[c]} : Live(local[WorkerOf[c]][k])}
(* Wrong on purpose: full at one entry too many.                            *)
FullLate(c) == Cardinality(Others(c)) > MaxEntries
Full(c) == ~Live(LocalEntry(c)) /\ Cardinality(Others(c)) >= MaxEntries
StoreLocally(c) ==
    \E dropped \in IF Full(c) THEN {{k} : k \in Others(c)} ELSE {{}} :
        local' = [local EXCEPT ![WorkerOf[c]] =
                    [k \in Keys |-> CASE k = KeyOf[c] -> clock + TTL
                                      [] k \in dropped -> 0
                                      [] OTHER -> @[k]]]

-----------------------------------------------------------------------------
Call(c) ==
    /\ pc[c] = "idle"
    /\ asked' = [asked EXCEPT ![c] = clock]
    /\ RunReport(c, 1)
    /\ UNCHANGED <<clock, local, redis, attempt, held, struck>>

Retry(c) ==
    /\ pc[c] = "backoff" /\ Running(c)
    /\ attempt' = [attempt EXCEPT ![c] = @ + 1]
    /\ RunReport(c, attempt[c] + 1)
    /\ UNCHANGED <<clock, local, redis, held, struck, asked>>

(* Redis serves a GET; the call resumes later, with what was read then.     *)
RedisReads(c) ==
    /\ pc[c] = "reading" /\ Running(c)
    /\ pc' = [pc EXCEPT ![c] = "gotEntry"]
    /\ held' = [held EXCEPT ![c] = Unexpired(redis[KeyOf[c]])]
    /\ UNCHANGED <<clock, local, redis, inflight, future, attempt, path, on,
                   struck, asked, outcome>>

RedisReadFails(c) ==
    /\ pc[c] = "reading" /\ Running(c)
    /\ pc' = [pc EXCEPT ![c] = "readFailed"]
    /\ UNCHANGED <<clock, local, redis, inflight, future, attempt, path, held, on,
                   struck, asked, outcome>>

(* The call resumes after its read; a failed read falls back to the local   *)
(* cache.                                                                   *)
ReadReturns(c) ==
    /\ pc[c] \in {"gotEntry", "readFailed"} /\ Running(c)
    /\ UseEntry(c, attempt[c],
                IF pc[c] = "gotEntry" THEN held[c] ELSE Unexpired(LocalEntry(c)))
    /\ held' = [held EXCEPT ![c] = 0]
    /\ UNCHANGED <<clock, local, redis, attempt, struck, asked>>

(* Oracle answers the owner with rows small enough to cache.                *)
OracleRows(c) ==
    /\ pc[c] = "posting" /\ Running(c)
    /\ IF RedisOn
       THEN /\ pc' = [pc EXCEPT ![c] = "storing"]
            /\ UNCHANGED <<local, future, inflight, outcome>>
       ELSE /\ StoreLocally(c)
            /\ Settle(c, Rows(clock + TTL, clock))
    /\ UNCHANGED <<clock, redis, attempt, path, held, on, struck, asked>>

(* Rows above BIP_MAX_CACHE_VALUE_BYTES are returned and not cached.        *)
OracleManyRows(c) ==
    /\ pc[c] = "posting" /\ Running(c)
    /\ Settle(c, Rows(0, clock))
    /\ UNCHANGED <<clock, local, redis, attempt, path, held, on, struck, asked>>

(* No report at this path: try the next one; after the last, the call fails *)
(* with the error remembered on the way.                                    *)
OracleHasNoReport(c) ==
    /\ pc[c] = "posting" /\ Running(c)
    /\ IF path[c] < NumPaths
       THEN /\ path' = [path EXCEPT ![c] = @ + 1]
            /\ UNCHANGED <<inflight, future, pc, outcome>>
       ELSE /\ Settle(c, Failure("missing"))
            /\ UNCHANGED path
    /\ UNCHANGED <<clock, local, redis, attempt, held, on, struck, asked>>

(* A busy status, or no answer (httpx.RequestError, which a timeout is):    *)
(* transient.  Another error status, a body above BIP_MAX_RESPONSE_BYTES or *)
(* one that does not parse: fatal.  Either ends the walk over the paths.    *)
OracleFails(c) ==
    /\ pc[c] = "posting" /\ Running(c)
    /\ \E kind \in {"transient", "fatal"} : Settle(c, Failure(kind))
    /\ UNCHANGED <<clock, local, redis, attempt, path, held, on, struck, asked>>

(* Redis applies a SET, and the entry's time to live runs from then on; the *)
(* reply is still on its way.                                               *)
RedisStores(c) ==
    /\ pc[c] = "storing"
    /\ redis' = [redis EXCEPT ![KeyOf[c]] = clock + TTL]
    /\ held' = [held EXCEPT ![c] = clock + TTL]
    /\ pc' = [pc EXCEPT ![c] = "stored"]
    /\ UNCHANGED <<clock, local, inflight, future, attempt, path, on, struck,
                   asked, outcome>>

WriteReturns(c) ==
    /\ pc[c] = "stored" /\ Running(c)
    /\ Settle(c, Rows(held[c], clock))
    /\ held' = [held EXCEPT ![c] = 0]
    /\ UNCHANGED <<clock, local, redis, attempt, path, on, struck, asked>>

(* The write is reported as failed, applied or not: keep the rows locally.  *)
WriteFails(c) ==
    /\ pc[c] \in {"storing", "stored"} /\ Running(c)
    /\ StoreLocally(c)
    /\ Settle(c, Rows(clock + TTL, clock))
    /\ held' = [held EXCEPT ![c] = 0]
    /\ UNCHANGED <<clock, redis, attempt, path, on, struck, asked>>

(* A waiter resumes some time after the flight it joined was resolved.      *)
WaiterResumes(c) ==
    LET r == future[on[c][attempt[c]]] IN
    /\ pc[c] = "waiting" /\ Running(c)
    /\ r \in Endings
    /\ Receive(c, r)
    /\ UNCHANGED <<clock, local, redis, inflight, future, attempt, path, held, on,
                   struck, asked>>

(* task.cancel(), from _discover_by_invoice_sequence: the task will raise   *)
(* CancelledError where it is suspended, at its next turn.                  *)
Cancel(c) ==
    /\ pc[c] \in Suspended /\ Running(c)
    /\ struck' = struck \cup {c}
    /\ UNCHANGED <<clock, local, redis, inflight, future, pc, attempt, path, held,
                   on, asked, outcome>>

(* Wrong on purpose: a waiter awaits the future without asyncio.shield.     *)
LeaveUnshielded(c) ==
    /\ future' = [f \in Flights |-> IF pc[c] = "waiting" /\ f = on[c][attempt[c]] /\ future[f] = Pending
                                   THEN Failure("cancelled") ELSE future[f]]
    /\ UNCHANGED inflight
(* Wrong on purpose: the `finally` covers waiters too.                      *)
LeavePopping(c) == inflight' = [inflight EXCEPT ![Slot(c)] = None] /\ UNCHANGED future
Leave(c) == UNCHANGED <<inflight, future>>

(* CancelledError unwinds the call: an owner hands it to its flight, a      *)
(* waiter leaves the shielded future alone.                                 *)
Unwind(c) ==
    /\ pc[c] \in Suspended /\ ~Running(c)
    /\ IF pc[c] \in Fetching
       THEN Settle(c, Failure("cancelled"))
       ELSE Receive(c, Failure("cancelled")) /\ Leave(c)
    /\ held' = [held EXCEPT ![c] = 0]
    /\ UNCHANGED <<clock, local, redis, attempt, path, on, struck, asked>>

Tick ==
    /\ clock < MaxClock
    /\ clock' = clock + 1
    /\ UNCHANGED <<local, redis, inflight, future, pc, attempt, path, held, on,
                   struck, asked, outcome>>

(* Every call has ended: nothing is left to do.                             *)
Finished ==
    /\ \A c \in Callers : pc[c] = "done"
    /\ UNCHANGED vars

(* Steps of a call itself, of Oracle and of Redis on its behalf.            *)
Progress(c) ==
    \/ Retry(c) \/ RedisReads(c) \/ RedisReadFails(c) \/ ReadReturns(c)
    \/ OracleRows(c) \/ OracleManyRows(c) \/ OracleHasNoReport(c) \/ OracleFails(c)
    \/ RedisStores(c) \/ WriteReturns(c) \/ WriteFails(c)
    \/ WaiterResumes(c) \/ Unwind(c)

Next ==
    \/ \E c \in Callers : Call(c) \/ Progress(c) \/ Cancel(c)
    \/ Tick
    \/ Finished

Spec == Init /\ [][Next]_vars

(* The event loop runs every task that is ready, every request to Oracle is *)
(* answered or times out (BIP_TIMEOUT), every Redis command is answered or  *)
(* fails, and a sleep ends.  Nothing obliges a caller to call or to cancel. *)
FairSpec == Spec /\ \A c \in Callers : WF_vars(Progress(c))

-----------------------------------------------------------------------------
(* Properties *)

(* Every variable has its type.                                             *)
TypeOK ==
    /\ clock \in Nat
    /\ local \in [Workers -> [Keys -> Nat]]
    /\ redis \in [Keys -> Nat]
    /\ inflight \in [Slots -> Flights \cup {None}]
    /\ future \in [Flights -> Endings \cup {Pending, Unborn}]
    /\ pc \in [Callers -> Suspended \cup {"idle", "done"}]
    /\ attempt \in [Callers -> Attempts]
    /\ path \in [Callers -> 1..NumPaths]
    /\ held \in [Callers -> Nat]
    /\ on \in [Callers -> [Attempts -> Flights \cup {None}]]
    /\ struck \in SUBSET Callers
    /\ asked \in [Callers -> Nat]
    /\ outcome \in [Callers -> Endings \cup {Unborn}]

(* A flight in _inflight is pending and its owner is still fetching it in   *)
(* that worker and for that key: no failure and no cancellation leaves a    *)
(* future behind for a later caller to await.                               *)
NoOrphan ==
    \A s \in Slots : inflight[s] # None =>
        LET owner == inflight[s][1] IN
        /\ Slot(owner) = s
        /\ inflight[s] = Own(owner)
        /\ pc[owner] \in Fetching
        /\ future[inflight[s]] = Pending

(* Of the calls of one worker that want the same report, at most one has a  *)
(* request to Oracle (or the write of its answer) outstanding.              *)
SingleFlight ==
    \A c, d \in Callers :
        pc[c] \in Fetching /\ pc[d] \in Fetching /\ Slot(c) = Slot(d) => c = d

(* A waiter whose flight is still pending awaits the flight that is         *)
(* registered, so a later caller and the waiter see the same answer, and    *)
(* somebody is there to resolve it.                                         *)
WaitersHaveAResolver ==
    \A c \in Callers :
        pc[c] = "waiting" /\ future[on[c][attempt[c]]] = Pending
            => inflight[Slot(c)] = on[c][attempt[c]]

(* A call ends cancelled only if its own task was cancelled or the task     *)
(* that owned the flight it had joined was: a waiter that is cancelled      *)
(* takes nobody with it.                                                    *)
CancelBlame ==
    \A c \in Callers : outcome[c].kind = "cancelled" =>
        \/ c \in struck
        \/ /\ on[c][attempt[c]] # None
           /\ on[c][attempt[c]][1] \in struck

(* A call that gives up on a transient failure has seen it at every one of  *)
(* its attempts, each time on another flight: no retry is spent on an       *)
(* answer that was known before the sleep.                                  *)
ExhaustedHonestly ==
    \A c \in Callers : outcome[c].kind = "transient" =>
        \A n \in Attempts :
            /\ on[c][n] # None
            /\ future[on[c][n]].kind = "transient"
            /\ \A m \in Attempts \ {n} : on[c][m] # on[c][n]

(* Rows a call takes from a cache had not lapsed when it asked: nobody is   *)
(* handed an entry older than the time to live.  Rows it takes from a       *)
(* flight, its own or one it joined, come from one that was still open when *)
(* it asked, however long ago Oracle answered or Redis stored them.         *)
FreshRows ==
    \A c \in Callers : outcome[c].kind = "rows" =>
        IF on[c][attempt[c]] = None THEN outcome[c].until > asked[c]
                                    ELSE outcome[c].at >= asked[c]

(* The local cache never holds more live entries than it is sized for.      *)
CacheBounded ==
    \A w \in Workers : Cardinality({k \in Keys : Live(local[w][k])}) <= MaxEntries

(* Without Redis, no attempt, a retry after a sleep included, sends a       *)
(* request to Oracle while the worker's cache holds the answer.             *)
NoRefetchWhileCached ==
    [][\A c \in Callers :
         pc[c] \notin Fetching /\ pc'[c] \in Fetching => ~Live(LocalEntry(c))]_vars

(* Every call that is made ends, whatever fails and whoever is cancelled.   *)
EveryCallEnds ==
    \A c \in Callers : pc[c] # "idle" ~> pc[c] = "done"

(* What the comment on _fetch_once says: a waiter receives only what it     *)
(* would have received had it issued the request itself.  A call nobody     *)
(* cancelled, sent on its own, would not end cancelled.                     *)
CancelIsolation ==
    \A c \in Callers : outcome[c].kind = "cancelled" => c \in struck

=============================================================================
