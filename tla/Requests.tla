------------------------------ MODULE Requests ------------------------------
(***************************************************************************)
(* A request on its way in and out: RequestBodyLimitMiddleware, the        *)
(* metrics, the reading of the body, the access gate and the rate limit,   *)
(* and the batch itself, taken by what Batch answers.  main.py adds the    *)
(* layers; a response passes them from the inside outwards, an exception   *)
(* passes all of them but the outermost, which answers 500.                *)
(*                                                                         *)
(* Sizes are counted in units of which the limit is BodyLimit.  Which      *)
(* route, header or body a client sends is chosen when it is looked at.    *)
(***************************************************************************)
EXTENDS Naturals, Sequences

CONSTANTS
    Requests,
    Callers,         \* the addresses requests come from
    Claims,          \* what clients write into X-Forwarded-For themselves
    Edge,            \* the address of the proxy in front, when there is one
    BodyLimit,       \* MAX_REQUEST_BODY_BYTES
    MaxPart,         \* the most the server hands over of a body at once
    RateLimit,       \* the 10 of "10/minute"
    Workers,         \* the processes uvicorn serves requests in
    BatchAnswers     \* statuses reconcile_data_batch answers with

Blank == "blank"     \* an empty entry of X-Forwarded-For
Service == "service"     \* all workers together

ASSUME RequestsAssumption ==
    /\ BodyLimit \in Nat /\ MaxPart \in Nat /\ RateLimit \in Nat
    /\ Edge \notin Callers /\ Blank \notin Callers
    /\ Claims \subseteq Seq(Callers \cup {Blank})
    /\ Service \notin Workers
    /\ BatchAnswers \subseteq {"200", "422", "502"}

Pages == {"200", "307", "404", "405", "503"}      \* what is answered without reading a body
Uncounted == {"200", "400", "405"}                \* and what the metrics never see of it
Statuses == {"200", "307", "400", "404", "405", "413", "422", "429", "500", "502", "503"}
None == "none"
Buckets == Callers \cup {Edge, Blank}
Tables == Workers \cup {Service}       \* where a limiter may keep its hits

VARIABLES
    setting,     \* the switches the service was started with
    origin,      \* who sends a request, and what X-Forwarded-For it was sent with
    pc,          \* where a request is
    consumed,    \* how much of its body limited_receive has passed
    rejected,    \* the flag of limited_receive
    status,      \* what the application answers it with
    sent,        \* the response starts its client was sent
    counted,     \* the status REQUEST_COUNT has it under
    used,        \* hits in the current window of each bucket of a table
    begun        \* batches a worker, or the service, began for a caller in such a window

vars == <<setting, origin, pc, consumed, rejected, status, sent, counted, used, begun>>

(* Whether access is opted in to, X-Forwarded-For is trusted, REDIS_URL is  *)
(* set, and a proxy stands in front.  The header is to be trusted only      *)
(* behind a proxy.                                                          *)
Setting == {s \in [open : BOOLEAN, trusted : BOOLEAN, redis : BOOLEAN, edge : BOOLEAN] :
              s.trusted => s.edge}

(* X-Forwarded-For as it arrives: what the client wrote, then the address   *)
(* the proxy appended.                                                      *)
Forwarded(r) == IF setting.edge THEN Append(origin[r].claimed, origin[r].caller)
                                ELSE origin[r].claimed
Peer(r) == IF setting.edge THEN Edge ELSE origin[r].caller

(* rate_limit_key.                                                          *)
KeyByFirst(r) ==        \* wrong on purpose: what the client wrote first
    IF ~setting.trusted \/ Forwarded(r) = <<>> THEN Peer(r) ELSE Forwarded(r)[1]
Key(r) ==
    LET f == Forwarded(r) IN
    IF ~setting.trusted \/ f = <<>> THEN Peer(r)
    ELSE IF f[Len(f)] = Blank THEN Peer(r) ELSE f[Len(f)]

(* The limiter's storage: Redis, which the workers share, or memory://, of  *)
(* which every worker has one of its own.                                   *)
TableOfWorker(w) == w                   \* wrong on purpose
Table(w) == IF setting.redis THEN Service ELSE w

Origins == [caller : Callers, claimed : Claims]

Init ==
    /\ setting \in Setting
    /\ origin \in [Requests -> Origins]
    /\ pc = [r \in Requests |-> "new"]
    /\ consumed = [r \in Requests |-> 0]
    /\ rejected = [r \in Requests |-> FALSE]
    /\ status = [r \in Requests |-> None]
    /\ sent = [r \in Requests |-> <<>>]
    /\ counted = [r \in Requests |-> None]
    /\ used = [t \in Tables |-> [k \in Buckets |-> 0]]
    /\ begun = [t \in Tables |-> [c \in Callers |-> 0]]

Goto(r, place) == pc' = [pc EXCEPT ![r] = place]
Send(r, s) == sent' = [sent EXCEPT ![r] = Append(@, s)]
Respond(r, s) == Goto(r, "respond") /\ status' = [status EXCEPT ![r] = s]

(* _reject.                                                                 *)
RejectSilently(r) == UNCHANGED sent     \* wrong on purpose
Reject(r) == Send(r, "413")

(* guarded_send.                                                            *)
SendAlways(r, s) == Send(r, s)          \* wrong on purpose
GuardedSend(r, s) == IF rejected[r] THEN UNCHANGED sent ELSE Send(r, s)

(* A declared length beyond the limit, or no number, is refused outright.   *)
RefuseDeclared(r) ==
    /\ pc[r] = "new"
    /\ Reject(r) /\ Goto(r, "done")
    /\ UNCHANGED <<setting, origin, consumed, rejected, status, counted, used, begun>>

(* A route that takes no body, or no route, answers without receiving any.  *)
(* What metrics_middleware passes on, /metrics, or never sees, a preflight  *)
(* that CORSMiddleware answers, is not counted.                             *)
ServePage(r) ==
    /\ pc[r] = "new"
    /\ \E s \in Pages : Respond(r, s)
    /\ UNCHANGED <<setting, origin, consumed, rejected, sent, counted, used, begun>>

ServeUncounted(r) ==
    /\ pc[r] = "new" /\ Goto(r, "uncounted")
    /\ \E s \in Uncounted : status' = [status EXCEPT ![r] = s]
    /\ UNCHANGED <<setting, origin, consumed, rejected, sent, counted, used, begun>>

TakeBatch(r) ==
    /\ pc[r] = "new"
    /\ Goto(r, "receiving")
    /\ UNCHANGED <<setting, origin, consumed, rejected, status, sent, counted, used, begun>>

(* limited_receive: the next part of the body, of n units.  Past the limit  *)
(* the client is sent a 413 and the application a disconnect, which it      *)
(* takes for a body that cannot be parsed.                                  *)
OverByTwo(n) == n > BodyLimit + 1       \* wrong on purpose
Over(n) == n > BodyLimit
Receive(r, n, last) ==
    /\ pc[r] = "receiving"
    /\ consumed' = [consumed EXCEPT ![r] = @ + n]
    /\ IF Over(consumed[r] + n)
       THEN /\ rejected' = [rejected EXCEPT ![r] = TRUE]
            /\ Reject(r) /\ Respond(r, "400")
       ELSE /\ Goto(r, IF last THEN "received" ELSE "receiving")
            /\ UNCHANGED <<rejected, status, sent>>
    /\ UNCHANGED <<setting, origin, counted, used, begun>>

Disconnect(r) ==
    /\ pc[r] = "receiving"
    /\ Respond(r, "400")
    /\ UNCHANGED <<setting, origin, consumed, rejected, sent, counted, used, begun>>

(* A body that is no text, or no JSON, is refused before the dependencies   *)
(* are asked, one that is no ReconciliationRequest after them.              *)
Parse(r) ==
    /\ pc[r] = "received"
    /\ \/ \E s \in {"400", "422"} : Respond(r, s)
       \/ Goto(r, "parsed") /\ UNCHANGED status
    /\ UNCHANGED <<setting, origin, consumed, rejected, sent, counted, used, begun>>

(* require_public_access_opt_in, then validation.                           *)
AsOpen == TRUE                          \* wrong on purpose
Open == setting.open
Admit(r) ==
    /\ pc[r] = "parsed"
    /\ \/ ~Open /\ Respond(r, "503")
       \/ Open /\ Respond(r, "422")
       \/ Open /\ Goto(r, "admitted") /\ UNCHANGED status
    /\ UNCHANGED <<setting, origin, consumed, rejected, sent, counted, used, begun>>

(* The limiter of the worker that serves the request counts every hit, the  *)
(* refused ones too; the batch begins when the hit is within the limit.     *)
Hit(r, w) ==
    /\ pc[r] = "admitted"
    /\ used' = [used EXCEPT ![Table(w)][Key(r)] = @ + 1]
    /\ IF used'[Table(w)][Key(r)] <= RateLimit
       THEN /\ begun' = [t \in Tables |->
                           IF t \in {Service, w}
                           THEN [begun[t] EXCEPT ![origin[r].caller] = @ + 1] ELSE begun[t]]
            /\ Goto(r, "batch") /\ UNCHANGED status
       ELSE Respond(r, "429") /\ UNCHANGED begun
    /\ UNCHANGED <<setting, origin, consumed, rejected, sent, counted>>

LimiterFails(r) ==
    /\ pc[r] = "admitted" /\ setting.redis
    /\ Goto(r, "raised")
    /\ UNCHANGED <<setting, origin, consumed, rejected, status, sent, counted, used, begun>>

BatchEnds(r) ==
    /\ pc[r] = "batch"
    /\ (\E s \in BatchAnswers : Respond(r, s)) \/ (Goto(r, "raised") /\ UNCHANGED status)
    /\ UNCHANGED <<setting, origin, consumed, rejected, sent, counted, used, begun>>

(* metrics_middleware counts a response before it is sent.                  *)
Leave(r) ==
    /\ pc[r] = "respond"
    /\ counted' = [counted EXCEPT ![r] = status[r]]
    /\ GuardedSend(r, status[r]) /\ Goto(r, "done")
    /\ UNCHANGED <<setting, origin, consumed, rejected, status, used, begun>>

LeaveUncounted(r) ==
    /\ pc[r] = "uncounted"
    /\ GuardedSend(r, status[r]) /\ Goto(r, "done")
    /\ UNCHANGED <<setting, origin, consumed, rejected, status, counted, used, begun>>

(* global_exception_handler; the exception passed the metrics by.           *)
Raise(r) ==
    /\ pc[r] = "raised"
    /\ Send(r, "500") /\ Goto(r, "done")
    /\ UNCHANGED <<setting, origin, consumed, rejected, status, counted, used, begun>>

(* The window of a bucket of a table ends; begun is counted anew for the    *)
(* callers whose bucket it is.                                              *)
Bucket(c) == IF setting.edge /\ ~setting.trusted THEN Edge ELSE c
NewWindow(t, k) ==
    /\ used[t][k] > 0
    /\ used' = [used EXCEPT ![t][k] = 0]
    /\ begun' = [begun EXCEPT ![t] = [c \in Callers |-> IF Bucket(c) = k THEN 0 ELSE @[c]]]
    /\ UNCHANGED <<setting, origin, pc, consumed, rejected, status, sent, counted>>

ReceiveAny(r) ==
    \E n \in 0..MaxPart, last \in BOOLEAN : (n > 0 \/ last) /\ Receive(r, n, last)

Arrive(r) == RefuseDeclared(r) \/ ServePage(r) \/ ServeUncounted(r) \/ TakeBatch(r)
Client(r) == ReceiveAny(r) \/ Disconnect(r)
Server(r) ==
    \/ Parse(r) \/ Admit(r) \/ (\E w \in Workers : Hit(r, w)) \/ LimiterFails(r)
    \/ BatchEnds(r) \/ Leave(r) \/ LeaveUncounted(r) \/ Raise(r)

Finished == (\A r \in Requests : pc[r] = "done") /\ UNCHANGED vars

Next ==
    \/ \E r \in Requests : Arrive(r) \/ Client(r) \/ Server(r)
    \/ \E t \in Tables, k \in Buckets : NewWindow(t, k)
    \/ Finished

Spec == Init /\ [][Next]_vars

(* A request the service has taken up is worked on (BatchEnds: discovery    *)
(* and the fetches end), and a client that began a body sends the rest or   *)
(* goes away.                                                               *)
Fairness == \A r \in Requests : WF_vars(Client(r)) /\ WF_vars(Server(r))
FairSpec == Spec /\ Fairness

-----------------------------------------------------------------------------
(* Properties *)

(* Every variable has its type; no more than one part beyond the limit is   *)
(* taken of any body.                                                       *)
TypeOK ==
    /\ setting \in Setting
    /\ origin \in [Requests -> Origins]
    /\ pc \in [Requests -> {"new", "receiving", "received", "parsed", "admitted", "batch",
                            "respond", "uncounted", "raised", "done"}]
    /\ consumed \in [Requests -> 0..BodyLimit + MaxPart]
    /\ rejected \in [Requests -> BOOLEAN]
    /\ status \in [Requests -> Statuses \cup {None}]
    /\ sent \in [Requests -> Seq(Statuses)]
    /\ counted \in [Requests -> Statuses \cup {None}]
    /\ used \in [Tables -> [Buckets -> Nat]]
    /\ begun \in [Tables -> [Callers -> Nat]]

(* A request is answered once: by the application or, when its body runs    *)
(* over the limit, with a 413 in the place of the application's answer.     *)
(* The metrics then count the 400 the client never sees; otherwise they     *)
(* count what is sent.                                                      *)
OneAnswer ==
    \A r \in Requests :
        /\ Len(sent[r]) <= 1
        /\ pc[r] = "done" => sent[r] # <<>>
        /\ rejected[r] => sent[r] = <<"413">>
        /\ counted[r] # None =>
             sent[r] = IF rejected[r] THEN <<"413">> ELSE <<counted[r]>>

(* A batch runs only while access is opted in to, on a whole body within    *)
(* the limit, for a client that has been answered nothing yet.              *)
Admission ==
    \A r \in Requests : pc[r] = "batch" =>
        setting.open /\ consumed[r] <= BodyLimit /\ sent[r] = <<>>

(* In a window no caller begins more batches than the limit, whatever it    *)
(* writes into X-Forwarded-For and whether or not the header is trusted: in *)
(* the whole service when REDIS_URL is set.  Without it the limit is one    *)
(* worker's, and a caller whose requests reach w of them may begin w times  *)
(* as many.                                                                 *)
CallerQuota ==
    \A c \in Callers :
        IF setting.redis THEN begun[Service][c] <= RateLimit
                         ELSE \A w \in Workers : begun[w][c] <= RateLimit

(* A request that is taken up is answered.                                  *)
Answered == \A r \in Requests : pc[r] # "new" ~> sent[r] # <<>>

=============================================================================
