--------------------------- MODULE RequestsProofs ---------------------------
(***************************************************************************)
(* Proofs about Requests: for any number of requests and callers, any      *)
(* limits and any sizes of a body and its parts.                           *)
(***************************************************************************)
EXTENDS Requests, SequenceTheorems, TLAPS

(* How far a request is determines what it was sent and counted as.         *)
Unanswered(r) == status[r] = None /\ sent[r] = <<>> /\ counted[r] = None /\ ~rejected[r]

Progress(r) ==
    /\ pc[r] \in {"new", "receiving", "received", "parsed", "admitted", "batch", "raised"} =>
         Unanswered(r)
    /\ pc[r] \in {"new", "receiving", "received", "parsed", "admitted", "batch"} =>
         consumed[r] <= BodyLimit
    /\ pc[r] \in {"admitted", "batch"} => setting.open
    /\ pc[r] \in {"respond", "uncounted"} =>
         /\ status[r] # None /\ counted[r] = None
         /\ sent[r] = IF rejected[r] THEN <<"413">> ELSE <<>>
    /\ pc[r] = "done" =>
         /\ rejected[r] => sent[r] = <<"413">>
         /\ counted[r] # None => sent[r] = IF rejected[r] THEN <<"413">> ELSE <<counted[r]>>
         /\ \E s \in Statuses : sent[r] = <<s>>

(* A bucket has at least the hits of the batches it let begin, in the one   *)
(* table or in the table of each worker.                                    *)
Kept == IF setting.redis THEN {Service} ELSE Workers
Counts ==
    \A t \in Kept, c \in Callers : begun[t][c] <= used[t][Bucket(c)] /\ begun[t][c] <= RateLimit

IInv == TypeOK /\ (\A r \in Requests : Progress(r)) /\ Counts

-----------------------------------------------------------------------------
LEMMA TypeInit == ASSUME Init PROVE TypeOK
  BY RequestsAssumption DEF Init, TypeOK, Statuses, Buckets, Tables

(* The bucket a request spends is its caller's: what the client claims does *)
(* not matter.                                                              *)
LEMMA KeyIsBucket ==
    ASSUME TypeOK, NEW r \in Requests
    PROVE  Key(r) = Bucket(origin[r].caller) /\ Key(r) \in Buckets /\ origin[r].caller \in Callers
  <1>1. /\ origin[r].caller \in Callers /\ origin[r].claimed \in Seq(Callers \cup {Blank})
        /\ setting.trusted \in BOOLEAN /\ setting.edge \in BOOLEAN
        /\ setting.trusted => setting.edge
    BY RequestsAssumption DEF TypeOK, Setting, Origins
  <1>2. CASE ~setting.trusted
    BY <1>1, <1>2 DEF Key, Peer, Bucket, Buckets
  <1>3. CASE setting.trusted
    <2> DEFINE f == Append(origin[r].claimed, origin[r].caller)
    <2>1. Forwarded(r) = f
      BY <1>1, <1>3 DEF Forwarded
    <2>2. f # <<>> /\ f[Len(f)] = origin[r].caller
      BY <1>1
    <2>3. origin[r].caller # Blank
      BY <1>1, RequestsAssumption
    <2> QED BY <1>1, <1>3, <2>1, <2>2, <2>3 DEF Key, Bucket, Buckets
  <1> QED BY <1>1, <1>2, <1>3

(* A request that a step leaves where it is.                                *)
Rests(q) ==
    /\ pc'[q] = pc[q] /\ consumed'[q] = consumed[q] /\ rejected'[q] = rejected[q]
    /\ status'[q] = status[q] /\ sent'[q] = sent[q] /\ counted'[q] = counted[q]

LEMMA RestingProgress ==
    ASSUME NEW q \in Requests, Progress(q), Rests(q), setting' = setting
    PROVE  Progress(q)'
  BY DEF Progress, Rests, Unanswered

(* Every step keeps the switches, the origins, the buckets' types and the   *)
(* progress of all requests but one; the rest is what it does to that one.  *)
LEMMA OneMoves ==
    ASSUME IInv, NEW r \in Requests, TypeOK', UNCHANGED <<setting, origin>>,
           \A q \in Requests \ {r} : Rests(q), Progress(r)', Counts'
    PROVE  IInv'
  BY RestingProgress DEF IInv

LEMMA CountsKept ==
    ASSUME Counts, UNCHANGED <<setting, used, begun>>
    PROVE  Counts'
  BY DEF Counts, Kept, Bucket

Early == {"new", "receiving", "received", "parsed", "admitted", "batch"}

(* A request that is not answered yet is given its answer.                  *)
LEMMA Responds ==
    ASSUME IInv, NEW r \in Requests, NEW s \in Statuses, pc[r] \in Early, Respond(r, s),
           UNCHANGED <<setting, origin, consumed, rejected, sent, counted>>,
           used' \in [Tables -> [Buckets -> Nat]], begun' \in [Tables -> [Callers -> Nat]], Counts'
    PROVE  IInv'
  <1>1. TypeOK'
    BY DEF IInv, TypeOK, Respond, Goto
  <1>2. \A q \in Requests \ {r} : Rests(q)
    BY DEF IInv, TypeOK, Respond, Goto, Rests
  <1>3. pc'[r] = "respond" /\ status'[r] = s
    BY DEF IInv, TypeOK, Respond, Goto
  <1>4. sent'[r] = <<>> /\ counted'[r] = None /\ ~rejected'[r]
    BY DEF IInv, Progress, Unanswered, Early
  <1>5. Progress(r)'
    BY <1>3, <1>4 DEF Progress, Statuses, None
  <1> QED BY <1>1, <1>2, <1>5, OneMoves

(* Or it gets further on its way, under the conditions of its next place.   *)
LEMMA Advances ==
    ASSUME IInv, NEW r \in Requests, NEW place \in Early \cup {"raised"},
           pc[r] \in Early, Goto(r, place),
           UNCHANGED <<setting, origin, rejected, status, sent, counted>>,
           consumed' \in [Requests -> 0..BodyLimit + MaxPart],
           \A q \in Requests \ {r} : consumed'[q] = consumed[q],
           consumed'[r] <= BodyLimit,
           place \in {"admitted", "batch"} => setting.open,
           used' \in [Tables -> [Buckets -> Nat]], begun' \in [Tables -> [Callers -> Nat]], Counts'
    PROVE  IInv'
  <1>1. TypeOK'
    BY DEF IInv, TypeOK, Goto, Early
  <1>2. \A q \in Requests \ {r} : Rests(q)
    BY DEF IInv, TypeOK, Goto, Rests
  <1>3. pc'[r] = place
    BY DEF IInv, TypeOK, Goto
  <1>4. Unanswered(r)'
    BY DEF IInv, Progress, Unanswered, Early
  <1>5. Progress(r)'
    BY <1>3, <1>4 DEF Progress, Early
  <1> QED BY <1>1, <1>2, <1>5, OneMoves

LEMMA Step ==
    ASSUME IInv, [Next]_vars
    PROVE  IInv'
  <1>t. TypeOK /\ Counts /\ BodyLimit \in Nat /\ MaxPart \in Nat /\ RateLimit \in Nat
    BY RequestsAssumption DEF IInv
  <1>p. ASSUME NEW r \in Requests, pc[r] \in Early PROVE consumed[r] <= BodyLimit
    BY <1>p DEF IInv, Progress, Early
  <1>u. used \in [Tables -> [Buckets -> Nat]] /\ begun \in [Tables -> [Callers -> Nat]]
        /\ consumed \in [Requests -> 0..BodyLimit + MaxPart]
    BY <1>t DEF TypeOK
  <1>1. ASSUME NEW r \in Requests, RefuseDeclared(r) PROVE IInv'
    <2>1. TypeOK'
      BY <1>1, <1>t DEF RefuseDeclared, Reject, Send, Goto, TypeOK, Statuses
    <2>2. \A q \in Requests \ {r} : Rests(q)
      BY <1>1, <1>t DEF RefuseDeclared, Reject, Send, Goto, TypeOK, Rests
    <2>3. Unanswered(r)
      BY <1>1 DEF RefuseDeclared, IInv, Progress
    <2>4. pc'[r] = "done" /\ sent'[r] = <<"413">> /\ counted'[r] = None
      BY <1>1, <1>t, <2>3 DEF RefuseDeclared, Reject, Send, Goto, TypeOK, Unanswered
    <2>5. Progress(r)'
      BY <2>4 DEF Progress, Statuses
    <2>6. Counts'
      BY <1>1, <1>t, CountsKept DEF RefuseDeclared
    <2>7. UNCHANGED <<setting, origin>>
      BY <1>1 DEF RefuseDeclared
    <2> QED BY <2>1, <2>2, <2>5, <2>6, <2>7, OneMoves
  <1>2. ASSUME NEW r \in Requests, ServePage(r) PROVE IInv'
    <2>1. Counts'
      BY <1>2, <1>t, CountsKept DEF ServePage
    <2>2. PICK s \in Pages : Respond(r, s)
      BY <1>2 DEF ServePage
    <2>3. s \in Statuses /\ pc[r] \in Early
      BY <1>2 DEF ServePage, Pages, Statuses, Early
    <2> QED BY <1>2, <1>u, <2>1, <2>2, <2>3, Responds DEF ServePage
  <1>3. ASSUME NEW r \in Requests, ServeUncounted(r) PROVE IInv'
    <2>0. PICK s \in Statuses : status' = [status EXCEPT ![r] = s]
      BY <1>3 DEF ServeUncounted, Uncounted, Statuses
    <2>1. TypeOK'
      BY <1>3, <1>t, <2>0 DEF ServeUncounted, Goto, TypeOK
    <2>2. \A q \in Requests \ {r} : Rests(q)
      BY <1>3, <1>t, <2>0 DEF ServeUncounted, Goto, TypeOK, Rests
    <2>3. Unanswered(r)
      BY <1>3 DEF ServeUncounted, IInv, Progress
    <2>4. /\ pc'[r] = "uncounted" /\ status'[r] = s
          /\ counted'[r] = None /\ sent'[r] = <<>> /\ ~rejected'[r]
      BY <1>3, <1>t, <2>0, <2>3 DEF ServeUncounted, Goto, TypeOK, Unanswered
    <2>5. Progress(r)'
      BY <2>4 DEF Progress, Statuses, None
    <2>6. Counts' /\ UNCHANGED <<setting, origin>>
      BY <1>3, <1>t, CountsKept DEF ServeUncounted
    <2> QED BY <2>1, <2>2, <2>5, <2>6, OneMoves
  <1>4. ASSUME NEW r \in Requests, TakeBatch(r) PROVE IInv'
    <2>1. Counts'
      BY <1>4, <1>t, CountsKept DEF TakeBatch
    <2>2. pc[r] \in Early /\ "receiving" \in Early
      BY <1>4 DEF TakeBatch, Early
    <2> QED BY <1>4, <1>p, <1>u, <2>1, <2>2, Advances DEF TakeBatch
  <1>5. ASSUME NEW r \in Requests, NEW n \in 0..MaxPart, NEW last \in BOOLEAN, Receive(r, n, last)
        PROVE  IInv'
    <2>1. Counts' /\ UNCHANGED <<setting, origin>>
      BY <1>5, <1>t, CountsKept DEF Receive
    <2>2. pc[r] \in Early
      BY <1>5 DEF Receive, Early
    <2>3. consumed[r] \in Nat /\ consumed[r] <= BodyLimit
      BY <1>p, <1>u, <1>t, <2>2
    <2>4. /\ consumed' \in [Requests -> 0..BodyLimit + MaxPart]
          /\ consumed'[r] = consumed[r] + n
          /\ \A q \in Requests \ {r} : consumed'[q] = consumed[q]
      BY <1>5, <1>t, <1>u, <2>3 DEF Receive
    <2>5. CASE Over(consumed[r] + n)
      <3>1. rejected' = [rejected EXCEPT ![r] = TRUE] /\ Reject(r) /\ Respond(r, "400")
        BY <1>5, <2>5 DEF Receive
      <3>2. TypeOK'
        BY <1>5, <1>t, <2>4, <3>1 DEF Receive, Reject, Send, Respond, Goto, TypeOK, Statuses
      <3>3. \A q \in Requests \ {r} : Rests(q)
        BY <1>5, <1>t, <2>4, <3>1 DEF Receive, Reject, Send, Respond, Goto, TypeOK, Rests
      <3>4. Unanswered(r)
        BY <1>5 DEF Receive, IInv, Progress
      <3>5. /\ pc'[r] = "respond" /\ status'[r] = "400" /\ rejected'[r]
            /\ sent'[r] = <<"413">> /\ counted'[r] = None
        BY <1>5, <1>t, <3>1, <3>4 DEF Receive, Reject, Send, Respond, Goto, TypeOK, Unanswered
      <3>6. Progress(r)'
        BY <3>5 DEF Progress, None
      <3> QED BY <2>1, <3>2, <3>3, <3>6, OneMoves
    <2>6. CASE ~Over(consumed[r] + n)
      <3> DEFINE place == IF last THEN "received" ELSE "receiving"
      <3>1. place \in Early /\ place \notin {"admitted", "batch"}
        BY DEF Early
      <3>2. consumed'[r] <= BodyLimit
        BY <2>3, <2>4, <2>6, <1>t DEF Over
      <3>3. Goto(r, place) /\ UNCHANGED <<setting, origin, rejected, status, sent, counted, used, begun>>
        BY <1>5, <2>6 DEF Receive
      <3> HIDE DEF place
      <3> QED BY <1>u, <2>1, <2>2, <2>4, <3>1, <3>2, <3>3, Advances
    <2> QED BY <2>5, <2>6
  <1>6. ASSUME NEW r \in Requests, Disconnect(r) PROVE IInv'
    <2>1. Counts'
      BY <1>6, <1>t, CountsKept DEF Disconnect
    <2>2. "400" \in Statuses /\ pc[r] \in Early
      BY <1>6 DEF Disconnect, Statuses, Early
    <2> QED BY <1>6, <1>u, <2>1, <2>2, Responds DEF Disconnect
  <1>7. ASSUME NEW r \in Requests, Parse(r) PROVE IInv'
    <2>1. Counts'
      BY <1>7, <1>t, CountsKept DEF Parse
    <2>2. {"400", "422"} \subseteq Statuses /\ pc[r] \in Early /\ "parsed" \in Early
      BY <1>7 DEF Parse, Statuses, Early
    <2>3. ASSUME NEW s \in {"400", "422"}, Respond(r, s) PROVE IInv'
      BY <1>7, <1>u, <2>1, <2>2, <2>3, Responds DEF Parse
    <2>4. CASE Goto(r, "parsed") /\ UNCHANGED status
      BY <1>7, <1>p, <1>u, <2>1, <2>2, <2>4, Advances DEF Parse
    <2> QED BY <1>7, <2>3, <2>4 DEF Parse
  <1>8. ASSUME NEW r \in Requests, Admit(r) PROVE IInv'
    <2>1. Counts'
      BY <1>8, <1>t, CountsKept DEF Admit
    <2>2. "422" \in Statuses /\ "503" \in Statuses /\ pc[r] \in Early /\ "admitted" \in Early
      BY <1>8 DEF Admit, Statuses, Early
    <2>3. CASE Respond(r, "503") \/ Respond(r, "422")
      BY <1>8, <1>u, <2>1, <2>2, <2>3, Responds DEF Admit
    <2>4. CASE Open /\ Goto(r, "admitted") /\ UNCHANGED status
      BY <1>8, <1>p, <1>u, <2>1, <2>2, <2>4, Advances DEF Admit, Open
    <2> QED BY <1>8, <2>3, <2>4 DEF Admit
  <1>9. ASSUME NEW r \in Requests, NEW w \in Workers, Hit(r, w) PROVE IInv'
    <2> DEFINE c == origin[r].caller
    <2> DEFINE k == Key(r)
    <2> DEFINE h == Table(w)
    <2>1. k = Bucket(c) /\ k \in Buckets /\ c \in Callers
      BY <1>t, KeyIsBucket
    <2>2. /\ h \in Tables /\ Kept \subseteq Tables /\ Kept' = Kept
          /\ \A t \in Kept : t \in {Service, w} <=> t = h
      BY <1>9, RequestsAssumption DEF Kept, Table, Tables, Hit
    <2>3. /\ used' = [used EXCEPT ![h][k] = @ + 1]
          /\ IF used'[h][k] <= RateLimit
             THEN /\ begun' = [t \in Tables |->
                                 IF t \in {Service, w} THEN [begun[t] EXCEPT ![c] = @ + 1]
                                                       ELSE begun[t]]
                  /\ Goto(r, "batch") /\ UNCHANGED status
             ELSE Respond(r, "429") /\ UNCHANGED begun
      BY <1>9 DEF Hit
    <2>4. pc[r] \in Early /\ "batch" \in Early /\ "429" \in Statuses /\ setting.open
      BY <1>9 DEF Hit, Early, Statuses, IInv, Progress
    <2>5. \A d \in Callers : Bucket(d) \in Buckets /\ Bucket(d)' = Bucket(d)
      BY <1>9 DEF Bucket, Buckets, Hit
    <2>6. UNCHANGED <<setting, origin, consumed, rejected, sent, counted>>
      BY <1>9 DEF Hit
    <2> HIDE DEF c, k, h
    <2>7. used' \in [Tables -> [Buckets -> Nat]]
      BY <1>u, <2>1, <2>2, <2>3
    <2>8. ASSUME NEW t \in Kept, NEW d \in Callers
          PROVE  /\ begun[t][d] \in Nat /\ used[t][Bucket(d)] \in Nat
                 /\ begun[t][d] <= used[t][Bucket(d)] /\ begun[t][d] <= RateLimit
                 /\ used'[t][Bucket(d)] =
                      IF t = h /\ Bucket(d) = k THEN used[t][Bucket(d)] + 1 ELSE used[t][Bucket(d)]
      <3>1. t \in Tables /\ Bucket(d) \in Buckets
        BY <2>2, <2>5
      <3>2. begun[t][d] \in Nat /\ used[t][Bucket(d)] \in Nat
        BY <1>u, <3>1
      <3>3. begun[t][d] <= used[t][Bucket(d)] /\ begun[t][d] <= RateLimit
        BY <1>t DEF Counts
      <3>4. used'[t][Bucket(d)] =
              IF t = h /\ Bucket(d) = k THEN used[t][Bucket(d)] + 1 ELSE used[t][Bucket(d)]
        BY <1>u, <2>1, <2>2, <2>3, <3>1
      <3> QED BY <3>2, <3>3, <3>4
    <2>9. CASE used'[h][k] <= RateLimit
      <3>1. begun' = [t \in Tables |->
                        IF t \in {Service, w} THEN [begun[t] EXCEPT ![c] = @ + 1] ELSE begun[t]]
        BY <2>3, <2>9
      <3>2. begun' \in [Tables -> [Callers -> Nat]]
        BY <1>u, <2>1, <3>1
      <3>3. Counts'
        <4> SUFFICES ASSUME NEW t \in Kept, NEW d \in Callers
                     PROVE  begun'[t][d] <= used'[t][Bucket(d)] /\ begun'[t][d] <= RateLimit
          BY <2>2, <2>5 DEF Counts
        <4>1. begun'[t][d] = IF t = h /\ d = c THEN begun[t][d] + 1 ELSE begun[t][d]
          BY <1>u, <2>1, <2>2, <3>1
        <4>2. CASE t = h /\ d = c
          BY <1>t, <2>1, <2>8, <2>9, <4>1, <4>2
        <4>3. CASE ~(t = h /\ d = c)
          BY <1>t, <2>8, <4>1, <4>3
        <4> QED BY <4>2, <4>3
      <3>4. Goto(r, "batch") /\ UNCHANGED status
        BY <2>3, <2>9
      <3> QED BY <1>p, <1>u, <2>4, <2>6, <2>7, <3>2, <3>3, <3>4, Advances
    <2>10. CASE ~(used'[h][k] <= RateLimit)
      <3>1. begun' = begun /\ Respond(r, "429")
        BY <2>3, <2>10
      <3>2. Counts'
        <4> SUFFICES ASSUME NEW t \in Kept, NEW d \in Callers
                     PROVE  begun[t][d] <= used'[t][Bucket(d)] /\ begun[t][d] <= RateLimit
          BY <2>2, <2>5, <3>1 DEF Counts
        <4> QED BY <2>8
      <3> QED BY <1>u, <2>4, <2>6, <2>7, <3>1, <3>2, Responds
    <2> QED BY <2>9, <2>10
  <1>10. ASSUME NEW r \in Requests, LimiterFails(r) PROVE IInv'
    <2>1. Counts'
      BY <1>10, <1>t, CountsKept DEF LimiterFails
    <2>2. pc[r] \in Early
      BY <1>10 DEF LimiterFails, Early
    <2> QED BY <1>10, <1>p, <1>u, <2>1, <2>2, Advances DEF LimiterFails
  <1>11. ASSUME NEW r \in Requests, BatchEnds(r) PROVE IInv'
    <2>1. Counts'
      BY <1>11, <1>t, CountsKept DEF BatchEnds
    <2>2. pc[r] \in Early /\ BatchAnswers \subseteq Statuses
      BY <1>11, RequestsAssumption DEF BatchEnds, Early, Statuses
    <2>3. ASSUME NEW s \in BatchAnswers, Respond(r, s) PROVE IInv'
      BY <1>11, <1>u, <2>1, <2>2, <2>3, Responds DEF BatchEnds
    <2>4. CASE Goto(r, "raised") /\ UNCHANGED status
      BY <1>11, <1>p, <1>u, <2>1, <2>2, <2>4, Advances DEF BatchEnds
    <2> QED BY <1>11, <2>3, <2>4 DEF BatchEnds
  <1>12. ASSUME NEW r \in Requests, Leave(r) \/ LeaveUncounted(r) PROVE IInv'
    <2>1. status[r] \in Statuses /\ counted[r] = None
          /\ sent[r] = IF rejected[r] THEN <<"413">> ELSE <<>>
      BY <1>12, <1>t DEF Leave, LeaveUncounted, IInv, Progress, TypeOK
    <2>2. TypeOK'
      <3>1. sent' \in [Requests -> Seq(Statuses)]
        <4>1. CASE rejected[r]
          BY <1>12, <1>t, <4>1 DEF Leave, LeaveUncounted, GuardedSend, TypeOK
        <4>2. CASE ~rejected[r]
          <5>1. sent' = [sent EXCEPT ![r] = Append(sent[r], status[r])]
            BY <1>12, <4>2 DEF Leave, LeaveUncounted, GuardedSend, Send
          <5>2. sent \in [Requests -> Seq(Statuses)]
            BY <1>t DEF TypeOK
          <5>3. Append(sent[r], status[r]) \in Seq(Statuses)
            <6>1. sent[r] \in Seq(Statuses) /\ status[r] \in Statuses
              BY <2>1, <5>2
            <6> QED BY <6>1, AppendProperties
          <5> QED BY <5>1, <5>2, <5>3
        <4> QED BY <4>1, <4>2
      <3>2. counted' \in [Requests -> Statuses \cup {None}]
        BY <1>12, <1>t, <2>1 DEF Leave, LeaveUncounted, TypeOK
      <3>3. pc' = [pc EXCEPT ![r] = "done"]
            /\ UNCHANGED <<setting, origin, consumed, rejected, status, used, begun>>
        BY <1>12 DEF Leave, LeaveUncounted, Goto
      <3> QED BY <1>t, <3>1, <3>2, <3>3 DEF TypeOK
    <2>3. \A q \in Requests \ {r} : Rests(q)
      BY <1>12, <1>t DEF Leave, LeaveUncounted, GuardedSend, Send, Goto, TypeOK, Rests
    <2>4. /\ pc'[r] = "done" /\ rejected'[r] = rejected[r] /\ rejected[r] \in BOOLEAN
          /\ counted'[r] \in {None, status[r]}
          /\ sent'[r] = IF rejected[r] THEN <<"413">> ELSE <<status[r]>>
      BY <1>12, <1>t, <2>1 DEF Leave, LeaveUncounted, GuardedSend, Send, Goto, TypeOK
    <2>5. Progress(r)'
      BY <2>1, <2>4 DEF Progress, Statuses, None
    <2>6. Counts' /\ UNCHANGED <<setting, origin>>
      BY <1>12, <1>t, CountsKept DEF Leave, LeaveUncounted
    <2> QED BY <2>2, <2>3, <2>5, <2>6, OneMoves
  <1>13. ASSUME NEW r \in Requests, Raise(r) PROVE IInv'
    <2>1. Unanswered(r)
      BY <1>13 DEF Raise, IInv, Progress
    <2>2. TypeOK'
      BY <1>13, <1>t DEF Raise, Send, Goto, TypeOK, Statuses
    <2>3. \A q \in Requests \ {r} : Rests(q)
      BY <1>13, <1>t DEF Raise, Send, Goto, TypeOK, Rests
    <2>4. pc'[r] = "done" /\ sent'[r] = <<"500">> /\ counted'[r] = None /\ ~rejected'[r]
      BY <1>13, <1>t, <2>1 DEF Raise, Send, Goto, TypeOK, Unanswered
    <2>5. Progress(r)'
      BY <2>4 DEF Progress, Statuses
    <2>6. Counts' /\ UNCHANGED <<setting, origin>>
      BY <1>13, <1>t, CountsKept DEF Raise
    <2> QED BY <2>2, <2>3, <2>5, <2>6, OneMoves
  <1>14. ASSUME NEW t \in Tables, NEW k \in Buckets, NewWindow(t, k) PROVE IInv'
    <2>1. /\ used' = [used EXCEPT ![t][k] = 0] /\ UNCHANGED setting
          /\ begun' = [begun EXCEPT ![t] = [c \in Callers |->
                                              IF Bucket(c) = k THEN 0 ELSE begun[t][c]]]
      BY <1>14, <1>u DEF NewWindow
    <2>2. used' \in [Tables -> [Buckets -> Nat]] /\ begun' \in [Tables -> [Callers -> Nat]]
      BY <1>u, <2>1
    <2>3. TypeOK'
      BY <1>14, <1>t, <2>2 DEF NewWindow, TypeOK
    <2>4. \A q \in Requests : Progress(q)'
      BY <1>14, RestingProgress DEF NewWindow, Rests, IInv
    <2>5. Counts'
      <3>1. Kept' = Kept /\ Kept \subseteq Tables /\ \A d \in Callers : Bucket(d)' = Bucket(d)
        BY <2>1 DEF Kept, Tables, Bucket
      <3> SUFFICES ASSUME NEW v \in Kept, NEW d \in Callers
                   PROVE  begun'[v][d] <= used'[v][Bucket(d)] /\ begun'[v][d] <= RateLimit
        BY <3>1 DEF Counts
      <3>2. v \in Tables /\ Bucket(d) \in Buckets
        BY <3>1 DEF Bucket, Buckets
      <3>3. /\ begun[v][d] \in Nat /\ used[v][Bucket(d)] \in Nat
            /\ begun[v][d] <= used[v][Bucket(d)] /\ begun[v][d] <= RateLimit
        BY <1>t, <1>u, <3>2 DEF Counts
      <3>4. begun'[v][d] = IF v = t /\ Bucket(d) = k THEN 0 ELSE begun[v][d]
        BY <1>u, <2>1, <3>2
      <3>5. used'[v][Bucket(d)] = IF v = t /\ Bucket(d) = k THEN 0 ELSE used[v][Bucket(d)]
        BY <1>u, <2>1, <3>2
      <3> QED BY <1>t, <3>3, <3>4, <3>5
    <2> QED BY <2>3, <2>4, <2>5 DEF IInv
  <1>15. CASE UNCHANGED vars
    <2>1. TypeOK'
      BY <1>15, <1>t DEF vars, TypeOK
    <2>2. \A q \in Requests : Progress(q)'
      BY <1>15, RestingProgress DEF vars, Rests, IInv
    <2>3. Counts'
      BY <1>15, <1>t, CountsKept DEF vars
    <2> QED BY <2>1, <2>2, <2>3 DEF IInv
  <1>16. CASE \E r \in Requests : Arrive(r)
    BY <1>16, <1>1, <1>2, <1>3, <1>4 DEF Arrive
  <1>17. CASE \E r \in Requests : Client(r)
    BY <1>17, <1>5, <1>6 DEF Client, ReceiveAny
  <1>18. CASE \E r \in Requests : Server(r)
    BY <1>18, <1>7, <1>8, <1>9, <1>10, <1>11, <1>12, <1>13 DEF Server
  <1> QED BY <1>14, <1>15, <1>16, <1>17, <1>18 DEF Next, Finished

LEMMA Start == Init => IInv
  <1> SUFFICES ASSUME Init PROVE IInv
    OBVIOUS
  <1>1. TypeOK
    BY TypeInit
  <1>2. ASSUME NEW r \in Requests PROVE Progress(r)
    <2>1. pc[r] = "new" /\ Unanswered(r) /\ consumed[r] = 0
      BY DEF Init, Unanswered
    <2>2. consumed[r] <= BodyLimit
      BY <2>1, RequestsAssumption
    <2> QED BY <2>1, <2>2 DEF Progress
  <1>3. Counts
    BY RequestsAssumption DEF Init, Counts, Kept, Tables, Bucket, Buckets
  <1> QED BY <1>1, <1>2, <1>3 DEF IInv

LEMMA Invariant == Spec => []IInv
  <1>1. IInv /\ [Next]_vars => IInv'
    BY Step
  <1> QED BY Start, <1>1, PTL DEF Spec

(* Every variable keeps its type, and of no body more than one part beyond  *)
(* the limit is taken.                                                      *)
THEOREM TypeCorrect == Spec => []TypeOK
  <1>1. IInv => TypeOK
    BY DEF IInv
  <1> QED BY Invariant, <1>1, PTL

(* A request is answered once, with the application's answer or the 413.    *)
THEOREM AnsweredOnce == Spec => []OneAnswer
  <1>1. IInv => OneAnswer
    <2> SUFFICES ASSUME IInv, NEW r \in Requests
                 PROVE  /\ Len(sent[r]) <= 1
                        /\ pc[r] = "done" => sent[r] # <<>>
                        /\ rejected[r] => sent[r] = <<"413">>
                        /\ counted[r] # None =>
                             sent[r] = IF rejected[r] THEN <<"413">> ELSE <<counted[r]>>
      BY DEF OneAnswer
    <2>1. Progress(r) /\ pc[r] \in {"new", "receiving", "received", "parsed", "admitted", "batch",
                                    "respond", "uncounted", "raised", "done"}
      BY DEF IInv, TypeOK
    <2>2. CASE pc[r] \in Early \cup {"raised"}
      BY <2>1, <2>2 DEF Progress, Unanswered, Early
    <2>3. CASE pc[r] \in {"respond", "uncounted"}
      <3>1. counted[r] = None /\ sent[r] = IF rejected[r] THEN <<"413">> ELSE <<>>
        BY <2>1, <2>3 DEF Progress
      <3>2. sent[r] = <<>> \/ sent[r] = <<"413">>
        BY <3>1
      <3> QED BY <2>3, <3>1, <3>2
    <2>4. CASE pc[r] = "done"
      <3>1. /\ rejected[r] => sent[r] = <<"413">>
            /\ counted[r] # None => sent[r] = IF rejected[r] THEN <<"413">> ELSE <<counted[r]>>
        BY <2>1, <2>4 DEF Progress
      <3>2. PICK s \in Statuses : sent[r] = <<s>>
        BY <2>1, <2>4 DEF Progress
      <3>3. Len(sent[r]) = 1 /\ sent[r] # <<>>
        BY <3>2
      <3> QED BY <3>1, <3>3
    <2> QED BY <2>1, <2>2, <2>3, <2>4 DEF Early
  <1> QED BY Invariant, <1>1, PTL

(* A batch runs only with access opted in to and on a whole body.           *)
THEOREM OnlyAdmitted == Spec => []Admission
  <1>1. IInv => Admission
    BY DEF IInv, Admission, Progress, Unanswered
  <1> QED BY Invariant, <1>1, PTL

(* No caller begins more batches in a window than the limit: in the service *)
(* with Redis, in each worker without.                                      *)
THEOREM QuotaHolds == Spec => []CallerQuota
  <1>1. IInv => CallerQuota
    BY DEF IInv, CallerQuota, Counts, Kept
  <1> QED BY Invariant, <1>1, PTL

-----------------------------------------------------------------------------
(* Why requests end: every step of a request uses up some of a budget it    *)
(* starts with, and no step of another adds to it.                          *)

(* The steps request r can still take.  A part of a body that does not end  *)
(* it carries something, so at most BodyLimit parts come before the last.   *)
Stage(r) ==
    CASE pc[r] = "new" -> BodyLimit + 8
      [] pc[r] = "receiving" -> BodyLimit - consumed[r] + 7
      [] pc[r] = "received" -> 6
      [] pc[r] = "parsed" -> 5
      [] pc[r] = "admitted" -> 4
      [] pc[r] = "batch" -> 3
      [] pc[r] = "respond" -> 2
      [] pc[r] \in {"uncounted", "raised"} -> 1
      [] OTHER -> 0

Takes(r) == Arrive(r) \/ Client(r) \/ Server(r)

LEMMA StageOf ==
    ASSUME NEW r
    PROVE  /\ pc[r] = "new" => Stage(r) = BodyLimit + 8
           /\ pc[r] = "receiving" => Stage(r) = BodyLimit - consumed[r] + 7
           /\ pc[r] = "received" => Stage(r) = 6
           /\ pc[r] = "parsed" => Stage(r) = 5
           /\ pc[r] = "admitted" => Stage(r) = 4
           /\ pc[r] = "batch" => Stage(r) = 3
           /\ pc[r] = "respond" => Stage(r) = 2
           /\ pc[r] \in {"uncounted", "raised"} => Stage(r) = 1
           /\ pc[r] = "done" => Stage(r) = 0
  BY DEF Stage

LEMMA StageAfter ==
    ASSUME NEW r
    PROVE  /\ pc'[r] = "receiving" => Stage(r)' = BodyLimit - consumed'[r] + 7
           /\ pc'[r] = "received" => Stage(r)' = 6
           /\ pc'[r] = "parsed" => Stage(r)' = 5
           /\ pc'[r] = "admitted" => Stage(r)' = 4
           /\ pc'[r] = "batch" => Stage(r)' = 3
           /\ pc'[r] = "respond" => Stage(r)' = 2
           /\ pc'[r] \in {"uncounted", "raised"} => Stage(r)' = 1
           /\ pc'[r] = "done" => Stage(r)' = 0
  BY DEF Stage

LEMMA StageType ==
    ASSUME IInv, NEW r \in Requests
    PROVE  Stage(r) \in 0..BodyLimit + 8 /\ (Stage(r) = 0 <=> pc[r] = "done")
  <1>1. BodyLimit \in Nat /\ consumed[r] \in Nat
    BY RequestsAssumption DEF IInv, TypeOK
  <1>2. pc[r] = "receiving" => consumed[r] <= BodyLimit
    BY DEF IInv, Progress
  <1>3. pc[r] \in {"new", "receiving", "received", "parsed", "admitted", "batch",
                   "respond", "uncounted", "raised", "done"}
    BY DEF IInv, TypeOK
  <1> QED BY <1>1, <1>2, <1>3, StageOf

(* Where a step of a request takes it.                                      *)
Onward(r) ==
    \/ pc[r] = "new" /\ pc'[r] \in {"done", "respond", "uncounted"}
    \/ pc[r] = "new" /\ pc'[r] = "receiving" /\ consumed'[r] = consumed[r]
    \/ pc[r] = "receiving" /\ pc'[r] \in {"received", "respond"}
    \/ pc[r] = "receiving" /\ pc'[r] = "receiving" /\ consumed'[r] > consumed[r]
    \/ pc[r] = "received" /\ pc'[r] \in {"respond", "parsed"}
    \/ pc[r] = "parsed" /\ pc'[r] \in {"respond", "admitted"}
    \/ pc[r] = "admitted" /\ pc'[r] \in {"batch", "respond", "raised"}
    \/ pc[r] = "batch" /\ pc'[r] \in {"respond", "raised"}
    \/ pc[r] \in {"respond", "uncounted", "raised"} /\ pc'[r] = "done"

LEMMA TakesOnward ==
    ASSUME IInv, NEW r \in Requests, Takes(r)
    PROVE  /\ Onward(r)
           /\ \A q \in Requests \ {r} : pc'[q] = pc[q] /\ consumed'[q] = consumed[q]
  <1>1. /\ pc \in [Requests -> {"new", "receiving", "received", "parsed", "admitted", "batch",
                                "respond", "uncounted", "raised", "done"}]
        /\ consumed \in [Requests -> Nat]
    BY RequestsAssumption DEF IInv, TypeOK
  <1>2. CASE Arrive(r)
    BY <1>1, <1>2
    DEF Arrive, RefuseDeclared, ServePage, ServeUncounted, TakeBatch, Respond, Goto, Onward
  <1>3. CASE ReceiveAny(r)
    <2>1. PICK n \in 0..MaxPart, last \in BOOLEAN : (n > 0 \/ last) /\ Receive(r, n, last)
      BY <1>3 DEF ReceiveAny
    <2>2. /\ pc[r] = "receiving" /\ consumed[r] \in Nat /\ n \in Nat
          /\ consumed'[r] = consumed[r] + n
          /\ \A q \in Requests \ {r} : consumed'[q] = consumed[q]
      BY <1>1, <2>1, RequestsAssumption DEF Receive
    <2>3. \/ pc' = [pc EXCEPT ![r] = "respond"]
          \/ pc' = [pc EXCEPT ![r] = IF last THEN "received" ELSE "receiving"]
      BY <2>1 DEF Receive, Respond, Goto
    <2> QED BY <1>1, <2>1, <2>2, <2>3 DEF Onward
  <1>4. CASE Disconnect(r)
    BY <1>1, <1>4 DEF Disconnect, Respond, Goto, Onward
  <1>5. CASE Server(r)
    BY <1>1, <1>5
    DEF Server, Parse, Admit, Hit, LimiterFails, BatchEnds, Leave, LeaveUncounted, Raise,
        Respond, Goto, Onward
  <1> QED BY <1>2, <1>3, <1>4, <1>5 DEF Takes, Client

LEMMA OnwardCosts ==
    ASSUME IInv, IInv', NEW r \in Requests, Onward(r)
    PROVE  Stage(r)' \in Nat /\ Stage(r)' < Stage(r)
  <1>1. BodyLimit \in Nat /\ consumed[r] \in Nat /\ consumed'[r] \in Nat
    BY RequestsAssumption DEF IInv, TypeOK
  <1>2. /\ pc[r] = "receiving" => consumed[r] <= BodyLimit
        /\ pc'[r] = "receiving" => consumed'[r] <= BodyLimit
    BY DEF IInv, Progress
  <1> QED BY <1>1, <1>2, StageOf, StageAfter DEF Onward

(* The budget of a request is finite, and used up exactly when it is done.  *)
THEOREM BudgetIsBounded ==
    Spec => [](\A r \in Requests : Stage(r) \in 0..BodyLimit + 8 /\ (Stage(r) = 0 <=> pc[r] = "done"))
  <1>1. IInv => \A r \in Requests : Stage(r) \in 0..BodyLimit + 8 /\ (Stage(r) = 0 <=> pc[r] = "done")
    BY StageType
  <1> QED BY Invariant, <1>1, PTL

(* Whatever a request does, of itself or of its client, lowers its budget,  *)
(* and nothing raises it: no layer of the application can be passed twice.  *)
THEOREM StepsAreSpent ==
    Spec => [][\A r \in Requests : Stage(r)' <= Stage(r) /\ (Takes(r) => Stage(r)' < Stage(r))]_vars
  <1>1. ASSUME IInv, IInv', Next
        PROVE  \A r \in Requests : Stage(r)' <= Stage(r) /\ (Takes(r) => Stage(r)' < Stage(r))
    <2> SUFFICES ASSUME NEW r \in Requests
                 PROVE  Stage(r)' <= Stage(r) /\ (Takes(r) => Stage(r)' < Stage(r))
      OBVIOUS
    <2>1. Takes(r) => Stage(r)' \in Nat /\ Stage(r)' < Stage(r)
      BY <1>1, TakesOnward, OnwardCosts
    <2>2. Stage(r) \in Nat
      BY <1>1, StageType, RequestsAssumption
    <2>3. pc'[r] = pc[r] /\ consumed'[r] = consumed[r] => Stage(r)' = Stage(r)
      BY DEF Stage
    <2>4. ~Takes(r) => pc'[r] = pc[r] /\ consumed'[r] = consumed[r]
      <3>1. ASSUME NEW q \in Requests, Takes(q), ~Takes(r)
            PROVE  pc'[r] = pc[r] /\ consumed'[r] = consumed[r]
        BY <1>1, <3>1, TakesOnward
      <3>2. ASSUME NEW t \in Tables, NEW k \in Buckets, NewWindow(t, k)
            PROVE  pc'[r] = pc[r] /\ consumed'[r] = consumed[r]
        BY <3>2 DEF NewWindow
      <3>3. Finished => pc'[r] = pc[r] /\ consumed'[r] = consumed[r]
        BY DEF Finished, vars
      <3> QED BY <1>1, <3>1, <3>2, <3>3 DEF Next, Takes
    <2> QED BY <2>1, <2>2, <2>3, <2>4
  <1> QED BY Invariant, <1>1, PTL DEF Spec

=============================================================================
