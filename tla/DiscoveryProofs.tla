-------------------------- MODULE DiscoveryProofs --------------------------
(***************************************************************************)
(* Theorems about Discovery, for any names and case folding, any number of *)
(* lines, any limit on queries and chunks of any width.                    *)
(***************************************************************************)
EXTENDS Discovery, FiniteSetTheorems, TLAPS

-----------------------------------------------------------------------------
(* The inductive invariant *)

(* Tasks were made for the first queries of the level.                      *)
Sends == \A i \in Queries : answer[i] = Unsent <=> i > sent

(* What was read was an answer, and the candidates are what it named.       *)
Reads ==
    /\ \A i \in read : answer[i].kind \in {"found", "failed", "cancelled"}
    /\ candidates = UNION {answer[i].who : i \in read}

(* Queries are dropped only after the reading of their chunk was broken off.*)
Drops == pc = "reading" => \A i \in Queries : answer[i] # Dropped

(* A failure that was read is what is raised.                               *)
Raises ==
    IF raising = "nothing" THEN \A i \in read : answer[i].kind = "found"
    ELSE pc \in {"draining", "done"} /\ \E i \in read : answer[i].kind = raising

(* A chunk is read to its end, but for a failure or a second customer.      *)
Chunks ==
    /\ pc \in {"start", "receipt", "name"} => sent = 0 /\ read = {}
    /\ pc \in {"level", "draining"} =>
         raising # "nothing" \/ Several(candidates) \/ read = 1..sent

(* The receipt report was asked, and no line.                               *)
NoLineAsked == (referred \/ named # None) /\ level = 1 /\ sent = 0

Closes ==
    /\ pc # "done" => outcome = Open
    /\ outcome.kind = "invoices" =>
         read = Queries /\ raising = "nothing" /\ candidates = {outcome.name}
    /\ outcome.kind = "cancelled" => raising = "cancelled" \/ NoLineAsked

(* Step 1 is taken only with a reference to look for and step 2 only with a *)
(* name to test, both before any line is asked for; and lines are asked for *)
(* only when there are few enough.                                          *)
Named ==
    /\ pc = "receipt" => referred
    /\ pc = "name" => named # None
    /\ pc \in {"start", "receipt", "name"} => level = 1
    /\ sent > 0 => numbered <= MaxQueries

IInv == TypeOK /\ NoStrayQuery /\ Sends /\ Reads /\ Drops /\ Raises /\ Chunks /\ Closes /\ Named

-----------------------------------------------------------------------------
(* An answer is known by its kind, unless it names customers.               *)
LEMMA AnswerFacts ==
    ASSUME NEW a \in Answers
    PROVE  /\ a.kind \in {"found", "unsent", "asked", "failed", "cancelled", "dropped"}
           /\ a.who \in SUBSET Names
           /\ a.kind = "asked" <=> a = Asked
           /\ a.kind = "unsent" <=> a = Unsent
           /\ a.kind = "dropped" <=> a = Dropped
           /\ a.kind = "cancelled" <=> a = Cancelled
<1>1. CASE \E names \in SUBSET Names : a = Found(names)
  BY <1>1 DEF Found, Answer, Asked, Unsent, Dropped, Cancelled
<1>2. CASE a \in {Unsent, Asked, Failed, Cancelled, Dropped}
  BY <1>2 DEF Answer, Asked, Unsent, Dropped, Cancelled, Failed
<1> QED BY <1>1, <1>2 DEF Answers

LEMMA Numbers ==
    ASSUME TypeOK
    PROVE  numbered \in Nat /\ sent \in Nat /\ sent <= numbered /\ Width \in Nat \ {0}
           /\ Queries \subseteq Nat
BY DiscoveryAssumption DEF TypeOK, Queries

LEMMA InitStep == Init => IInv
<1> SUFFICES ASSUME Init PROVE IInv
  OBVIOUS
<1>1. numbered \in Nat
  BY DiscoveryAssumption DEF Init
<1>2. Unsent \in Answers /\ Open \in Outcomes /\ Unsent # Asked /\ Unsent # Dropped
  BY DEF Answers, Outcomes, Open, Unsent, Asked, Dropped, Answer
<1>3. TypeOK
  BY <1>1, <1>2 DEF Init, TypeOK, Queries, Levels
<1>4. NoStrayQuery /\ Sends /\ Reads /\ Drops /\ Raises /\ Chunks
  BY <1>1, <1>2 DEF Init, NoStrayQuery, Pending, Sends, Reads, Drops, Raises, Chunks, Queries
<1>5. Closes /\ Named
  BY DEF Init, Closes, Named, Open, Outcome
<1> QED BY <1>3, <1>4, <1>5 DEF IInv

(* Steps that change nothing but pc and outcome, and wait for no query.     *)
LEMMA MoveStep ==
    ASSUME IInv, UNCHANGED <<Batch, Sequence>>, Pending = {},
           \/ /\ pc' = "done" /\ raising = "nothing"
              /\ outcome' \in Outcomes /\ outcome'.kind # "invoices"
              /\ outcome'.kind = "cancelled" => pc \in {"receipt", "name"}
           \/ /\ pc' = "done"
              /\ outcome' \in Outcomes /\ outcome'.kind = raising
           \/ /\ pc' \in {"receipt", "name"} /\ pc \in {"start", "receipt", "name"}
              /\ pc' = "name" => named # None
              /\ pc' = "receipt" => referred
              /\ UNCHANGED outcome
           \/ /\ pc' = "level" /\ raising = "nothing"
              /\ pc \in {"start", "receipt", "name", "level", "draining"}
              /\ UNCHANGED outcome
    PROVE  IInv'
<1>1. UNCHANGED <<named, referred, numbered, level, sent, answer, read, candidates, raising>>
  BY DEF Batch, Sequence
<1>a. Queries' = Queries /\ Pending' = Pending
  BY <1>1 DEF Queries, Pending
<1>b. raising \in {"nothing", "failed", "cancelled"}
  BY DEF IInv, TypeOK
<1>2. TypeOK'
  BY <1>1, <1>a DEF IInv, TypeOK
<1>3. NoStrayQuery'
  BY <1>a DEF NoStrayQuery
<1>4. Sends' /\ Reads' /\ Drops'
  BY <1>1, <1>a DEF IInv, Sends, Reads, Drops
<1>5. Raises'
  BY <1>1 DEF IInv, Raises
<1>6. Chunks'
  <2>1. pc \in {"start", "receipt", "name"} => sent = 0 /\ read = {} /\ read = 1..sent
    BY DEF IInv, Chunks
  <2>2. Several(candidates)' = Several(candidates)
    BY <1>1 DEF Several
  <2>3. pc' \notin {"draining", "start"}
    OBVIOUS
  <2>4. pc' = "level" => Several(candidates) \/ read = 1..sent
    BY <2>1 DEF IInv, Chunks
  <2>5. pc' \in {"receipt", "name"} => sent = 0 /\ read = {}
    BY <2>1
  <2> QED BY <1>1, <2>2, <2>3, <2>4, <2>5 DEF Chunks
<1>c. pc \in {"receipt", "name"} => NoLineAsked
  BY DEF NoLineAsked, IInv, Chunks, Named
<1>d. NoLineAsked' <=> NoLineAsked
  BY <1>1 DEF NoLineAsked
<1>7. Closes' /\ Named'
  BY <1>1, <1>a, <1>b, <1>c, <1>d DEF IInv, Closes, Named
<1> QED BY <1>2, <1>3, <1>4, <1>5, <1>6, <1>7 DEF IInv

LEMMA ChunkSent == ASSUME IInv, SendChunk PROVE IInv'
<1>1. /\ pc = "level" /\ pc' = "reading" /\ sent < numbered /\ ~Several(candidates)
      /\ answer' = [i \in Queries |-> IF i \in sent + 1..sent' THEN Asked ELSE answer[i]]
      /\ UNCHANGED <<named, referred, numbered, level, read, candidates, raising, outcome>>
  BY DEF SendChunk, Go, Batch
<1>2. sent' \in Nat /\ sent < sent' /\ sent' <= numbered
  BY Numbers DEF SendChunk, ChunkEnd, IInv
<1>3. raising = "nothing" /\ read = 1..sent
  BY <1>1 DEF IInv, Raises, Chunks
<1>4. Queries' = Queries /\ Queries = 1..numbered /\ numbered \in Nat /\ sent \in Nat
  BY <1>1, Numbers DEF Queries, IInv
<1>5. Asked \in Answers /\ Asked # Unsent /\ Asked # Dropped
  BY DEF Answers, Asked, Unsent, Dropped, Answer
<1>6. TypeOK'
  BY <1>1, <1>2, <1>4, <1>5 DEF IInv, TypeOK
<1>7. Sends'
  <2> SUFFICES ASSUME NEW i \in Queries PROVE answer'[i] = Unsent <=> i > sent'
    BY <1>4 DEF Sends
  <2>1. i \in sent + 1..sent' \/ i <= sent \/ i > sent'
    BY <1>2, <1>4
  <2> QED BY <1>1, <1>2, <1>4, <1>5, <2>1 DEF IInv, Sends
<1>8. \A i \in read : answer'[i] = answer[i]
  BY <1>1, <1>2, <1>3, <1>4
<1>9. Reads' /\ Raises'
  <2>1. {answer'[i].who : i \in read} = {answer[i].who : i \in read}
    BY <1>8
  <2>2. Reads'
    BY <1>1, <1>8, <2>1 DEF IInv, Reads
  <2>3. Raises'
    BY <1>1, <1>3, <1>8 DEF IInv, Raises
  <2> QED BY <2>2, <2>3
<1>10. Drops'
  <2> SUFFICES ASSUME NEW i \in Queries PROVE answer'[i] # Dropped
    BY <1>4 DEF Drops
  <2>1. i \in read \/ i > sent
    BY <1>3, <1>4
  <2>2. i \in read => answer[i].kind # "dropped"
    BY DEF IInv, Reads
  <2>3. i > sent => answer[i] = Unsent
    BY DEF IInv, Sends
  <2> QED BY <1>1, <1>5, <2>1, <2>2, <2>3 DEF Dropped, Unsent, Answer
<1>11. NoStrayQuery' /\ Chunks' /\ Closes'
  BY <1>1 DEF IInv, NoStrayQuery, Chunks, Closes, Open, Outcome
<1>12. Named'
  <2>1. numbered <= MaxQueries
    BY DiscoveryAssumption DEF SendChunk
  <2> QED BY <1>1, <2>1 DEF Named
<1> QED BY <1>6, <1>12, <1>7, <1>9, <1>10, <1>11 DEF IInv

(* A query that is with Oracle ends, by itself or because it was cancelled. *)
LEMMA AnswerStep ==
    ASSUME IInv, NEW i \in Queries, answer[i] = Asked, NEW a \in Answers,
           answer' = [answer EXCEPT ![i] = a], a # Unsent,
           pc \in {"reading", "draining"}, a = Dropped => pc = "draining",
           UNCHANGED <<Batch, pc, level, sent, read, candidates, raising, outcome>>
    PROVE  IInv'
<1>1. UNCHANGED <<named, referred, numbered, pc, level, sent, read, candidates, raising, outcome>>
  BY DEF Batch
<1>2. Queries' = Queries
  BY <1>1 DEF Queries
<1>3. TypeOK'
  BY <1>1, <1>2 DEF IInv, TypeOK
<1>4. \A j \in Queries : answer'[j] = IF j = i THEN a ELSE answer[j]
  BY DEF IInv, TypeOK
<1>5. Sends'
  BY <1>1, <1>2, <1>4 DEF IInv, Sends, Asked, Unsent, Answer
<1>6. i \notin read
  BY DEF IInv, Reads, Asked, Answer
<1>7. \A j \in read : answer'[j] = answer[j]
  BY <1>4, <1>6 DEF IInv, TypeOK
<1>8. Reads' /\ Raises'
  BY <1>1, <1>7 DEF IInv, Reads, Raises
<1>9. Drops'
  BY <1>1, <1>2, <1>4 DEF IInv, Drops
<1>10. NoStrayQuery' /\ Chunks' /\ Closes' /\ Named'
  BY <1>1, <1>2 DEF IInv, NoStrayQuery, Chunks, Closes, Named, NoLineAsked
<1> QED BY <1>3, <1>5, <1>8, <1>9, <1>10 DEF IInv

LEMMA ReadStep == ASSUME IInv, NEW i \in Queries, Read(i) PROVE IInv'
<1> DEFINE known == candidates \cup answer[i].who
<1>1. /\ pc = "reading" /\ i \in Ended /\ i \notin read
      /\ read' = read \cup {i} /\ candidates' = known
      /\ raising' = IF answer[i].kind = "found" THEN raising ELSE answer[i].kind
      /\ pc' \in {"reading", "draining"}
      /\ pc' = "reading" => answer[i].kind = "found"
      /\ pc' = "draining" => answer[i].kind # "found" \/ Several(known) \/ read' = 1..sent
      /\ UNCHANGED <<named, referred, numbered, level, sent, answer, outcome>>
  BY DEF Read, Raised, LastOfChunk, Go, Batch
<1>2. Queries' = Queries
  BY <1>1 DEF Queries
<1>3. answer[i] \in Answers
  BY DEF IInv, TypeOK
<1>4. answer[i].kind \in {"found", "failed", "cancelled"} /\ answer[i].who \in SUBSET Names
  BY <1>1, <1>3, AnswerFacts DEF Ended, IInv, Drops
<1>5. raising = "nothing"
  BY <1>1 DEF IInv, Raises
<1>6. TypeOK'
  BY <1>1, <1>2, <1>4 DEF IInv, TypeOK
<1>7. Sends' /\ Drops'
  BY <1>1, <1>2 DEF IInv, Sends, Drops
<1>8. Reads'
  <2>1. \A j \in read' : answer[j].kind \in {"found", "failed", "cancelled"}
    BY <1>1, <1>4 DEF IInv, Reads
  <2>2. known = UNION {answer[j].who : j \in read \cup {i}}
    BY DEF IInv, Reads
  <2> QED BY <1>1, <2>1, <2>2 DEF Reads
<1>9. Raises'
  BY <1>1, <1>4, <1>5 DEF IInv, Raises
<1>10. NoStrayQuery'
  BY <1>1 DEF NoStrayQuery
<1>11. Chunks'
  BY <1>1, <1>4 DEF Chunks
<1>12. Closes' /\ Named'
  BY <1>1 DEF IInv, Closes, Named, Open, Outcome
<1> QED BY <1>6, <1>7, <1>8, <1>9, <1>10, <1>11, <1>12 DEF IInv

LEMMA JudgeStep == ASSUME IInv, Judge PROVE IInv'
<1>1. /\ pc = "level" /\ numbered \in 1..MaxQueries
      /\ sent = numbered \/ Several(candidates)
      /\ UNCHANGED <<named, referred, numbered>>
  BY DEF Judge, Batch
<1>2. raising = "nothing" /\ (Several(candidates) \/ read = 1..sent)
  BY <1>1 DEF IInv, Raises, Chunks
<1>3. CASE \E name \in candidates : /\ candidates = {name}
                                    /\ End(Outcome("invoices", name))
                                    /\ UNCHANGED Sequence
  <2>1. PICK name \in candidates : /\ candidates = {name}
                                   /\ End(Outcome("invoices", name))
                                   /\ UNCHANGED Sequence
    BY <1>3
  <2>2. read = Queries
    BY <1>1, <1>2, <2>1 DEF Several, Queries
  <2>3. UNCHANGED <<level, sent, answer, read, candidates, raising>> /\ Queries' = Queries
    BY <1>1, <2>1 DEF Sequence, Queries
  <2>4. outcome' \in Outcomes /\ outcome'.kind = "invoices" /\ outcome'.name = name /\ pc' = "done"
    BY <2>1 DEF End, Outcome, Outcomes, IInv, TypeOK
  <2>5. TypeOK'
    BY <1>1, <2>3, <2>4 DEF IInv, TypeOK
  <2>6. Pending' = {}
    BY <1>1, <2>3 DEF IInv, NoStrayQuery, Pending
  <2>7. Sends' /\ Reads' /\ Drops' /\ Raises' /\ Chunks'
    BY <1>2, <2>3, <2>4 DEF IInv, Sends, Reads, Drops, Raises, Chunks
  <2>8. Closes' /\ Named'
    BY <1>1, <1>2, <2>1, <2>2, <2>3, <2>4 DEF IInv, Closes, Named
  <2> QED BY <2>5, <2>6, <2>7, <2>8 DEF IInv, NoStrayQuery
<1>4. CASE level = 3 /\ End(Outcome("nobody", None)) /\ UNCHANGED Sequence
  <2>1. outcome' \in Outcomes /\ outcome'.kind = "nobody" /\ pc' = "done"
    BY <1>4 DEF End, Outcome, Outcomes
  <2>2. Pending = {}
    BY <1>1 DEF IInv, NoStrayQuery
  <2> QED BY <1>1, <1>2, <1>4, <2>1, <2>2, MoveStep DEF Batch
<1>5. CASE /\ level # 3 /\ level' = level + 1
           /\ sent' = 0 /\ read' = {} /\ candidates' = {}
           /\ answer' = [i \in Queries |-> Unsent]
           /\ UNCHANGED <<raising, outcome>> /\ pc' = "level"
  <2>1. Unsent \in Answers /\ Unsent # Asked /\ Unsent # Dropped
    BY DEF Answers, Asked, Unsent, Dropped, Answer
  <2>2. Queries' = Queries /\ level + 1 \in Levels /\ numbered \in Nat
    BY <1>1, <1>5, Numbers DEF Queries, IInv, TypeOK, Levels
  <2>3. TypeOK'
    BY <1>1, <1>5, <2>1, <2>2 DEF IInv, TypeOK
  <2>4. Sends' /\ Pending' = {}
    <3>1. \A i \in Queries : answer'[i] = Unsent /\ i > sent'
      BY <1>5, <2>2 DEF Queries
    <3> QED BY <2>1, <2>2, <3>1 DEF Sends, Pending
  <2>5. Reads' /\ Drops' /\ Raises' /\ Chunks'
    BY <1>2, <1>5, <2>1 DEF Reads, Drops, Raises, Chunks
  <2>6. Closes' /\ Named'
    BY <1>1, <1>5 DEF IInv, Closes, Named, Open, Outcome
  <2> QED BY <2>3, <2>4, <2>5, <2>6 DEF IInv, NoStrayQuery
<1> QED BY <1>3, <1>4, <1>5 DEF Judge, NoCandidates, Go

LEMMA NextStep == ASSUME IInv, [Next]_vars PROVE IInv'
<1>1. CASE UNCHANGED vars
  <2>1. TypeOK' /\ NoStrayQuery' /\ Sends' /\ Drops'
    BY <1>1 DEF vars, IInv, TypeOK, NoStrayQuery, Pending, Queries, Sends, Drops
  <2>2. Reads' /\ Raises'
    BY <1>1 DEF vars, IInv, Reads, Raises
  <2>3. Chunks' /\ Closes' /\ Named'
    BY <1>1 DEF vars, IInv, Chunks, Closes, Named, NoLineAsked, Queries, Several
  <2> QED BY <2>1, <2>2, <2>3 DEF IInv
<1>2. CASE Finished
  BY <1>1, <1>2 DEF Finished
<1>a. pc \in {"start", "receipt", "name", "level"} => Pending = {} /\ raising = "nothing"
  BY DEF IInv, NoStrayQuery, Raises
<1>b. /\ \A kind \in {"failed", "cancelled"} :
            Outcome(kind, None) \in Outcomes /\ Outcome(kind, None).kind = kind
      /\ Outcome("nobody", None) \in Outcomes /\ Outcome("nobody", None).kind = "nobody"
      /\ Outcome("limit", None) \in Outcomes /\ Outcome("limit", None).kind = "limit"
  BY DEF Outcome, Outcomes
<1>3. CASE Start
  <2>1. /\ pc = "start" /\ pc' \in {"receipt", "name", "level"}
        /\ pc' = "name" => named # None
        /\ pc' = "receipt" => referred
        /\ UNCHANGED outcome /\ UNCHANGED <<Batch, Sequence>>
    BY <1>3 DEF Start, Go
  <2> QED BY <1>a, <2>1, MoveStep
<1>4. CASE ReceiptAnswers
  <2>1. pc = "receipt" /\ UNCHANGED <<Batch, Sequence>>
    BY <1>4 DEF ReceiptAnswers
  <2>2. CASE \E name \in Names : End(Outcome("receipt", name))
    <3>1. pc' = "done" /\ outcome' \in Outcomes /\ outcome'.kind = "receipt"
      BY <2>2 DEF End, Outcome, Outcomes
    <3> QED BY <1>a, <2>1, <3>1, MoveStep
  <2>3. CASE Go(IF named # None THEN "name" ELSE "level")
    <3>1. pc' \in {"name", "level"} /\ (pc' = "name" => named # None) /\ UNCHANGED outcome
      BY <2>3 DEF Go
    <3> QED BY <1>a, <2>1, <3>1, MoveStep
  <2> QED BY <1>4, <2>2, <2>3 DEF ReceiptAnswers
<1>5. CASE NameAnswers
  <2>1. pc = "name" /\ UNCHANGED <<Batch, Sequence>>
    BY <1>5 DEF NameAnswers
  <2>2. CASE End(Outcome("name", named))
    <3>1. pc' = "done" /\ outcome'.kind = "name" /\ outcome' = Outcome("name", named)
      BY <2>2 DEF End, Outcome
    <3>2. named \in Names
      BY <1>5 DEF NameAnswers, IInv, TypeOK, Named
    <3>3. outcome' \in Outcomes
      BY <3>1, <3>2 DEF Outcome, Outcomes
    <3> QED BY <1>a, <2>1, <3>1, <3>3, MoveStep
  <2>3. CASE Go("level")
    <3>1. pc' = "level" /\ UNCHANGED outcome
      BY <2>3 DEF Go
    <3> QED BY <1>a, <2>1, <3>1, MoveStep
  <2> QED BY <1>5, <2>2, <2>3 DEF NameAnswers
<1>6. CASE ReceiptFails
  <2>1. PICK kind \in {"failed", "cancelled"} : End(Outcome(kind, None))
    BY <1>6 DEF ReceiptFails
  <2>2. /\ pc' = "done" /\ outcome' = Outcome(kind, None) /\ pc \in {"receipt", "name"}
        /\ UNCHANGED <<Batch, Sequence>>
    BY <1>6, <2>1 DEF ReceiptFails, End
  <2>3. outcome' \in Outcomes /\ outcome'.kind \in {"failed", "cancelled"}
    BY <1>b, <2>2
  <2> QED BY <1>a, <2>2, <2>3, MoveStep
<1>7. CASE NothingToAsk
  BY <1>7, <1>a, <1>b, MoveStep DEF NothingToAsk, End
<1>8. CASE TooManyToAsk
  BY <1>8, <1>a, <1>b, MoveStep DEF TooManyToAsk, End
<1>9. ASSUME NEW i \in Queries, QueryEnds(i) PROVE IInv'
  <2>1. PICK a \in {Found(names) : names \in SUBSET Names} \cup {Failed, Cancelled} :
             answer' = [answer EXCEPT ![i] = a]
    BY <1>9 DEF QueryEnds
  <2>2. a \in Answers /\ a # Unsent /\ a # Dropped
    BY DEF Answers, Found, Failed, Cancelled, Unsent, Dropped, Answer
  <2> QED BY <1>9, <2>1, <2>2, AnswerStep DEF QueryEnds
<1>10. ASSUME NEW i \in Queries, Unwind(i) PROVE IInv'
  <2>1. Dropped \in Answers /\ Dropped # Unsent
    BY DEF Answers, Unsent, Dropped, Answer
  <2> QED BY <1>10, <2>1, AnswerStep DEF Unwind
<1>11. CASE Drained
  <2>1. pc = "draining" /\ Pending = {} /\ UNCHANGED <<Batch, Sequence>>
    BY <1>11 DEF Drained, Gathered
  <2>2. CASE raising = "nothing"
    BY <1>11, <2>1, <2>2, MoveStep DEF Drained, Go
  <2>3. CASE raising # "nothing"
    <3>1. pc' = "done" /\ outcome' = Outcome(raising, None) /\ raising \in {"failed", "cancelled"}
      BY <1>11, <2>3 DEF Drained, End, IInv, TypeOK
    <3>2. outcome' \in Outcomes /\ outcome'.kind = raising
      BY <3>1 DEF Outcome, Outcomes
    <3> QED BY <2>1, <3>1, <3>2, MoveStep
  <2> QED BY <2>2, <2>3
<1> QED BY <1>1, <1>2, <1>3, <1>4, <1>5, <1>6, <1>7, <1>8, <1>9, <1>10, <1>11,
           ChunkSent, ReadStep, JudgeStep DEF Next, Steps

-----------------------------------------------------------------------------
(* The theorems *)

THEOREM Invariant == Spec => []IInv
<1>1. IInv /\ [Next]_vars => IInv'
  BY NextStep
<1> QED BY InitStep, <1>1, PTL DEF Spec

(* Every variable keeps its type.                                           *)
THEOREM TypeCorrect == Spec => []TypeOK
<1>1. IInv => TypeOK
  BY DEF IInv
<1> QED BY Invariant, <1>1, PTL

(* No query outlives its chunk.                                             *)
THEOREM NoneAstray == Spec => []NoStrayQuery
<1>1. IInv => NoStrayQuery
  BY DEF IInv
<1> QED BY Invariant, <1>1, PTL

(* A customer found by the lines is the only one that any query of the      *)
(* level named, and every query was answered.                               *)
THEOREM SoleCustomer == Spec => []CustomerIsSole
<1>1. IInv => CustomerIsSole
  <2> SUFFICES ASSUME IInv, outcome.kind = "invoices"
               PROVE  Settled /\ Owners = {outcome.name}
    BY DEF CustomerIsSole
  <2>1. read = Queries /\ raising = "nothing" /\ candidates = {outcome.name}
    BY DEF IInv, Closes
  <2> QED BY <2>1 DEF IInv, Raises, Reads, Settled, Owners
<1> QED BY Invariant, <1>1, PTL

(* Discovery ends cancelled only by the doing of another request: through a *)
(* query of a line, or through the receipt report before any line.          *)
THEOREM CancelledFromOutside == Spec => []CancelComesFromOutside
<1>1. IInv => CancelComesFromOutside
  <2> SUFFICES ASSUME IInv, outcome.kind = "cancelled"
               PROVE  NoLineAsked \/ \E i \in Queries : answer[i] = Cancelled
    BY DEF CancelComesFromOutside, NoLineAsked
  <2>1. CASE raising = "cancelled"
    <3>1. PICK i \in read : answer[i].kind = "cancelled"
      BY <2>1 DEF IInv, Raises
    <3>2. i \in Queries /\ answer[i] \in Answers
      BY DEF IInv, TypeOK
    <3> QED BY <3>1, <3>2, AnswerFacts
  <2> QED BY <2>1 DEF IInv, Closes
<1> QED BY Invariant, <1>1, PTL

(* A level is given up for two customers or for none, never for a failure.  *)
THEOREM GivenUpForCause == Spec => GivesUpForCause
<1> DEFINE Cause == Several(Owners) \/ (Settled /\ Owners = {})
           Left  == level' # level \/ (outcome.kind # "nobody" /\ outcome'.kind = "nobody")
<1>1. ASSUME IInv, [Next]_vars, Left PROVE Cause
  <2>1. NothingToAsk \/ Judge
    <3>1. ~(UNCHANGED <<level, outcome>>)
      BY <1>1
    <3>2. ~(UNCHANGED level /\ outcome'.kind # "nobody")
      BY <1>1
    <3>3. ~UNCHANGED vars /\ ~Finished
      BY <3>1 DEF vars, Finished
    <3>4. ~Start /\ ~SendChunk
      BY <3>1 DEF Start, SendChunk, Go, Sequence
    <3>5. ~ReceiptAnswers
      BY <3>1, <3>2 DEF ReceiptAnswers, Go, End, Outcome, Sequence
    <3>6. ~NameAnswers /\ ~ReceiptFails /\ ~TooManyToAsk
      BY <3>1, <3>2 DEF NameAnswers, ReceiptFails, TooManyToAsk, Go, End, Outcome, Sequence
    <3>7. \A i \in Queries : ~QueryEnds(i) /\ ~Unwind(i)
      BY <3>1 DEF QueryEnds, Unwind
    <3>8. \A i \in Queries : ~Read(i)
      BY <3>1 DEF Read, Go
    <3>9. ~Drained
      BY <1>1, <3>1, <3>2 DEF Drained, Go, End, Outcome, Sequence, IInv, TypeOK
    <3> QED BY <1>1, <3>3, <3>4, <3>5, <3>6, <3>7, <3>8, <3>9 DEF Next, Steps
  <2>2. CASE NothingToAsk
    BY <2>2 DEF NothingToAsk, Queries, Settled, Owners
  <2>3. CASE Judge
    <3>1. /\ pc = "level"
          /\ sent = numbered \/ Several(candidates)
          /\ \A name \in candidates : candidates # {name}
      BY <1>1, <2>3 DEF Judge, End, Outcome, Sequence
    <3>2. raising = "nothing" /\ (Several(candidates) \/ read = 1..sent)
      <4>0. Raises
        BY <1>1 DEF IInv
      <4>1. raising = "nothing"
        BY <3>1, <4>0 DEF Raises
      <4> QED BY <1>1, <3>1, <4>1 DEF IInv, Chunks
    <3>3. candidates \subseteq Owners
      BY <1>1 DEF IInv, TypeOK, Reads, Owners
    <3>4. CASE Several(candidates)
      BY <3>3, <3>4 DEF Several
    <3>5. CASE ~Several(candidates)
      <4>1. candidates = {}
        BY <3>1, <3>5 DEF Several
      <4>2. read = Queries
        BY <3>1, <3>2, <3>5 DEF Queries
      <4> QED BY <1>1, <3>2, <4>1, <4>2 DEF IInv, Raises, Reads, Settled, Owners
    <3> QED BY <3>4, <3>5
  <2> QED BY <2>1, <2>2, <2>3
<1>2. IInv /\ [Next]_vars => [Left => Cause]_vars
  BY <1>1
<1> QED BY Invariant, <1>2, PTL DEF Spec, GivesUpForCause

-----------------------------------------------------------------------------
(* Discovery implements Identify *)

Stutter == UNCHANGED <<named, referred, numbered, level, Told, outcome>>

LEMMA ToldFacts ==
    ASSUME TypeOK, NEW i \in Queries
    PROVE  /\ Told[i] = Promise!Silent <=> answer[i].kind \notin {"found", "failed", "cancelled"}
           /\ answer[i].kind \in {"found", "failed", "cancelled"} => Told[i] = answer[i]
           /\ Told[i].kind = "found" <=> answer[i].kind = "found"
           /\ Told[i].who = answer[i].who
<1>1. answer[i] \in Answers
  BY DEF TypeOK
<1>2. CASE answer[i].kind \in {"found", "failed", "cancelled"}
  BY <1>2 DEF Told, Promise!Silent, Promise!Reply, Answer
<1>3. CASE answer[i].kind \notin {"found", "failed", "cancelled"}
  <2>1. answer[i].who = {}
    BY <1>1, <1>3 DEF Answers, Found, Unsent, Asked, Dropped, Failed, Cancelled, Answer
  <2> QED BY <1>3, <2>1 DEF Told, Promise!Silent, Promise!Reply, Answer
<1> QED BY <1>2, <1>3

(* What Identify reads off the replies is what Discovery reads off its own. *)
LEMMA SameVerdict ==
    ASSUME TypeOK
    PROVE  /\ Promise!Queries = Queries
           /\ Promise!Owners = Owners
           /\ Promise!Settled <=> Settled
           /\ Promise!Torn <=> Several(Owners)
<1>1. Promise!Queries = Queries
  BY DEF Promise!Queries, Queries
<1>2. \A i \in Queries : /\ Told[i].who = answer[i].who
                         /\ Told[i].kind = "found" <=> answer[i].kind = "found"
  BY ToldFacts
<1>3. {Told[i].who : i \in Queries} = {answer[i].who : i \in Queries}
  BY <1>2
<1>4. Promise!Owners = Owners
  BY <1>1, <1>3 DEF Promise!Owners, Owners
<1>5. Promise!Settled <=> Settled
  BY <1>1, <1>2 DEF Promise!Settled, Settled
<1> QED BY <1>1, <1>4, <1>5 DEF Promise!Torn, Several

(* Nothing has been said yet at the steps that ask for receipts.            *)
LEMMA QuietBefore ==
    ASSUME IInv, pc \in {"receipt", "name"}
    PROVE  level = 1 /\ Promise!Quiet
<1>1. level = 1 /\ sent = 0
  BY DEF IInv, Named, Chunks
<1>2. \A i \in Queries : answer[i] = Unsent
  <2> SUFFICES ASSUME NEW i \in Queries PROVE i > sent
    BY DEF IInv, Sends
  <2> QED BY <1>1, Numbers DEF Queries, IInv
<1>3. \A i \in Queries : Told[i] = Promise!Silent
  BY <1>2, ToldFacts DEF IInv, Unsent, Answer
<1> QED BY <1>1, <1>3, SameVerdict DEF Promise!Quiet, IInv

LEMMA ConcludeStep ==
    ASSUME TypeOK, outcome = Open, UNCHANGED <<Batch, Sequence>>
    PROVE  Promise!Conclude(outcome')
<1>1. UNCHANGED <<named, referred, numbered, level, answer>>
  BY DEF Batch, Sequence
<1>2. Told' = Told
  BY <1>1 DEF Told, Queries
<1> QED BY <1>1, <1>2 DEF Promise!Conclude, Promise!Request, Promise!Open, Promise!Outcome,
                           Open, Outcome

LEMMA Implements == ASSUME IInv, [Next]_vars PROVE Promise!Next \/ Stutter
<1> USE DEF Promise!Outcome, Outcome
<1>0. TypeOK /\ (pc # "done" => outcome = Open)
  BY DEF IInv, Closes
<1>1. ASSUME UNCHANGED <<Batch, level, answer, outcome>> PROVE Stutter
  BY <1>1 DEF Stutter, Batch, Told, Queries
<1>2. CASE UNCHANGED vars \/ Finished
  BY <1>1, <1>2 DEF vars, Finished, Batch
<1>3. CASE Start
  BY <1>1, <1>3 DEF Start, Go, Sequence
<1>4. CASE ReceiptAnswers
  <2>1. pc = "receipt" /\ UNCHANGED <<Batch, Sequence>>
    BY <1>4 DEF ReceiptAnswers
  <2>2. CASE UNCHANGED outcome
    BY <1>1, <2>1, <2>2 DEF Sequence
  <2>3. ASSUME NEW name \in Names, End(Outcome("receipt", name)) PROVE Promise!Next
    <3>1. Promise!Conclude(outcome') /\ outcome' = Outcome("receipt", name)
      BY <1>0, <2>1, <2>3, ConcludeStep DEF End
    <3>2. referred /\ level = 1 /\ Promise!Quiet
      BY <2>1, QuietBefore DEF IInv, Named
    <3> QED BY <3>1, <3>2 DEF Promise!Next, Promise!ByReport
  <2> QED BY <1>4, <2>2, <2>3 DEF ReceiptAnswers, Go
<1>5. CASE NameAnswers
  <2>1. pc = "name" /\ UNCHANGED <<Batch, Sequence>>
    BY <1>5 DEF NameAnswers
  <2>2. CASE UNCHANGED outcome
    BY <1>1, <2>1, <2>2 DEF Sequence
  <2>3. CASE End(Outcome("name", named))
    <3>1. Promise!Conclude(outcome') /\ outcome' = Outcome("name", named)
      BY <1>0, <2>1, <2>3, ConcludeStep DEF End
    <3>2. named # None /\ level = 1 /\ Promise!Quiet
      BY <2>1, QuietBefore DEF IInv, Named
    <3> QED BY <3>1, <3>2 DEF Promise!Next, Promise!ByReport
  <2> QED BY <1>5, <2>2, <2>3 DEF NameAnswers, Go
<1>6. CASE ReceiptFails
  <2>1. PICK kind \in {"failed", "cancelled"} : outcome' = Outcome(kind, None)
    BY <1>6 DEF ReceiptFails, End
  <2>2. Promise!Conclude(outcome') /\ kind \in Promise!Errors
    BY <1>0, <1>6, ConcludeStep DEF ReceiptFails, Promise!Errors
  <2>3. (referred \/ named # None) /\ level = 1 /\ Promise!Quiet
    BY <1>6, QuietBefore DEF ReceiptFails, IInv, Named
  <2> QED BY <2>1, <2>2, <2>3 DEF Promise!Next, Promise!ByReport
<1>7. CASE NothingToAsk
  <2>1. Promise!Conclude(outcome') /\ outcome' = Outcome("nobody", None)
    BY <1>0, <1>7, ConcludeStep DEF NothingToAsk, End
  <2>2. numbered = 0 /\ Settled /\ Owners = {}
    BY <1>7 DEF NothingToAsk, Settled, Owners, Queries
  <2> QED BY <1>0, <2>1, <2>2, SameVerdict DEF Promise!Next, Promise!Nobody, Promise!Undecided
<1>8. CASE TooManyToAsk
  <2>1. Promise!Conclude(outcome') /\ outcome' = Outcome("limit", None)
    BY <1>0, <1>8, ConcludeStep DEF TooManyToAsk, End
  <2> QED BY <1>8, <2>1 DEF TooManyToAsk, Promise!Next, Promise!TooMany
<1>9. CASE SendChunk
  <2>1. /\ answer' = [i \in Queries |-> IF i \in sent + 1..sent' THEN Asked ELSE answer[i]]
        /\ UNCHANGED <<named, referred, numbered, level, outcome>>
    BY <1>9 DEF SendChunk, Go, Batch
  <2>2. \A i \in Queries : i \in sent + 1..sent' => answer[i] = Unsent
    BY Numbers DEF IInv, Sends
  <2>3. Told' = Told
    <3>1. \A i \in Queries : /\ answer'[i].kind \in {"found", "failed", "cancelled"}
                                  <=> answer[i].kind \in {"found", "failed", "cancelled"}
                             /\ answer[i].kind \in {"found", "failed", "cancelled"}
                                  => answer'[i] = answer[i]
      BY <2>1, <2>2 DEF Asked, Unsent, Answer
    <3>2. Queries' = Queries
      BY <2>1 DEF Queries
    <3> QED BY <3>1, <3>2 DEF Told
  <2> QED BY <2>1, <2>3 DEF Stutter
<1>10. ASSUME NEW i \in Queries, QueryEnds(i) PROVE Promise!Next
  <2>1. PICK a \in {Found(names) : names \in SUBSET Names} \cup {Failed, Cancelled} :
             answer' = [answer EXCEPT ![i] = a]
    BY <1>10 DEF QueryEnds
  <2>2. /\ answer[i] = Asked /\ pc = "reading"
        /\ UNCHANGED <<named, referred, numbered, level, outcome>>
    BY <1>10 DEF QueryEnds, Batch
  <2>3. Told' = [Told EXCEPT ![i] = a]
    <3>1. Queries' = Queries
      BY <2>2 DEF Queries
    <3>2. a.kind \in {"found", "failed", "cancelled"}
      BY DEF Found, Failed, Cancelled, Answer
    <3>3. \A j \in Queries : answer'[j] = IF j = i THEN a ELSE answer[j]
      BY <1>0, <2>1 DEF TypeOK
    <3> QED BY <3>1, <3>2, <3>3 DEF Told
  <2>4. Told[i] = Promise!Silent
    BY <1>0, <2>2, ToldFacts DEF Asked, Answer
  <2>5. a \in {Promise!Reply("found", who) : who \in SUBSET Names}
             \cup {Promise!Reply(e, {}) : e \in Promise!Errors}
    BY DEF Found, Failed, Cancelled, Answer, Promise!Reply, Promise!Errors
  <2>6. numbered <= MaxQueries
    <3>1. sent > 0
      <4>1. answer[i] # Unsent
        BY <2>2 DEF Asked, Unsent, Answer
      <4>2. i <= sent
        BY <4>1, Numbers DEF IInv, Sends
      <4> QED BY <4>2, Numbers DEF Queries, IInv
    <3> QED BY <3>1 DEF IInv, Named
  <2>7. outcome = Promise!Open
    BY <1>0, <2>2 DEF Open, Promise!Open
  <2>8. Promise!Answer(i)
    BY <2>2, <2>3, <2>4, <2>5, <2>6, <2>7 DEF Promise!Answer, Promise!Request
  <2>9. i \in Promise!Queries
    BY <1>0, SameVerdict
  <2> QED BY <2>8, <2>9 DEF Promise!Next
<1>11. ASSUME NEW i \in Queries, Read(i) PROVE Stutter
  BY <1>1, <1>11 DEF Read, Go
<1>12. ASSUME NEW i \in Queries, Unwind(i) PROVE Stutter
  <2>1. /\ answer[i] = Asked /\ answer' = [answer EXCEPT ![i] = Dropped]
        /\ UNCHANGED <<named, referred, numbered, level, outcome>>
    BY <1>12 DEF Unwind, Batch
  <2>2. \A j \in Queries : answer'[j] = IF j = i THEN Dropped ELSE answer[j]
    BY <1>0, <2>1 DEF TypeOK
  <2>3. Queries' = Queries
    BY <2>1 DEF Queries
  <2>4. Told' = Told
    BY <2>1, <2>2, <2>3 DEF Told, Asked, Dropped, Answer
  <2> QED BY <2>1, <2>4 DEF Stutter
<1>13. CASE Drained
  <2>1. pc = "draining" /\ UNCHANGED <<Batch, Sequence>>
    BY <1>13 DEF Drained
  <2>2. CASE raising = "nothing"
    BY <1>1, <1>13, <2>1, <2>2 DEF Drained, Go, Sequence
  <2>3. CASE raising # "nothing"
    <3>1. Promise!Conclude(outcome') /\ outcome' = Outcome(raising, None)
      BY <1>0, <1>13, <2>1, <2>3, ConcludeStep DEF Drained, End
    <3>2. PICK i \in read : answer[i].kind = raising
      BY <2>3 DEF IInv, Raises
    <3>3. i \in Queries /\ raising \in Promise!Errors /\ Told[i].kind = raising
      BY <1>0, <2>3, <3>2, ToldFacts DEF TypeOK, Promise!Errors
    <3>4. i \in Promise!Queries
      BY <1>0, <3>3, SameVerdict
    <3> QED BY <3>1, <3>3, <3>4 DEF Promise!Next, Promise!Fail
  <2> QED BY <2>2, <2>3
<1>14. CASE Judge
  <2>1. /\ pc = "level" /\ UNCHANGED Batch
        /\ sent = numbered \/ Several(candidates)
    BY <1>14 DEF Judge
  <2>2. raising = "nothing" /\ (Several(candidates) \/ read = 1..sent)
    BY <2>1 DEF IInv, Raises, Chunks
  <2>3. candidates \subseteq Owners
    BY <1>0 DEF IInv, TypeOK, Reads, Owners
  <2>4. ~Several(candidates) => Settled /\ Owners = candidates
    BY <2>1, <2>2 DEF IInv, Raises, Reads, Settled, Owners, Queries
  <2>5. ASSUME NEW name \in candidates, candidates = {name},
               End(Outcome("invoices", name)), UNCHANGED Sequence
        PROVE  Promise!Next
    <3>1. Promise!Conclude(outcome') /\ outcome' = Outcome("invoices", name)
      BY <1>0, <2>1, <2>5, ConcludeStep DEF End
    <3>2. name \in Names /\ Settled /\ Owners = {name}
      BY <1>0, <2>4, <2>5 DEF TypeOK, Several
    <3> QED BY <1>0, <3>1, <3>2, SameVerdict DEF Promise!Next, Promise!ByLines
  <2>6. CASE \A name \in candidates : candidates # {name}
    <3>1. Promise!Undecided
      BY <1>0, <2>3, <2>4, <2>6, SameVerdict DEF Promise!Undecided, Several
    <3>2. CASE level = 3 /\ End(Outcome("nobody", None)) /\ UNCHANGED Sequence
      <4>1. Promise!Conclude(outcome') /\ outcome' = Outcome("nobody", None)
        BY <1>0, <2>1, <3>2, ConcludeStep DEF End
      <4> QED BY <3>1, <3>2, <4>1 DEF Promise!Next, Promise!Nobody
    <3>3. CASE /\ level # 3 /\ level' = level + 1
               /\ answer' = [i \in Queries |-> Unsent]
               /\ UNCHANGED outcome
      <4>1. UNCHANGED <<named, referred, numbered>> /\ Queries' = Queries
        BY <2>1 DEF Batch, Queries
      <4>2. Told' = [i \in Queries |-> Promise!Silent]
        BY <3>3, <4>1 DEF Told, Unsent, Answer, Promise!Silent, Promise!Reply
      <4>3. level < 3
        BY <1>0, <3>3 DEF TypeOK, Levels
      <4>4. outcome = Promise!Open
        BY <1>0, <2>1 DEF Open, Promise!Open
      <4>5. Promise!Queries = Queries
        BY <1>0, SameVerdict
      <4> QED BY <3>1, <3>3, <4>1, <4>2, <4>3, <4>4, <4>5
              DEF Promise!Next, Promise!TryNext, Promise!Request
    <3> QED BY <1>14, <2>6, <3>2, <3>3 DEF Judge, Go
  <2> QED BY <1>14, <2>5, <2>6 DEF Judge
<1> QED BY <1>2, <1>3, <1>4, <1>5, <1>6, <1>7, <1>8, <1>9, <1>10, <1>11, <1>12, <1>13, <1>14
        DEF Next, Steps

(* Discovery, with its chunks, tasks, cancellations and its order of        *)
(* reading, implements the decision that Identify describes.                *)
THEOREM Refinement == Spec => Identifies
<1>1. Init => Promise!Init
  <2> SUFFICES ASSUME Init PROVE Promise!Init
    OBVIOUS
  <2>1. Told = [i \in Promise!Queries |-> Promise!Silent]
    BY DEF Init, Told, Unsent, Answer, Queries, Promise!Queries, Promise!Silent, Promise!Reply
  <2> QED BY <2>1 DEF Init, Promise!Init, Open, Outcome, Promise!Open, Promise!Outcome
<1>2. IInv /\ [Next]_vars => [Promise!Next]_(Promise!vars)
  BY Implements DEF Stutter, Promise!vars
<1> QED BY Invariant, <1>1, <1>2, PTL DEF Spec, Identifies, Promise!Spec

-----------------------------------------------------------------------------
(* How much discovery asks for                                              *)

LEMMA Sizes ==
    ASSUME NEW n \in Nat, NEW S \in SUBSET (1..n)
    PROVE  IsFiniteSet(S) /\ Cardinality(S) \in 0..n
<1>1. IsFiniteSet(1..n) /\ Cardinality(1..n) = n
  BY FS_Interval
<1>2. IsFiniteSet(S) /\ Cardinality(S) <= n
  BY <1>1, FS_Subset
<1> QED BY <1>2, FS_CardinalityType

(* The queries of a chunk, and no others, are with Oracle when it is sent.  *)
LEMMA SentAtOnce ==
    ASSUME IInv, SendChunk
    PROVE  /\ Pending = {} /\ Pending' = sent + 1..sent'
           /\ sent' \in Nat /\ sent < sent' /\ sent' <= sent + Width
           /\ Cardinality(Pending') = sent' - sent
<1>1. /\ sent' \in Nat /\ sent < sent' /\ sent' <= numbered /\ sent' <= sent + Width
      /\ sent \in Nat /\ numbered \in Nat
  BY Numbers DEF SendChunk, ChunkEnd, IInv
<1>2. Pending = {}
  BY DEF SendChunk, IInv, NoStrayQuery
<1>3. Pending' = sent + 1..sent'
  <2>1. /\ Queries' = Queries /\ Queries = 1..numbered
        /\ answer' = [i \in Queries |-> IF i \in sent + 1..sent' THEN Asked ELSE answer[i]]
    BY DEF SendChunk, Batch, Queries
  <2>2. sent + 1..sent' \subseteq Queries
    BY <1>1, <2>1
  <2>3. \A i \in Queries : answer'[i] = Asked <=> i \in sent + 1..sent'
    BY <1>2, <2>1 DEF Pending
  <2> QED BY <2>1, <2>2, <2>3 DEF Pending
<1>4. Cardinality(sent + 1..sent') = sent' - sent
  BY <1>1, FS_Interval
<1> QED BY <1>1, <1>2, <1>3, <1>4

(* A query that ends leaves the others with Oracle.                         *)
LEMMA EndsAlone ==
    ASSUME IInv, NEW i \in Queries, QueryEnds(i) \/ Unwind(i)
    PROVE  i \in Pending /\ Pending' = Pending \ {i}
<1>1. PICK a : answer' = [answer EXCEPT ![i] = a] /\ a # Asked
  BY DEF QueryEnds, Unwind, Found, Failed, Cancelled, Dropped, Asked, Answer
<1>2. Queries' = Queries /\ answer[i] = Asked
  BY DEF QueryEnds, Unwind, Batch, Queries
<1>3. \A j \in Queries : answer'[j] = IF j = i THEN a ELSE answer[j]
  BY <1>1 DEF IInv, TypeOK
<1> QED BY <1>1, <1>2, <1>3 DEF Pending

(* No level sends more queries than BIP_MAX_DISCOVERY_INVOICES, and never   *)
(* are more of them with Oracle than DEFAULT_CONCURRENCY.                   *)
Modest == Cardinality(Pending) <= Width /\ sent <= MaxQueries

LEMMA ModestStep == ASSUME IInv, Modest, [Next]_vars PROVE Modest'
<1>a. /\ numbered \in Nat /\ sent \in Nat /\ Width \in Nat /\ MaxQueries \in Nat
      /\ sent <= numbered /\ IsFiniteSet(Pending) /\ Cardinality(Pending) \in Nat
  <2>1. /\ numbered \in Nat /\ sent \in Nat /\ Width \in Nat /\ MaxQueries \in Nat
        /\ sent <= numbered
    BY Numbers, DiscoveryAssumption DEF IInv
  <2>2. IsFiniteSet(Pending) /\ Cardinality(Pending) \in 0..numbered
    BY <2>1, Sizes DEF Pending, Queries
  <2> QED BY <2>1, <2>2
<1>1. IInv'
  BY NextStep
<1>2. sent' <= MaxQueries
  <2>1. sent' > 0 => numbered' <= MaxQueries
    BY <1>1 DEF IInv, Named
  <2>2. sent' \in 0..numbered' /\ numbered' \in 0..MaxLines
    BY <1>1 DEF IInv, TypeOK
  <2> QED BY <1>a, <2>1, <2>2, DiscoveryAssumption
<1>3. CASE SendChunk
  BY <1>2, <1>3, <1>a, SentAtOnce DEF Modest
<1>4. ASSUME NEW i \in Queries, QueryEnds(i) \/ Unwind(i) PROVE Modest'
  <2>1. i \in Pending /\ Pending' = Pending \ {i}
    BY <1>4, EndsAlone
  <2>2. Cardinality(Pending \ {i}) = Cardinality(Pending) - 1
    BY <1>a, <2>1, FS_RemoveElement
  <2>3. Cardinality(Pending') = Cardinality(Pending) - 1
    BY <2>1, <2>2
  <2> QED BY <1>2, <1>a, <2>3 DEF Modest
<1>5. CASE Pending' = Pending \/ Pending' = {}
  <2>1. Cardinality({}) = 0
    BY FS_EmptySet
  <2> QED BY <1>2, <1>5, <1>a, <2>1 DEF Modest
<1>6. (\A i \in Queries : ~QueryEnds(i) /\ ~Unwind(i)) /\ ~SendChunk => Pending' = Pending \/ Pending' = {}
  <2>1. UNCHANGED vars \/ Finished => Pending' = Pending
    BY DEF Finished, vars, Pending, Queries
  <2>2. Start \/ ReceiptAnswers \/ NameAnswers \/ ReceiptFails \/ NothingToAsk \/ TooManyToAsk \/ Drained
          => Pending' = Pending
    BY DEF Start, ReceiptAnswers, NameAnswers, ReceiptFails, NothingToAsk, TooManyToAsk, Drained,
           Batch, Sequence, Pending, Queries
  <2>3. \A i \in Queries : Read(i) => Pending' = Pending
    BY DEF Read, Batch, Pending, Queries
  <2>4. Judge => Pending' = Pending \/ Pending' = {}
    <3>1. Judge => \/ UNCHANGED <<numbered, answer>>
                   \/ UNCHANGED numbered /\ answer' = [i \in Queries |-> Unsent]
      BY DEF Judge, Batch, Sequence
    <3>2. UNCHANGED <<numbered, answer>> => Pending' = Pending
      BY DEF Pending, Queries
    <3>3. UNCHANGED numbered /\ answer' = [i \in Queries |-> Unsent] => Pending' = {}
      <4>1. Unsent # Asked
        BY DEF Unsent, Asked, Answer
      <4>2. UNCHANGED numbered => Queries' = Queries
        BY DEF Queries
      <4> QED BY <4>1, <4>2 DEF Pending
    <3> QED BY <3>1, <3>2, <3>3
  <2> QED BY <2>1, <2>2, <2>3, <2>4 DEF Next, Steps
<1> QED BY <1>3, <1>4, <1>5, <1>6

(* Neither limit is ever exceeded, however chunks and answers fall.         *)
THEOREM LimitsHold == Spec => []Modest
<1>1. Init => Modest
  <2>1. Init => Pending = {} /\ sent = 0
    BY DEF Init, Pending, Unsent, Asked, Answer
  <2>2. Cardinality({}) = 0
    BY FS_EmptySet
  <2> QED BY <2>1, <2>2, DiscoveryAssumption DEF Modest
<1>2. IInv /\ Modest /\ [Next]_vars => Modest'
  BY ModestStep
<1> QED BY <1>1, <1>2, Invariant, PTL DEF Spec

-----------------------------------------------------------------------------
(* Why discovery ends: every step uses up some of a budget it starts with.  *)

(* The queries of the level that are unread.                                *)
Unread == Queries \ read

(* The steps one level takes at most: every query is sent, ends and is      *)
(* read, and every chunk is drained.                                        *)
PerLevel == 5 * numbered + 1

Stage ==
    CASE pc = "start" -> 4
      [] pc \in {"receipt", "reading"} -> 3
      [] pc \in {"name", "draining"} -> 2
      [] pc = "level" -> 1
      [] OTHER -> 0

(* Levels to come, queries to send, to end and to be read, and the stage.   *)
Sum(t, n, s, p, u, g) == t + 4 * (n - s) + p + u + g

(* The steps discovery can still take.                                      *)
Left ==
    IF pc = "done" THEN 0
    ELSE Sum((3 - level) * PerLevel, numbered, sent,
             Cardinality(Pending), Cardinality(Unread), Stage)

LEMMA LevelsLeft ==
    ASSUME NEW n \in Nat, NEW lev \in Levels
    PROVE  /\ lev = 1 => (3 - lev) * n = 2 * n
           /\ lev = 2 => (3 - lev) * n = n
           /\ lev = 3 => (3 - lev) * n = 0
BY DEF Levels

LEMMA StageFacts ==
    /\ pc = "start" => Stage = 4
    /\ pc \in {"receipt", "reading"} => Stage = 3
    /\ pc \in {"name", "draining"} => Stage = 2
    /\ pc = "level" => Stage = 1
BY DEF Stage

LEMMA Counted ==
    ASSUME IInv
    PROVE  /\ numbered \in Nat /\ sent \in 0..numbered /\ level \in Levels
           /\ IsFiniteSet(Pending) /\ Cardinality(Pending) \in 0..numbered
           /\ IsFiniteSet(Unread) /\ Cardinality(Unread) \in 0..numbered
<1>1. numbered \in Nat /\ sent \in 0..numbered /\ level \in Levels
  BY Numbers DEF IInv, TypeOK
<1>2. Pending \in SUBSET (1..numbered) /\ Unread \in SUBSET (1..numbered)
  BY DEF Pending, Unread, Queries
<1> QED BY <1>1, <1>2, Sizes

LEMMA LeftType == ASSUME IInv PROVE Left \in 0..15 * numbered + 6 /\ (Left = 0 <=> pc = "done")
<1> DEFINE P == Cardinality(Pending)
           U == Cardinality(Unread)
<1>1. numbered \in Nat /\ sent \in 0..numbered /\ level \in Levels /\ P \in 0..numbered /\ U \in 0..numbered
  BY Counted
<1>2. CASE pc = "done"
  BY <1>1, <1>2 DEF Left
<1>3. CASE pc # "done"
  <2>1. Stage \in 1..4
    BY <1>3, StageFacts DEF IInv, TypeOK
  <2>2. PerLevel \in Nat /\ PerLevel = 5 * numbered + 1
    BY <1>1 DEF PerLevel
  <2>3. (3 - level) * PerLevel \in 0..2 * PerLevel
    BY <1>1, <2>2, LevelsLeft DEF Levels
  <2>4. Left = (3 - level) * PerLevel + 4 * (numbered - sent) + P + U + Stage
    BY <1>3 DEF Left, Sum
  <2>5. pc \in {"start", "receipt", "name"} => P = 0
    BY FS_EmptySet DEF IInv, NoStrayQuery
  <2> DEFINE T == (3 - level) * PerLevel
  <2>6. T \in 0..10 * numbered + 2 /\ Left = T + 4 * (numbered - sent) + P + U + Stage
    BY <1>1, <2>2, <2>3, <2>4
  <2>7. P + U + 4 * (numbered - sent) + Stage <= 5 * numbered + 4
    <3>1. pc \in {"start", "receipt", "name", "level"} => P = 0
      BY FS_EmptySet DEF IInv, NoStrayQuery
    <3>2. CASE P = 0
      BY <1>1, <2>1, <3>2
    <3>3. CASE pc \in {"reading", "draining"}
      <4>1. P <= sent
        <5>1. Pending \in SUBSET (1..sent) /\ sent \in Nat
          BY <1>1 DEF Pending, Queries, IInv, Sends, Asked, Unsent, Answer
        <5> QED BY <5>1, Sizes
      <4> QED BY <1>1, <2>1, <4>1
    <3> QED BY <1>3, <3>1, <3>2, <3>3 DEF IInv, TypeOK
  <2> HIDE DEF T, P, U
  <2> QED BY <1>1, <1>3, <2>1, <2>6, <2>7
<1> QED BY <1>2, <1>3

(* What a step leaves of the counts of a level.                             *)
Kept == UNCHANGED <<numbered, level, sent, Pending, Unread>>

Judged ==
    /\ pc = "level" /\ pc' = "level" /\ numbered' = numbered
    /\ level < 3 /\ level' = level + 1 /\ sent' = 0
    /\ Pending' = {} /\ Cardinality(Unread)' = numbered

LEMMA Shapes ==
    ASSUME IInv, Steps
    PROVE  \/ pc # "done" /\ pc' = "done"
           \/ /\ Kept
              /\ \/ pc = "start" /\ pc' \in {"receipt", "name", "level"}
                 \/ pc = "receipt" /\ pc' \in {"name", "level"}
                 \/ pc \in {"name", "draining"} /\ pc' = "level"
           \/ SendChunk
           \/ \E i \in Queries : QueryEnds(i) \/ Unwind(i)
           \/ \E i \in Queries : Read(i)
           \/ Judged
<1>1. UNCHANGED <<Batch, Sequence>> => Kept
  BY DEF Batch, Sequence, Kept, Pending, Unread, Queries
<1>2. CASE Start
  BY <1>1, <1>2 DEF Start, Go
<1>3. CASE ReceiptAnswers
  BY <1>1, <1>3 DEF ReceiptAnswers, Go, End
<1>4. CASE NameAnswers
  BY <1>1, <1>4 DEF NameAnswers, Go, End
<1>5. CASE ReceiptFails \/ NothingToAsk \/ TooManyToAsk
  BY <1>5 DEF ReceiptFails, NothingToAsk, TooManyToAsk, End
<1>6. CASE Drained
  BY <1>1, <1>6 DEF Drained, Go, End
<1>7. CASE Judge
  <2>1. CASE pc' = "done"
    BY <1>7, <2>1 DEF Judge
  <2>2. CASE pc' # "done"
    <3>1. /\ pc = "level" /\ pc' = "level" /\ level # 3 /\ level' = level + 1
          /\ sent' = 0 /\ read' = {} /\ numbered' = numbered
          /\ answer' = [i \in Queries |-> Unsent]
      BY <1>7, <2>2 DEF Judge, End, Go, Batch
    <3>2. Queries' = Queries /\ Queries = 1..numbered
      BY <3>1 DEF Queries
    <3>3. Pending' = {}
      BY <3>1, <3>2 DEF Pending, Unsent, Asked, Answer
    <3>4. Unread' = 1..numbered
      BY <3>1, <3>2 DEF Unread
    <3>5. numbered \in Nat /\ level < 3
      BY <3>1, Counted DEF Levels
    <3>6. Cardinality(1..numbered) = numbered
      BY <3>5, FS_Interval
    <3>7. Cardinality(Unread)' = numbered
      BY <3>4, <3>6
    <3> QED BY <3>1, <3>3, <3>5, <3>7 DEF Judged
  <2> QED BY <2>1, <2>2
<1> QED BY <1>2, <1>3, <1>4, <1>5, <1>6, <1>7 DEF Steps

(* What each kind of step takes off the sum.                                *)
LEMMA Cheaper ==
    \A t, n, p, u, g, h \in Nat : \A s \in 0..n :
      /\ h < g => Sum(t, n, s, p, u, h) < Sum(t, n, s, p, u, g)
      /\ Sum(t, n, s, p - 1, u, g) < Sum(t, n, s, p, u, g)
      /\ h <= g => Sum(t, n, s, p, u - 1, h) < Sum(t, n, s, p, u, g)
BY DEF Sum

LEMMA CheaperChunk ==
    \A t, n, u, r \in Nat : \A s \in 0..n :
      s < r => Sum(t, n, r, r - s, u, 3) < Sum(t, n, s, 0, u, 1)
BY DEF Sum

LEMMA CheaperLevel ==
    \A t, n, p, u \in Nat : \A s \in 0..n :
      Sum(t, n, 0, 0, n, 1) < Sum(t + (5 * n + 1), n, s, p, u, 1)
BY DEF Sum

LEMMA StepCosts == ASSUME IInv, IInv', Steps PROVE Left' < Left
<1> DEFINE P == Cardinality(Pending)
           U == Cardinality(Unread)
           T == (3 - level) * PerLevel
<1>1. /\ numbered \in Nat /\ sent \in 0..numbered /\ level \in Levels
      /\ P \in 0..numbered /\ U \in 0..numbered
  BY Counted
<1>2. PerLevel \in Nat /\ PerLevel = 5 * numbered + 1 /\ T \in Nat
  <2>1. PerLevel \in Nat /\ PerLevel = 5 * numbered + 1
    BY <1>1 DEF PerLevel
  <2> QED BY <1>1, <2>1, LevelsLeft DEF Levels
<1>t. P \in Nat /\ U \in Nat
  BY <1>1
<1>3. pc # "done" => Left = Sum(T, numbered, sent, P, U, Stage)
  BY DEF Left
<1>4. pc' # "done" => Left' = Sum(T', numbered', sent', P', U', Stage')
  BY DEF Left, Sum
<1>5. numbered' = numbered /\ level' = level => T' = T
  BY DEF PerLevel
<1>6. /\ pc' \in {"receipt", "reading"} => Stage' = 3
      /\ pc' \in {"name", "draining"} => Stage' = 2
      /\ pc' = "level" => Stage' = 1
  BY DEF Stage
<1>7. CASE pc # "done" /\ pc' = "done"
  <2>1. Left' = 0
    BY <1>7 DEF Left
  <2>2. Left \in Nat /\ Left # 0
    BY <1>1, <1>7, LeftType
  <2> QED BY <2>1, <2>2
<1>8. CASE /\ Kept
           /\ \/ pc = "start" /\ pc' \in {"receipt", "name", "level"}
              \/ pc = "receipt" /\ pc' \in {"name", "level"}
              \/ pc \in {"name", "draining"} /\ pc' = "level"
  <2>1. P' = P /\ U' = U /\ T' = T /\ numbered' = numbered /\ sent' = sent
    BY <1>5, <1>8 DEF Kept
  <2>2. Stage' < Stage /\ Stage \in Nat /\ Stage' \in Nat
    BY <1>6, <1>8, StageFacts
  <2>3. pc # "done" /\ pc' # "done"
    BY <1>8
  <2> HIDE DEF P, U, T
  <2>4. Left' = Sum(T, numbered, sent, P, U, Stage')
    BY <1>4, <2>1, <2>3
  <2>5. Left = Sum(T, numbered, sent, P, U, Stage)
    BY <1>2, <1>3, <2>3
  <2>6. Sum(T, numbered, sent, P, U, Stage') < Sum(T, numbered, sent, P, U, Stage)
    BY <1>1, <1>2, <1>t, <2>2, Cheaper
  <2> QED BY <2>4, <2>5, <2>6
<1>9. CASE SendChunk
  <2>1. /\ P = 0 /\ P' = sent' - sent /\ sent' \in Nat /\ sent < sent'
    BY <1>9, SentAtOnce, FS_EmptySet
  <2>2. /\ pc = "level" /\ pc' = "reading" /\ Stage = 1 /\ Stage' = 3
        /\ numbered' = numbered /\ level' = level /\ read' = read
    BY <1>6, <1>9, StageFacts DEF SendChunk, Go, Batch
  <2>3. U' = U /\ T' = T
    BY <1>5, <2>2 DEF Unread, Queries
  <2>4. sent' <= numbered
    BY <1>1, <1>9, Numbers DEF SendChunk, ChunkEnd, IInv
  <2> HIDE DEF P, U, T
  <2>5. Left' = Sum(T, numbered, sent', sent' - sent, U, 3)
    BY <1>4, <2>1, <2>2, <2>3
  <2>6. Left = Sum(T, numbered, sent, 0, U, 1)
    BY <1>2, <1>3, <2>1, <2>2, <2>4
  <2>7. Sum(T, numbered, sent', sent' - sent, U, 3) < Sum(T, numbered, sent, 0, U, 1)
    BY <1>1, <1>2, <1>t, <2>1, CheaperChunk
  <2> QED BY <2>5, <2>6, <2>7
<1>10. ASSUME NEW i \in Queries, QueryEnds(i) \/ Unwind(i) PROVE Left' < Left
  <2>1. i \in Pending /\ Pending' = Pending \ {i} /\ IsFiniteSet(Pending)
    BY <1>10, EndsAlone, Counted
  <2>2. Cardinality(Pending \ {i}) = P - 1
    BY <2>1, FS_RemoveElement
  <2>3. P' = P - 1
    BY <2>1, <2>2
  <2>4. UNCHANGED <<pc, numbered, level, sent, read>> /\ pc \in {"reading", "draining"}
    BY <1>10 DEF QueryEnds, Unwind, Batch
  <2>5. U' = U /\ T' = T /\ Stage' = Stage /\ Stage \in Nat
    BY <1>5, <2>4, StageFacts DEF Unread, Queries, Stage
  <2>6. pc # "done" /\ pc' # "done"
    BY <2>4
  <2> HIDE DEF P, U, T
  <2>7. Left' = Sum(T, numbered, sent, P - 1, U, Stage)
    BY <1>4, <2>3, <2>4, <2>5, <2>6
  <2>8. Left = Sum(T, numbered, sent, P, U, Stage)
    BY <1>2, <1>3, <2>6
  <2>9. Sum(T, numbered, sent, P - 1, U, Stage) < Sum(T, numbered, sent, P, U, Stage)
    BY <1>1, <1>2, <1>t, <2>5, Cheaper
  <2> QED BY <2>7, <2>8, <2>9
<1>11. ASSUME NEW i \in Queries, Read(i) PROVE Left' < Left
  <2>1. /\ UNCHANGED <<numbered, level, sent, answer>> /\ read' = read \cup {i} /\ i \notin read
        /\ pc = "reading" /\ pc' \in {"reading", "draining"}
    BY <1>11 DEF Read, Batch, Go, Ended
  <2>2. Unread' = Unread \ {i} /\ i \in Unread /\ IsFiniteSet(Unread)
    BY <1>11, <2>1, Counted DEF Unread, Queries
  <2>3. Cardinality(Unread \ {i}) = U - 1
    BY <2>2, FS_RemoveElement
  <2>4. U' = U - 1
    BY <2>2, <2>3
  <2>5. P' = P /\ T' = T
    BY <1>5, <2>1 DEF Pending, Queries
  <2>6. Stage = 3 /\ Stage' \in 2..3 /\ pc # "done" /\ pc' # "done"
    BY <1>6, <2>1, StageFacts
  <2> HIDE DEF P, U, T
  <2>7. Left' = Sum(T, numbered, sent, P, U - 1, Stage')
    BY <1>4, <2>1, <2>4, <2>5, <2>6
  <2>8. Left = Sum(T, numbered, sent, P, U, Stage)
    BY <1>2, <1>3, <2>6
  <2>9. Sum(T, numbered, sent, P, U - 1, Stage') < Sum(T, numbered, sent, P, U, Stage)
    <3>1. Stage \in Nat /\ Stage' \in Nat /\ Stage' <= Stage
      BY <2>6
    <3> QED BY <1>1, <1>2, <1>t, <3>1, Cheaper
  <2> QED BY <2>7, <2>8, <2>9
<1>12. CASE Judged
  <2>1. /\ P' = 0 /\ U' = numbered /\ sent' = 0 /\ numbered' = numbered
        /\ Stage = 1 /\ Stage' = 1 /\ pc # "done" /\ pc' # "done"
        /\ level < 3 /\ level' = level + 1
    BY <1>6, <1>12, StageFacts, FS_EmptySet DEF Judged
  <2>2. T = T' + PerLevel /\ T' \in Nat
    <3>1. PerLevel' = PerLevel /\ level' \in Levels
      BY <1>1, <2>1 DEF PerLevel, Levels
    <3>2. T' = (3 - level') * PerLevel
      BY <3>1
    <3>3. level = 1 \/ level = 2
      BY <1>1, <2>1 DEF Levels
    <3> QED BY <1>1, <1>2, <2>1, <3>1, <3>2, <3>3, LevelsLeft
  <2> HIDE DEF P, U, T
  <2>3. Left' = Sum(T', numbered, 0, 0, numbered, 1)
    BY <1>4, <2>1
  <2>4. Left = Sum(T' + (5 * numbered + 1), numbered, sent, P, U, 1)
    BY <1>2, <1>3, <2>1, <2>2
  <2>5. Sum(T', numbered, 0, 0, numbered, 1) < Sum(T' + (5 * numbered + 1), numbered, sent, P, U, 1)
    BY <1>1, <1>t, <2>2, CheaperLevel
  <2> QED BY <2>3, <2>4, <2>5
<1> QED BY <1>7, <1>8, <1>9, <1>10, <1>11, <1>12, Shapes

(* The budget is finite, five steps for each query of each level and six    *)
(* beside them, and is used up exactly when discovery is done.              *)
THEOREM BudgetIsBounded == Spec => [](Left \in 0..15 * numbered + 6 /\ (Left = 0 <=> pc = "done"))
<1>1. IInv => Left \in 0..15 * numbered + 6 /\ (Left = 0 <=> pc = "done")
  BY LeftType
<1> QED BY Invariant, <1>1, PTL

(* Every step of a discovery, however its queries end and whatever is read  *)
(* first, brings it nearer its end.                                         *)
THEOREM StepsAreSpent == Spec => [][Steps => Left' < Left]_vars
<1>1. IInv /\ IInv' /\ Next => (Steps => Left' < Left)
  BY StepCosts
<1> QED BY Invariant, <1>1, PTL DEF Spec
=============================================================================
