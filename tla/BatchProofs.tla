---------------------------- MODULE BatchProofs ----------------------------
(***************************************************************************)
(* Theorems about Batch, for any receipts and headers and any number of    *)
(* rounds.                                                                 *)
(***************************************************************************)
EXTENDS Batch, TLAPS

(* Why a header the client holds goes with the receipt it was last told of. *)
Evidence(h, r) ==
    IF h.reference = None THEN r.number = None /\ PaidThen(h, r)
    ELSE Resembles(h, r) \/ (h.reference = r.number /\ ~Long(r.number))

(* While a round runs, the payload is what the client holds.                *)
Running == pc # "client" =>
    header = mine.header /\ sent = header /\ fusion = None /\ answer = "none"

(* What is known at each await.                                             *)
Awaiting ==
    /\ pc = "discovery" => \A p \in Reports : got[p] = "unasked"
    /\ pc = "ledgers" => found = "named" /\ customer # None
    /\ pc = "invoices" => found = "confirmed" /\ customer # None /\ got["receipt"] = "rows"

Told == last # None => Evidence(mine.header, last)

Core == Running /\ Awaiting /\ Told /\ NoStrayFetch /\ AnswerForCause
        /\ ReceiptIsEarned /\ HeaderIsHonest

IInv == TypeOK /\ Core

-----------------------------------------------------------------------------
(* Lemmas about the choice of a receipt.                                    *)

(* A candidate fits, and when it does not bear the reference none does.     *)
LEMMA CandidatesFit ==
    ASSUME NEW h, NEW led, NEW r \in Candidates(h, led)
    PROVE  /\ r \in DOMAIN led /\ Fits(h, led[r])
           /\ h.reference # None /\ ~Bears(h, led[r]) =>
                \A q \in DOMAIN led : ~Bears(h, led[q])
  BY DEF Candidates, Fits, Bears

(* Of the receipts that fit, those left out do not bear the reference and   *)
(* the candidates do.                                                       *)
LEMMA CandidatesWin ==
    ASSUME NEW h, NEW led, NEW r \in Candidates(h, led),
           NEW q \in DOMAIN led \ Candidates(h, led), Fits(h, led[q])
    PROVE  h.reference # None /\ Bears(h, led[r]) /\ ~Bears(h, led[q])
  BY DEF Candidates, Fits, Bears

(* A receipt that was applied goes with the header it filled.               *)
LEMMA FillingLeavesEvidence ==
    ASSUME NEW h \in Header, NEW r \in Receipt, NEW c, Fits(h, r)
    PROVE  Evidence(Filled(h, r, c), r)
<1> DEFINE g == Filled(h, r, c)
<1>1. CASE h.reference # None
  BY <1>1 DEF Evidence, Filled, FirstOf, Fits, Resembles
<1>2. CASE h.reference = None
  <2>1. /\ g.reference = r.number /\ PaidThen(h, r)
        /\ g.amount = h.amount /\ g.date = h.date
    BY <1>2 DEF Filled, FirstOf, Fits, PaidThen
  <2>2. r.number = None => PaidThen(g, r)
    BY <2>1 DEF PaidThen
  <2>3. r.number # None /\ Long(r.number) => Resembles(g, r)
    BY <2>1 DEF Resembles, Long
  <2> QED BY <2>1, <2>2, <2>3 DEF Evidence
<1> QED BY <1>1, <1>2

(* A receipt the header goes with is only displaced by one that bears the   *)
(* header's reference.                                                      *)
LEMMA EvidenceHolds ==
    ASSUME NEW h \in Header, NEW led, NEW p \in DOMAIN led, led[p] \in Receipt,
           Evidence(h, led[p]), NEW r, Candidates(h, led) = {r}
    PROVE  r = p \/ Bears(h, led[r])
<1>1. r \in DOMAIN led /\ Fits(h, led[r])
  BY CandidatesFit
<1>2. CASE h.reference = None
  BY <1>2 DEF Evidence, Candidates
<1>3. CASE h.reference # None /\ Resembles(h, led[p])
  BY <1>1, <1>3, CandidatesWin DEF Fits
<1>4. CASE h.reference # None /\ ~Resembles(h, led[p])
  <2>1. h.reference \in References /\ ~Long(h.reference)
    BY <1>4 DEF Evidence, Header
  <2>2. <<h.reference, led[r].number>> \in Within
    BY <1>1, <1>4 DEF Fits, Resembles
  <2> QED BY <2>1, <2>2, ReceiptAssumption
<1> QED BY <1>2, <1>3, <1>4

LEMMA LedgerType ==
    ASSUME NEW led \in Ledgers, NEW r \in DOMAIN led
    PROVE  led[r] \in Receipts /\ led[r] \in Receipt
  BY BatchAssumption DEF Ledgers

LEMMA FilledType ==
    ASSUME NEW h \in Header, NEW r \in Receipt, NEW c \in Names
    PROVE  Filled(h, r, c) \in Header
  BY DEF Filled, FirstOf, Header, Receipt

-----------------------------------------------------------------------------
LEMMA InitCorrect == Init => IInv
<1> SUFFICES ASSUME Init PROVE IInv
  OBVIOUS
<1>1. TypeOK
  BY BatchAssumption DEF Init, TypeOK, Ledgers, Reports
<1>2. Core
  BY DEF Init, Core, Running, Awaiting, Told, NoStrayFetch, AnswerForCause,
         ReceiptIsEarned, HeaderIsHonest
<1> QED BY <1>1, <1>2 DEF IInv

(* What mapping does to the header and the fusion fields.                   *)
LEMMA MapChooses ==
    ASSUME TypeOK, customer \in Names, Map
    PROVE  \/ header' = header /\ fusion' = fusion
           \/ \E r \in DOMAIN receipts :
                /\ Candidates(header, receipts) = {r}
                /\ header' = Filled(header, receipts[r], customer)
                /\ fusion' = receipts[r] /\ fusion' \in Receipts /\ fusion' # None
<1>1. CASE \E r \in Candidates(header, receipts) :
               /\ Candidates(header, receipts) = {r}
               /\ header' = Filled(header, receipts[r], customer)
               /\ fusion' = receipts[r]
  <2>1. PICK r \in Candidates(header, receipts) :
               /\ Candidates(header, receipts) = {r}
               /\ header' = Filled(header, receipts[r], customer)
               /\ fusion' = receipts[r]
    BY <1>1
  <2>2. r \in DOMAIN receipts
    BY CandidatesFit
  <2>3. receipts[r] \in Receipts /\ receipts[r] \in Receipt
    BY <2>2, LedgerType DEF TypeOK
  <2> QED BY <2>1, <2>2, <2>3, ReceiptAssumption
<1> QED BY <1>1 DEF Map, Sole

LEMMA MapTyped ==
    ASSUME TypeOK, customer \in Names, Map,
           UNCHANGED <<sent, customer, receipts, got, found, round>>
    PROVE  TypeOK'
<1>1. header' \in Header /\ fusion' \in Receipts \cup {None}
  BY MapChooses, FilledType, BatchAssumption DEF TypeOK
<1> QED BY <1>1 DEF Map, Sole, TypeOK

LEMMA MapStep ==
    ASSUME IInv, TypeOK', customer \in Names, Map, pc # "client",
           found \in {"named", "confirmed"}, \A p \in Reports : got[p] = "rows",
           UNCHANGED <<sent, customer, receipts, got, found, round>>
    PROVE  Core'
<1>a. /\ header = mine.header /\ sent = header /\ header \in Header
      /\ fusion = None /\ customer # None
  BY ReceiptAssumption DEF IInv, Core, Running, TypeOK
<1>b. TypeOK
  BY DEF IInv
<1>c. pc' = "client"
  BY DEF Map, Sole
<1>d. \/ /\ answer' = "body" /\ mine' = [header |-> header', fusion |-> fusion']
         /\ last' = IF fusion' # None THEN fusion' ELSE last
      \/ answer' = "500" /\ mine' = mine /\ last' = last
  BY DEF Map, Sole
<1>1. Running' /\ Awaiting' /\ NoStrayFetch'
  BY <1>c DEF Running, Awaiting, NoStrayFetch
<1>2. AnswerForCause'
  BY <1>a, <1>d DEF AnswerForCause
<1>3. CASE header' = header /\ fusion' = fusion
  <2>1. Told'
    BY <1>a, <1>d, <1>3 DEF Told, IInv, Core
  <2>2. ReceiptIsEarned' /\ HeaderIsHonest'
    BY <1>a, <1>d, <1>3 DEF ReceiptIsEarned, HeaderIsHonest
  <2> QED BY <1>1, <1>2, <2>1, <2>2 DEF Core
<1>4. ASSUME NEW r \in DOMAIN receipts,
             Candidates(header, receipts) = {r},
             header' = Filled(header, receipts[r], customer),
             fusion' = receipts[r], fusion' # None
      PROVE  Core'
  <2>1. receipts[r] \in Receipt
    BY <1>b, LedgerType DEF TypeOK
  <2>2. Fits(header, receipts[r])
    BY <1>4, CandidatesFit
  <2>3. Told'
    <3>1. Evidence(header', fusion')
      BY <1>4, <1>a, <2>1, <2>2, FillingLeavesEvidence
    <3> QED BY <1>d, <3>1, <1>4 DEF Told, IInv, Core
  <2>4. ReceiptIsEarned'
    <3>1. \A q \in DOMAIN receipts \ {r} : Fits(header, receipts[q]) =>
             header.reference # None /\ Bears(header, receipts[r]) /\ ~Bears(header, receipts[q])
      BY <1>4, CandidatesWin
    <3>2. (answer = "body")' => mine'.fusion = receipts[r]
      BY <1>d, <1>4
    <3> QED BY <1>a, <2>2, <3>1, <3>2 DEF ReceiptIsEarned
  <2>5. HeaderIsHonest'
    <3>1. (answer = "body")' => mine'.header = header' /\ mine'.fusion = receipts[r]
      BY <1>d, <1>4
    <3>2. /\ header'.reference # header.reference =>
               header.reference = None /\ header'.reference = receipts[r].number
          /\ header'.date # header.date =>
               header.date = None /\ header'.date = receipts[r].date
          /\ header'.amount # header.amount =>
               header.amount = None /\ header'.amount = receipts[r].amount
          /\ header'.name # header.name =>
               /\ header.name = None
               /\ header'.name = IF receipts[r].owner = None THEN customer ELSE receipts[r].owner
      BY <1>4 DEF Filled, FirstOf
    <3> QED BY <1>a, <1>4, <3>1, <3>2 DEF HeaderIsHonest
  <2> QED BY <1>1, <1>2, <2>3, <2>4, <2>5 DEF Core
<1> QED BY <1>3, <1>4, <1>b, MapChooses

(* Where mapping is reached, it has what it needs.                          *)
LEMMA MapReady ==
    ASSUME IInv
    PROVE  pc \in {"ledgers", "invoices"} =>
             /\ customer \in Names /\ found \in {"named", "confirmed"}
             /\ pc # "client" /\ fusion = None /\ header = mine.header
             /\ pc = "invoices" => got["receipt"] = "rows"
  BY DEF IInv, Core, Running, Awaiting, TypeOK

(* Steps that leave the client's copy alone and give no payload.            *)
LEMMA QuietStep ==
    ASSUME IInv, UNCHANGED <<mine, last>>, answer' # "body", Running', Awaiting',
           NoStrayFetch', AnswerForCause'
    PROVE  Core'
<1>1. Told'
  BY DEF Told, Evidence, IInv, Core
<1>2. ReceiptIsEarned' /\ HeaderIsHonest'
  BY DEF ReceiptIsEarned, HeaderIsHonest
<1> QED BY <1>1, <1>2 DEF Core

LEMMA StepCorrect == IInv /\ [Next]_vars => IInv'
<1> SUFFICES ASSUME IInv, [Next]_vars PROVE IInv'
  OBVIOUS
<1>a. TypeOK /\ Running /\ Awaiting /\ NoStrayFetch /\ AnswerForCause
  BY DEF IInv, Core
<1>1. CASE Submit
  <2>1. TypeOK'
    <3>1. <<>> \in Ledgers
      BY BatchAssumption DEF Ledgers
    <3>2. round + 1 \in 0..MaxRounds
      BY <1>1, <1>a, BatchAssumption DEF Submit, NoFusion, TypeOK
    <3>3. mine.header \in Header
      BY <1>a DEF TypeOK
    <3> QED BY <1>1, <1>a, <3>1, <3>2, <3>3 DEF Submit, NoFusion, TypeOK
  <2>2. Running' /\ Awaiting' /\ NoStrayFetch' /\ AnswerForCause'
    BY <1>1 DEF Submit, NoFusion, Running, Awaiting, NoStrayFetch, AnswerForCause
  <2> QED BY <1>1, <2>1, <2>2, QuietStep DEF Submit, NoFusion, IInv
<1>2. CASE DiscoveryNames
  <2>1. TypeOK'
    BY <1>2, <1>a DEF DiscoveryNames, TypeOK, Reports
  <2>2. Running' /\ Awaiting' /\ NoStrayFetch' /\ AnswerForCause' /\ answer' # "body"
    BY <1>2, <1>a, ReceiptAssumption
       DEF DiscoveryNames, Running, Awaiting, NoStrayFetch, AnswerForCause
  <2> QED BY <1>2, <2>1, <2>2, QuietStep DEF DiscoveryNames, IInv
<1>3. CASE DiscoveryConfirms
  <2>1. header.name \in Names
    BY <1>3, <1>a DEF DiscoveryConfirms, TypeOK, Header
  <2>2. TypeOK'
    BY <1>3, <1>a, <2>1 DEF DiscoveryConfirms, TypeOK, Reports, Ends
  <2>3. Running' /\ Awaiting' /\ NoStrayFetch' /\ AnswerForCause' /\ answer' # "body"
    BY <1>3, <1>a, <2>1 DEF DiscoveryConfirms, Running, Awaiting, NoStrayFetch, AnswerForCause
  <2> QED BY <1>3, <2>2, <2>3, QuietStep DEF DiscoveryConfirms, IInv
<1>4. CASE DiscoveryGivesUp
  <2>1. TypeOK'
    BY <1>4, <1>a DEF DiscoveryGivesUp, End, TypeOK
  <2>2. AnswerForCause' /\ answer' # "body"
    BY <1>4 DEF DiscoveryGivesUp, End, AnswerForCause
  <2>3. \A p \in Reports : got'[p] # "asked"
    BY <1>4, <1>a DEF DiscoveryGivesUp, Awaiting
  <2>4. Running' /\ Awaiting' /\ NoStrayFetch'
    BY <1>4, <2>3 DEF DiscoveryGivesUp, End, Running, Awaiting, NoStrayFetch
  <2> QED BY <1>4, <2>1, <2>2, <2>4, QuietStep DEF DiscoveryGivesUp, End, IInv
<1>5. ASSUME NEW p \in Reports, LedgerEnds(p) PROVE IInv'
  <2>1. TypeOK'
    BY <1>5, <1>a DEF LedgerEnds, Listed, TypeOK, Ends
  <2>2. /\ pc' = pc /\ found' = found /\ customer' = customer
        /\ pc \in {"ledgers", "invoices"}
        /\ UNCHANGED <<mine, header, sent, fusion, answer, last>>
    BY <1>5 DEF LedgerEnds, Listed
  <2>3. pc = "invoices" => got'["receipt"] = "rows"
    BY <1>5, <1>a DEF LedgerEnds, Listed, Awaiting, Reports, TypeOK
  <2>4. Running' /\ Awaiting' /\ NoStrayFetch' /\ AnswerForCause' /\ answer' # "body"
    BY <1>a, <2>2, <2>3 DEF Running, Awaiting, NoStrayFetch, AnswerForCause
  <2> QED BY <2>1, <2>2, <2>4, QuietStep DEF IInv
<1>6. CASE Gathered
  <2>1. /\ pc = "ledgers" /\ \A p \in Reports : got[p] \in Ends
        /\ UNCHANGED <<sent, customer, receipts, got, found, round>>
    BY <1>6 DEF Gathered, AllEnded, NoneLost
  <2>2. CASE End("502") /\ \E p \in Reports : got[p] # "rows"
    <3>1. TypeOK'
      BY <1>a, <2>1, <2>2 DEF End, TypeOK
    <3>2. Running' /\ Awaiting' /\ NoStrayFetch' /\ AnswerForCause' /\ answer' # "body"
      BY <1>a, <2>1, <2>2 DEF End, Running, Awaiting, NoStrayFetch, AnswerForCause, Ends
    <3> QED BY <2>2, <3>1, <3>2, QuietStep DEF End, IInv
  <2>3. CASE Map /\ \A p \in Reports : got[p] = "rows"
    BY <1>a, <2>1, <2>3, MapReady, MapTyped, MapStep DEF IInv
  <2> QED BY <1>6, <2>2, <2>3 DEF Gathered, AllEnded, NoneLost
<1>7. CASE InvoicesReturn
  <2>1. /\ pc = "invoices"
        /\ UNCHANGED <<sent, customer, receipts, got, found, round>>
    BY <1>7 DEF InvoicesReturn
  <2>2. ASSUME NEW e \in {"failed", "cancelled"}, got["invoice"] = e,
               End(IF e = "failed" THEN "502" ELSE "escaped")
        PROVE  IInv'
    <3>1. TypeOK'
      BY <1>a, <2>1, <2>2 DEF End, TypeOK
    <3>2. \A p \in Reports : got'[p] # "asked"
      BY <1>a, <2>1, <2>2 DEF Reports, Awaiting
    <3>3. Running' /\ Awaiting' /\ NoStrayFetch' /\ AnswerForCause' /\ answer' # "body"
      BY <1>a, <2>1, <2>2, <3>2 DEF End, Running, Awaiting, NoStrayFetch, AnswerForCause
    <3> QED BY <2>2, <3>1, <3>3, QuietStep DEF End, IInv
  <2>3. CASE Map /\ got["invoice"] = "rows"
    <3>1. \A p \in Reports : got[p] = "rows"
      BY <1>a, <2>1, <2>3 DEF Reports, Awaiting
    <3> QED BY <1>a, <2>1, <2>3, <3>1, MapReady, MapTyped, MapStep DEF IInv
  <2> QED BY <1>7, <2>2, <2>3 DEF InvoicesReturn
<1>8. CASE UNCHANGED vars
  BY <1>8, <1>a DEF vars, IInv, Core, TypeOK, Running, Awaiting, Told, Evidence,
     NoStrayFetch, AnswerForCause, ReceiptIsEarned, HeaderIsHonest
<1> QED BY <1>1, <1>2, <1>3, <1>4, <1>5, <1>6, <1>7, <1>8 DEF Next, Steps, Finished

THEOREM Invariant == Spec => []IInv
  BY InitCorrect, StepCorrect, PTL DEF Spec

-----------------------------------------------------------------------------
(* Every variable of the batch keeps its type.                              *)
THEOREM TypeCorrect == Spec => []TypeOK
  BY Invariant, PTL DEF IInv

(* The receipt an answer names was found in this round and is undisputed.   *)
THEOREM ReceiptsAreEarned == Spec => []ReceiptIsEarned
<1>1. IInv => ReceiptIsEarned
  BY DEF IInv, Core
<1> QED BY <1>1, Invariant, PTL

(* Only blanks of the header are filled, and from the receipt named.        *)
THEOREM HeadersAreHonest == Spec => []HeaderIsHonest
<1>1. IInv => HeaderIsHonest
  BY DEF IInv, Core
<1> QED BY <1>1, Invariant, PTL

(* Every answer has its cause.                                              *)
THEOREM AnswersHaveCauses == Spec => []AnswerForCause
<1>1. IInv => AnswerForCause
  BY DEF IInv, Core
<1> QED BY <1>1, Invariant, PTL

(* No ledger fetch outlives its round.                                      *)
THEOREM NoFetchAstray == Spec => []NoStrayFetch
<1>1. IInv => NoStrayFetch
  BY DEF IInv, Core
<1> QED BY <1>1, Invariant, PTL

(* A batch that is sent again keeps its receipt, or finds one that bears    *)
(* its very reference, or is refused.                                       *)
THEOREM ReceiptIsKept == Spec => KeepsItsReceipt
<1> DEFINE Keeps ==
      fusion' # fusion /\ fusion' # None /\ last # None
        /\ (\E r \in DOMAIN receipts : receipts[r] = last)
        => fusion' = last \/ Bears(header, fusion')
<1>1. ASSUME IInv, [Next]_vars PROVE Keeps
  <2> SUFFICES ASSUME fusion' # fusion, fusion' # None, last # None,
                      NEW p \in DOMAIN receipts, receipts[p] = last
               PROVE  fusion' = last \/ Bears(header, fusion')
    OBVIOUS
  <2>1. pc \in {"ledgers", "invoices"} /\ Map
    BY <1>1 DEF Next, Steps, Finished, vars, Submit, NoFusion, DiscoveryNames, DiscoveryConfirms,
         DiscoveryGivesUp, End, LedgerEnds, Listed, Gathered, InvoicesReturn
  <2>2. /\ customer \in Names /\ header = mine.header /\ header \in Header /\ TypeOK
        /\ Evidence(header, last)
    BY <1>1, <2>1, MapReady DEF IInv, Core, Told, TypeOK
  <2>3. PICK r \in DOMAIN receipts : Candidates(header, receipts) = {r} /\ fusion' = receipts[r]
    BY <2>1, <2>2, MapChooses
  <2>4. receipts[p] \in Receipt
    BY <2>2, LedgerType DEF TypeOK
  <2>5. r = p \/ Bears(header, receipts[r])
    BY <2>2, <2>3, <2>4, EvidenceHolds
  <2> QED BY <2>3, <2>5
<1> QED BY <1>1, Invariant, PTL DEF Spec, KeepsItsReceipt

=============================================================================
