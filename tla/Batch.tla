------------------------------- MODULE Batch -------------------------------
(***************************************************************************)
(* The endpoint reconcile_data_batch and process_reconciliation_batch: a   *)
(* batch is received, its customer is discovered, the two ledgers are      *)
(* fetched side by side (or one of them, when discovery brought the        *)
(* receipts along), the batch is mapped and answered.  The client sends    *)
(* the batch again: what it was answered, or the same after an error.      *)
(*                                                                         *)
(* Discovery and the two fetches end as Discovery and BipFetch let them.   *)
(* What Oracle lists may differ from one report to the next, in either     *)
(* direction: receipts are entered and reversed, and a cached report may   *)
(* be older than one seen before.  The lines are LedgerMatch's; here they  *)
(* matter only in that rewriting one may raise.                            *)
(***************************************************************************)
EXTENDS ReceiptMatch

CONSTANTS
    Receipts, Headers,    \* the receipts and headers that occur
    MaxReceipts,          \* bound on the receipts of a customer
    MaxRounds             \* bound on how often the client sends the batch

ASSUME BatchAssumption ==
    /\ Receipts \subseteq Receipt
    /\ Headers \subseteq Header
    /\ MaxReceipts \in Nat /\ MaxRounds \in Nat

VARIABLES
    mine,        \* the client's copy: header and fusion fields
    sent,        \* the header the request came with
    header,      \* payload's header
    fusion,      \* the receipt in payload's fusion fields, or None
    customer,    \* payload.fusion_customer_name
    receipts,    \* the receipt report in hand
    got,         \* what each ledger fetch came to
    found,       \* what discovery came to
    pc,
    answer,      \* the outcome of the round
    last,        \* the receipt the client was last told of
    round

vars == <<mine, sent, header, fusion, customer, receipts, got, found, pc,
          answer, last, round>>

Reports == {"invoice", "receipt"}
Ends == {"rows", "failed", "cancelled"}
Ledgers == UNION {[1..m -> Receipts] : m \in 0..MaxReceipts}

Init ==
    /\ mine \in [header : Headers, fusion : Receipts \cup {None}]
    /\ sent = mine.header
    /\ header = mine.header
    /\ fusion = None
    /\ customer = None
    /\ receipts = <<>>
    /\ got = [p \in Reports |-> "unasked"]
    /\ found = "open"
    /\ pc = "client"
    /\ answer = "none"
    /\ last = None
    /\ round = 0

(* Wrong on purpose: the fusion fields are taken over from the request.     *)
FusionAsReceived == mine.fusion
NoFusion == None

(* The endpoint works on a copy whose fusion fields are blank, whatever the *)
(* client put there.                                                        *)
Submit ==
    /\ pc = "client" /\ round < MaxRounds
    /\ round' = round + 1
    /\ sent' = mine.header /\ header' = mine.header
    /\ fusion' = NoFusion /\ customer' = None
    /\ receipts' = <<>>
    /\ got' = [p \in Reports |-> "unasked"]
    /\ found' = "open" /\ answer' = "none"
    /\ pc' = "discovery"
    /\ UNCHANGED <<mine, last>>

(* The round ends without a payload; the client keeps its copy.             *)
End(a) ==
    /\ pc' = "client" /\ answer' = a
    /\ UNCHANGED <<mine, header, fusion, last>>

(* The reference or the lines name the customer: both ledgers are asked     *)
(* for, as tasks of one gather.                                             *)
DiscoveryNames ==
    /\ pc = "discovery"
    /\ found' = "named"
    /\ customer' \in Names
    /\ got' = [p \in Reports |-> "asked"]
    /\ pc' = "ledgers"
    /\ UNCHANGED <<mine, sent, header, fusion, receipts, answer, last, round>>

(* The supplied name is confirmed by its receipts, which come along.        *)
DiscoveryConfirms ==
    /\ pc = "discovery" /\ header.name # None
    /\ found' = "confirmed"
    /\ customer' = header.name
    /\ receipts' \in Ledgers \ {<<>>}
    /\ got' = [invoice |-> "asked", receipt |-> "rows"]
    /\ pc' = "invoices"
    /\ UNCHANGED <<mine, sent, header, fusion, answer, last, round>>

(* Discovery finds nobody, refuses, or raises.  CancelledError is no        *)
(* Exception: it leaves process_reconciliation_batch as it is.              *)
DiscoveryGivesUp ==
    /\ pc = "discovery"
    /\ \E how \in {"nobody", "limit", "failed", "cancelled"} :
         /\ found' = how
         /\ End(CASE how = "nobody" -> "null" [] how = "limit" -> "422"
                  [] how = "failed" -> "502" [] how = "cancelled" -> "escaped")
    /\ UNCHANGED <<sent, customer, receipts, got, round>>

(* Wrong on purpose: what a failed fetch came to is taken for a report.     *)
ListedUnchecked(e) == IF e = "rows" THEN Ledgers ELSE {None}
Listed(e) == IF e = "rows" THEN Ledgers ELSE {receipts}

LedgerEnds(report) ==
    /\ pc \in {"ledgers", "invoices"} /\ got[report] = "asked"
    /\ \E e \in Ends :
         /\ got' = [got EXCEPT ![report] = e]
         /\ receipts' \in IF report = "receipt" THEN Listed(e) ELSE {receipts}
    /\ UNCHANGED <<mine, sent, header, fusion, customer, found, pc, answer, last, round>>

(* Wrong on purpose: the last of several candidates is taken.               *)
SoleOrLast(fit) == {r \in fit : \A q \in fit : q <= r}
Sole(fit) == {r \in fit : fit = {r}}

(* Both ledgers are in hand: the payload is mapped and returned.  A cell    *)
(* the models refuse raises while the lines are rewritten, after the        *)
(* header was, and none of it is returned.                                  *)
Map ==
    LET fit == Sole(Candidates(header, receipts)) IN
    /\ \/ fit = {} /\ UNCHANGED <<header, fusion>>
       \/ \E r \in fit : /\ header' = Filled(header, receipts[r], customer)
                         /\ fusion' = receipts[r]
    /\ pc' = "client"
    /\ \/ /\ answer' = "body"
          /\ mine' = [header |-> header', fusion |-> fusion']
          /\ last' = IF fusion' # None THEN fusion' ELSE last
       \/ /\ answer' = "500"
          /\ UNCHANGED <<mine, last>>

(* Wrong on purpose: gather without return_exceptions raises at the first   *)
(* failure.                                                                 *)
AllEndedOrOneFailed == \E p \in Reports : got[p] \in Ends \ {"rows"}
                       \/ \A q \in Reports : got[q] \in Ends
AllEnded == \A p \in Reports : got[p] \in Ends

(* Wrong on purpose: only the invoices are looked at.                       *)
NoneLostOfInvoices == got["invoice"] = "rows"
NoneLost == \A p \in Reports : got[p] = "rows"

(* gather hands over both results, exceptions (CancelledError, too) among   *)
(* them.                                                                    *)
Gathered ==
    /\ pc = "ledgers"
    /\ AllEnded
    /\ \/ ~NoneLost /\ End("502")
       \/ NoneLost /\ Map
    /\ UNCHANGED <<sent, customer, receipts, got, found, round>>

(* The invoices alone are awaited, under `except Exception`.                *)
InvoicesReturn ==
    /\ pc = "invoices"
    /\ \/ got["invoice"] = "failed" /\ End("502")
       \/ got["invoice"] = "cancelled" /\ End("escaped")
       \/ got["invoice"] = "rows" /\ Map
    /\ UNCHANGED <<sent, customer, receipts, got, found, round>>

Finished == pc = "client" /\ round = MaxRounds /\ UNCHANGED vars

Steps ==
    \/ DiscoveryNames \/ DiscoveryConfirms \/ DiscoveryGivesUp
    \/ \E p \in Reports : LedgerEnds(p)
    \/ Gathered \/ InvoicesReturn

Next == Submit \/ Steps \/ Finished

Spec == Init /\ [][Next]_vars

-----------------------------------------------------------------------------
(* Properties *)

(* Every variable has its type.                                             *)
TypeOK ==
    /\ mine \in [header : Header, fusion : Receipts \cup {None}]
    /\ sent \in Header /\ header \in Header
    /\ fusion \in Receipts \cup {None}
    /\ customer \in Names \cup {None}
    /\ receipts \in Ledgers
    /\ got \in [Reports -> Ends \cup {"unasked", "asked"}]
    /\ found \in {"open", "named", "confirmed", "nobody", "limit", "failed", "cancelled"}
    /\ pc \in {"client", "discovery", "ledgers", "invoices"}
    /\ answer \in {"none", "body", "null", "422", "502", "500", "escaped"}
    /\ last \in Receipts \cup {None}
    /\ round \in 0..MaxRounds

Fits(h, r) == IF h.reference # None THEN Resembles(h, r) ELSE PaidThen(h, r)

(* The receipt an answer names was found in this round's report for what    *)
(* the client sent, and no other receipt of the report fits as well: it is  *)
(* neither left over from an earlier answer, nor the client's word, nor     *)
(* chosen by position.                                                      *)
ReceiptIsEarned ==
    answer = "body" /\ mine.fusion # None =>
        \E r \in DOMAIN receipts :
            /\ receipts[r] = mine.fusion
            /\ Fits(sent, receipts[r])
            /\ \A q \in DOMAIN receipts \ {r} :
                 Fits(sent, receipts[q]) =>
                     /\ sent.reference # None
                     /\ Bears(sent, receipts[r]) /\ ~Bears(sent, receipts[q])

(* A batch that is answered and sent again is not moved to another receipt  *)
(* while the report still lists the one it was given, unless the other      *)
(* bears its very reference.  This is so although the first answer may have *)
(* gone by amount and date and left a reference behind, and although the    *)
(* rounds in between may have failed or found nothing.                      *)
KeepsItsReceipt ==
    [][fusion' # fusion /\ fusion' # None /\ last # None
         /\ (\E r \in DOMAIN receipts : receipts[r] = last)
         => fusion' = last \/ Bears(header, fusion')]_vars

(* What the client supplied comes back as it was; what it left blank is     *)
(* still blank or agrees with the receipt it is told of; of the name, the   *)
(* receipt's own counts, and the discovered customer's only without one.    *)
HeaderIsHonest ==
    answer = "body" =>
        LET h == mine.header IN
        /\ h.reference # sent.reference =>
             sent.reference = None /\ mine.fusion # None /\ h.reference = mine.fusion.number
        /\ h.date # sent.date =>
             sent.date = None /\ mine.fusion # None /\ h.date = mine.fusion.date
        /\ h.amount # sent.amount =>
             sent.amount = None /\ mine.fusion # None /\ h.amount = mine.fusion.amount
        /\ h.name # sent.name =>
             /\ sent.name = None /\ mine.fusion # None
             /\ h.name = IF mine.fusion.owner = None THEN customer ELSE mine.fusion.owner

(* Every answer has its cause: a payload needs a customer and both ledgers, *)
(* a 502 a failure of this request's own, and CancelledError gets past the  *)
(* endpoint only out of discovery or out of the invoice report awaited on   *)
(* its own; out of the gather it never does.                                *)
AnswerForCause ==
    /\ answer \in {"body", "500"} =>
         found \in {"named", "confirmed"} /\ customer # None /\ \A p \in Reports : got[p] = "rows"
    /\ answer = "502" =>
         \/ found = "failed"
         \/ found = "named" /\ \E p \in Reports : got[p] \in {"failed", "cancelled"}
         \/ found = "confirmed" /\ got["invoice"] = "failed"
    /\ answer = "escaped" =>
         \/ found = "cancelled"
         \/ found = "confirmed" /\ got["invoice"] = "cancelled"
    /\ answer = "422" => found = "limit"
    /\ answer = "null" => found = "nobody"

(* When a round is over, no fetch made for it is still with Oracle, even if *)
(* the other one failed first.                                              *)
NoStrayFetch == pc = "client" => \A p \in Reports : got[p] # "asked"

=============================================================================
