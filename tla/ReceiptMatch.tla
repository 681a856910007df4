--------------------------- MODULE ReceiptMatch ---------------------------
(***************************************************************************)
(* The first half of map_ledger_to_payload in reconciliation.py: which     *)
(* receipt of the customer a batch pays for.  A payment reference is       *)
(* compared with the receipts' numbers; a batch without one is compared    *)
(* by amount and date.  One receipt must fit: two are refused.  Its data   *)
(* fill the blank fields of the batch's header and no others.              *)
(*                                                                         *)
(* As in LedgerMatch a cell stands for its comparison key.  An amount that *)
(* cannot be read is None here: it equals nothing and fills nothing.  The  *)
(* name a receipt is entered under need not be the one asked for.          *)
(***************************************************************************)
EXTENDS Naturals, Sequences

CONSTANTS
    References, Dates, Amounts, Names,
    None,
    Fold,      \* a reference's case-folded form
    Within     \* the pairs _is_substring_num_ok accepts

Receipt == [number : References \cup {None}, date : Dates \cup {None},
            amount : Amounts \cup {None}, owner : Names \cup {None}]
Header  == [reference : References \cup {None}, date : Dates \cup {None},
            amount : Amounts \cup {None}, name : Names \cup {None}]

(* Long enough to be compared at all (MIN_NUMBER_MATCH_LENGTH).             *)
Long(n) == <<n, n>> \in Within

ASSUME ReceiptAssumption ==
    /\ None \notin References \cup Dates \cup Amounts \cup Names \cup Receipt
    /\ DOMAIN Fold = References
    /\ Within \subseteq References \X References
    /\ \A m, n \in References : <<m, n>> \in Within => Long(m) /\ Long(n)

(* What a header and a receipt say of one another.                          *)
Resembles(h, r) == <<h.reference, r.number>> \in Within
Bears(h, r) == Resembles(h, r) /\ Fold[h.reference] = Fold[r.number]
PaidThen(h, r) ==
    /\ h.amount # None /\ r.amount = h.amount
    /\ h.date # None /\ r.date = h.date

(* The receipts that fit: with a reference, those that bear it or else      *)
(* those that contain it or are contained in it; amount and date count only *)
(* when there is none.                                                      *)
Candidates(h, led) ==
    LET matching == {r \in DOMAIN led : Resembles(h, led[r])}
        exact == {r \in matching : Bears(h, led[r])}
    IN  IF h.reference = None THEN {r \in DOMAIN led : PaidThen(h, led[r])}
        ELSE IF exact # {} THEN exact ELSE matching

(* Wrong on purpose: the receipt's cell replaces the caller's.              *)
FirstOfOver(own, other) == IF other # None THEN other ELSE own
FirstOf(own, other) == IF own # None THEN own ELSE other

(* Wrong on purpose: the discovered customer's name goes over the row's.    *)
FilledByCustomer(h, r, customer) ==
    [reference |-> FirstOf(h.reference, r.number), date |-> FirstOf(h.date, r.date),
     amount |-> FirstOf(h.amount, r.amount), name |-> FirstOf(h.name, customer)]

(* _apply_receipt_mapping: the receipt fills what the caller left blank;    *)
(* the discovered customer stands in for a name the receipt has none of.    *)
Filled(h, r, customer) ==
    [reference |-> FirstOf(h.reference, r.number), date |-> FirstOf(h.date, r.date),
     amount |-> FirstOf(h.amount, r.amount),
     name |-> FirstOf(h.name, FirstOf(r.owner, customer))]

=============================================================================
