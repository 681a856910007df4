---------------------------- MODULE LedgerMatch ----------------------------
(***************************************************************************)
(* The second half of map_ledger_to_payload in reconciliation.py: every    *)
(* line of a remittance, in order, is bound to at most one row of the      *)
(* customer's Oracle invoice ledger.  A line that is bound is overwritten  *)
(* with the row's data and the row is not offered again.                   *)
(*                                                                         *)
(* A number, date or amount stands for its comparison key: what is left    *)
(* after stripping, date formatting and sanitize_float_val.  Two cells     *)
(* that read the same may still be spelled differently ("100" and          *)
(* "100.00"); a row's text tells the spellings apart.  Resemblance of      *)
(* numbers (_is_num_ok) is a given relation.                               *)
(***************************************************************************)
EXTENDS Naturals, Sequences

CONSTANTS
    Numbers, Dates, Amounts,    \* comparison keys
    Texts,                      \* spellings of a row's cells
    None,                       \* a blank number or date, an absent amount
    Unreadable,                 \* an amount cell that is blank or cannot be read
    Alike,                      \* the pairs of numbers _is_num_ok accepts
    Rows, Lines,                \* the rows and lines that occur
    MaxRows, MaxLines           \* bounds on their number

Row  == [number : Numbers \cup {None}, date : Dates \cup {None},
         amount : Amounts \cup {None, Unreadable}, text : Texts]
Line == [number : Numbers \cup {None}, date : Dates \cup {None},
         amount : Amounts \cup {None}]

ASSUME MatchAssumption ==
    /\ None \notin Numbers \cup Dates \cup Amounts \cup {Unreadable}
    /\ Unreadable \notin Amounts
    /\ Alike \subseteq Numbers \X Numbers
    /\ \A n \in Numbers : <<n, n>> \in Alike
    /\ Rows \subseteq Row
    /\ Lines \subseteq Line
    /\ MaxRows \in Nat /\ MaxLines \in Nat

VARIABLES
    ledger,    \* the rows, in report order
    given,     \* the lines as the caller sent them
    lines,     \* payload.invoices
    at,        \* the line to be mapped next
    row,       \* the row each line is bound to; 0: none
    rule       \* match_rule of each line

vars == <<ledger, given, lines, at, row, rule>>

Rules == {"EXACT_NUMBER_AMOUNT_DATE", "EXACT_NUMBER_AMOUNT_OR_DATE",
          "EXACT_NUMBER_UNIQUE", "NUMBER_AMOUNT_DATE",
          "FUZZY_NUMBER_AMOUNT_OR_DATE", "FUZZY_NUMBER_ALONE",
          "AMOUNT_ALONE_UNIQUE", "DATE_ALONE_UNIQUE"}

-----------------------------------------------------------------------------
(* Evidence: what a line l and a row r say of one another.                  *)
SameNumber(l, r) == l.number # None /\ l.number = r.number
NumOK(l, r)      == l.number # None /\ r.number # None /\ <<l.number, r.number>> \in Alike
AmtOK(l, r)      == l.amount # None /\ l.amount = r.amount
DateOK(l, r)     == l.date # None /\ l.date = r.date

(* Rows one may choose from: all of them are the same to the last letter.   *)
(* Wrong on purpose: the first of several, and only a single one.           *)
IdenticalOrNot(led, S) == S # {}
IdenticalAndOne(led, S) == \E r \in S : S = {r}
Identical(led, S) == S # {} /\ \A r, q \in S : led[r] = led[q]
(* Wrong on purpose: the first of several.                                  *)
SingleOrFirst(S) == S # {}
Single(S) == \E r \in S : S = {r}

(* Wrong on purpose: a number is enough.                                    *)
CorroboratesAnyhow(l, r) == TRUE
Corroborates(l, r) == AmtOK(l, r) \/ DateOK(l, r)

Verdict(why, among) == [rule |-> why, among |-> among]
Unmatched == Verdict("", {})

(* The tiers for a line whose number the ledger has.                        *)
ByNumber(led, l, free) ==
    LET candidates == {r \in free : SameNumber(l, led[r])}
        exact   == {r \in candidates : AmtOK(l, led[r]) /\ DateOK(l, led[r])}
        two_way == {r \in candidates : Corroborates(l, led[r])}
    IN  CASE Identical(led, exact) -> Verdict("EXACT_NUMBER_AMOUNT_DATE", exact)
          [] ~Identical(led, exact) /\ Identical(led, two_way) ->
               Verdict("EXACT_NUMBER_AMOUNT_OR_DATE", two_way)
          [] two_way = {} /\ Single(candidates) -> Verdict("EXACT_NUMBER_UNIQUE", candidates)
          [] OTHER -> Unmatched

(* The tiers for a line whose number the ledger does not have.              *)
ByResemblance(led, l, free) ==
    LET date_amt == {r \in free : NumOK(l, led[r]) /\ AmtOK(l, led[r]) /\ DateOK(l, led[r])}
        corroborated == {r \in free : NumOK(l, led[r]) /\ Corroborates(l, led[r])}
        fuzzy == {r \in free : NumOK(l, led[r])} \ corroborated
        amt   == {r \in free : AmtOK(l, led[r])}
        date  == {r \in free : DateOK(l, led[r])}
    IN  CASE Single(date_amt) -> Verdict("NUMBER_AMOUNT_DATE", date_amt)
          [] date_amt = {} /\ Single(corroborated) ->
               Verdict("FUZZY_NUMBER_AMOUNT_OR_DATE", corroborated)
          [] corroborated = {} /\ Single(fuzzy) -> Verdict("FUZZY_NUMBER_ALONE", fuzzy)
          [] corroborated = {} /\ ~Single(fuzzy) /\ Single(amt) ->
               Verdict("AMOUNT_ALONE_UNIQUE", amt)
          [] corroborated = {} /\ ~Single(fuzzy) /\ ~Single(amt) /\ Single(date) ->
               Verdict("DATE_ALONE_UNIQUE", date)
          [] OTHER -> Unmatched

(* Wrong on purpose: the index holds only the rows that are free.           *)
MatchFallsThrough(led, l, free) ==
    IF \E r \in free : SameNumber(l, led[r])
    THEN ByNumber(led, l, free)
    ELSE ByResemblance(led, l, free)

(* A number that is in the ledger never falls through to resemblance, even  *)
(* when all its rows are taken.                                             *)
Match(led, l, free) ==
    IF \E r \in DOMAIN led : SameNumber(l, led[r])
    THEN ByNumber(led, l, free)
    ELSE ByResemblance(led, l, free)

(* Wrong on purpose: the cell is copied unread, or the line keeps its own.  *)
AmountUnread(cell, own) == IF cell = None THEN own ELSE cell
AmountKept(cell, own) == own
(* InvoiceItem reads an amount when it is assigned: a row without one that  *)
(* can be read leaves the line's amount.                                    *)
AmountRead(cell, own) == IF cell \in Amounts THEN cell ELSE own

(* _apply_invoice_mapping: the row's cells replace the line's.              *)
Applied(l, r) ==
    [number |-> r.number, date |-> r.date, amount |-> AmountRead(r.amount, l.amount)]

First(S) == CHOOSE r \in S : \A q \in S : r <= q

-----------------------------------------------------------------------------
SeqsUpTo(S, n) == UNION {[1..m -> S] : m \in 0..n}

Init ==
    /\ ledger \in SeqsUpTo(Rows, MaxRows)
    /\ given \in SeqsUpTo(Lines, MaxLines)
    /\ lines = given
    /\ at = 1
    /\ row = [i \in DOMAIN given |-> 0]
    /\ rule = [i \in DOMAIN given |-> ""]

(* Wrong on purpose: a row is not marked as taken.                          *)
FreeAlways == DOMAIN ledger

(* The rows no line has taken.                                              *)
Free == {r \in DOMAIN ledger : \A i \in DOMAIN given : row[i] # r}

(* The line is bound to the earliest of the rows the tiers settled on.      *)
Bind ==
    LET found == Match(ledger, lines[at], Free) IN
    /\ at \in DOMAIN given
    /\ \E r \in found.among :
         /\ \A q \in found.among : r <= q
         /\ row' = [row EXCEPT ![at] = r]
         /\ rule' = [rule EXCEPT ![at] = found.rule]
         /\ lines' = [lines EXCEPT ![at] = Applied(lines[at], ledger[r])]
    /\ at' = at + 1
    /\ UNCHANGED <<ledger, given>>

Refuse ==
    /\ at \in DOMAIN given
    /\ Match(ledger, lines[at], Free).among = {}
    /\ at' = at + 1
    /\ UNCHANGED <<ledger, given, lines, row, rule>>

Done == at = Len(given) + 1
Finished == Done /\ UNCHANGED vars

Next == Bind \/ Refuse \/ Finished

Spec == Init /\ [][Next]_vars

-----------------------------------------------------------------------------
(* Properties *)

(* Every variable has its type.                                             *)
TypeOK ==
    /\ ledger \in Seq(Rows)
    /\ given \in Seq(Lines)
    /\ lines \in [DOMAIN given -> Line]
    /\ at \in 1..Len(given) + 1
    /\ row \in [DOMAIN given -> {0} \cup DOMAIN ledger]
    /\ rule \in [DOMAIN given -> Rules \cup {""}]

(* No row of the ledger is handed to two lines: an invoice is not           *)
(* reconciled twice.                                                        *)
NoRowTwice ==
    \A i, j \in DOMAIN given : row[i] # 0 /\ row[i] = row[j] => i = j

(* The rows that were there to choose from when line i was mapped, after    *)
(* the lines before it had taken theirs.                                    *)
FreeBefore(led, taken, i) == DOMAIN led \ {taken[j] : j \in 1..i - 1}
FreeFor(i) == FreeBefore(ledger, row, i)

(* Row q agrees with line l wherever row r does.                            *)
AsGood(l, q, r) ==
    /\ SameNumber(l, r) => SameNumber(l, q)
    /\ NumOK(l, r) => NumOK(l, q)
    /\ AmtOK(l, r) => AmtOK(l, q)
    /\ DateOK(l, r) => DateOK(l, q)

(* A line is never bound to a row while another row, spelled differently,   *)
(* was free and agreed with the line wherever the chosen one does: nothing  *)
(* is chosen by ledger order, whichever tier decides.                       *)
NoGuess ==
    \A i \in DOMAIN given : row[i] # 0 =>
        \A q \in FreeFor(i) :
            AsGood(given[i], ledger[q], ledger[row[i]]) => ledger[q] = ledger[row[i]]

(* What each rule says of the line and of the row it binds it to.           *)
Claim(why, l, r) ==
    \/ why = "EXACT_NUMBER_AMOUNT_DATE" /\ SameNumber(l, r) /\ AmtOK(l, r) /\ DateOK(l, r)
    \/ why = "EXACT_NUMBER_AMOUNT_OR_DATE" /\ SameNumber(l, r) /\ (AmtOK(l, r) \/ DateOK(l, r))
    \/ why = "EXACT_NUMBER_UNIQUE" /\ SameNumber(l, r) /\ ~AmtOK(l, r) /\ ~DateOK(l, r)
    \/ why = "NUMBER_AMOUNT_DATE" /\ NumOK(l, r) /\ AmtOK(l, r) /\ DateOK(l, r)
    \/ why = "FUZZY_NUMBER_AMOUNT_OR_DATE" /\ NumOK(l, r) /\ (AmtOK(l, r) <=> ~DateOK(l, r))
    \/ why = "FUZZY_NUMBER_ALONE" /\ NumOK(l, r) /\ ~AmtOK(l, r) /\ ~DateOK(l, r)
    \/ why = "AMOUNT_ALONE_UNIQUE" /\ AmtOK(l, r) /\ ~NumOK(l, r)
    \/ why = "DATE_ALONE_UNIQUE" /\ DateOK(l, r) /\ ~NumOK(l, r)

(* Agreement on at least one of number, amount and date is behind every     *)
(* binding, and the match rule reported to the caller says which.           *)
RuleTellsTruth ==
    \A i \in DOMAIN given : row[i] # 0 => Claim(rule[i], given[i], ledger[row[i]])

(* A line whose number is in the ledger is bound to a row with that number  *)
(* or to none, even when other lines have taken every such row.             *)
NumberIsKept ==
    \A i \in DOMAIN given :
        /\ row[i] # 0
        /\ \E r \in DOMAIN ledger : SameNumber(given[i], ledger[r])
        => SameNumber(given[i], ledger[row[i]])

(* A line is left unmatched only for a reason: no free row agrees with it   *)
(* on number, amount and date, or two that do are spelled differently.      *)
TwinIsFound ==
    \A i \in DOMAIN given : i < at /\ row[i] = 0 =>
        LET twins == {r \in FreeFor(i) : /\ SameNumber(given[i], ledger[r])
                                         /\ AmtOK(given[i], ledger[r])
                                         /\ DateOK(given[i], ledger[r])}
        IN  twins # {} => \E r, q \in twins : ledger[r] # ledger[q]

(* The row each line takes, as a function of a ledger and lines; 0: none.   *)
Taken(led, ls) ==
    LET taken[n \in DOMAIN ls] ==
          LET among == Match(led, ls[n], FreeBefore(led, taken, n)).among
          IN  IF among = {} THEN 0 ELSE First(among)
    IN  taken

(* The whole loop as such a function: what each line is bound to, why, and  *)
(* what it reads afterwards.                                                *)
Run(led, ls) ==
    LET taken == Taken(led, ls)
    IN  [row   |-> taken,
         rule  |-> [n \in DOMAIN ls |-> Match(led, ls[n], FreeBefore(led, taken, n)).rule],
         lines |-> [n \in DOMAIN ls |-> IF taken[n] = 0 THEN ls[n]
                                        ELSE Applied(ls[n], led[taken[n]])]]

Content(led, r) == IF r = 0 THEN None ELSE led[r]
Orders(S) == {p \in [S -> S] : \A x, y \in S : x # y => p[x] # p[y]}

(* The same rows reported in another order give every line the same row     *)
(* and the same rule.                                                       *)
LedgerOrderIsNoEvidence ==
    Done => \A p \in Orders(DOMAIN ledger) :
        LET other == [r \in DOMAIN ledger |-> ledger[p[r]]]
            again == Run(other, given)
        IN  \A i \in DOMAIN given :
              /\ again.rule[i] = rule[i]
              /\ Content(other, again.row[i]) = Content(ledger, row[i])

(* A reconciled batch that is sent again reconciles to itself, as long as   *)
(* no row of the ledger lacks a number or an amount.  (A row without an     *)
(* amount leaves the line's own, which can speak for other rows next time.) *)
Anchored(r) == r.number # None /\ r.amount \in Amounts
ResubmissionIsStable ==
    Done /\ (\A r \in DOMAIN ledger : Anchored(ledger[r])) =>
        LET again == Run(ledger, lines)
        IN  /\ again.lines = lines
            /\ \A i \in DOMAIN given : Content(ledger, again.row[i]) = Content(ledger, row[i])

=============================================================================
