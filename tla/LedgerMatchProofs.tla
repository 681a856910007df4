------------------------- MODULE LedgerMatchProofs -------------------------
(***************************************************************************)
(* Theorems about LedgerMatch, for ledgers and remittances of any length   *)
(* and any resemblance of numbers that holds of every number with itself.  *)
(***************************************************************************)
EXTENDS LedgerMatch, TLAPS

-----------------------------------------------------------------------------
(* What the tiers settle on *)

LEMMA MatchAmong ==
    ASSUME NEW led, NEW l, NEW free
    PROVE  /\ Match(led, l, free).among \subseteq free
           /\ Match(led, l, free).rule \in Rules \cup {""}
           /\ Match(led, l, free).among = {} => Match(led, l, free).rule = ""
<1>1. /\ ByNumber(led, l, free).among \subseteq free
      /\ ByNumber(led, l, free).rule \in Rules \cup {""}
      /\ ByNumber(led, l, free).among = {} => ByNumber(led, l, free).rule = ""
  BY DEF ByNumber, Corroborates, Verdict, Unmatched, Rules, Single, Identical
<1>2. /\ ByResemblance(led, l, free).among \subseteq free
      /\ ByResemblance(led, l, free).rule \in Rules \cup {""}
      /\ ByResemblance(led, l, free).among = {} => ByResemblance(led, l, free).rule = ""
  BY DEF Single, ByResemblance, Corroborates, Verdict, Unmatched, Rules
<1> QED BY <1>1, <1>2 DEF Match

(* Every free row that agrees with the line wherever a chosen row does is   *)
(* spelled like it.                                                         *)
LEMMA MatchUndisputed ==
    ASSUME NEW led, NEW l, NEW free, NEW r \in Match(led, l, free).among,
           NEW q \in free, free \subseteq DOMAIN led,
           AsGood(l, led[q], led[r])
    PROVE  led[q] = led[r]
<1>1. CASE \E x \in DOMAIN led : SameNumber(l, led[x])
  <2>1. r \in ByNumber(led, l, free).among
    BY <1>1 DEF Match
  <2> QED BY <2>1 DEF ByNumber, Corroborates, Verdict, Unmatched, Identical, Single, AsGood
<1>2. CASE ~\E x \in DOMAIN led : SameNumber(l, led[x])
  <2>1. r \in ByResemblance(led, l, free).among
    BY <1>2 DEF Match
  <2> QED BY <2>1 DEF ByResemblance, Corroborates, Verdict, Unmatched, Single, AsGood
<1> QED BY <1>1, <1>2

LEMMA MatchKeepsNumber ==
    ASSUME NEW led, NEW l, NEW free, NEW r \in Match(led, l, free).among,
           \E x \in DOMAIN led : SameNumber(l, led[x])
    PROVE  SameNumber(l, led[r])
<1>1. r \in ByNumber(led, l, free).among
  BY DEF Match
<1> QED BY <1>1 DEF ByNumber, Corroborates, Verdict, Unmatched

LEMMA MatchFindsTwin ==
    ASSUME NEW led, NEW l, NEW free, free \subseteq DOMAIN led,
           Match(led, l, free).among = {},
           NEW r \in free, SameNumber(l, led[r]), AmtOK(l, led[r]), DateOK(l, led[r])
    PROVE  \E q \in free : /\ SameNumber(l, led[q]) /\ AmtOK(l, led[q]) /\ DateOK(l, led[q])
                           /\ led[q] # led[r]
<1>1. ByNumber(led, l, free).among = {}
  BY DEF Match
<1> DEFINE exact == {q \in {x \in free : SameNumber(l, led[x])} : AmtOK(l, led[q]) /\ DateOK(l, led[q])}
<1>2. ~Identical(led, exact)
  BY <1>1 DEF ByNumber, Corroborates, Verdict, Identical
<1> QED BY <1>2 DEF Identical

(* The rule is true of the line and of each row it was settled on.          *)
LEMMA MatchClaim ==
    ASSUME NEW led, NEW l, NEW free, NEW r \in Match(led, l, free).among
    PROVE  Claim(Match(led, l, free).rule, l, led[r])
<1>1. CASE \E x \in DOMAIN led : SameNumber(l, led[x])
  <2> DEFINE candidates == {x \in free : SameNumber(l, led[x])}
             exact   == {x \in candidates : AmtOK(l, led[x]) /\ DateOK(l, led[x])}
             two_way == {x \in candidates : AmtOK(l, led[x]) \/ DateOK(l, led[x])}
             found   == ByNumber(led, l, free)
  <2>1. Match(led, l, free) = found
    BY <1>1 DEF Match
  <2>2. \/ found = Verdict("EXACT_NUMBER_AMOUNT_DATE", exact)
        \/ found = Verdict("EXACT_NUMBER_AMOUNT_OR_DATE", two_way)
        \/ found = Verdict("EXACT_NUMBER_UNIQUE", candidates) /\ two_way = {}
        \/ found = Unmatched
    BY DEF ByNumber, Corroborates
  <2>3. r \in found.among
    BY <2>1
  <2> HIDE DEF found
  <2>4. CASE found = Verdict("EXACT_NUMBER_AMOUNT_DATE", exact)
    BY <2>1, <2>3, <2>4 DEF Verdict, Claim
  <2>5. CASE found = Verdict("EXACT_NUMBER_AMOUNT_OR_DATE", two_way)
    BY <2>1, <2>3, <2>5 DEF Verdict, Claim
  <2>6. CASE found = Verdict("EXACT_NUMBER_UNIQUE", candidates) /\ two_way = {}
    <3>1. r \in candidates /\ r \notin two_way
      BY <2>3, <2>6 DEF Verdict
    <3>2. Match(led, l, free).rule = "EXACT_NUMBER_UNIQUE"
      BY <2>1, <2>6 DEF Verdict
    <3> QED BY <3>1, <3>2 DEF Claim
  <2>7. CASE found = Unmatched
    BY <2>3, <2>7 DEF Verdict, Unmatched
  <2> QED BY <2>2, <2>4, <2>5, <2>6, <2>7
<1>2. CASE ~\E x \in DOMAIN led : SameNumber(l, led[x])
  <2> DEFINE date_amt == {x \in free : NumOK(l, led[x]) /\ AmtOK(l, led[x]) /\ DateOK(l, led[x])}
             corroborated == {x \in free : NumOK(l, led[x]) /\ (AmtOK(l, led[x]) \/ DateOK(l, led[x]))}
             fuzzy == {x \in free : NumOK(l, led[x])} \ corroborated
             amt   == {x \in free : AmtOK(l, led[x])}
             date  == {x \in free : DateOK(l, led[x])}
             found == ByResemblance(led, l, free)
  <2>1. Match(led, l, free) = found
    BY <1>2 DEF Match
  <2>2. \/ found = Verdict("NUMBER_AMOUNT_DATE", date_amt)
        \/ found = Verdict("FUZZY_NUMBER_AMOUNT_OR_DATE", corroborated) /\ date_amt = {}
        \/ found = Verdict("FUZZY_NUMBER_ALONE", fuzzy)
        \/ found = Verdict("AMOUNT_ALONE_UNIQUE", amt) /\ corroborated = {}
        \/ found = Verdict("DATE_ALONE_UNIQUE", date) /\ corroborated = {}
        \/ found = Unmatched
    BY DEF ByResemblance, Corroborates
  <2>3. r \in found.among
    BY <2>1
  <2> HIDE DEF found
  <2>4. CASE found = Verdict("NUMBER_AMOUNT_DATE", date_amt)
    BY <2>1, <2>3, <2>4 DEF Verdict, Claim
  <2>5. CASE found = Verdict("FUZZY_NUMBER_AMOUNT_OR_DATE", corroborated) /\ date_amt = {}
    <3>1. r \in corroborated /\ r \notin date_amt
      BY <2>3, <2>5 DEF Verdict
    <3>2. Match(led, l, free).rule = "FUZZY_NUMBER_AMOUNT_OR_DATE"
      BY <2>1, <2>5 DEF Verdict
    <3> QED BY <3>1, <3>2 DEF Claim
  <2>6. CASE found = Verdict("FUZZY_NUMBER_ALONE", fuzzy)
    BY <2>1, <2>3, <2>6 DEF Verdict, Claim
  <2>7. CASE found = Verdict("AMOUNT_ALONE_UNIQUE", amt) /\ corroborated = {}
    <3>1. r \in amt /\ r \notin corroborated
      BY <2>3, <2>7 DEF Verdict
    <3>2. Match(led, l, free).rule = "AMOUNT_ALONE_UNIQUE"
      BY <2>1, <2>7 DEF Verdict
    <3> QED BY <3>1, <3>2 DEF Claim
  <2>8. CASE found = Verdict("DATE_ALONE_UNIQUE", date) /\ corroborated = {}
    <3>1. r \in date /\ r \notin corroborated
      BY <2>3, <2>8 DEF Verdict
    <3>2. Match(led, l, free).rule = "DATE_ALONE_UNIQUE"
      BY <2>1, <2>8 DEF Verdict
    <3> QED BY <3>1, <3>2 DEF Claim
  <2>9. CASE found = Unmatched
    BY <2>3, <2>9 DEF Verdict, Unmatched
  <2> QED BY <2>2, <2>4, <2>5, <2>6, <2>7, <2>8, <2>9
<1> QED BY <1>1, <1>2

-----------------------------------------------------------------------------
(* The inductive invariant *)

(* Lines not reached yet are as the caller sent them.                       *)
Untouched == \A i \in DOMAIN given :
    i >= at => lines[i] = given[i] /\ row[i] = 0 /\ rule[i] = ""

(* How a line passed was dealt with: as the tiers say, of the rows that the *)
(* lines before it had left.                                                *)
Handled(i, found) ==
    /\ rule[i] = found.rule
    /\ \/ /\ row[i] = 0 /\ found.among = {}
          /\ lines[i] = given[i]
       \/ /\ row[i] # 0 /\ row[i] \in found.among
          /\ \A q \in found.among : row[i] <= q
          /\ lines[i] = Applied(given[i], ledger[row[i]])

History == \A i \in DOMAIN given : i < at => Handled(i, Match(ledger, given[i], FreeFor(i)))

IInv == TypeOK /\ Untouched /\ History

LEMMA AppliedType ==
    ASSUME NEW l \in Line, NEW r \in Row PROVE Applied(l, r) \in Line
BY MatchAssumption DEF Applied, AmountRead, Line, Row

(* What the types say of lengths and indices.                               *)
LEMMA Lengths ==
    ASSUME TypeOK
    PROVE  /\ Len(given) \in Nat /\ DOMAIN given = 1..Len(given)
           /\ Len(ledger) \in Nat /\ DOMAIN ledger = 1..Len(ledger)
           /\ at \in 1..Len(given) + 1
           /\ \A i \in DOMAIN given : given[i] \in Line
           /\ \A r \in DOMAIN ledger : ledger[r] \in Row
<1>1. given \in Seq(Lines) /\ ledger \in Seq(Rows)
  BY DEF TypeOK
<1>2. Len(given) \in Nat /\ DOMAIN given = 1..Len(given)
  BY <1>1
<1>3. Len(ledger) \in Nat /\ DOMAIN ledger = 1..Len(ledger)
  BY <1>1
<1>4. at \in 1..Len(given) + 1
  BY DEF TypeOK
<1>5. \A i \in DOMAIN given : given[i] \in Lines
  BY <1>1
<1>6. \A r \in DOMAIN ledger : ledger[r] \in Rows
  BY <1>1
<1> QED BY <1>2, <1>3, <1>4, <1>5, <1>6, MatchAssumption

LEMMA InitStep == Init => IInv
<1> SUFFICES ASSUME Init PROVE IInv
  OBVIOUS
<1>1. PICK m \in 0..MaxLines : given \in [1..m -> Lines]
  BY DEF Init, SeqsUpTo
<1>2. PICK k \in 0..MaxRows : ledger \in [1..k -> Rows]
  BY DEF Init, SeqsUpTo
<1>3. m \in Nat /\ k \in Nat
  BY MatchAssumption
<1>4. given \in Seq(Lines) /\ ledger \in Seq(Rows) /\ Len(given) = m /\ DOMAIN given = 1..m
  BY <1>1, <1>2, <1>3
<1>5. at = 1 /\ at \in 1..Len(given) + 1
  <2>1. at = 1
    BY DEF Init
  <2>2. Len(given) \in Nat
    BY <1>3, <1>4
  <2> QED BY <2>1, <2>2
<1>6. lines \in [DOMAIN given -> Line]
  BY <1>1, <1>4, MatchAssumption DEF Init
<1>7. TypeOK
  BY <1>4, <1>5, <1>6 DEF Init, TypeOK
<1>8. \A i \in DOMAIN given : ~(i < at)
  BY <1>3, <1>4, <1>5
<1>9. Untouched /\ History
  BY <1>8 DEF Init, Untouched, History
<1> QED BY <1>7, <1>9 DEF IInv

(* The rows no line has taken are those the lines passed have left.         *)
LEMMA FreeNow ==
    ASSUME IInv, at \in DOMAIN given PROVE Free = FreeFor(at)
<1>1. /\ DOMAIN given = 1..Len(given) /\ Len(given) \in Nat /\ at \in Nat
      /\ DOMAIN ledger = 1..Len(ledger) /\ Len(ledger) \in Nat
  BY Lengths DEF IInv
<1>2. \A i \in DOMAIN given : i >= at => row[i] = 0
  BY DEF IInv, Untouched
<1>3. \A i \in DOMAIN given : i \in 1..at - 1 \/ i >= at
  BY <1>1
<1>4. 1..at - 1 \subseteq DOMAIN given
  BY <1>1
<1>5. 0 \notin DOMAIN ledger
  BY <1>1
<1> QED BY <1>2, <1>3, <1>4, <1>5 DEF Free, FreeFor, FreeBefore

LEMMA NextStep == ASSUME IInv, [Next]_vars PROVE IInv'
<1>a. /\ DOMAIN given = 1..Len(given) /\ Len(given) \in Nat /\ at \in Nat
      /\ DOMAIN ledger = 1..Len(ledger) /\ Len(ledger) \in Nat
      /\ \A r \in DOMAIN ledger : ledger[r] \in Row
  BY Lengths DEF IInv
<1>1. CASE UNCHANGED vars \/ Finished
  <2>1. UNCHANGED <<ledger, given, lines, at, row, rule>>
    BY <1>1 DEF vars, Finished
  <2>2. TypeOK' /\ Untouched'
    BY <2>1 DEF IInv, TypeOK, Untouched
  <2>3. \A i : FreeFor(i)' = FreeFor(i)
    BY <2>1 DEF FreeFor, FreeBefore
  <2>4. History'
    BY <2>1, <2>3 DEF IInv, History, Handled
  <2> QED BY <2>2, <2>4 DEF IInv
<1>2. CASE Bind
  <2> DEFINE found == Match(ledger, lines[at], Free)
  <2>1. /\ at \in DOMAIN given /\ at' = at + 1 /\ UNCHANGED <<ledger, given>>
    BY <1>2 DEF Bind
  <2>2. PICK r \in found.among :
          /\ \A q \in found.among : r <= q
          /\ row' = [row EXCEPT ![at] = r]
          /\ rule' = [rule EXCEPT ![at] = found.rule]
          /\ lines' = [lines EXCEPT ![at] = Applied(lines[at], ledger[r])]
    BY <1>2 DEF Bind
  <2>3. r \in DOMAIN ledger /\ r # 0 /\ found.rule \in Rules \cup {""}
    <3>1. r \in Free /\ found.rule \in Rules \cup {""}
      BY <2>2, MatchAmong
    <3> HIDE DEF found
    <3>2. r \in DOMAIN ledger
      BY <3>1 DEF Free
    <3>3. r # 0
      BY <1>a, <3>2
    <3> QED BY <3>1, <3>2, <3>3
  <2>4. found = Match(ledger, given[at], FreeFor(at))
    <3>1. at >= at
      BY <1>a
    <3>2. lines[at] = given[at]
      BY <2>1, <3>1 DEF IInv, Untouched
    <3> QED BY <2>1, <3>2, FreeNow
  <2> HIDE DEF found
  <2>5. TypeOK'
    <3>1. ledger[r] \in Row /\ lines[at] \in Line
      BY <1>a, <2>1, <2>3 DEF IInv, TypeOK
    <3>2. Applied(lines[at], ledger[r]) \in Line
      BY <3>1, AppliedType
    <3>3. at + 1 \in 1..Len(given) + 1
      BY <1>a, <2>1
    <3> QED BY <2>1, <2>2, <2>3, <3>2, <3>3 DEF IInv, TypeOK
  <2>6. Untouched'
    <3>1. \A i \in DOMAIN given : i >= at + 1 => i >= at /\ i # at
      BY <1>a
    <3> QED BY <2>1, <2>2, <3>1 DEF IInv, TypeOK, Untouched
  <2>7. \A i \in DOMAIN given : i <= at => FreeFor(i)' = FreeFor(i)
    <3>1. \A i \in DOMAIN given : i <= at => \A j \in 1..i - 1 : j \in DOMAIN given /\ j # at
      BY <1>a
    <3>2. \A j \in DOMAIN given : j # at => row'[j] = row[j]
      BY <2>2 DEF IInv, TypeOK
    <3> QED BY <2>1, <3>1, <3>2 DEF FreeFor, FreeBefore
  <2>8. History'
    <3> SUFFICES ASSUME NEW i \in DOMAIN given, i < at + 1
                 PROVE  Handled(i, Match(ledger, given[i], FreeFor(i)))'
      BY <2>1 DEF History
    <3>1. i <= at
      BY <1>a
    <3>2. CASE i = at
      <4>1. /\ row'[i] = r /\ rule'[i] = found.rule
            /\ lines'[i] = Applied(given[i], ledger[r])
        <5>1. at >= at
          BY <1>a
        <5>2. lines[at] = given[at]
          BY <2>1, <5>1 DEF IInv, Untouched
        <5> QED BY <2>1, <2>2, <3>2, <5>2 DEF IInv, TypeOK
      <4> QED BY <2>1, <2>2, <2>3, <2>4, <2>7, <3>1, <3>2, <4>1 DEF Handled
    <3>3. CASE i # at
      <4>1. row'[i] = row[i] /\ rule'[i] = rule[i] /\ lines'[i] = lines[i]
        BY <2>2, <3>3 DEF IInv, TypeOK
      <4>2. i < at
        BY <1>a, <3>1, <3>3
      <4>3. Handled(i, Match(ledger, given[i], FreeFor(i)))
        BY <4>2 DEF IInv, History
      <4> QED BY <2>1, <2>7, <3>1, <4>1, <4>3 DEF Handled
    <3> QED BY <3>2, <3>3
  <2> QED BY <2>5, <2>6, <2>8 DEF IInv
<1>3. CASE Refuse
  <2>1. /\ at \in DOMAIN given /\ at' = at + 1 /\ UNCHANGED <<ledger, given, lines, row, rule>>
        /\ Match(ledger, lines[at], Free).among = {}
    BY <1>3 DEF Refuse
  <2>2. Handled(at, Match(ledger, given[at], FreeFor(at)))
    <3>1. at >= at
      BY <1>a
    <3>2. lines[at] = given[at] /\ row[at] = 0 /\ rule[at] = ""
      BY <2>1, <3>1 DEF IInv, Untouched
    <3>3. Match(ledger, given[at], FreeFor(at)).among = {}
      BY <2>1, <3>2, FreeNow
    <3> QED BY <3>2, <3>3, MatchAmong DEF Handled
  <2>3. TypeOK'
    <3>1. at + 1 \in 1..Len(given) + 1
      BY <1>a, <2>1
    <3> QED BY <2>1, <3>1 DEF IInv, TypeOK
  <2>4. Untouched'
    <3>1. \A i \in DOMAIN given : i >= at + 1 => i >= at
      BY <1>a
    <3> QED BY <2>1, <3>1 DEF IInv, Untouched
  <2>5. \A i \in DOMAIN given : FreeFor(i)' = FreeFor(i)
    BY <2>1 DEF FreeFor, FreeBefore
  <2>6. \A i \in DOMAIN given : i < at + 1 => i < at \/ i = at
    BY <1>a
  <2>7. History'
    BY <2>1, <2>2, <2>5, <2>6 DEF IInv, History, Handled
  <2> QED BY <2>3, <2>4, <2>7 DEF IInv
<1> QED BY <1>1, <1>2, <1>3 DEF Next

-----------------------------------------------------------------------------
(* The theorems *)

THEOREM Invariant == Spec => []IInv
<1>1. IInv /\ [Next]_vars => IInv'
  BY NextStep
<1> QED BY InitStep, <1>1, PTL DEF Spec

(* Every variable keeps its type.                                           *)
THEOREM TypeCorrect == Spec => []TypeOK
<1>1. IInv => TypeOK
  BY DEF IInv
<1> QED BY Invariant, <1>1, PTL

(* A line that is bound was reached, and is bound as the tiers say.         *)
LEMMA BoundBy ==
    ASSUME IInv, NEW i \in DOMAIN given, row[i] # 0
    PROVE  /\ row[i] \in Match(ledger, given[i], FreeFor(i)).among
           /\ rule[i] = Match(ledger, given[i], FreeFor(i)).rule
           /\ row[i] \in FreeFor(i) /\ FreeFor(i) \subseteq DOMAIN ledger
<1>1. i < at
  <2>1. i \in Nat /\ at \in Nat
    BY Lengths DEF IInv
  <2>2. i < at \/ i >= at
    BY <2>1
  <2> QED BY <2>2 DEF IInv, Untouched
<1> QED BY <1>1, MatchAmong DEF IInv, History, Handled, FreeFor, FreeBefore

(* No row is bound to two lines.                                            *)
THEOREM RowsAreUsedOnce == Spec => []NoRowTwice
<1>1. IInv => NoRowTwice
  <2> SUFFICES ASSUME IInv, NEW i \in DOMAIN given, NEW j \in DOMAIN given,
                      row[i] # 0, row[i] = row[j], i < j
               PROVE  FALSE
    <3>1. IInv => DOMAIN given \subseteq Nat
      BY Lengths DEF IInv
    <3>2. \A i, j \in Nat : i < j \/ j < i \/ i = j
      OBVIOUS
    <3> QED BY <3>1, <3>2 DEF NoRowTwice
  <2>1. row[j] \in FreeFor(j)
    BY BoundBy
  <2>2. i \in 1..j - 1
    <3>1. DOMAIN given = 1..Len(given) /\ Len(given) \in Nat
      BY Lengths DEF IInv
    <3> QED BY <3>1
  <2> QED BY <2>1, <2>2 DEF FreeFor, FreeBefore
<1> QED BY Invariant, <1>1, PTL

(* No line is bound to one of several rows that it fits equally well.       *)
THEOREM NothingIsGuessed == Spec => []NoGuess
<1>1. IInv => NoGuess
  BY BoundBy, MatchUndisputed DEF NoGuess
<1> QED BY Invariant, <1>1, PTL

(* The rule reported for a line is true of the line and its row.            *)
THEOREM RulesAreTrue == Spec => []RuleTellsTruth
<1>1. IInv => RuleTellsTruth
  <2> SUFFICES ASSUME IInv, NEW i \in DOMAIN given, row[i] # 0
               PROVE  Claim(rule[i], given[i], ledger[row[i]])
    BY DEF RuleTellsTruth, Claim
  <2> QED BY BoundBy, MatchClaim
<1> QED BY Invariant, <1>1, PTL

(* A line whose number is in the ledger is bound by number or not at all.   *)
THEOREM NumbersAreKept == Spec => []NumberIsKept
<1>1. IInv => NumberIsKept
  BY BoundBy, MatchKeepsNumber DEF NumberIsKept
<1> QED BY Invariant, <1>1, PTL

(* A line is not left unmatched while one free row agrees with it on        *)
(* number, amount and date.                                                 *)
THEOREM TwinsAreFound == Spec => []TwinIsFound
<1>1. IInv => TwinIsFound
  <2> SUFFICES ASSUME IInv, NEW i \in DOMAIN given, i < at, row[i] = 0,
                      NEW r \in FreeFor(i), SameNumber(given[i], ledger[r]),
                      AmtOK(given[i], ledger[r]), DateOK(given[i], ledger[r])
               PROVE  \E q \in FreeFor(i) :
                        /\ SameNumber(given[i], ledger[q]) /\ AmtOK(given[i], ledger[q])
                        /\ DateOK(given[i], ledger[q]) /\ ledger[q] # ledger[r]
    BY DEF TwinIsFound
  <2>1. Match(ledger, given[i], FreeFor(i)).among = {} /\ FreeFor(i) \subseteq DOMAIN ledger
    BY DEF IInv, History, Handled, FreeFor, FreeBefore
  <2> QED BY <2>1, MatchFindsTwin
<1> QED BY Invariant, <1>1, PTL
=============================================================================
