---------------------------- MODULE CellsProofs ----------------------------
(***************************************************************************)
(* Proofs about Cells: over cells of any length, and dates of any fields,  *)
(* an amount in a documented spelling is read as it is spelled, what else  *)
(* is read holds an underscore or an exponent, and the order of FORMATS    *)
(* decides no date.                                                        *)
(***************************************************************************)
EXTENDS Cells, SequenceTheorems, WellFoundedInduction, TLAPS

Symbols == Chars \cup {"inf"}

-----------------------------------------------------------------------------
(* Amounts: grouping counted from the left, as the code does, is grouping   *)
(* counted from the right.                                                  *)

DigitsAnd(t, n, sep) == \A i \in 1..n : t[i] \in {"d", sep}

LEMMA InFours ==
    ASSUME NEW n \in Nat, NEW h \in 1..3, NEW i \in 1..n, h < n, (n - h) % 4 = 0
    PROVE  /\ n % 4 # 0
           /\ i > h => ((i - h) % 4 = 1) = ((n - i) % 4 = 3)
           /\ i <= h => (n - i) % 4 # 3
  OBVIOUS

LEMMA GroupsAreThrees ==
    ASSUME NEW t, NEW n \in Nat, NEW sep \in {"comma", "dot"},
           Groups(t, n, sep), DigitsAnd(t, n, sep)
    PROVE  InThrees(t, n, sep)
  <1>1. PICK h \in 1..3 : /\ h < n /\ (n - h) % 4 = 0
                          /\ Digits(t, 1, h) /\ EachBehind(t, h, n, sep)
    BY DEF Groups
  <1>2. n % 4 # 0
    BY <1>1
  <1>3. ASSUME NEW i \in 1..n
        PROVE  t[i] = IF (n - i) % 4 = 3 THEN sep ELSE "d"
    <2>1. t[i] \in {"d", sep}
      BY DEF DigitsAnd
    <2>2. CASE i > h
      <3>1. ((i - h) % 4 = 1) = ((n - i) % 4 = 3)
        BY <1>1, <2>2, InFours
      <3>2. i \in h + 1..n
        BY <2>2
      <3>3. (t[i] = sep) = ((i - h) % 4 = 1)
        BY <1>1, <3>2, Zenon DEF EachBehind
      <3> QED BY <2>1, <3>1, <3>3, Zenon
    <2>3. CASE i <= h
      <3>1. i \in 1..h /\ (n - i) % 4 # 3
        BY <1>1, <2>3
      <3>2. t[i] = "d"
        BY <1>1, <3>1, Zenon DEF Digits
      <3> QED BY <3>1, <3>2, Zenon
    <2> QED BY <2>2, <2>3
  <1> QED BY <1>2, <1>3, Zenon DEF InThrees

LEMMA ThreesAreGroups ==
    ASSUME NEW t, NEW n \in Nat, NEW sep \in {"comma", "dot"},
           InThrees(t, n, sep), ~Digits(t, 1, n)
    PROVE  Groups(t, n, sep)
  <1>1. n % 4 # 0 /\ \A i \in 1..n : t[i] = IF (n - i) % 4 = 3 THEN sep ELSE "d"
    BY Zenon DEF InThrees
  <1>2. PICK h \in 1..3 : h <= n /\ (n - h) % 4 = 0
    <2>1. n % 4 # 0
      BY <1>1, Zenon
    <2>2. n % 4 \in 1..3 /\ n % 4 <= n /\ (n - (n % 4)) % 4 = 0
      BY <2>1
    <2> QED BY <2>2
  <1>3. Digits(t, 1, h)
    <2>1. ASSUME NEW i \in 1..h PROVE t[i] = "d"
      <3>1. i \in 1..n /\ (n - i) % 4 # 3
        BY <1>2
      <3> QED BY <1>1, <3>1, Zenon
    <2> QED BY <2>1, Zenon DEF Digits
  <1>4. h < n
    <2>1. h # n
      BY <1>3
    <2> QED BY <1>2, <2>1
  <1>5. EachBehind(t, h, n, sep)
    <2>1. ASSUME NEW i \in h + 1..n
          PROVE  (t[i] = sep) = ((i - h) % 4 = 1)
      <3>1. i \in 1..n /\ i > h
        OBVIOUS
      <3>2. ((i - h) % 4 = 1) = ((n - i) % 4 = 3)
        BY <1>2, <1>4, <3>1, InFours
      <3>3. "d" # sep
        OBVIOUS
      <3> QED BY <1>1, <3>1, <3>2, <3>3, Zenon
    <2> QED BY <2>1, Zenon DEF EachBehind
  <1> QED BY <1>2, <1>3, <1>4, <1>5, Zenon DEF Groups

(* What is left when the separators go: the other characters, all of them.  *)
LEMMA BehindSkips ==
    ASSUME NEW n \in Nat, n % 4 # 0, NEW j \in 1..n - (n \div 4)
    PROVE  Behind(n, j) \in 1..n /\ (n - Behind(n, j)) % 4 # 3
  BY DEF Behind

LEMMA BehindReaches ==
    ASSUME NEW n \in Nat, n % 4 # 0, NEW i \in 1..n, (n - i) % 4 # 3
    PROVE  \E j \in 1..n - (n \div 4) : Behind(n, j) = i
  <1> DEFINE j == i - (i + 3 - (n % 4)) \div 4
  <1>1. j \in 1..n - (n \div 4) /\ Behind(n, j) = i
    BY DEF Behind
  <1> QED BY <1>1, Zenon

LEMMA StrippedType ==
    ASSUME NEW t \in Seq(Symbols), NEW n \in 1..Len(t), n % 4 # 0
    PROVE  /\ Stripped(t, n) \in Seq(Symbols) /\ Len(Stripped(t, n)) = n - (n \div 4)
           /\ n - (n \div 4) \in Nat \ {0}
           /\ \A j \in 1..n - (n \div 4) : Stripped(t, n)[j] = t[Behind(n, j)]
  <1>1. n - (n \div 4) \in Nat \ {0}
    OBVIOUS
  <1>2. ASSUME NEW j \in 1..n - (n \div 4) PROVE t[Behind(n, j)] \in Symbols
    <2>1. Behind(n, j) \in 1..Len(t)
      BY BehindSkips
    <2> QED BY <2>1
  <1> DEFINE m == n - (n \div 4)
  <1> HIDE DEF m
  <1>3. Stripped(t, n) = [j \in 1..m |-> t[Behind(n, j)]]
    BY Zenon DEF Stripped, m
  <1>4. m \in Nat \ {0} /\ \A j \in 1..m : t[Behind(n, j)] \in Symbols
    BY <1>1, <1>2, Zenon DEF m
  <1>5. Stripped(t, n) \in Seq(Symbols) /\ Len(Stripped(t, n)) = m
    BY <1>3, <1>4
  <1> QED BY <1>3, <1>4, <1>5, Zenon DEF m

LEMMA DigitsJoin ==
    ASSUME NEW s \in Seq(Symbols), s # <<>>, Digits(s, 1, Len(s))
    PROVE  Joined(s)
  BY DEF Joined, Digits

LEMMA ThreesJoin ==
    ASSUME NEW t \in Seq(Symbols), NEW n \in 1..Len(t), NEW sep, InThrees(t, n, sep)
    PROVE  Joined(Stripped(t, n))
  <1>1. n % 4 # 0 /\ \A i \in 1..n : (n - i) % 4 # 3 => t[i] = "d"
    BY Zenon DEF InThrees
  <1>2. /\ Stripped(t, n) \in Seq(Symbols) /\ Len(Stripped(t, n)) = n - (n \div 4)
        /\ n - (n \div 4) \in Nat \ {0}
    BY <1>1, StrippedType
  <1>3. ASSUME NEW j \in 1..n - (n \div 4) PROVE Stripped(t, n)[j] = "d"
    <2>1. Behind(n, j) \in 1..n /\ (n - Behind(n, j)) % 4 # 3
      <3>1. n \in Nat /\ n % 4 # 0
        BY <1>1
      <3> QED BY <3>1, BehindSkips, Zenon
    <2>2. t[Behind(n, j)] = "d"
      BY <1>1, <2>1, Zenon
    <2> QED BY <1>1, <2>2, StrippedType
  <1>4. Digits(Stripped(t, n), 1, Len(Stripped(t, n)))
    BY <1>2, <1>3, Zenon DEF Digits
  <1>5. Stripped(t, n) # <<>>
    BY <1>2
  <1> QED BY <1>2, <1>4, <1>5, DigitsJoin

LEMMA JoinedGroups ==
    ASSUME NEW t \in Seq(Symbols), NEW n \in 1..Len(t), NEW sep \in {"comma", "dot"},
           Groups(t, n, sep), Joined(Stripped(t, n)), ~Has(t, "underscore")
    PROVE  DigitsAnd(t, n, sep)
  <1>1. PICK h \in 1..3 : h < n /\ (n - h) % 4 = 0 /\ EachBehind(t, h, n, sep)
    BY DEF Groups
  <1>2. n % 4 # 0
    BY <1>1
  <1>3. ASSUME NEW i \in 1..n PROVE t[i] \in {"d", sep}
    <2>1. CASE (n - i) % 4 # 3
      <3>1. PICK j \in 1..n - (n \div 4) : Behind(n, j) = i
        BY <1>2, <2>1, BehindReaches
      <3>2. Stripped(t, n)[j] = t[i] /\ j \in 1..Len(Stripped(t, n))
        BY <1>2, <3>1, StrippedType
      <3>3. t[i] \in {"d", "underscore"}
        BY <3>2, Zenon DEF Joined
      <3>4. t[i] # "underscore"
        BY DEF Has
      <3> QED BY <3>3, <3>4
    <2>2. CASE (n - i) % 4 = 3
      <3>1. i \in h + 1..n /\ (i - h) % 4 = 1
        BY <1>1, <2>2, InFours
      <3> QED BY <1>1, <3>1, Zenon DEF EachBehind
    <2> QED BY <2>1, <2>2
  <1> QED BY <1>3 DEF DigitsAnd

(* What a grouped part comes to when float takes it.                        *)
LEMMA UngroupedIs ==
    ASSUME NEW t \in Seq(Symbols), NEW n \in 1..Len(t), NEW sep \in {"comma", "dot"},
           Groups(t, n, sep), NEW negative \in BOOLEAN, NEW scale \in Nat,
           Ungrouped(t, n, negative, scale) # Raised
    PROVE  \/ /\ Ungrouped(t, n, negative, scale) = Number(negative, scale)
              /\ InThrees(t, n, sep) \/ Has(t, "underscore")
           \/ /\ Ungrouped(t, n, negative, scale) = Scientific(negative)
              /\ scale = 0 /\ Has(t, "e")
  <1>1. n % 4 # 0
    BY DEF Groups
  <1>2. CASE Joined(Stripped(t, n))
    <2>1. Ungrouped(t, n, negative, scale) = Number(negative, scale)
      BY <1>2 DEF Ungrouped, Float
    <2> QED BY <1>2, <2>1, JoinedGroups, GroupsAreThrees
  <1>3. CASE ~Joined(Stripped(t, n))
    <2>1. /\ Ungrouped(t, n, negative, scale) = Scientific(negative)
          /\ scale = 0 /\ Powered(Stripped(t, n))
      <3>1. Ungrouped(t, n, negative, scale) =
              IF scale = 0 /\ Powered(Stripped(t, n)) THEN Scientific(negative) ELSE Raised
        BY <1>3 DEF Ungrouped, Float
      <3> QED BY <3>1
    <2>2. PICK j \in 1..n - (n \div 4) : Stripped(t, n)[j] = "e"
      BY <1>1, <2>1, StrippedType DEF Powered
    <2>3. t[Behind(n, j)] = "e" /\ Behind(n, j) \in 1..Len(t)
      <3>1. Behind(n, j) \in 1..n
        <4>1. n \in Nat
          OBVIOUS
        <4> HIDE DEF Behind
        <4> QED BY <1>1, <4>1, BehindSkips, Zenon
      <3>2. t[Behind(n, j)] = "e"
        BY <1>1, <2>2, StrippedType
      <3> HIDE DEF Behind
      <3> QED BY <3>1, <3>2
    <2> QED BY <2>1, <2>3 DEF Has
  <1> QED BY <1>2, <1>3

(* A text of digits and one separator is read as a decimal.                 *)
LEMMA OneSeparator ==
    ASSUME NEW t \in Seq(Symbols), NEW p \in 1..Len(t), NEW negative \in BOOLEAN,
           p < Len(t), Separates(t[p]), Digits(t, 1, p - 1), Digits(t, p + 1, Len(t))
    PROVE  Decimal(t, negative) = Number(negative, Len(t) - p)
  <1>1. \A i \in 1..Len(t) : i # p => t[i] = "d"
    BY DEF Digits
  <1>2. DecimalAt(t, p)
    BY <1>1, Zenon DEF DecimalAt
  <1>3. ASSUME NEW q \in 1..Len(t), DecimalAt(t, q)
        PROVE  q = p
    BY <1>1, <1>3 DEF DecimalAt, Separates
  <1>4. (CHOOSE q \in 1..Len(t) : DecimalAt(t, q)) = p
    BY <1>2, <1>3
  <1>5. t[1] # "-"
    BY <1>1 DEF Separates
  <1> QED BY <1>2, <1>4, <1>5 DEF Decimal

(* Conversely, a text with no minus in front that reads as a decimal is digits and *)
(* one separator.                                                           *)
LEMMA DecimalIsOneSeparator ==
    ASSUME NEW t \in Seq(Symbols), NEW negative \in BOOLEAN,
           Decimal(t, negative) # Nothing, t[1] # "-"
    PROVE  \E p \in 1..Len(t) :
              /\ p < Len(t) /\ Separates(t[p])
              /\ Digits(t, 1, p - 1) /\ Digits(t, p + 1, Len(t))
  <1>1. PICK p \in 1..Len(t) : DecimalAt(t, p)
    BY DEF Decimal
  <1>2. \A i \in 1..Len(t) : i # p => t[i] = "d"
    BY <1>1 DEF DecimalAt
  <1> QED BY <1>1, <1>2 DEF DecimalAt, Digits

(* The rightmost separator is the one with digits behind it.                *)
LEMMA RightmostIs ==
    ASSUME NEW t \in Seq(Symbols), NEW p \in 1..Len(t),
           Separates(t[p]), Digits(t, p + 1, Len(t))
    PROVE  Rightmost(t) = p
  <1> DEFINE Last(q) == Separates(t[q]) /\ \A i \in q + 1..Len(t) : ~Separates(t[i])
  <1>1. Last(p)
    BY DEF Separates, Digits
  <1>2. ASSUME NEW q \in 1..Len(t), Last(q) PROVE q = p
    BY <1>1, <1>2
  <1> QED BY <1>1, <1>2 DEF Rightmost

LEMMA RightmostExists ==
    ASSUME NEW t \in Seq(Symbols), Has(t, "dot")
    PROVE  Rightmost(t) \in 1..Len(t) /\ Separates(t[Rightmost(t)])
  <1> DEFINE Distances == {Len(t) - i : i \in {i \in 1..Len(t) : Separates(t[i])}}
             Last(q) == Separates(t[q]) /\ \A i \in q + 1..Len(t) : ~Separates(t[i])
  <1>1. Distances \in SUBSET Nat /\ Distances # {}
    BY DEF Has, Separates
  <1>2. PICK n \in Distances : \A m \in Distances : n <= m
    <2> HIDE DEF Distances
    <2>1. PICK n \in Distances : \A m \in Distances : ~(<<m, n>> \in OpToRel(<, Nat))
      BY <1>1, WFMin, NatLessThanWellFounded, Zenon
    <2>2. \A m \in Distances : ~(m < n)
      BY <1>1, <2>1 DEF OpToRel
    <2> QED BY <1>1, <2>2
  <1>3. PICK p \in 1..Len(t) : Separates(t[p]) /\ n = Len(t) - p
    BY DEF Distances
  <1>4. Last(p)
    <2>1. ASSUME NEW i \in p + 1..Len(t), Separates(t[i]) PROVE FALSE
      <3>1. i \in 1..Len(t) /\ Len(t) - i < n
        BY <1>3
      <3>2. Len(t) - i \in Distances
        BY <2>1, <3>1
      <3> HIDE DEF Distances
      <3> QED BY <1>1, <1>2, <3>1, <3>2
    <2> QED BY <1>3, <2>1
  <1> QED BY <1>4, Zenon DEF Rightmost

(* A text in a documented spelling is read, with that scale.                *)
LEMMA SpelledReads ==
    ASSUME NEW t \in Seq(Symbols), NEW negative \in BOOLEAN, NEW scale \in Nat, Spells(t, scale)
    PROVE  Read(t, negative) = Number(negative, scale)
  <1> DEFINE p == Len(t) - scale
  <1>1. CASE t # <<>> /\ scale = 0 /\ Digits(t, 1, Len(t))
    <2>1. t[1] = "d" /\ ~Has(t, "dot") /\ ~Has(t, "comma")
      BY <1>1 DEF Digits, Has
    <2>2. Read(t, negative) = ReadPlain(t, negative)
      BY <1>1, <2>1 DEF Read
    <2>3. Joined(t) /\ Float(t, negative, 0) = Number(negative, scale)
      BY <1>1, DigitsJoin DEF Float
    <2>4. t # <<"inf">>
      BY <2>1
    <2>5. Number(negative, scale) # Raised
      BY DEF Number, Raised
    <2>6. (negative # FALSE) = negative
      OBVIOUS
    <2> QED BY <2>1, <2>2, <2>3, <2>4, <2>5, <2>6 DEF ReadPlain
  <1>2. CASE t # <<>> /\ scale = 0 /\ InThrees(t, Len(t), "comma") /\ ~Digits(t, 1, Len(t))
    <2>1. DigitsAnd(t, Len(t), "comma")
      BY <1>2 DEF InThrees, DigitsAnd
    <2>2. ~Has(t, "dot") /\ Has(t, "comma")
      BY <1>2, <2>1 DEF Has, DigitsAnd, Digits
    <2>3. Groups(t, Len(t), "comma")
      BY <1>2, ThreesAreGroups
    <2>4. Read(t, negative) = ReadComma(t, negative)
      BY <1>2, <2>2 DEF Read
    <2>5. Joined(Stripped(t, Len(t)))
      BY <1>2, ThreesJoin
    <2> QED BY <1>2, <2>3, <2>4, <2>5 DEF ReadComma, Ungrouped, Float
  <1>3. CASE /\ scale > 0 /\ p > 0 /\ Separates(t[p]) /\ Digits(t, p + 1, Len(t))
             /\ Digits(t, 1, p - 1)
             /\ t[p] = "comma" => ~InThrees(t, Len(t), "comma")
    <2>1. p \in 1..Len(t) /\ p < Len(t) /\ t # <<>>
      BY <1>3
    <2>2. Decimal(t, negative) = Number(negative, scale)
      BY <1>3, <2>1, OneSeparator
    <2>3. \A i \in 1..Len(t) : i # p => t[i] = "d"
      BY <1>3, <2>1 DEF Digits
    <2>4. CASE t[p] = "dot"
      <3>1. Has(t, "dot") /\ ~Has(t, "comma")
        BY <2>1, <2>3, <2>4 DEF Has
      <3> QED BY <2>1, <2>2, <3>1 DEF Read, ReadDot
    <2>5. CASE t[p] = "comma"
      <3>1. Has(t, "comma") /\ ~Has(t, "dot")
        BY <2>1, <2>3, <2>5 DEF Has
      <3>2. DigitsAnd(t, Len(t), "comma")
        BY <2>3, <2>5 DEF DigitsAnd
      <3>3. ~Groups(t, Len(t), "comma")
        BY <1>3, <2>5, <3>2, GroupsAreThrees
      <3> QED BY <2>1, <2>2, <3>1, <3>3 DEF Read, ReadComma
    <2> QED BY <1>3, <2>4, <2>5 DEF Separates
  <1>4. CASE /\ scale > 0 /\ p > 0 /\ Separates(t[p]) /\ Digits(t, p + 1, Len(t))
             /\ ~Digits(t, 1, p - 1)
             /\ InThrees(t, p - 1, IF t[p] = "comma" THEN "dot" ELSE "comma")
    <2> DEFINE other == IF t[p] = "comma" THEN "dot" ELSE "comma"
    <2>1. p \in 1..Len(t) /\ p < Len(t) /\ p - 1 \in Nat /\ t # <<>>
      BY <1>4
    <2>2. Rightmost(t) = p
      BY <1>4, <2>1, RightmostIs
    <2>3. DigitsAnd(t, p - 1, other)
      BY <1>4 DEF InThrees, DigitsAnd
    <2>4. Groups(t, p - 1, other)
      <3>1. other \in {"comma", "dot"}
        OBVIOUS
      <3> QED BY <1>4, <2>1, <3>1, ThreesAreGroups
    <2>5. Has(t, "dot") /\ Has(t, "comma")
      <3>1. PICK i \in 1..p - 1 : t[i] = other
        BY <1>4, <2>3 DEF Digits, DigitsAnd
      <3> QED BY <1>4, <2>1, <3>1 DEF Has, Separates
    <2>6. Read(t, negative) = ReadBoth(t, negative)
      BY <2>1, <2>5 DEF Read
    <2>7. Joined(Stripped(t, p - 1))
      <3>1. p - 1 \in 1..Len(t)
        BY <1>4, <2>1 DEF Digits
      <3> QED BY <1>4, <3>1, ThreesJoin
    <2> HIDE DEF p
    <2> QED BY <1>4, <2>1, <2>2, <2>4, <2>6, <2>7 DEF ReadBoth, Ungrouped, Float, p
  <1>5. InThrees(t, p - 1, "dot") /\ t[p] = "comma" /\ Has(t, "dot") /\ p > 0 /\ scale > 0
        /\ Digits(t, p + 1, Len(t)) => ~Digits(t, 1, p - 1)
    BY DEF Has, Digits
  <1> QED BY <1>1, <1>2, <1>3, <1>4, <1>5 DEF Spells, Separates

(* A text with no minus in front that reads as a number is in such a        *)
(* spelling, or holds an underscore or an exponent.                         *)
Explained(t, negative, k) ==
    /\ \/ k.kind = "number" /\ Spells(t, k.scale)
       \/ k.kind = "number" /\ Has(t, "underscore")
       \/ k.kind = "scientific" /\ Has(t, "e") /\ ~Has(t, "dot")
    /\ k.negative = negative

LEMMA NumbersDiffer ==
    ASSUME NEW negative \in BOOLEAN, NEW scale \in Nat
    PROVE  /\ Number(negative, scale).kind = "number" /\ Number(negative, scale).scale = scale
           /\ Number(negative, scale).negative = negative
           /\ Scientific(negative).kind = "scientific" /\ Scientific(negative).negative = negative
           /\ \A x \in {Nothing, Raised, Endless(negative)} : x.kind \notin {"number", "scientific"}
  BY DEF Number, Scientific, Nothing, Raised, Endless

LEMMA SpelledIsExplained ==
    ASSUME NEW t \in Seq(Symbols), NEW negative \in BOOLEAN, NEW scale \in Nat, Spells(t, scale)
    PROVE  Explained(t, negative, Read(t, negative))
  <1>1. Read(t, negative) = Number(negative, scale)
    BY SpelledReads
  <1> QED BY <1>1, NumbersDiffer DEF Explained

LEMMA ReadIsExplained ==
    ASSUME NEW t \in Seq(Symbols), NEW negative \in BOOLEAN,
           Read(t, negative).kind \in {"number", "scientific"}, t[1] # "-"
    PROVE  Explained(t, negative, Read(t, negative))
  <1>1. t # <<>>
    <2>1. ASSUME t = <<>> PROVE Read(t, negative) = Nothing
      <3>1. ~Has(t, "dot") /\ ~Has(t, "comma")
        BY <2>1 DEF Has
      <3> QED BY <2>1, <3>1 DEF Read
    <2> QED BY <2>1 DEF Nothing
  <1>2. ASSUME Decimal(t, negative) # Nothing,
               Has(t, "comma") => ~Groups(t, Len(t), "comma")
        PROVE  Explained(t, negative, Read(t, negative))
    <2>1. PICK p \in 1..Len(t) : /\ p < Len(t) /\ Separates(t[p])
                                 /\ Digits(t, 1, p - 1) /\ Digits(t, p + 1, Len(t))
      BY <1>2, DecimalIsOneSeparator
    <2>2. Len(t) - p \in Nat /\ Len(t) - p > 0 /\ Len(t) - (Len(t) - p) = p
      BY <2>1
    <2>3. t[p] = "comma" => ~InThrees(t, Len(t), "comma")
      <3>1. t[p] = "comma" => Has(t, "comma") /\ ~Digits(t, 1, Len(t))
        BY <2>1 DEF Has, Digits
      <3> QED BY <1>2, <3>1, ThreesAreGroups
    <2>4. Spells(t, Len(t) - p)
      BY <2>1, <2>2, <2>3 DEF Spells, Separates
    <2> QED BY <2>2, <2>4, SpelledIsExplained
  <1>3. CASE Has(t, "dot") /\ Has(t, "comma")
    <2> DEFINE p == Rightmost(t)
               other == IF t[p] = "comma" THEN "dot" ELSE "comma"
    <2>1. Read(t, negative) = ReadBoth(t, negative)
      BY <1>1, <1>3 DEF Read
    <2>2. /\ Groups(t, p - 1, other) /\ p < Len(t) /\ Digits(t, p + 1, Len(t))
          /\ Read(t, negative) = Ungrouped(t, p - 1, negative, Len(t) - p)
      BY <2>1, NumbersDiffer DEF ReadBoth
    <2>3. p \in 1..Len(t) /\ Separates(t[p])
      BY <1>3, RightmostExists, Zenon
    <2>4. t[p] = (IF other = "dot" THEN "comma" ELSE "dot") /\ other \in {"comma", "dot"}
      BY <2>3 DEF Separates
    <2> HIDE DEF p
    <2>5. Len(t) - p \in Nat /\ Len(t) - p > 0 /\ Len(t) - (Len(t) - p) = p
      BY <2>2, <2>3
    <2>6. ~Digits(t, 1, p - 1)
      <3>1. PICK h \in 1..3 : h < p - 1 /\ (p - 1 - h) % 4 = 0 /\ EachBehind(t, h, p - 1, other)
        BY <2>2 DEF Groups
      <3>2. h + 1 \in 1..p - 1 /\ (h + 1 - h) % 4 = 1
        BY <2>3, <3>1
      <3>3. t[h + 1] = other
        BY <3>1, <3>2 DEF EachBehind
      <3> QED BY <2>4, <3>2, <3>3 DEF Digits
    <2>7. Has(t, "dot") /\ p - 1 \in 1..Len(t)
      BY <1>3, <2>2, <2>3 DEF Groups
    <2>8. /\ Read(t, negative) = Number(negative, Len(t) - p)
          /\ InThrees(t, p - 1, other) \/ Has(t, "underscore")
      <3>1. Ungrouped(t, p - 1, negative, Len(t) - p) # Raised
        BY <2>2, NumbersDiffer
      <3> QED BY <2>2, <2>4, <2>5, <2>7, <3>1, UngroupedIs
    <2>9. InThrees(t, p - 1, other) => Spells(t, Len(t) - p)
      BY <2>2, <2>3, <2>4, <2>5, <2>6, <2>7 DEF Spells
    <2> QED BY <2>5, <2>8, <2>9, NumbersDiffer DEF Explained
  <1>4. CASE Has(t, "comma") /\ ~Has(t, "dot")
    <2>1. Read(t, negative) = ReadComma(t, negative)
      BY <1>1, <1>4 DEF Read
    <2>2. CASE Groups(t, Len(t), "comma")
      <3>1. Read(t, negative) = Ungrouped(t, Len(t), negative, 0) /\ Len(t) \in 1..Len(t)
        BY <1>1, <2>1, <2>2 DEF ReadComma
      <3>2. Ungrouped(t, Len(t), negative, 0) # Raised
        BY <3>1, NumbersDiffer
      <3>3. \/ /\ Read(t, negative) = Number(negative, 0)
               /\ InThrees(t, Len(t), "comma") \/ Has(t, "underscore")
            \/ Read(t, negative) = Scientific(negative) /\ Has(t, "e")
        BY <2>2, <3>1, <3>2, UngroupedIs
      <3>4. InThrees(t, Len(t), "comma") => Spells(t, 0)
        BY <1>1 DEF Spells
      <3> QED BY <1>4, <3>3, <3>4, NumbersDiffer DEF Explained
    <2>3. CASE ~Groups(t, Len(t), "comma")
      <3>1. Decimal(t, negative) # Nothing
        BY <2>1, <2>3, NumbersDiffer DEF ReadComma
      <3> QED BY <1>2, <2>3, <3>1
    <2> QED BY <2>2, <2>3
  <1>5. CASE Has(t, "dot") /\ ~Has(t, "comma")
    <2>1. Decimal(t, negative) # Nothing
      BY <1>1, <1>5, NumbersDiffer DEF Read, ReadDot
    <2> QED BY <1>2, <1>5, <2>1
  <1>6. CASE ~Has(t, "dot") /\ ~Has(t, "comma")
    <2>1. Read(t, negative) = ReadPlain(t, negative) /\ (negative # FALSE) = negative
      BY <1>1, <1>6 DEF Read
    <2>2. Read(t, negative) = Float(t, negative, 0)
      BY <2>1, NumbersDiffer DEF ReadPlain, Endless
    <2>3. CASE Joined(t)
      <3>1. Read(t, negative) = Number(negative, 0)
        BY <2>2, <2>3 DEF Float
      <3>2. ~Has(t, "underscore") => Digits(t, 1, Len(t))
        BY <2>3 DEF Joined, Has, Digits
      <3>3. ~Has(t, "underscore") => Spells(t, 0)
        BY <1>1, <3>2 DEF Spells
      <3> QED BY <3>1, <3>3, NumbersDiffer DEF Explained
    <2>4. CASE ~Joined(t)
      <3>1. Read(t, negative) = Scientific(negative) /\ Powered(t)
        BY <2>2, <2>4, NumbersDiffer DEF Float
      <3>2. Has(t, "e")
        BY <3>1 DEF Powered, Has
      <3> QED BY <1>6, <3>1, <3>2, NumbersDiffer DEF Explained
    <2> QED BY <2>3, <2>4
  <1> QED BY <1>3, <1>4, <1>5, <1>6

-----------------------------------------------------------------------------
(* Dates: of the three orders at most one reads a date that is not          *)
(* ambiguous, and an ambiguous one is read by two or by none.               *)

LEMMA OneYear ==
    ASSUME NEW f \in Field
    PROVE  \A y, z \in Years(f) : y = z
  BY DEF Years

LEMMA OneDayAnOrder ==
    ASSUME NEW c \in Separated, NEW order \in {"YMD", "DMY", "MDY"}
    PROVE  \A d, e \in DaysBy(order, c) : d = e
  <1>1. c.first \in Field /\ c.third \in Field
    BY DEF Separated
  <1>2. /\ \A y, z \in Years(c.first) : y = z
        /\ \A y, z \in Years(c.third) : y = z
    BY <1>1, OneYear
  <1>3. CASE order = "YMD"
    BY <1>2, <1>3 DEF DaysBy
  <1>4. CASE order = "DMY"
    BY <1>2, <1>4 DEF DaysBy
  <1>5. CASE order = "MDY"
    BY <1>2, <1>5 DEF DaysBy
  <1> QED BY <1>3, <1>4, <1>5

LEMMA ReadingsAre ==
    ASSUME NEW c \in Separated
    PROVE  Readings(c) = DaysBy("YMD", c) \cup DaysBy("DMY", c) \cup DaysBy("MDY", c)
  <1>1. c.form # "compact"
    BY DEF Separated
  <1>2. Orders[1] = "YMD" /\ Orders[2] = "DMY" /\ Orders[3] = "MDY" /\ 1..3 = {1, 2, 3}
    BY DEF Orders
  <1>3. Readings(c) = UNION {DaysBy(Orders[n], c) : n \in 1..3}
    BY <1>1 DEF Readings
  <1> QED BY <1>2, <1>3

(* The first order that reads a date reads one of its days.                 *)
LEMMA FirstIsAReading ==
    ASSUME NEW c \in Separated
    PROVE  IF Readings(c) = {} THEN FirstReading(c) = NoDay ELSE FirstReading(c) \in Readings(c)
  <1> DEFINE D(n) == DaysBy(Orders[n], c)
  <1>1. Readings(c) = D(1) \cup D(2) \cup D(3)
    BY ReadingsAre DEF Orders
  <1>2. CASE \A n \in 1..3 : D(n) = {}
    BY <1>1, <1>2 DEF FirstReading
  <1>3. CASE \E n \in 1..3 : D(n) # {}
    <2>1. PICK n \in 1..3 : D(n) # {} /\ \A m \in 1..n - 1 : D(m) = {}
      <3>1. CASE D(1) # {}
        BY <3>1
      <3>2. CASE D(1) = {} /\ D(2) # {}
        BY <3>2
      <3>3. CASE D(1) = {} /\ D(2) = {} /\ D(3) # {}
        BY <3>3
      <3> QED BY <1>3, <3>1, <3>2, <3>3
    <2> DEFINE First(k) == D(k) # {} /\ \A m \in 1..k - 1 : D(m) = {}
               first == CHOOSE k \in 1..3 : First(k)
    <2>2. first \in 1..3 /\ First(first)
      <3> HIDE DEF D
      <3> QED BY <2>1, Zenon
    <2>3. FirstReading(c) = CHOOSE d \in D(first) : TRUE
      BY <1>3, Zenon DEF FirstReading
    <2>4. FirstReading(c) \in D(first) /\ D(first) # {}
      <3> HIDE DEF D, first
      <3> QED BY <2>2, <2>3
    <2> HIDE DEF D, first
    <2> QED BY <1>1, <2>2, <2>4
  <1> QED BY <1>2, <1>3

LEMMA AmbiguousIsTwoOrNone ==
    ASSUME NEW c \in Separated, IsAmbiguous(c)
    PROVE  ~\E d \in Readings(c) : Readings(c) = {d}
  <1> DEFINE a == c.first.value
             b == c.second.value
  <1>1. a \in Nat /\ b \in Nat /\ a # b /\ a <= 12 /\ b <= 12 /\ Short(c.first) /\ Short(c.second)
    BY DEF Separated, Field, IsAmbiguous
  <1>2. DaysBy("YMD", c) = {}
    BY <1>1 DEF DaysBy, Short
  <1>4. CASE a = 0 \/ b = 0 \/ ~\E y \in Years(c.third) : y \in 1..9999
    <2>1. \A y \in Years(c.third) : ~IsDay(y, b, a) /\ ~IsDay(y, a, b)
      BY <1>1, <1>4 DEF IsDay
    <2>2. DaysBy("DMY", c) = {} /\ DaysBy("MDY", c) = {}
      BY <2>1 DEF DaysBy
    <2> QED BY <1>2, <2>2, ReadingsAre
  <1>5. ASSUME a > 0, b > 0, NEW y \in Years(c.third), y \in 1..9999
        PROVE  ~\E d \in Readings(c) : Readings(c) = {d}
    <2>1. IsDay(y, b, a) /\ IsDay(y, a, b)
      <3>1. a \in 1..12 /\ b \in 1..12
        BY <1>1, <1>5
      <3> HIDE DEF a, b
      <3> QED BY <1>5, <3>1 DEF IsDay, DaysIn
    <2>2. Day(y, b, a) \in DaysBy("DMY", c) /\ Day(y, a, b) \in DaysBy("MDY", c)
      <3>1. Day(y, b, a) \in DaysBy("DMY", c)
        BY <1>1, <1>5, <2>1 DEF DaysBy
      <3>2. Day(y, a, b) \in DaysBy("MDY", c)
        BY <1>1, <1>5, <2>1 DEF DaysBy
      <3> QED BY <3>1, <3>2
    <2>3. Day(y, b, a) # Day(y, a, b)
      BY <1>1 DEF Day
    <2>4. DaysBy("DMY", c) \subseteq Readings(c) /\ DaysBy("MDY", c) \subseteq Readings(c)
      BY ReadingsAre, Zenon
    <2> HIDE DEF a, b
    <2>5. Day(y, b, a) \in Readings(c) /\ Day(y, a, b) \in Readings(c)
      BY <2>2, <2>4, Zenon
    <2> HIDE DEF Day
    <2> QED BY <2>3, <2>5
  <1> QED BY <1>1, <1>4, <1>5

LEMMA UnambiguousIsOne ==
    ASSUME NEW c \in Separated, ~IsAmbiguous(c), NEW d \in Readings(c), NEW e \in Readings(c)
    PROVE  d = e
  <1> DEFINE a == c.first.value
             b == c.second.value
  <1>1. a \in Nat /\ b \in Nat /\ c.third \in Field /\ c.first \in Field
    BY DEF Separated, Field
  <1>2. ASSUME NEW x \in DaysBy("DMY", c), NEW z \in DaysBy("MDY", c)
        PROVE  x = z
    <2>1. PICK y1 \in Years(c.third) : x = Day(y1, b, a) /\ IsDay(y1, b, a) /\ Short(c.first) /\ Short(c.second)
      BY DEF DaysBy
    <2>2. PICK y2 \in Years(c.third) : z = Day(y2, a, b) /\ IsDay(y2, a, b)
      BY DEF DaysBy
    <2>3. a <= 12 /\ b <= 12 /\ c.third.width \in {2, 4}
      BY <1>1, <2>1, <2>2 DEF IsDay, Years
    <2>4. a = b
      BY <2>1, <2>3 DEF IsAmbiguous
    <2> QED BY <1>1, <2>1, <2>2, <2>4, OneYear
  <1>3. DaysBy("YMD", c) # {} => DaysBy("DMY", c) = {} /\ DaysBy("MDY", c) = {}
    BY DEF DaysBy, Short
  <1> QED BY <1>2, <1>3, OneDayAnOrder, ReadingsAre

-----------------------------------------------------------------------------
(* A key is unread, or what the functions make of the cell.                 *)
Keyed ==
    /\ kind = "amount" => cell \in AmountCells /\ key \in {Unread, Sanitize(cell)}
    /\ kind # "amount" => kind = "date" /\ cell \in DateCells /\ key \in {Unread, FormatDate(cell)}

LEMMA KeyedInv == Spec => []Keyed
  <1>1. Init => Keyed
    BY DEF Init, Keyed
  <1>2. Keyed /\ [Next]_vars => Keyed'
    <2> SUFFICES ASSUME Keyed, [Next]_vars PROVE Keyed'
      OBVIOUS
    <2>1. CASE ReadAmount
      BY <2>1, Zenon DEF ReadAmount, Keyed
    <2>2. CASE ReadDate
      BY <2>2, Zenon DEF ReadDate, Keyed
    <2>3. CASE Finished \/ UNCHANGED vars
      BY <2>3, Zenon DEF Finished, Keyed, vars
    <2> QED BY <2>1, <2>2, <2>3 DEF Next
  <1> QED BY <1>1, <1>2, PTL DEF Spec

LEMMA AmountParts ==
    ASSUME NEW c \in AmountCell
    PROVE  Unsigned(c) \in Seq(Symbols) /\ (c.paren \/ Signed(c)) \in BOOLEAN
  <1>1. c.text \in Seq(Symbols) /\ c.paren \in BOOLEAN
    <2>1. \A s \in Seq(Chars) : s \in Seq(Symbols)
      BY SeqMonotonic DEF Symbols
    <2>2. "inf" \in Symbols /\ "-" \in Symbols
      BY DEF Symbols, Chars
    <2>3. Endlesses \subseteq Seq(Symbols)
      BY <2>2 DEF Endlesses
    <2>4. c.text \in Seq(Chars) \cup Endlesses /\ c.paren \in BOOLEAN
      BY DEF AmountCell
    <2> QED BY <2>1, <2>3, <2>4
  <1>2. Unsigned(c) \in Seq(Symbols)
    <2>1. CASE Signed(c)
      <3>1. c.text # <<>>
        BY <2>1 DEF Signed
      <3>2. Tail(c.text) \in Seq(Symbols)
        BY <1>1, <3>1
      <3> QED BY <2>1, <3>2 DEF Unsigned
    <2>2. CASE ~Signed(c)
      BY <1>1, <2>2 DEF Unsigned
    <2> QED BY <2>1, <2>2
  <1>3. Signed(c) \in BOOLEAN
    BY Zenon DEF Signed
  <1> QED BY <1>1, <1>2, <1>3

(* A number is read only from a documented spelling, at the scale and with  *)
(* the sign it is written with, or from a text with an underscore or, where *)
(* there is no dot, an exponent; in a cell of any length.                   *)
THEOREM AmountsAreSpelled == Spec => []AmountIsSpelled
  <1>1. Keyed => AmountIsSpelled
    <2> DEFINE t == Unsigned(cell)
               negative == cell.paren \/ Signed(cell)
    <2> SUFFICES ASSUME Keyed, kind = "amount", key.kind \in {"number", "scientific"}, t[1] # "-"
                 PROVE  Explained(t, negative, key)
      BY Zenon DEF AmountIsSpelled, Explained
    <2>1. key = Read(t, negative) /\ cell \in AmountCell
      BY CellsAssumption DEF Keyed, Unread, Sanitize
    <2>2. t \in Seq(Symbols) /\ negative \in BOOLEAN
      BY <2>1, AmountParts
    <2> HIDE DEF t, negative
    <2> QED BY <2>1, <2>2, ReadIsExplained
  <1> QED BY <1>1, KeyedInv, PTL

(* A cell in a documented spelling is read, and in no other way.            *)
THEOREM SpelledAreRead == Spec => []SpelledIsRead
  <1>1. Keyed => SpelledIsRead
    <2> SUFFICES ASSUME Keyed, kind = "amount", key # Unread, NEW scale \in 0..Len(cell.text),
                        Spells(Unsigned(cell), scale)
                 PROVE  key = Number(cell.paren \/ Signed(cell), scale)
      BY DEF SpelledIsRead
    <2>1. key = Read(Unsigned(cell), cell.paren \/ Signed(cell)) /\ cell \in AmountCell
      BY CellsAssumption DEF Keyed, Sanitize
    <2>2. Unsigned(cell) \in Seq(Symbols) /\ (cell.paren \/ Signed(cell)) \in BOOLEAN /\ scale \in Nat
      BY <2>1, AmountParts
    <2> QED BY <2>1, <2>2, SpelledReads
  <1> QED BY <1>1, KeyedInv, PTL

(* A date in a numeric order is read as its one day, or not at all.         *)
THEOREM ListOrderDecidesNothing == Spec => []ListOrderIsNoEvidence
  <1>1. Keyed => ListOrderIsNoEvidence
    <2> SUFFICES ASSUME Keyed, kind = "date", key # Unread, cell.form = "separated"
                 PROVE  IF \E d \in Readings(cell) : Readings(cell) = {d}
                        THEN key \in Readings(cell) ELSE key = NoDay
      BY DEF ListOrderIsNoEvidence
    <2>1. key = FormatDate(cell) /\ cell \in Separated
      BY CellsAssumption DEF Keyed, Separated, Compact
    <2>2. CASE IsAmbiguous(cell)
      <3>1. key = NoDay
        BY <2>1, <2>2 DEF FormatDate
      <3> QED BY <2>1, <2>2, <3>1, AmbiguousIsTwoOrNone
    <2>3. CASE ~IsAmbiguous(cell)
      <3>1. key = FirstReading(cell)
        BY <2>1, <2>3 DEF FormatDate
      <3>2. \A d, e \in Readings(cell) : d = e
        BY <2>1, <2>3, UnambiguousIsOne
      <3> QED BY <2>1, <3>1, <3>2, FirstIsAReading
    <2> QED BY <2>2, <2>3
  <1> QED BY <1>1, KeyedInv, PTL

=============================================================================
