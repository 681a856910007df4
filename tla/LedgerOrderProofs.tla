-------------------------- MODULE LedgerOrderProofs --------------------------
(***************************************************************************)
(* Theorems about the whole loop of LedgerMatch: it computes Run, the      *)
(* order of the ledger decides nothing, and a reconciled remittance sent   *)
(* again reconciles to itself.                                             *)
(*                                                                         *)
(* The runs compared take different rows for the same line, but always     *)
(* rows that read the same: the proofs carry along a pairing of the two    *)
(* ledgers' rows that matches the rows the one run has left with those the *)
(* other has left.                                                         *)
(***************************************************************************)
EXTENDS LedgerMatchProofs, FiniteSetTheorems

-----------------------------------------------------------------------------
(* Counting up: a set of naturals that holds 1 and with every m also m + 1. *)

LEMMA Counting ==
    ASSUME NEW N \in Nat, NEW S \in SUBSET Nat, 1 \in S,
           \A m \in 1..N : m \in S => m + 1 \in S
    PROVE  1..N + 1 \subseteq S
<1> DEFINE Missing == (1..N + 1) \ S
<1> SUFFICES ASSUME Missing # {} PROVE FALSE
  OBVIOUS
<1>1. PICK n \in Missing : \A m \in Missing : ~(<<m, n>> \in OpToRel(<, Nat))
  <2>1. Missing \in SUBSET Nat
    OBVIOUS
  <2> HIDE DEF Missing
  <2> QED BY <2>1, WFMin, NatLessThanWellFounded, Zenon
<1>2. \A m \in Missing : ~(m < n)
  <2>1. Missing \subseteq Nat /\ n \in Nat
    OBVIOUS
  <2> HIDE DEF Missing
  <2> QED BY <1>1, <2>1 DEF OpToRel
<1>3. n \in 2..N + 1 /\ n \notin S
  <2>1. n \in 1..N + 1 /\ n \notin S /\ n # 1
    OBVIOUS
  <2> QED BY <2>1
<1>4. n - 1 \in 1..N /\ n - 1 \in S
  <2>1. n - 1 \in 1..N /\ n - 1 < n
    BY <1>3
  <2>2. n - 1 \notin Missing
    BY <1>2, <2>1
  <2> QED BY <2>1, <2>2
<1>5. n - 1 + 1 \in S
  BY <1>4
<1> QED BY <1>3, <1>5

LEMMA FirstIs ==
    ASSUME NEW S \in SUBSET Nat, S # {}
    PROVE  First(S) \in S /\ \A q \in S : First(S) <= q
<1>1. PICK n \in S : \A m \in S : ~(<<m, n>> \in OpToRel(<, Nat))
  BY WFMin, NatLessThanWellFounded, Zenon
<1>2. \A m \in S : n <= m
  <2>1. \A m \in S : ~(m < n)
    BY <1>1 DEF OpToRel
  <2> QED BY <2>1
<1> QED BY <1>2 DEF First

-----------------------------------------------------------------------------
(* Taken is well defined: what a line takes rests on what the lines before  *)
(* it took.                                                                 *)

Takes(led, l, free) ==
    LET among == Match(led, l, free).among IN IF among = {} THEN 0 ELSE First(among)

Solves(led, ls, N, f) == f = [n \in 1..N |-> Takes(led, ls[n], FreeBefore(led, f, n))]

LEMMA FreeRestsOnEarlier ==
    ASSUME NEW led, NEW f, NEW g, NEW n, \A j \in 1..n - 1 : f[j] = g[j]
    PROVE  FreeBefore(led, f, n) = FreeBefore(led, g, n)
BY DEF FreeBefore

LEMMA TakenExists ==
    ASSUME NEW led, NEW ls, NEW N \in Nat
    PROVE  \E f : Solves(led, ls, N, f)
<1> DEFINE S == {m \in Nat : \E f : Solves(led, ls, m - 1, f)}
<1>1. 1 \in S
  <2>1. 1..1 - 1 = {}
    OBVIOUS
  <2>2. \E f : Solves(led, ls, 1 - 1, f)
    <3> DEFINE f == [n \in {} |-> 0]
    <3>1. Solves(led, ls, 1 - 1, f)
      BY <2>1 DEF Solves
    <3> QED BY <3>1
  <2> QED BY <2>2
<1>2. ASSUME NEW m \in 1..N, m \in S PROVE m + 1 \in S
  <2>1. PICK f : Solves(led, ls, m - 1, f)
    BY <1>2
  <2> DEFINE g == [n \in 1..m |-> IF n = m THEN Takes(led, ls[m], FreeBefore(led, f, m)) ELSE f[n]]
  <2>2. \A n \in 1..m : FreeBefore(led, g, n) = FreeBefore(led, f, n)
    <3>1. \A n \in 1..m : \A j \in 1..n - 1 : j \in 1..m /\ j # m
      OBVIOUS
    <3>2. \A n \in 1..m : \A j \in 1..n - 1 : g[j] = f[j]
      BY <3>1
    <3> HIDE DEF g
    <3> QED BY <3>2, FreeRestsOnEarlier
  <2>3. \A n \in 1..m : g[n] = Takes(led, ls[n], FreeBefore(led, g, n))
    <3>1. \A n \in 1..m : n # m => n \in 1..m - 1
      OBVIOUS
    <3> QED BY <2>1, <2>2, <3>1 DEF Solves
  <2>4. Solves(led, ls, m, g)
    BY <2>3 DEF Solves
  <2>5. m + 1 - 1 = m /\ m + 1 \in Nat
    OBVIOUS
  <2> HIDE DEF g
  <2> QED BY <2>4, <2>5
<1>3. N + 1 \in S
  <2>1. S \in SUBSET Nat
    OBVIOUS
  <2> HIDE DEF S
  <2>2. 1..N + 1 \subseteq S
    BY <1>1, <1>2, <2>1, Counting
  <2> QED BY <2>2
<1> QED BY <1>3

(* The equation that Taken solves.                                          *)
LEMMA TakenIs ==
    ASSUME NEW led, NEW ls, NEW N \in Nat, DOMAIN ls = 1..N
    PROVE  Taken(led, ls) = [n \in 1..N |-> Takes(led, ls[n], FreeBefore(led, Taken(led, ls), n))]
<1>1. Taken(led, ls) = CHOOSE f : Solves(led, ls, N, f)
  BY DEF Taken, Takes, Solves
<1>2. \E f : Solves(led, ls, N, f)
  BY TakenExists, Zenon
<1>3. Solves(led, ls, N, Taken(led, ls))
  BY <1>1, <1>2, Zenon
<1> QED BY <1>3, Zenon DEF Solves

-----------------------------------------------------------------------------
(* Two ledgers with the same rows, in any order.  A pairing names, for each *)
(* row of the other ledger, a row of the first that reads the same, so that *)
(* the rows left in the one (F) are paired with the rows left in the        *)
(* other (G).                                                               *)

Pairing(led, other, F, G, q) ==
    /\ DOMAIN other = DOMAIN led
    /\ q \in [DOMAIN led -> DOMAIN led]
    /\ \A x, y \in DOMAIN led : q[x] = q[y] => x = y
    /\ \A y \in DOMAIN led : \E x \in DOMAIN led : q[x] = y
    /\ \A r \in DOMAIN led : other[r] = led[q[r]]
    /\ F \subseteq DOMAIN led /\ G \subseteq DOMAIN led
    /\ \A r \in DOMAIN led : r \in G <=> q[r] \in F

(* Sets of rows that a pairing matches with one another.                    *)
Paired(q, D, S, T) == S \subseteq D /\ T = {r \in D : q[r] \in S}

LEMMA PairedSets ==
    ASSUME NEW led, NEW other, NEW F, NEW G, NEW q, Pairing(led, other, F, G, q),
           NEW S, NEW T, Paired(q, DOMAIN led, S, T)
    PROVE  /\ T = {} <=> S = {}
           /\ Single(T) <=> Single(S)
           /\ Identical(other, T) <=> Identical(led, S)
<1>1. T = {} <=> S = {}
  BY DEF Pairing, Paired
<1>2. \A x, y \in DOMAIN led : x = y <=> q[x] = q[y]
  BY DEF Pairing
<1>3. \A U : Single(U) <=> U # {} /\ \A x, y \in U : x = y
  BY DEF Single
<1>4. (\A x, y \in T : x = y) <=> (\A x, y \in S : x = y)
  BY <1>2 DEF Pairing, Paired
<1>5. (\A x, y \in T : other[x] = other[y]) <=> (\A x, y \in S : led[x] = led[y])
  BY DEF Pairing, Paired
<1> QED BY <1>1, <1>3, <1>4, <1>5 DEF Identical

(* The tiers say the same of a line against either ledger, and settle on    *)
(* rows that are paired.                                                    *)
LEMMA SameVerdict ==
    ASSUME NEW led, NEW other, NEW F, NEW G, NEW q, Pairing(led, other, F, G, q), NEW l
    PROVE  /\ Match(other, l, G).rule = Match(led, l, F).rule
           /\ Paired(q, DOMAIN led, Match(led, l, F).among, Match(other, l, G).among)
<1> DEFINE D == DOMAIN led
<1>0. /\ DOMAIN other = D /\ \A r \in D : other[r] = led[q[r]]
      /\ q \in [D -> D] /\ F \subseteq D /\ G \subseteq D
      /\ \A r \in D : r \in G <=> q[r] \in F
  BY DEF Pairing
<1>1. (\E r \in DOMAIN other : SameNumber(l, other[r])) <=> (\E r \in DOMAIN led : SameNumber(l, led[r]))
  <2>1. \A r \in D : q[r] \in D /\ other[r] = led[q[r]]
    BY <1>0
  <2>2. \A y \in D : \E x \in D : q[x] = y
    BY DEF Pairing
  <2>3. ASSUME NEW r \in D, SameNumber(l, other[r]) PROVE \E y \in D : SameNumber(l, led[y])
    <3>1. q[r] \in D /\ other[r] = led[q[r]]
      BY <2>1
    <3> QED BY <2>3, <3>1
  <2>4. ASSUME NEW y \in D, SameNumber(l, led[y]) PROVE \E r \in D : SameNumber(l, other[r])
    <3>1. PICK r \in D : q[r] = y
      BY <2>2
    <3>2. other[r] = led[y]
      BY <2>1, <3>1
    <3> QED BY <2>4, <3>2
  <2> QED BY <1>0, <2>3, <2>4
<1>2. CASE \E r \in DOMAIN led : SameNumber(l, led[r])
  <2> DEFINE candidates(x, free) == {r \in free : SameNumber(l, x[r])}
             exact(x, free)   == {r \in candidates(x, free) : AmtOK(l, x[r]) /\ DateOK(l, x[r])}
             two_way(x, free) == {r \in candidates(x, free) : Corroborates(l, x[r])}
             found(x, free) ==
               CASE Identical(x, exact(x, free)) -> Verdict("EXACT_NUMBER_AMOUNT_DATE", exact(x, free))
                 [] ~Identical(x, exact(x, free)) /\ Identical(x, two_way(x, free)) ->
                      Verdict("EXACT_NUMBER_AMOUNT_OR_DATE", two_way(x, free))
                 [] two_way(x, free) = {} /\ Single(candidates(x, free)) ->
                      Verdict("EXACT_NUMBER_UNIQUE", candidates(x, free))
                 [] OTHER -> Unmatched
  <2>1. Match(led, l, F) = found(led, F) /\ Match(other, l, G) = found(other, G)
    BY <1>1, <1>2, Zenon DEF Match, ByNumber
  <2>2. Paired(q, D, candidates(led, F), candidates(other, G))
    BY <1>0 DEF Paired
  <2>3. Paired(q, D, exact(led, F), exact(other, G))
    BY <1>0 DEF Paired
  <2>4. Paired(q, D, two_way(led, F), two_way(other, G))
    BY <1>0 DEF Paired
  <2>5. /\ Identical(other, exact(other, G)) <=> Identical(led, exact(led, F))
        /\ Identical(other, two_way(other, G)) <=> Identical(led, two_way(led, F))
        /\ two_way(other, G) = {} <=> two_way(led, F) = {}
        /\ Single(candidates(other, G)) <=> Single(candidates(led, F))
    <3> HIDE DEF candidates, exact, two_way
    <3> QED BY <2>2, <2>3, <2>4, PairedSets
  <2>6. Paired(q, D, {}, {})
    BY DEF Paired
  <2>7. found(other, G).rule = found(led, F).rule
    <3> HIDE DEF candidates, exact, two_way
    <3>1. CASE Identical(led, exact(led, F))
      BY <2>5, <3>1 DEF Verdict
    <3>2. CASE ~Identical(led, exact(led, F)) /\ Identical(led, two_way(led, F))
      BY <2>5, <3>2 DEF Verdict
    <3>3. CASE /\ ~Identical(led, exact(led, F)) /\ ~Identical(led, two_way(led, F))
               /\ two_way(led, F) = {} /\ Single(candidates(led, F))
      BY <2>5, <3>3 DEF Verdict
    <3>4. CASE /\ ~Identical(led, exact(led, F)) /\ ~Identical(led, two_way(led, F))
               /\ ~(two_way(led, F) = {} /\ Single(candidates(led, F)))
      BY <2>5, <3>4 DEF Unmatched
    <3> QED BY <3>1, <3>2, <3>3, <3>4
  <2>8. Paired(q, D, found(led, F).among, found(other, G).among)
    <3> HIDE DEF candidates, exact, two_way, D
    <3> QED BY <2>2, <2>3, <2>4, <2>5, <2>6 DEF Verdict, Unmatched
  <2> QED BY <2>1, <2>7, <2>8
<1>3. CASE ~\E r \in DOMAIN led : SameNumber(l, led[r])
  <2> DEFINE date_amt(x, free) == {r \in free : NumOK(l, x[r]) /\ AmtOK(l, x[r]) /\ DateOK(l, x[r])}
             corroborated(x, free) == {r \in free : NumOK(l, x[r]) /\ Corroborates(l, x[r])}
             fuzzy(x, free) == {r \in free : NumOK(l, x[r])} \ corroborated(x, free)
             amt(x, free)  == {r \in free : AmtOK(l, x[r])}
             date(x, free) == {r \in free : DateOK(l, x[r])}
             found(x, free) ==
               CASE Single(date_amt(x, free)) -> Verdict("NUMBER_AMOUNT_DATE", date_amt(x, free))
                 [] date_amt(x, free) = {} /\ Single(corroborated(x, free)) ->
                      Verdict("FUZZY_NUMBER_AMOUNT_OR_DATE", corroborated(x, free))
                 [] corroborated(x, free) = {} /\ Single(fuzzy(x, free)) ->
                      Verdict("FUZZY_NUMBER_ALONE", fuzzy(x, free))
                 [] corroborated(x, free) = {} /\ ~Single(fuzzy(x, free)) /\ Single(amt(x, free)) ->
                      Verdict("AMOUNT_ALONE_UNIQUE", amt(x, free))
                 [] /\ corroborated(x, free) = {} /\ ~Single(fuzzy(x, free))
                    /\ ~Single(amt(x, free)) /\ Single(date(x, free)) ->
                      Verdict("DATE_ALONE_UNIQUE", date(x, free))
                 [] OTHER -> Unmatched
  <2>1. Match(led, l, F) = found(led, F) /\ Match(other, l, G) = found(other, G)
    BY <1>1, <1>3, Zenon DEF Match, ByResemblance
  <2>2. /\ Paired(q, D, date_amt(led, F), date_amt(other, G))
        /\ Paired(q, D, corroborated(led, F), corroborated(other, G))
        /\ Paired(q, D, fuzzy(led, F), fuzzy(other, G))
        /\ Paired(q, D, amt(led, F), amt(other, G))
        /\ Paired(q, D, date(led, F), date(other, G))
        /\ Paired(q, D, {}, {})
    BY <1>0 DEF Paired
  <2>3. /\ date_amt(other, G) = {} <=> date_amt(led, F) = {}
        /\ Single(date_amt(other, G)) <=> Single(date_amt(led, F))
        /\ corroborated(other, G) = {} <=> corroborated(led, F) = {}
        /\ Single(corroborated(other, G)) <=> Single(corroborated(led, F))
        /\ Single(fuzzy(other, G)) <=> Single(fuzzy(led, F))
        /\ Single(amt(other, G)) <=> Single(amt(led, F))
        /\ Single(date(other, G)) <=> Single(date(led, F))
    <3> HIDE DEF date_amt, corroborated, fuzzy, amt, date
    <3> QED BY <2>2, PairedSets
  <2> HIDE DEF date_amt, corroborated, fuzzy, amt, date, D
  <2>4. found(other, G).rule = found(led, F).rule
    <3>1. CASE Single(date_amt(led, F))
      BY <2>3, <3>1 DEF Verdict
    <3>2. CASE ~Single(date_amt(led, F)) /\ date_amt(led, F) = {} /\ Single(corroborated(led, F))
      BY <2>3, <3>2 DEF Verdict
    <3>3. CASE /\ ~Single(date_amt(led, F)) /\ ~Single(corroborated(led, F))
               /\ corroborated(led, F) = {} /\ Single(fuzzy(led, F))
      BY <2>3, <3>3 DEF Verdict
    <3>4. CASE /\ ~Single(date_amt(led, F)) /\ ~Single(corroborated(led, F))
               /\ corroborated(led, F) = {} /\ ~Single(fuzzy(led, F)) /\ Single(amt(led, F))
      BY <2>3, <3>4 DEF Verdict
    <3>5. CASE /\ ~Single(date_amt(led, F)) /\ ~Single(corroborated(led, F))
               /\ corroborated(led, F) = {} /\ ~Single(fuzzy(led, F))
               /\ ~Single(amt(led, F)) /\ Single(date(led, F))
      BY <2>3, <3>5 DEF Verdict
    <3>6. CASE /\ ~Single(date_amt(led, F)) /\ ~(date_amt(led, F) = {} /\ Single(corroborated(led, F)))
               /\ ~(corroborated(led, F) = {} /\ Single(fuzzy(led, F)))
               /\ ~(corroborated(led, F) = {} /\ ~Single(fuzzy(led, F)) /\ Single(amt(led, F)))
               /\ ~(/\ corroborated(led, F) = {} /\ ~Single(fuzzy(led, F))
                    /\ ~Single(amt(led, F)) /\ Single(date(led, F)))
      BY <2>3, <3>6 DEF Unmatched
    <3>7. corroborated(led, F) = {} => ~Single(corroborated(led, F))
      BY DEF Single
    <3> QED BY <3>1, <3>2, <3>3, <3>4, <3>5, <3>6, <3>7
  <2>5. Paired(q, D, found(led, F).among, found(other, G).among)
    BY <2>2, <2>3 DEF Verdict, Unmatched
  <2> QED BY <2>1, <2>4, <2>5 DEF D
<1> QED BY <1>2, <1>3

(* The rows the tiers settle on for one line all read the same.             *)
LEMMA AmongReadTheSame ==
    ASSUME NEW led, NEW l, NEW F,
           NEW r \in Match(led, l, F).among, NEW x \in Match(led, l, F).among
    PROVE  led[r] = led[x]
<1> DEFINE Uniform(S) == \A y, z \in S : led[y] = led[z]
<1>1. \A S : Identical(led, S) \/ Single(S) \/ S = {} => Uniform(S)
  BY DEF Identical, Single
<1>2. Uniform(ByNumber(led, l, F).among)
  BY <1>1 DEF ByNumber, Verdict, Unmatched
<1>3. Uniform(ByResemblance(led, l, F).among)
  BY <1>1 DEF ByResemblance, Verdict, Unmatched
<1> QED BY <1>2, <1>3 DEF Match

(* A row is taken in either ledger: when the two read the same, what is     *)
(* left can be paired again, the partner of the one with the partner of the *)
(* other.                                                                   *)
LEMMA PairingAfterTaking ==
    ASSUME NEW led, NEW other, NEW F, NEW G, NEW q, Pairing(led, other, F, G, q),
           NEW a \in F, NEW b \in G, led[a] = other[b]
    PROVE  \E p : Pairing(led, other, F \ {a}, G \ {b}, p)
<1> DEFINE D == DOMAIN led
<1>0. /\ DOMAIN other = D /\ \A r \in D : q[r] \in D /\ other[r] = led[q[r]]
      /\ F \subseteq D /\ G \subseteq D
      /\ \A r \in D : r \in G <=> q[r] \in F
      /\ \A x, y \in D : q[x] = q[y] => x = y
      /\ \A y \in D : \E x \in D : q[x] = y
  BY DEF Pairing
<1>1. a \in D /\ b \in D
  BY <1>0
<1>2. PICK c \in D : q[c] = a
  BY <1>0, <1>1
<1> DEFINE p == [r \in D |-> IF r = b THEN a ELSE IF r = c THEN q[b] ELSE q[r]]
<1>3. p \in [D -> D]
  BY <1>0, <1>1
<1>4. \A x, y \in D : p[x] = p[y] => x = y
  BY <1>0, <1>1, <1>2
<1>5. \A y \in D : \E x \in D : p[x] = y
  <2> SUFFICES ASSUME NEW y \in D PROVE \E x \in D : p[x] = y
    OBVIOUS
  <2>1. PICK x \in D : q[x] = y
    BY <1>0
  <2>2. CASE x = b
    <3>1. CASE b = c
      BY <1>1, <1>2, <2>1, <2>2, <3>1
    <3>2. CASE b # c
      <4>1. p[c] = y
        BY <2>1, <2>2, <3>2
      <4> QED BY <4>1
    <3> QED BY <3>1, <3>2
  <2>3. CASE x = c
    <3>1. p[b] = y
      BY <1>1, <1>2, <2>1, <2>3
    <3> QED BY <1>1, <3>1
  <2>4. CASE x # b /\ x # c
    <3>1. p[x] = y
      BY <2>1, <2>4
    <3> QED BY <3>1
  <2> QED BY <2>2, <2>3, <2>4
<1>6. \A r \in D : other[r] = led[p[r]]
  BY <1>0, <1>1, <1>2
<1>7. \A r \in D : r \in G \ {b} <=> p[r] \in F \ {a}
  <2> SUFFICES ASSUME NEW r \in D PROVE r \in G \ {b} <=> p[r] \in F \ {a}
    OBVIOUS
  <2>1. CASE r = b
    BY <1>1, <2>1
  <2>2. CASE r # b /\ r = c
    <3>1. p[r] = q[b] /\ q[b] \in F /\ r \in G
      BY <1>0, <1>1, <1>2, <2>2
    <3>2. q[b] # a
      BY <1>0, <1>1, <1>2, <2>2
    <3> QED BY <2>2, <3>1, <3>2
  <2>3. CASE r # b /\ r # c
    <3>1. p[r] = q[r] /\ q[r] # a
      BY <1>0, <1>2, <2>3
    <3> QED BY <1>0, <2>3, <3>1
  <2> QED BY <2>1, <2>2, <2>3
<1>8. F \ {a} \subseteq D /\ G \ {b} \subseteq D
  BY <1>0
<1> HIDE DEF p
<1>9. Pairing(led, other, F \ {a}, G \ {b}, p)
  BY <1>0, <1>3, <1>4, <1>5, <1>6, <1>7, <1>8, Zenon DEF Pairing
<1> QED BY <1>9

(* When line n is reached, the rows left can be paired.                     *)
PairedAt(led, other, t, u, n) ==
    \E q : Pairing(led, other, FreeBefore(led, t, n), FreeBefore(other, u, n), q)

(* Line n takes no row in either run, or rows that read the same.           *)
SameAt(led, other, t, u, n) ==
    \/ t[n] = 0 /\ u[n] = 0
    \/ /\ t[n] \in FreeBefore(led, t, n) /\ u[n] \in FreeBefore(other, u, n)
       /\ led[t[n]] = other[u[n]]

LEMMA FreeAfter ==
    ASSUME NEW led, NEW t, NEW n \in Nat, n # 0
    PROVE  FreeBefore(led, t, n + 1) = FreeBefore(led, t, n) \ {t[n]}
<1>1. 1..n + 1 - 1 = (1..n - 1) \cup {n}
  OBVIOUS
<1> QED BY <1>1 DEF FreeBefore

LEMMA PairedThroughout ==
    ASSUME NEW led, NEW other, NEW t, NEW u, NEW N \in Nat,
           0 \notin DOMAIN led, 0 \notin DOMAIN other,
           PairedAt(led, other, t, u, 1),
           \A n \in 1..N : PairedAt(led, other, t, u, n) => SameAt(led, other, t, u, n)
    PROVE  \A n \in 1..N : PairedAt(led, other, t, u, n) /\ SameAt(led, other, t, u, n)
<1> DEFINE S == {n \in Nat : PairedAt(led, other, t, u, n)}
<1>1. 1 \in S
  OBVIOUS
<1>2. ASSUME NEW n \in 1..N, n \in S PROVE n + 1 \in S
  <2> DEFINE F == FreeBefore(led, t, n)
             G == FreeBefore(other, u, n)
  <2>1. PICK q : Pairing(led, other, F, G, q)
    BY <1>2 DEF PairedAt
  <2>2. /\ FreeBefore(led, t, n + 1) = F \ {t[n]}
        /\ FreeBefore(other, u, n + 1) = G \ {u[n]}
    BY FreeAfter
  <2>3. SameAt(led, other, t, u, n)
    BY <1>2
  <2>4. CASE t[n] = 0 /\ u[n] = 0
    <3>1. F \ {t[n]} = F /\ G \ {u[n]} = G
      BY <2>4 DEF FreeBefore
    <3>2. PairedAt(led, other, t, u, n + 1)
      BY <2>1, <2>2, <3>1 DEF PairedAt
    <3> QED BY <3>2
  <2>5. CASE t[n] \in F /\ u[n] \in G /\ led[t[n]] = other[u[n]]
    <3>1. \E p : Pairing(led, other, F \ {t[n]}, G \ {u[n]}, p)
      <4> HIDE DEF F, G
      <4> QED BY <2>1, <2>5, PairingAfterTaking
    <3>2. PairedAt(led, other, t, u, n + 1)
      BY <2>2, <3>1 DEF PairedAt
    <3> QED BY <3>2
  <2> QED BY <2>3, <2>4, <2>5 DEF SameAt
<1>3. 1..N + 1 \subseteq S
  <2>1. S \in SUBSET Nat
    OBVIOUS
  <2> HIDE DEF S
  <2> QED BY <1>1, <1>2, <2>1, Counting
<1>4. \A n \in 1..N : n \in S
  <2>1. 1..N \subseteq 1..N + 1
    OBVIOUS
  <2> HIDE DEF S
  <2> QED BY <1>3, <2>1
<1> QED BY <1>4

-----------------------------------------------------------------------------
(* The loop computes Run                                                    *)

(* A row, or 0, as the tiers settle for line l.                             *)
Settles(led, l, free, r) ==
    LET among == Match(led, l, free).among IN r \in among \/ (r = 0 /\ among = {})

LEMMA TakesSettles ==
    ASSUME NEW led, NEW l, NEW free \in SUBSET Nat
    PROVE  Settles(led, l, free, Takes(led, l, free))
<1> DEFINE among == Match(led, l, free).among
<1>1. among \in SUBSET Nat
  BY MatchAmong
<1> HIDE DEF among
<1>2. among # {} => First(among) \in among
  BY <1>1, FirstIs
<1> QED BY <1>2 DEF Settles, Takes, among

LEMMA TakenSettles ==
    ASSUME NEW led, DOMAIN led \subseteq Nat, NEW ls, NEW N \in Nat, DOMAIN ls = 1..N, NEW n \in 1..N
    PROVE  Settles(led, ls[n], FreeBefore(led, Taken(led, ls), n), Taken(led, ls)[n])
<1>1. Taken(led, ls)[n] = Takes(led, ls[n], FreeBefore(led, Taken(led, ls), n))
  BY TakenIs
<1>2. FreeBefore(led, Taken(led, ls), n) \in SUBSET Nat
  BY DEF FreeBefore
<1> QED BY <1>1, <1>2, TakesSettles

(* Whatever solves the equation of Taken is Taken.                          *)
LEMMA TakenIsUnique ==
    ASSUME NEW led, NEW ls, NEW N \in Nat, DOMAIN ls = 1..N, NEW f,
           DOMAIN f = 1..N, f = [n \in DOMAIN f |-> f[n]],
           \A n \in 1..N : f[n] = Takes(led, ls[n], FreeBefore(led, f, n))
    PROVE  f = Taken(led, ls)
<1> DEFINE g == Taken(led, ls)
           S == {m \in Nat : \A n \in 1..m - 1 : f[n] = g[n]}
<1>1. g = [n \in 1..N |-> Takes(led, ls[n], FreeBefore(led, g, n))]
  BY TakenIs
<1> HIDE DEF g
<1>2. 1 \in S
  OBVIOUS
<1>3. ASSUME NEW m \in 1..N, m \in S PROVE m + 1 \in S
  <2>1. FreeBefore(led, f, m) = FreeBefore(led, g, m)
    BY <1>3, FreeRestsOnEarlier
  <2>2. f[m] = g[m]
    BY <1>1, <2>1
  <2>3. \A n \in 1..m + 1 - 1 : n = m \/ n \in 1..m - 1
    OBVIOUS
  <2> QED BY <1>3, <2>2, <2>3
<1>4. N + 1 \in S
  <2>1. S \in SUBSET Nat
    OBVIOUS
  <2> HIDE DEF S
  <2>2. 1..N + 1 \subseteq S
    BY <1>2, <1>3, <2>1, Counting
  <2> QED BY <2>2
<1>5. \A n \in 1..N : f[n] = g[n]
  BY <1>4
<1>6. f = [n \in 1..N |-> f[n]] /\ g = [n \in 1..N |-> g[n]]
  BY <1>1
<1> QED BY <1>5, <1>6 DEF g

LEMMA DoneSettles ==
    ASSUME IInv, Done
    PROVE  /\ DOMAIN given = 1..Len(given) /\ Len(given) \in Nat
           /\ DOMAIN ledger \subseteq Nat /\ 0 \notin DOMAIN ledger
           /\ \A i \in DOMAIN given : Handled(i, Match(ledger, given[i], FreeFor(i)))
<1>1. /\ DOMAIN given = 1..Len(given) /\ Len(given) \in Nat
      /\ DOMAIN ledger = 1..Len(ledger) /\ Len(ledger) \in Nat
  BY Lengths DEF IInv
<1>2. \A i \in DOMAIN given : i < at
  BY <1>1 DEF Done
<1>3. \A i \in DOMAIN given : Handled(i, Match(ledger, given[i], FreeFor(i)))
  BY <1>2 DEF IInv, History
<1> QED BY <1>1, <1>3

(* Once the last line is mapped, bindings, rules and lines are what Run     *)
(* makes of the ledger and the remittance: the loop is a function of them.  *)
LEMMA DoneIsRun ==
    ASSUME IInv, Done
    PROVE  /\ Run(ledger, given) = [row |-> row, rule |-> rule, lines |-> lines]
           /\ row = Taken(ledger, given)
<1> DEFINE N == Len(given)
<1>1. /\ DOMAIN given = 1..N /\ N \in Nat
      /\ DOMAIN ledger \subseteq Nat /\ 0 \notin DOMAIN ledger
      /\ \A i \in 1..N : Handled(i, Match(ledger, given[i], FreeBefore(ledger, row, i)))
  BY DoneSettles DEF FreeFor
<1>2. /\ DOMAIN row = 1..N /\ row = [i \in 1..N |-> row[i]]
      /\ rule = [i \in 1..N |-> rule[i]] /\ lines = [i \in 1..N |-> lines[i]]
  <2>1. /\ row \in [DOMAIN given -> {0} \cup DOMAIN ledger]
        /\ rule \in [DOMAIN given -> Rules \cup {""}] /\ lines \in [DOMAIN given -> Line]
    BY DEF IInv, TypeOK
  <2> QED BY <1>1, <2>1
<1> HIDE DEF N
<1>3. \A i \in 1..N : row[i] = Takes(ledger, given[i], FreeBefore(ledger, row, i))
  <2> SUFFICES ASSUME NEW i \in 1..N
               PROVE  row[i] = Takes(ledger, given[i], FreeBefore(ledger, row, i))
    OBVIOUS
  <2> DEFINE found == Match(ledger, given[i], FreeBefore(ledger, row, i))
  <2>1. found.among \in SUBSET Nat
    BY <1>1, MatchAmong DEF FreeBefore
  <2>2. Handled(i, found)
    BY <1>1
  <2>3. Takes(ledger, given[i], FreeBefore(ledger, row, i)) =
          IF found.among = {} THEN 0 ELSE First(found.among)
    BY DEF Takes
  <2> HIDE DEF found
  <2>4. found.among # {} => First(found.among) \in found.among /\ \A q \in found.among : First(found.among) <= q
    BY <2>1, FirstIs
  <2> QED BY <2>1, <2>2, <2>3, <2>4 DEF Handled
<1>4. row = Taken(ledger, given)
  BY <1>1, <1>2, <1>3, TakenIsUnique
<1>5. /\ Run(ledger, given).row = row
      /\ Run(ledger, given).rule = rule
      /\ Run(ledger, given).lines = lines
  <2>1. \A i \in 1..N :
          /\ rule[i] = Match(ledger, given[i], FreeBefore(ledger, row, i)).rule
          /\ lines[i] = IF row[i] = 0 THEN given[i] ELSE Applied(given[i], ledger[row[i]])
    BY <1>1 DEF Handled
  <2> QED BY <1>1, <1>2, <1>4, <2>1 DEF Run
<1> QED BY <1>4, <1>5 DEF Run

(* The state machine computes Run.                                          *)
THEOREM LoopIsRun ==
    Spec => [](Done => Run(ledger, given) = [row |-> row, rule |-> rule, lines |-> lines])
<1>1. IInv => (Done => Run(ledger, given) = [row |-> row, rule |-> rule, lines |-> lines])
  BY DoneIsRun
<1> QED BY Invariant, <1>1, PTL

-----------------------------------------------------------------------------
(* The order of the ledger                                                  *)

LEMMA AllFree == ASSUME NEW led, NEW t PROVE FreeBefore(led, t, 1) = DOMAIN led
<1>1. 1..1 - 1 = {}
  OBVIOUS
<1> QED BY <1>1 DEF FreeBefore

(* What a line settles on in two paired ledgers reads the same.             *)
LEMMA SettleAlike ==
    ASSUME NEW led, NEW other, NEW F, NEW G, NEW q, Pairing(led, other, F, G, q), NEW l,
           NEW x, Settles(led, l, F, x), NEW y, Settles(other, l, G, y)
    PROVE  \/ x = 0 /\ y = 0
           \/ x \in F /\ y \in G /\ led[x] = other[y]
<1> DEFINE A == Match(led, l, F).among
           B == Match(other, l, G).among
<1>1. Paired(q, DOMAIN led, A, B) /\ A \subseteq F /\ B \subseteq G
  BY SameVerdict, MatchAmong
<1>2. \A r, z \in A : led[r] = led[z]
  BY AmongReadTheSame
<1>3. x \in A \/ (x = 0 /\ A = {})
  BY DEF Settles
<1>4. y \in B \/ (y = 0 /\ B = {})
  BY DEF Settles
<1> HIDE DEF A, B
<1>5. A = {} <=> B = {}
  BY <1>1, PairedSets
<1>6. y \in B => q[y] \in A /\ other[y] = led[q[y]]
  BY <1>1 DEF Paired, Pairing
<1> QED BY <1>1, <1>2, <1>3, <1>4, <1>5, <1>6

LEMMA OrderIsPairing ==
    ASSUME NEW led, NEW n \in Nat, DOMAIN led = 1..n, NEW p \in Orders(DOMAIN led)
    PROVE  Pairing(led, [r \in DOMAIN led |-> led[p[r]]], DOMAIN led, DOMAIN led, p)
<1> DEFINE D == DOMAIN led
<1>1. p \in [D -> D] /\ \A x, y \in D : p[x] = p[y] => x = y
  BY DEF Orders
<1>2. \A y \in D : \E x \in D : p[x] = y
  <2>1. IsFiniteSet(D)
    BY FS_Interval
  <2>2. p \in Injection(D, D)
    <3> HIDE DEF D
    <3> QED BY <1>1 DEF Injection, IsInjective
  <2> HIDE DEF D
  <2>3. p \in Surjection(D, D)
    BY <2>1, <2>2, FS_Injection
  <2> QED BY <2>3 DEF Surjection
<1> QED BY <1>1, <1>2 DEF Pairing

(* The same rows in another order give every line the same row and rule.    *)
THEOREM OrderDecidesNothing == Spec => []LedgerOrderIsNoEvidence
<1>1. ASSUME IInv, Done, NEW p \in Orders(DOMAIN ledger)
      PROVE  LET other == [r \in DOMAIN ledger |-> ledger[p[r]]]
                 again == Run(other, given)
             IN  \A i \in DOMAIN given :
                   /\ again.rule[i] = rule[i]
                   /\ Content(other, again.row[i]) = Content(ledger, row[i])
  <2> DEFINE other == [r \in DOMAIN ledger |-> ledger[p[r]]]
             taken == Taken(other, given)
             N == Len(given)
  <2>1. /\ DOMAIN given = 1..N /\ N \in Nat
        /\ DOMAIN ledger \subseteq Nat /\ 0 \notin DOMAIN ledger
        /\ DOMAIN other = DOMAIN ledger
        /\ \A i \in 1..N : Handled(i, Match(ledger, given[i], FreeBefore(ledger, row, i)))
    BY <1>1, DoneSettles DEF FreeFor
  <2>2. Pairing(ledger, other, DOMAIN ledger, DOMAIN ledger, p)
    <3>1. DOMAIN ledger = 1..Len(ledger) /\ Len(ledger) \in Nat
      BY <1>1, Lengths DEF IInv
    <3> QED BY <1>1, <3>1, OrderIsPairing
  <2> HIDE DEF other, N
  <2>3. \A i \in 1..N : Settles(other, given[i], FreeBefore(other, taken, i), taken[i])
    BY <2>1, TakenSettles
  <2>4. \A i \in 1..N : Settles(ledger, given[i], FreeBefore(ledger, row, i), row[i])
    BY <2>1 DEF Settles, Handled
  <2> HIDE DEF taken
  <2>5. PairedAt(ledger, other, row, taken, 1)
    BY <2>1, <2>2, AllFree DEF PairedAt
  <2>6. ASSUME NEW i \in 1..N, PairedAt(ledger, other, row, taken, i)
        PROVE  SameAt(ledger, other, row, taken, i)
    BY <2>3, <2>4, <2>6, SettleAlike DEF PairedAt, SameAt
  <2>7. \A i \in 1..N : PairedAt(ledger, other, row, taken, i) /\ SameAt(ledger, other, row, taken, i)
    BY <2>1, <2>5, <2>6, PairedThroughout
  <2>8. \A i \in 1..N :
          Match(other, given[i], FreeBefore(other, taken, i)).rule = rule[i]
    BY <2>1, <2>7, SameVerdict DEF PairedAt, Handled
  <2>9. \A i \in 1..N : Content(other, taken[i]) = Content(ledger, row[i])
    BY <2>1, <2>7 DEF SameAt, Content, FreeBefore
  <2>10. /\ Run(other, given).row = taken
         /\ \A i \in 1..N : Run(other, given).rule[i] = Match(other, given[i], FreeBefore(other, taken, i)).rule
    BY <2>1 DEF Run, taken
  <2> QED BY <2>1, <2>8, <2>9, <2>10 DEF other
<1>2. IInv => LedgerOrderIsNoEvidence
  BY <1>1 DEF LedgerOrderIsNoEvidence
<1> QED BY Invariant, <1>2, PTL

-----------------------------------------------------------------------------
(* A remittance sent again                                                  *)

(* Read from a row that has a number and an amount, a line says of any row  *)
(* what that row says of the other.                                         *)
LEMMA AppliedSays ==
    ASSUME NEW l, NEW c, Anchored(c)
    PROVE  /\ \A x : SameNumber(Applied(l, c), x) <=> x.number = c.number
           /\ \A x : AmtOK(Applied(l, c), x) <=> x.amount = c.amount
           /\ \A x : DateOK(Applied(l, c), x) <=> c.date # None /\ x.date = c.date
           /\ Applied(Applied(l, c), c) = Applied(l, c)
BY MatchAssumption DEF Anchored, Applied, AmountRead, SameNumber, AmtOK, DateOK

(* A row that agrees with it on all three, where the row it was read from   *)
(* has them, is as good for the line as that row was.                       *)
LEMMA ReadAlikeIsAsGood ==
    ASSUME NEW l, NEW c, NEW x, x.number = c.number, x.amount = c.amount,
           c.date # None => x.date = c.date
    PROVE  AsGood(l, x, c)
BY DEF AsGood, SameNumber, NumOK, AmtOK, DateOK

(* A line that was bound and overwritten settles, the next time, on rows    *)
(* that read like the one it was bound to.                                  *)
LEMMA SettlesAgain ==
    ASSUME NEW led, NEW F, NEW G, NEW q, Pairing(led, led, F, G, q), NEW l,
           NEW r \in Match(led, l, F).among, Anchored(led[r])
    PROVE  LET again == Match(led, Applied(l, led[r]), G).among
           IN  again # {} /\ \A y \in again : led[y] = led[r]
<1> DEFINE c == led[r]
           m == Applied(l, c)
<1>1. /\ r \in F /\ r \in DOMAIN led /\ F \subseteq DOMAIN led /\ G \subseteq DOMAIN led
      /\ \A x \in G : q[x] \in F /\ led[x] = led[q[x]]
  BY MatchAmong DEF Pairing
<1>2. PICK b \in G : led[b] = c
  BY <1>1 DEF Pairing
<1> HIDE DEF c
<1>3. /\ \A x : SameNumber(m, x) <=> x.number = c.number
      /\ \A x : AmtOK(m, x) <=> x.amount = c.amount
      /\ \A x : DateOK(m, x) <=> c.date # None /\ x.date = c.date
  BY AppliedSays DEF c
<1> HIDE DEF m
<1>4. ASSUME NEW x \in G, SameNumber(m, led[x]), AmtOK(m, led[x]), c.date # None => DateOK(m, led[x])
      PROVE  led[x] = c
  <2>1. q[x] \in F /\ led[q[x]] = led[x]
    BY <1>1
  <2>2. AsGood(l, led[x], c)
    BY <1>3, <1>4, ReadAlikeIsAsGood
  <2>3. led[q[x]] = led[r]
    BY <1>1, <2>1, <2>2, MatchUndisputed DEF c
  <2> QED BY <2>1, <2>3 DEF c
<1> DEFINE candidates == {x \in G : SameNumber(m, led[x])}
           exact   == {x \in candidates : AmtOK(m, led[x]) /\ DateOK(m, led[x])}
           two_way == {x \in candidates : Corroborates(m, led[x])}
           found   == ByNumber(led, m, G)
<1>5. found = Match(led, m, G)
  BY <1>1, <1>3 DEF Match, c
<1>6. /\ Identical(led, exact) => found.among = exact
      /\ ~Identical(led, exact) /\ Identical(led, two_way) => found.among = two_way
  <2>1. found = CASE Identical(led, exact) -> Verdict("EXACT_NUMBER_AMOUNT_DATE", exact)
                  [] ~Identical(led, exact) /\ Identical(led, two_way) ->
                       Verdict("EXACT_NUMBER_AMOUNT_OR_DATE", two_way)
                  [] two_way = {} /\ Single(candidates) -> Verdict("EXACT_NUMBER_UNIQUE", candidates)
                  [] OTHER -> Unmatched
    BY Zenon DEF ByNumber
  <2> HIDE DEF found, exact, two_way, candidates
  <2>2. Identical(led, exact) => found = Verdict("EXACT_NUMBER_AMOUNT_DATE", exact)
    <3>1. Identical(led, exact) => two_way # {}
      BY DEF Identical, exact, two_way, Corroborates
    <3> QED BY <2>1, <3>1
  <2>3. ~Identical(led, exact) /\ Identical(led, two_way) =>
          found = Verdict("EXACT_NUMBER_AMOUNT_OR_DATE", two_way)
    <3>1. Identical(led, two_way) => two_way # {}
      BY DEF Identical
    <3> QED BY <2>1, <3>1
  <2> QED BY <2>2, <2>3 DEF Verdict
<1>7. b \in candidates /\ AmtOK(m, led[b])
  BY <1>2, <1>3
<1> HIDE DEF found
<1>8. CASE c.date # None
  <2>1. b \in exact
    BY <1>2, <1>3, <1>7, <1>8
  <2>2. \A x \in exact : led[x] = c
    BY <1>4
  <2> HIDE DEF exact
  <2>3. Identical(led, exact)
    BY <2>1, <2>2 DEF Identical
  <2> QED BY <1>5, <1>6, <2>1, <2>2, <2>3 DEF c, m
<1>9. CASE c.date = None
  <2>1. b \in two_way /\ exact = {}
    BY <1>3, <1>7, <1>9 DEF Corroborates
  <2>2. \A x \in two_way : led[x] = c
    BY <1>3, <1>4, <1>9 DEF Corroborates
  <2> HIDE DEF exact, two_way
  <2>3. Identical(led, two_way) /\ ~Identical(led, exact)
    BY <2>1, <2>2 DEF Identical
  <2> QED BY <1>5, <1>6, <2>1, <2>2, <2>3 DEF c, m
<1> QED BY <1>8, <1>9

(* A reconciled remittance that is sent again reconciles to itself, as long *)
(* as no row of the ledger lacks a number or an amount.                     *)
THEOREM SentAgainIsTheSame == Spec => []ResubmissionIsStable
<1>1. ASSUME IInv, Done, \A r \in DOMAIN ledger : Anchored(ledger[r])
      PROVE  LET again == Run(ledger, lines)
             IN  /\ again.lines = lines
                 /\ \A i \in DOMAIN given : Content(ledger, again.row[i]) = Content(ledger, row[i])
  <2> DEFINE taken == Taken(ledger, lines)
             N == Len(given)
             F(i) == FreeBefore(ledger, row, i)
             G(i) == FreeBefore(ledger, taken, i)
  <2>1. /\ DOMAIN given = 1..N /\ N \in Nat
        /\ DOMAIN ledger \subseteq Nat /\ 0 \notin DOMAIN ledger
        /\ \A i \in 1..N : Handled(i, Match(ledger, given[i], F(i)))
    BY <1>1, DoneSettles DEF FreeFor
  <2>2. DOMAIN lines = 1..N /\ lines = [i \in 1..N |-> lines[i]]
    <3>1. lines \in [DOMAIN given -> Line]
      BY <1>1 DEF IInv, TypeOK
    <3> QED BY <2>1, <3>1
  <2> HIDE DEF N
  <2>3. \A i \in 1..N : Settles(ledger, lines[i], G(i), taken[i])
    BY <2>1, <2>2, TakenSettles
  <2> HIDE DEF taken
  <2>4. PairedAt(ledger, ledger, row, taken, 1)
    <3> DEFINE D == DOMAIN ledger
               q == [r \in D |-> r]
    <3>1. Pairing(ledger, ledger, D, D, q)
      BY DEF Pairing
    <3> QED BY <3>1, AllFree DEF PairedAt
  <2>5. ASSUME NEW i \in 1..N, PairedAt(ledger, ledger, row, taken, i)
        PROVE  SameAt(ledger, ledger, row, taken, i)
    <3>1. PICK q : Pairing(ledger, ledger, F(i), G(i), q)
      BY <2>5 DEF PairedAt
    <3>2. Handled(i, Match(ledger, given[i], F(i)))
      BY <2>1
    <3>3. CASE row[i] = 0
      <4>1. lines[i] = given[i] /\ Settles(ledger, given[i], F(i), row[i])
        BY <3>2, <3>3 DEF Handled, Settles
      <4>2. Settles(ledger, given[i], G(i), taken[i])
        BY <2>3, <4>1
      <4> HIDE DEF F, G
      <4>3. \/ row[i] = 0 /\ taken[i] = 0
            \/ row[i] \in F(i) /\ taken[i] \in G(i) /\ ledger[row[i]] = ledger[taken[i]]
        BY <3>1, <4>1, <4>2, SettleAlike
      <4> QED BY <4>3 DEF SameAt, F, G
    <3>4. CASE row[i] # 0
      <4>1. /\ row[i] \in Match(ledger, given[i], F(i)).among
            /\ lines[i] = Applied(given[i], ledger[row[i]])
        BY <3>2, <3>4 DEF Handled
      <4>2. row[i] \in F(i) /\ Anchored(ledger[row[i]])
        BY <1>1, <4>1, MatchAmong DEF FreeBefore
      <4> DEFINE among == Match(ledger, lines[i], G(i)).among
      <4>3. among # {} /\ \A y \in among : ledger[y] = ledger[row[i]]
        <5> HIDE DEF F, G
        <5> QED BY <3>1, <4>1, <4>2, SettlesAgain
      <4>4. taken[i] \in among /\ taken[i] \in G(i)
        BY <2>3, <4>3, MatchAmong DEF Settles
      <4> QED BY <4>2, <4>3, <4>4 DEF SameAt
    <3> QED BY <3>3, <3>4
  <2>6. \A i \in 1..N : SameAt(ledger, ledger, row, taken, i)
    BY <2>1, <2>4, <2>5, PairedThroughout
  <2>7. \A i \in 1..N : Content(ledger, taken[i]) = Content(ledger, row[i])
    BY <2>1, <2>6 DEF SameAt, Content, FreeBefore
  <2>8. \A i \in 1..N :
          (IF taken[i] = 0 THEN lines[i] ELSE Applied(lines[i], ledger[taken[i]])) = lines[i]
    <3> SUFFICES ASSUME NEW i \in 1..N, taken[i] # 0
                 PROVE  Applied(lines[i], ledger[taken[i]]) = lines[i]
      OBVIOUS
    <3>1. /\ row[i] \in DOMAIN ledger /\ row[i] # 0
          /\ ledger[row[i]] = ledger[taken[i]]
      BY <2>1, <2>6 DEF SameAt, FreeBefore
    <3>2. lines[i] = Applied(given[i], ledger[row[i]])
      BY <2>1, <3>1 DEF Handled
    <3>3. Anchored(ledger[row[i]])
      BY <1>1, <3>1
    <3> QED BY <3>1, <3>2, <3>3, AppliedSays
  <2>9. Run(ledger, lines).lines = lines /\ Run(ledger, lines).row = taken
    BY <2>2, <2>8 DEF Run, taken
  <2> QED BY <2>1, <2>7, <2>9
<1>2. IInv => ResubmissionIsStable
  BY <1>1 DEF ResubmissionIsStable
<1> QED BY Invariant, <1>2, PTL
=============================================================================
