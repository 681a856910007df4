------------------------------ MODULE Amounts ------------------------------
(***************************************************************************)
(* sanitize_float_val in validators.py: what a cell that is a string reads *)
(* as.  The digits of a cell pass through unchanged and in order; a reading *)
(* differs only in its sign and in how many of them are decimals (its      *)
(* scale), so a misread separator is a wrong scale: an amount 10^n times   *)
(* too large or too small.  A number read by an exponent is "scientific";  *)
(* where its point goes is not modelled.                                   *)
(*                                                                         *)
(* Currency marks, blanks and plus signs are taken as removed.  "d" is a   *)
(* digit; "e" the exponent's letter; "-" a minus sign in front of a number *)
(* or its exponent and any other character elsewhere; "inf" is a whole     *)
(* text that float reads as no finite number (inf, 1e400, 400 digits), so  *)
(* the exponents spelled out are those within float's range (behind a      *)
(* separator the others are refused).                                      *)
(***************************************************************************)
EXTENDS Naturals, Sequences

Chars == {"d", "comma", "dot", "-", "e", "underscore"}
Endlesses == {<<"inf">>, <<"-", "inf">>, <<"-", "-", "inf">>}
AmountCell == [paren : BOOLEAN, text : Seq(Chars) \cup Endlesses]

Number(negative, scale) == [kind |-> "number", negative |-> negative, scale |-> scale]
Scientific(negative) == [kind |-> "scientific", negative |-> negative, scale |-> 0]
Endless(negative) == [kind |-> "endless", negative |-> negative, scale |-> 0]
Nothing == [kind |-> "nothing", negative |-> FALSE, scale |-> 0]
Raised  == [kind |-> "raised", negative |-> FALSE, scale |-> 0]    \* ValueError

Separates(c) == c \in {"comma", "dot"}
Has(t, c) == \E i \in 1..Len(t) : t[i] = c
Digits(t, from, to) == \A i \in from..to : t[i] = "d"

(* What float accepts of a text without a point: digits, perhaps with       *)
(* underscores between them, and perhaps an exponent.  A point that follows *)
(* leaves no room for an exponent.                                          *)
Joined(s) ==
    /\ s # <<>> /\ s[1] = "d" /\ s[Len(s)] = "d"
    /\ \A i \in 1..Len(s) : s[i] = "d" \/ (s[i] = "underscore" /\ s[i + 1] = "d")
Exponent(s) == Joined(s) \/ (s # <<>> /\ s[1] = "-" /\ Joined(Tail(s)))
Powered(s) ==
    \E i \in 1..Len(s) :
        s[i] = "e" /\ Joined(SubSeq(s, 1, i - 1)) /\ Exponent(SubSeq(s, i + 1, Len(s)))

Float(s, negative, scale) ==
    IF Joined(s) THEN Number(negative, scale)
    ELSE IF scale = 0 /\ Powered(s) THEN Scientific(negative) ELSE Raised

(* _strip_thousands succeeds on the first n characters: one to three        *)
(* digits, then groups of three characters, whatever they are, each behind  *)
(* a separator.                                                             *)
EachBehind(t, h, n, sep) == \A i \in h + 1..n : (t[i] = sep) = ((i - h) % 4 = 1)
Groups(t, n, sep) ==
    \E h \in 1..3 : h < n /\ (n - h) % 4 = 0 /\ Digits(t, 1, h) /\ EachBehind(t, h, n, sep)

(* What is left of n characters when the separators of their groups go;     *)
(* the first n % 4 characters are before the first of them.                 *)
Behind(n, j) == j + (j + 2 - (n % 4)) \div 3
Stripped(t, n) == [j \in 1..n - (n \div 4) |-> t[Behind(n, j)]]
Ungrouped(t, n, negative, scale) == Float(Stripped(t, n), negative, scale)

(* What _DECIMAL_RE matches: digits, one separator at p, digits after it,   *)
(* and perhaps a sign in front.                                             *)
DecimalAt(t, p) ==
    /\ p < Len(t) /\ Separates(t[p])
    /\ \A i \in 1..Len(t) : i # p => t[i] = "d" \/ (i = 1 /\ t[1] = "-")

Decimal(t, negative) ==
    IF \E p \in 1..Len(t) : DecimalAt(t, p)
    THEN LET p == CHOOSE p \in 1..Len(t) : DecimalAt(t, p)
         IN  Number(negative # (t[1] = "-"), Len(t) - p)
    ELSE Nothing

(* Both separators: the rightmost one is the decimal point.                 *)
Rightmost(t) ==
    CHOOSE p \in 1..Len(t) : Separates(t[p]) /\ \A i \in p + 1..Len(t) : ~Separates(t[i])
ReadBoth(t, negative) ==
    LET p == Rightmost(t)
        other == IF t[p] = "comma" THEN "dot" ELSE "comma"
    IN  IF Groups(t, p - 1, other) /\ p < Len(t) /\ Digits(t, p + 1, Len(t))
        THEN Ungrouped(t, p - 1, negative, Len(t) - p)
        ELSE Nothing

(* Wrong on purpose: a lone comma is always a decimal point.                *)
ReadCommaAsDot(t, negative) == Decimal(t, negative)
ReadComma(t, negative) ==
    IF Groups(t, Len(t), "comma") THEN Ungrouped(t, Len(t), negative, 0)
                              ELSE Decimal(t, negative)

(* Wrong on purpose: a lone dot may group thousands, as a lone comma may.   *)
ReadDotAsComma(t, negative) ==
    IF Groups(t, Len(t), "dot") THEN Number(negative, 0) ELSE Decimal(t, negative)
ReadDot(t, negative) == Decimal(t, negative)

(* No separator: what float raises on is refused.  A negative cell is       *)
(* returned without a look at whether it is finite.                         *)
ReadPlain(t, negative) ==
    LET marked == t[1] = "-"
        rest == IF marked THEN Tail(t) ELSE t
        plain == Float(rest, negative # marked, 0)
    IN  IF rest = <<"inf">> /\ negative THEN Endless(~marked)
        ELSE IF plain = Raised THEN Nothing ELSE plain

Signed(c) == c.text # <<>> /\ c.text[1] = "-"
Unsigned(c) == IF Signed(c) THEN Tail(c.text) ELSE c.text

Read(t, negative) ==
    CASE t = <<>> -> Nothing
      [] Has(t, "dot") /\ Has(t, "comma") -> ReadBoth(t, negative)
      [] Has(t, "comma") /\ ~Has(t, "dot") -> ReadComma(t, negative)
      [] Has(t, "dot") /\ ~Has(t, "comma") -> ReadDot(t, negative)
      [] t # <<>> /\ ~Has(t, "dot") /\ ~Has(t, "comma") -> ReadPlain(t, negative)

Sanitize(c) == Read(Unsigned(c), c.paren \/ Signed(c))

-----------------------------------------------------------------------------
(* The spellings the docstring names, counted from the right and without    *)
(* the procedure: 1234, 1,234, 1234.5, 1,234.5, 1.234,5 and 1234,5.         *)
InThrees(t, n, sep) ==
    n % 4 # 0 /\ \A i \in 1..n : t[i] = IF (n - i) % 4 = 3 THEN sep ELSE "d"

Spells(t, scale) ==
    LET p == Len(t) - scale
        grouped == InThrees(t, Len(t), "comma")
    IN  \/ scale = 0 /\ t # <<>> /\ (Digits(t, 1, Len(t)) \/ grouped)
        \/ /\ scale > 0 /\ p > 0 /\ Digits(t, p + 1, Len(t))
           /\ \/ t[p] = "dot" /\ (Digits(t, 1, p - 1) \/ InThrees(t, p - 1, "comma"))
              \/ t[p] = "comma" /\ Digits(t, 1, p - 1) /\ ~grouped
              \/ t[p] = "comma" /\ InThrees(t, p - 1, "dot") /\ Has(t, "dot")

=============================================================================
