------------------------------- MODULE Dates -------------------------------
(***************************************************************************)
(* format_oracle_date in date_formatter.py: which day a cell is read as.   *)
(* A cell in one of the numeric orders is three fields and a separator     *)
(* between them; a compact one is a year of four digits and the digits     *)
(* after it.  A time of day is taken as stripped, and spellings with a     *)
(* month's name, which name the month, are left out.                       *)
(***************************************************************************)
EXTENDS Integers, Sequences, FiniteSets

(* A field: its value, and of how many digits it is.                        *)
Field == [value : Nat, width : 1..4]
Separated == [form : {"separated"}, first : Field, second : Field, third : Field]
Compact == [form : {"compact"}, year : 1..9999, tail : Seq(0..9)]

NoDay == [year |-> 0, month |-> 0, day |-> 0]
Day(y, m, d) == [year |-> y, month |-> m, day |-> d]

Leap(y) == y % 4 = 0 /\ (y % 100 # 0 \/ y % 400 = 0)
DaysIn(y, m) == CASE m \in {4, 6, 9, 11} -> 30
                  [] m = 2 -> IF Leap(y) THEN 29 ELSE 28
                  [] OTHER -> 31

(* datetime: the days there are.                                            *)
IsDay(y, m, d) == y \in 1..9999 /\ m \in 1..12 /\ d \in 1..DaysIn(y, m)

(* %d, %m; %Y and %y, whose years go from 1969 to 2068.                     *)
Short(f) == f.width <= 2
Years(f) == CASE f.width = 4 -> {f.value}
              [] f.width = 2 -> {IF f.value >= 69 THEN 1900 + f.value ELSE 2000 + f.value}
              [] OTHER -> {}

(* What strptime makes of three fields under an order of FORMATS.           *)
Orders == <<"YMD", "DMY", "MDY">>
DaysBy(order, c) ==
    CASE order = "YMD" ->
           {Day(y, c.second.value, c.third.value) :
              y \in {y \in Years(c.first) : c.first.width = 4 /\ Short(c.second) /\ Short(c.third)
                                            /\ IsDay(y, c.second.value, c.third.value)}}
      [] order = "DMY" ->
           {Day(y, c.second.value, c.first.value) :
              y \in {y \in Years(c.third) : Short(c.first) /\ Short(c.second)
                                            /\ IsDay(y, c.second.value, c.first.value)}}
      [] order = "MDY" ->
           {Day(y, c.first.value, c.second.value) :
              y \in {y \in Years(c.third) : Short(c.first) /\ Short(c.second)
                                            /\ IsDay(y, c.first.value, c.second.value)}}

(* Wrong on purpose: a year of two digits is not looked at.                 *)
IsAmbiguousLongYear(c) ==
    /\ Short(c.first) /\ Short(c.second) /\ c.third.width = 4
    /\ c.first.value # c.second.value
    /\ c.first.value <= 12 /\ c.second.value <= 12
(* is_ambiguous_numeric_date.                                               *)
IsAmbiguous(c) ==
    /\ Short(c.first) /\ Short(c.second) /\ c.third.width \in {2, 4}
    /\ c.first.value # c.second.value
    /\ c.first.value <= 12 /\ c.second.value <= 12

(* The first order of the list that reads the cell.                         *)
FirstReading(c) ==
    IF \E n \in 1..3 : DaysBy(Orders[n], c) # {}
    THEN LET n == CHOOSE n \in 1..3 : /\ DaysBy(Orders[n], c) # {}
                                      /\ \A m \in 1..n - 1 : DaysBy(Orders[m], c) = {}
         IN  CHOOSE d \in DaysBy(Orders[n], c) : TRUE
    ELSE NoDay

(* %Y%m%d: the ways to cut the digits after the year into a month and a     *)
(* day.  A one-digit month or day is not 0, a longer one is in range.       *)
Value(s) == IF Len(s) = 1 THEN s[1] ELSE 10 * s[1] + s[2]
Cuts(tail) ==
    {c \in (1..2) \X (1..2) :
        /\ c[1] + c[2] <= Len(tail)
        /\ Value(SubSeq(tail, 1, c[1])) \in 1..12
        /\ Value(SubSeq(tail, c[1] + 1, c[1] + c[2])) \in 1..31}

(* The pattern takes the longest month that leaves a day, then the longest  *)
(* day; digits left over, or a day that is not in the calendar, are an      *)
(* error.                                                                   *)
ReadCompact(c) ==
    LET taken == CHOOSE t \in Cuts(c.tail) :
                   \A o \in Cuts(c.tail) : t[1] > o[1] \/ (t[1] = o[1] /\ t[2] >= o[2])
        m == Value(SubSeq(c.tail, 1, taken[1]))
        d == Value(SubSeq(c.tail, taken[1] + 1, taken[1] + taken[2]))
    IN  IF Cuts(c.tail) # {} /\ taken[1] + taken[2] = Len(c.tail) /\ IsDay(c.year, m, d)
        THEN Day(c.year, m, d) ELSE NoDay

FormatDate(c) ==
    IF c.form = "compact" THEN ReadCompact(c)
    ELSE IF IsAmbiguous(c) THEN NoDay ELSE FirstReading(c)

-----------------------------------------------------------------------------
(* Every day a cell can be read as, in any order and by any cut.            *)
Readings(c) ==
    IF c.form = "compact"
    THEN {d \in [year : {c.year}, month : 1..12, day : 1..31] :
            /\ IsDay(d.year, d.month, d.day)
            /\ \E cut \in Cuts(c.tail) :
                 /\ cut[1] + cut[2] = Len(c.tail)
                 /\ d.month = Value(SubSeq(c.tail, 1, cut[1]))
                 /\ d.day = Value(SubSeq(c.tail, cut[1] + 1, cut[1] + cut[2]))}
    ELSE UNION {DaysBy(Orders[n], c) : n \in 1..3}

=============================================================================
