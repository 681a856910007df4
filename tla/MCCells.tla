------------------------------ MODULE MCCells ------------------------------
(* Instances of Cells for TLC. *)
EXTENDS Cells, SequencesExt

(* Every text of up to five characters, and up to four runs of characters
   with a separator between them. *)
Runs == {<<>>, <<"d">>, <<"d", "d", "d">>, <<"d", "d", "d", "d">>, <<"-", "d">>, <<"d", "-", "d">>,
         <<"d", "e", "d">>, <<"underscore", "d", "d">>}
Separators == {<<"comma">>, <<"dot">>}
Four == {a \o p \o b \o q \o c \o r \o d : a, b, c, d \in Runs, p, q, r \in Separators}
Three == {a \o p \o b \o q \o c : a, b, c \in Runs, p, q \in Separators}
SomeAmounts ==
    [paren : BOOLEAN, text : SeqOf(Chars, 5) \cup Three \cup Four \cup Endlesses]

(* Fields at the edges of months, days and of the two-digit years. *)
Part(w, values) == [value : values, width : {w}]
Parts == Part(1, {1, 2}) \cup Part(2, {0, 1, 2, 12, 13, 28, 29, 30, 31, 32, 68, 69})
         \cup Part(3, {202}) \cup Part(4, {1900, 2024, 2026})
SomeDates ==
    [form : {"separated"}, first : Parts, second : Parts, third : Parts]
    \cup [form : {"compact"}, year : {1900, 2024, 2026}, tail : UNION {[1..n -> {0, 1, 2, 3}] : n \in 1..5}]
============================================================================
