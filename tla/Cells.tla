------------------------------- MODULE Cells -------------------------------
(***************************************************************************)
(* A cell of a report or a field of a request is given its comparison key: *)
(* the amount or the day that LedgerMatch and ReceiptMatch compare.  Each  *)
(* key is held against every reading the cell's spelling allows.           *)
(***************************************************************************)
EXTENDS Amounts, Dates

CONSTANTS AmountCells, DateCells    \* the cells that occur

ASSUME CellsAssumption ==
    /\ AmountCells \subseteq AmountCell
    /\ DateCells \subseteq Separated \cup Compact

VARIABLES
    cell,    \* the cell
    kind,    \* "amount" or "date"
    key      \* what it reads as, once read

vars == <<cell, kind, key>>
Unread == [kind |-> "unread"]

Init ==
    /\ \/ kind = "amount" /\ cell \in AmountCells
       \/ kind = "date" /\ cell \in DateCells
    /\ key = Unread

ReadAmount ==
    /\ kind = "amount" /\ key = Unread
    /\ key' = Sanitize(cell)
    /\ UNCHANGED <<cell, kind>>

ReadDate ==
    /\ kind = "date" /\ key = Unread
    /\ key' = FormatDate(cell)
    /\ UNCHANGED <<cell, kind>>

Finished == key # Unread /\ UNCHANGED vars

Next == ReadAmount \/ ReadDate \/ Finished

Spec == Init /\ [][Next]_vars

-----------------------------------------------------------------------------
(* Properties *)

(* An amount that is read is written as one of the documented spellings,    *)
(* read with its scale and with the sign of its parentheses or its minus:   *)
(* no separator is taken for the other kind, which would make the amount a  *)
(* hundred or a thousand times another.  Beyond the documented spellings    *)
(* the code reads what else float accepts: underscores among the digits     *)
(* and, in a cell without a dot, an exponent (1_000, 2e3, also 1,2e3, which *)
(* is 12000); and a minus behind a minus, which cancels the first.          *)
AmountIsSpelled ==
    kind = "amount" /\ key.kind \in {"number", "scientific"} /\ Unsigned(cell)[1] # "-" =>
        /\ \/ key.kind = "number" /\ Spells(Unsigned(cell), key.scale)
           \/ key.kind = "number" /\ Has(Unsigned(cell), "underscore")
           \/ key.kind = "scientific" /\ Has(Unsigned(cell), "e") /\ ~Has(Unsigned(cell), "dot")
        /\ key.negative = (cell.paren \/ Signed(cell))

(* A cell in one of those spellings is read, and in no other way: no credit *)
(* memo and no grouping makes an amount disappear.                          *)
SpelledIsRead ==
    kind = "amount" /\ key # Unread =>
        \A scale \in 0..Len(cell.text) : Spells(Unsigned(cell), scale) =>
            key = Number(cell.paren \/ Signed(cell), scale)

(* A date in a numeric order is read as the one day the orders of FORMATS   *)
(* make of it, and not at all when they make two or none: their order in    *)
(* the list decides nothing.                                                *)
ListOrderIsNoEvidence ==
    kind = "date" /\ key # Unread /\ cell.form = "separated" =>
        IF \E d \in Readings(cell) : Readings(cell) = {d}
        THEN key \in Readings(cell) ELSE key = NoDay

(* What the docstring of sanitize_float_val says: a cell reads as a finite  *)
(* number or as None.                                                       *)
FiniteOrNone ==
    kind = "amount" /\ key # Unread => key = Nothing \/ key.kind \in {"number", "scientific"}

(* What the docstring of format_oracle_date says: None when the value is    *)
(* ambiguous.                                                               *)
AmbiguousIsRefused ==
    kind = "date" /\ key # Unread => \A d, e \in Readings(cell) : d # e => key = NoDay

=============================================================================
