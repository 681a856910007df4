SPECIFICATION Spec
CONSTANTS
    AmountCells <- SomeAmounts
    DateCells <- SomeDates
INVARIANTS
    FiniteOrNone
