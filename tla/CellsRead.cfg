SPECIFICATION Spec
CONSTANTS
    AmountCells <- SomeAmounts
    DateCells <- SomeDates
INVARIANTS
    AmountIsSpelled
    SpelledIsRead
    ListOrderIsNoEvidence
