SPECIFICATION Spec
CONSTANTS
    n1 = n1
    n2 = n2
    n3 = n3
    d1 = d1
    d2 = d2
    a1 = a1
    a2 = a2
    t1 = t1
    t2 = t2
    Numbers = {n1, n2, n3}
    Dates = {d1, d2}
    Amounts = {a1, a2}
    Texts = {t1, t2}
    None = None
    Unreadable = Unreadable
    Alike <- Resembles
    Rows <- AnchoredRows
    Lines <- AnyLines
    MaxRows = 3
    MaxLines = 2
INVARIANTS
    NoRowTwice
    LedgerOrderIsNoEvidence
    ResubmissionIsStable
