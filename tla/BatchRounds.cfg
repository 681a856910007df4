SPECIFICATION Spec
CONSTANTS
    pay = pay
    Pay = Pay
    part = part
    tail = tail
    tiny = tiny
    d1 = d1
    d2 = d2
    a1 = a1
    a2 = a2
    acme = acme
    heir = heir
    References = {pay, Pay, part, tail, tiny}
    Dates = {d1, d2}
    Amounts = {a1, a2}
    Names = {acme, heir}
    None = None
    Fold <- Folded
    Within <- Contains
    Receipts <- SomeReceipts
    Headers <- SomeHeaders
    MaxReceipts = 2
    MaxRounds = 3
INVARIANTS
    TypeOK
    ReceiptIsEarned
    HeaderIsHonest
    AnswerForCause
    NoStrayFetch
PROPERTIES
    KeepsItsReceipt
