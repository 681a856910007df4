SPECIFICATION FairSpec
CONSTANTS
    Requests <- TwoRequests
    Callers <- TwoCallers
    Claims <- SomeClaims
    Workers <- TwoWorkers
    Edge = "edge"
    BodyLimit = 1
    MaxPart = 1
    RateLimit = 1
    BatchAnswers <- TwoAnswers
INVARIANTS
    TypeOK
    OneAnswer
    Admission
    CallerQuota
PROPERTIES
    Answered
