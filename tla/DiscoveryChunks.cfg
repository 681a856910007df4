SPECIFICATION FairSpec
CONSTANTS
    acme = acme
    Acme = Acme
    beta = beta
    Names = {acme, Acme, beta}
    Fold <- Folded
    MaxLines = 4
    MaxQueries = 3
    Width = 2
    None = None
INVARIANTS
    TypeOK
    NoStrayQuery
    CustomerIsSole
    CancelComesFromOutside
PROPERTIES
    GivesUpForCause
    Identifies
    DiscoveryEnds
