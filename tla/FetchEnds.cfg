SPECIFICATION FairSpec
CONSTANTS
    c1 = c1
    c2 = c2
    c3 = c3
    c4 = c4
    w1 = w1
    w2 = w2
    k1 = k1
    k2 = k2
    None = None
    Callers = {c1, c2}
    Workers = {w1}
    WorkerOf <- SameWorker
    Keys = {k1}
    KeyOf <- SameKey
    NumPaths = 2
    MaxAttempts = 2
    MaxEntries = 1
    TTL = 1
    RedisOn = TRUE
    MaxClock = 1
PROPERTY
    EveryCallEnds

