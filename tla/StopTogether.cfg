SPECIFICATION FairSpec
CONSTANTS
    t1 = t1
    t2 = t2
    w1 = w1
    w2 = w2
    Tasks = {t1}
    Workers = {w1, w2}
    NoWorker = NoWorker
    Deps <- LoneDeps
    Rank <- LoneRank
    MaxAttempts = 1
    Lease = 1
    Concurrent = TRUE
    Anonymous = {w2}
    Mortal = {}
    Forgetful = {}
    Unlogged = {}
    ByHand = FALSE
    MaxBlocks = 1
    MaxReflect = 1
    MaxSessions = 0
    MaxPerSession = 0
    Unbacked = {}
    CostKnown = TRUE
    Corruptible = FALSE
    MaxPrompts = 0
INVARIANT LastOutFinished
PROPERTY EveryStopEnds
CHECK_DEADLOCK FALSE
