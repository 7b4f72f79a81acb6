SPECIFICATION Spec
CONSTANTS
    t1 = t1
    t2 = t2
    w1 = w1
    w2 = w2
    Tasks = {t1, t2}
    Workers = {w1}
    NoWorker = NoWorker
    Deps <- StopDeps
    Rank <- StopRank
    MaxAttempts = 2
    Lease = 1
    Concurrent = FALSE
    Anonymous = {}
    Mortal = {}
    Forgetful = {}
    Unlogged = {}
    ByHand = TRUE
    MaxBlocks = 3
    MaxReflect = 2
    MaxSessions = 3
    MaxPerSession = 2
    Unbacked = {t1}
    CostKnown = FALSE
    Corruptible = TRUE
    MaxPrompts = 2
INVARIANTS RowBounded GoneMeansFinished
CHECK_DEADLOCK FALSE
