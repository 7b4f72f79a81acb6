SPECIFICATION HooksSpec
CONSTANTS
    t1 = t1
    w1 = w1
    w2 = w2
    Tasks = {t1}
    Workers = {w1, w2}
    NoWorker = NoWorker
    Deps <- LoneDeps
    Rank <- LoneRank
    MaxAttempts = 1
    Lease = 1
    Concurrent = TRUE
    Anonymous = {}
    Mortal = {}
    Forgetful = {t1}
    Unlogged = {}
    ByHand = FALSE
    InitialStores <- HooksStores
    Listed = {w1}
    MaxChanges = 1
INVARIANTS NobodyLeavesWork SilenceIsExplained LastAwakeSettles
PROPERTY EverySessionLeaves
CHECK_DEADLOCK FALSE
