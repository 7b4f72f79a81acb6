SPECIFICATION FairBoardSpec
CONSTANTS
    t1 = t1
    t2 = t2
    t3 = t3
    w1 = w1
    w2 = w2
    w3 = w3
    Tasks = {t1, t2, t3}
    Workers = {w1, w2}
    NoWorker = NoWorker
    Deps <- ForkDeps
    Rank <- ForkRank
    MaxAttempts = 2
    Lease = 2
    Concurrent = FALSE
    Anonymous = {w2}
    Mortal = {w1}
    Forgetful = {t1}
    Unlogged = {t2}
    ByHand = TRUE
INVARIANTS LeaseHonoured DepsFirst StartsBounded
PROPERTY CampaignSettles
CHECK_DEADLOCK FALSE
