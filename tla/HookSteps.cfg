SPECIFICATION Spec
CONSTANTS
    p1 = p1
    p2 = p2
    p3 = p3
    t1 = t1
    t2 = t2
    w1 = w1
    w2 = w2
    Procs = {p1, p2, p3}
    Absent = Absent
    NoPid = NoPid
    Nobody = Nobody
    MayCrash = {p1, p2, p3}
    MayStall = {}
    MayTimeOut = {}
    Tasks = {t1, t2}
    Workers = {w1, w2}
    NoWorker = NoWorker
    Deps <- ClaimDeps
    Rank <- ClaimRank
    MaxAttempts = 2
    Lease = 1
    Concurrent = TRUE
    Anonymous = {}
    Mortal = {}
    Forgetful = {}
    Unlogged = {t1}
    ByHand = FALSE
    Owner <- ClaimOwner
    Target <- ClaimTarget
    NoTask = NoTask
CONSTRAINT NotRobbed
PROPERTIES AtomicBoard OutcomesStand
CHECK_DEADLOCK FALSE
