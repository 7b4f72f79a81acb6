SPECIFICATION FairLockSpec
CONSTANTS
    p1 = p1
    p2 = p2
    p3 = p3
    Procs = {p1, p2, p3}
    Absent = Absent
    NoPid = NoPid
    Nobody = Nobody
    MayCrash = {p1, p2, p3}
    MayStall = {p1, p2}
    MayTimeOut = {p3}
INVARIANTS ExclusiveUnlessRobbed NoOrphanLock
PROPERTIES EveryHookEnds StaleLockIsReclaimed
CHECK_DEADLOCK FALSE
