SPECIFICATION WrapperSpec
CONSTANTS
    VendorCodes = {0, 2}
    MaxMessages = 2
    Senders = {s1, s2}
    Flushers = {f1, f2}
    Closers = {c1, c2}
    MaxLogs = 1
    Capacity = 1
    Nobody = Nobody
INVARIANTS CleanReturn SignalledMeans130 OkIsEarned ClosedMeansWritten FlushedMeansWritten
PROPERTIES EveryCallReturns LogCallsReturn
CHECK_DEADLOCK FALSE
