SPECIFICATION Spec
CONSTANTS
    VendorCodes = {0, 2}
    MaxMessages = 2
INVARIANT FinalMessageKept
CHECK_DEADLOCK FALSE
