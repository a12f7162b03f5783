CONSTANTS
    Scenarios <- OneBuffer
    MayFail = FALSE
SPECIFICATION Spec
INVARIANT FillAsserted
CHECK_DEADLOCK FALSE
