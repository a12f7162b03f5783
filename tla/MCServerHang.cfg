CONSTANTS
    Scenarios <- OneBuffer
    MayFail = FALSE
SPECIFICATION Spec
PROPERTY DestroyReturns
CHECK_DEADLOCK FALSE
