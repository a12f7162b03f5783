CONSTANTS
    Scenarios <- Mixed
    MayFail = TRUE
SPECIFICATION Spec
INVARIANTS ListCoherent HandleOutlives BuffersApart BlocksLive OwnSocket
PROPERTIES FramesInOrder FailedIsReaped MsgDestroyReturns
CHECK_DEADLOCK FALSE
