CONSTANTS
    Threads = {t1, t2}
    Fds = {3, 4}
    Readers = {"server", "client"}
    BodyLen = 1
    Cap = 2
    TryMax = 1
    RetryMax = 1
    MaxMsgs = 2
    MaxConns = 2
SPECIFICATION Spec
INVARIANT InStep
PROPERTIES Carries SendReturns
CHECK_DEADLOCK FALSE
