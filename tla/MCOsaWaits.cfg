\* Three threads at a semaphore of up to two, and three that wait for event flags,
\* all alike or each in its own way.
CONSTANTS
    SemThreads = {t1, t2, t3}
    MaxCounts = {0, 1, 2}
    InitVals = {0, 3}
    t1 = t1
    t2 = t2
    t3 = t3
    a = a
    b = b
    w = w
    NoCall = NoCall
    Threads = {t1, t2, t3}
    Flags = {a, b, w}
    Wide = {w}
    Profiles <- Mixed
SPECIFICATION Spec
INVARIANTS NoLostWakeup EventTypeOK NoEventMissed
PROPERTIES SemImplements AlikeWake ToldWhatWasAsked TakenIsTold
