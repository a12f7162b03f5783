\* Three threads on rings of zero to two slots; no symmetry, because the
\* refinement includes liveness.
CONSTANTS
    t3 = t3
    Threads = {t1, t2, t3}
    Values = {a, b}
    Lens = {0, 1, 2}
    Callable <- Callers
    NoValue = NoValue
    NoCall = NoCall
    NoRet = NoRet
    Uninit = Uninit
SPECIFICATION Spec
INVARIANTS Consistent NoLostWakeup NoStandoff
PROPERTIES FifoSafety FifoSpec
