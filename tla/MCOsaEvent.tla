---- MODULE MCOsaEvent ----
EXTENDS OsaEvent, TLC

CONSTANTS t1, t2, t3, a, b, w

Ask(mask, all, consume, timeouts) ==
    [mask : {mask}, all : {all}, consume : {consume}, timeout : timeouts]

\* Everybody asks for the same flags and consumes them.
SameAll == [t \in Threads |-> Ask({a, b}, TRUE, TRUE, Suspensions)]

\* One waits for any of two flags, one for both, one polls for a usable flag and
\* one above bit 31, without consuming.
Various ==
    t1 :> Ask({a, b}, FALSE, TRUE, {"TIMED", "SUSPEND"})
      @@ t2 :> Ask({a, b}, TRUE, TRUE, {"TIMED"})
      @@ t3 :> Ask({b, w}, FALSE, FALSE, {"NO_SUSPEND"})

\* Two threads wait, each for a flag of its own.
OneEach ==
    t1 :> Ask({a}, FALSE, TRUE, {"SUSPEND"})
      @@ t2 :> Ask({b}, FALSE, TRUE, {"SUSPEND"})

\* Two threads wait for the same flag, each for some time only.
ForSomeTime == [t \in Threads |-> Ask({a}, FALSE, TRUE, {"TIMED"})]

Mixed == {SameAll, Various}
Apart == {OneEach}
Timed == {ForSomeTime}
====
