------------------------------- MODULE OsaSem -------------------------------
(***************************************************************************)
(* The counting semaphore of osa_sem.c.  Each action is what a thread does *)
(* while it holds the semaphore's mutex, up to pthread_cond_wait, which    *)
(* releases it, or the return.                                             *)
(***************************************************************************)
EXTENDS Naturals, FiniteSets

CONSTANTS
    SemThreads,
    MaxCounts,      \* the arguments of OSA_semCreate
    InitVals

ASSUME SemAssumption ==
    /\ IsFiniteSet(SemThreads)
    /\ MaxCounts \subseteq Nat /\ InitVals \subseteq Nat

VARIABLES
    semLive,        \* created and not deleted
    count, maxCount,
    asleep,         \* the threads in pthread_cond_wait
    awake           \* those that have been woken and want the mutex again

semVars == <<semLive, count, maxCount, asleep, awake>>

SemInit ==
    /\ semLive = FALSE
    /\ count = 0 /\ maxCount = 1
    /\ asleep = {} /\ awake = {}

Waiters == asleep \cup awake

\* OSA_semCreate: a maximum of 0 becomes 1, and the value is cut to the maximum.
SemCreate ==
    /\ ~semLive
    /\ semLive' = TRUE
    /\ \E m \in MaxCounts, v \in InitVals :
          /\ maxCount' = IF m = 0 THEN 1 ELSE m
          /\ count' = IF v > maxCount' THEN maxCount' ELSE v
    /\ UNCHANGED <<asleep, awake>>

\* OSA_semDelete, when its users are done.
SemDelete ==
    /\ semLive /\ Waiters = {}
    /\ semLive' = FALSE
    /\ UNCHANGED <<count, maxCount, asleep, awake>>

\* OSA_semWait with a count; the timeout does not matter.
SemTake(t) ==
    /\ semLive /\ t \notin Waiters
    /\ count > 0
    /\ count' = count - 1
    /\ UNCHANGED <<semLive, maxCount, asleep, awake>>

\* OSA_semWait without one: OSA_TIMEOUT_NONE returns, any other timeout waits for
\* ever.
SemWait(t) ==
    /\ semLive /\ t \notin Waiters
    /\ count = 0
    /\ asleep' = asleep \cup {t}
    /\ UNCHANGED <<semLive, count, maxCount, awake>>

\* pthread_cond_wait may return without a signal.
SemWake(t) ==
    /\ t \in asleep
    /\ asleep' = asleep \ {t}
    /\ awake' = awake \cup {t}
    /\ UNCHANGED <<semLive, count, maxCount>>

\* Mutant: a thread that has been woken does not look at the count again.
SemRetryUnchecked(t) ==
    /\ t \in awake
    /\ awake' = awake \ {t}
    /\ count' = IF count > 0 THEN count - 1 ELSE 0
    /\ UNCHANGED <<semLive, maxCount, asleep>>

SemRetry(t) ==
    /\ t \in awake
    /\ awake' = awake \ {t}
    /\ IF count > 0 THEN count' = count - 1 /\ UNCHANGED asleep
       ELSE asleep' = asleep \cup {t} /\ UNCHANGED count
    /\ UNCHANGED <<semLive, maxCount>>

\* pthread_cond_signal
WakeOne ==
    IF asleep = {} THEN UNCHANGED <<asleep, awake>>
    ELSE \E t \in asleep : asleep' = asleep \ {t} /\ awake' = awake \cup {t}

\* Mutant: only the signal that finds no count wakes a thread.
SemSignalFirst ==
    /\ semLive /\ count < maxCount
    /\ count' = count + 1
    /\ IF count = 0 THEN WakeOne ELSE UNCHANGED <<asleep, awake>>
    /\ UNCHANGED <<semLive, maxCount>>

\* OSA_semSignal; at the maximum it does nothing.
SemSignal ==
    /\ semLive /\ count < maxCount
    /\ count' = count + 1
    /\ WakeOne
    /\ UNCHANGED <<semLive, maxCount>>

SemNext ==
    \/ SemCreate \/ SemDelete \/ SemSignal
    \/ \E t \in SemThreads : SemTake(t) \/ SemWait(t) \/ SemWake(t) \/ SemRetry(t)

\* A thread that has been woken gets the mutex in the end.
SemFairness == \A t \in SemThreads : WF_semVars(SemRetry(t))

SemSpec == SemInit /\ [][SemNext]_semVars /\ SemFairness

-----------------------------------------------------------------------------
SemTypeOK ==
    /\ semLive \in BOOLEAN
    /\ maxCount \in Nat \ {0} /\ count \in 0 .. maxCount
    /\ asleep \subseteq SemThreads /\ awake \subseteq SemThreads
    /\ asleep \cap awake = {}
    /\ Waiters # {} => semLive

\* No wakeup is lost: nobody sleeps while there is a count that no thread which
\* has been woken is on its way to take, however signals, spurious wakeups and
\* callers that get in first interleave (osa_sem.c:42-55, 66-69).
NoLostWakeup ==
    /\ SemTypeOK
    /\ asleep # {} => count <= Cardinality(awake)

Counter == INSTANCE Semaphore WITH
    Callers <- SemThreads, Limits <- Nat \ {0},
    open <- semLive, units <- count, limit <- maxCount, waiting <- Waiters

\* The mutex and the condition make a counting semaphore: it saturates, it gives
\* each unit to one caller, and somebody goes on while there is a unit
\* (osa_sem.c:24-28, 42-69).
SemImplements == Counter!SemaphoreSpec
=============================================================================
