------------------------------ MODULE Semaphore ------------------------------
(***************************************************************************)
(* What osa_sem.c promises: a counter that saturates, and callers of whom  *)
(* one goes on for every unit taken.                                       *)
(***************************************************************************)
EXTENDS Naturals

CONSTANTS Callers, Limits

VARIABLES
    open,       \* whether the semaphore exists
    units, limit,
    waiting     \* the callers that wait without a time limit

semaphoreVars == <<open, units, limit, waiting>>

SemaphoreInit == ~open /\ units = 0 /\ limit = 1 /\ waiting = {}

Open ==
    /\ ~open /\ open'
    /\ limit' \in Limits /\ units' \in 0 .. limit'
    /\ UNCHANGED waiting

Discard == open /\ waiting = {} /\ ~open' /\ UNCHANGED <<units, limit, waiting>>

\* Only when there is nothing to take.
Join(t) == open /\ units = 0 /\ waiting' = waiting \cup {t} /\ UNCHANGED <<open, units, limit>>

\* A caller may take a unit ahead of those who wait.
Take == open /\ units > 0 /\ units' = units - 1 /\ UNCHANGED <<open, limit, waiting>>

Acquire(t) ==
    /\ open /\ units > 0 /\ t \in waiting
    /\ units' = units - 1
    /\ waiting' = waiting \ {t}
    /\ UNCHANGED <<open, limit>>

Release == open /\ units < limit /\ units' = units + 1 /\ UNCHANGED <<open, limit, waiting>>

SemaphoreNext ==
    \/ Open \/ Discard \/ Take \/ Release
    \/ \E t \in Callers : Join(t) \/ Acquire(t)

\* While there is a unit and somebody waits, somebody goes on.
SemaphoreSpec ==
    /\ SemaphoreInit /\ [][SemaphoreNext]_semaphoreVars
    /\ WF_semaphoreVars(\E t \in Callers : Acquire(t))
=============================================================================
