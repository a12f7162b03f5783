------------------------------ MODULE OsaEvent ------------------------------
(***************************************************************************)
(* osa/src/osa_event.c: a word of event flags under one mutex and one      *)
(* condition variable.  Each call of OSA_EventSet signals one sleeper,     *)
(* whatever that sleeper is waiting for.                                   *)
(*                                                                         *)
(* One action is one stretch of a thread's run under the mutex.            *)
(* OSA_EventSet is one stretch; OSA_EventRetrieve is one stretch for the   *)
(* first look and one more for every return of the wait.                   *)
(***************************************************************************)
EXTENDS Integers, FiniteSets

CONSTANTS
    Threads,    \* the threads that retrieve
    Flags,      \* the bits of an unsigned long that are in use
    Wide,       \* those of them an unsigned cannot hold (LP64: bits 32 .. 63)
    Profiles,   \* the ways an event object is used: the retrievals of each thread
    NoCall      \* the thread is outside the module

Suspensions == {"NO_SUSPEND", "SUSPEND", "TIMED"}

Requests ==
    [mask : SUBSET Flags, all : BOOLEAN, consume : BOOLEAN, timeout : Suspensions]

ASSUME EventAssumption ==
    /\ Wide \subseteq Flags
    /\ IsFiniteSet(Threads)
    /\ Profiles \subseteq [Threads -> SUBSET Requests]
    /\ NoCall \notin Requests

VARIABLES
    askable,    \* the retrievals each thread makes
    created,    \* OSA_EventCreate succeeded, OSA_EventDelete was not called
    eFlags,     \* the flags that are up
    call,       \* what each thread is retrieving
    condition,  \* the threads asleep on the condition variable
    expired,    \* those whose timed wait has ended, back for the mutex
    waited,     \* the threads whose call has been asleep
    ret         \* of the last retrieval to return: its status, and what it wrote
                \* to *pRetrievedEvents, if it wrote

eventVars == <<askable, created, eFlags, call, condition, expired, waited, ret>>

OSA_SOK   == 0
OSA_EFAIL == -1

Inside(t) == call[t] # NoCall

Contending(t) == Inside(t) /\ t \notin condition \cup expired

\* isolatedFlags: eFlags & uRequestedEvents cut to an unsigned; for the AND
\* operations whether that equals uRequestedEvents.
Isolated(up, c) ==
    LET cut == (up \cap c.mask) \ Wide
    IN  IF c.all THEN cut = c.mask ELSE cut # {}

EventInit ==
    /\ askable \in Profiles
    /\ created = FALSE
    /\ eFlags = {}
    /\ call = [t \in Threads |-> NoCall]
    /\ condition = {}
    /\ expired = {}
    /\ waited = {}
    /\ ret = [status |-> OSA_SOK, wrote |-> {}]

Create ==
    /\ ~created
    /\ created' \in BOOLEAN
    /\ eFlags' = {}
    /\ UNCHANGED <<askable, call, condition, expired, waited, ret>>

\* As with the queue, it is the caller who sees to it that nobody is inside.
Delete ==
    /\ created
    /\ \A t \in Threads : ~Inside(t)
    /\ created' = FALSE
    /\ UNCHANGED <<askable, eFlags, call, condition, expired, waited, ret>>

\* Mutant: the signal is left out.
SignalNobody == UNCHANGED condition

\* pthread_cond_signal: one sleeper, if there is one, goes back for the mutex.
Signal ==
    IF condition = {}
      THEN UNCHANGED condition
      ELSE \E t \in condition : condition' = condition \ {t}

\* OSA_EVENT_AND and OSA_EVENT_OR; the CONSUME operations change nothing.
Set(mask, and) ==
    /\ created
    /\ eFlags' = IF and THEN eFlags \cap mask ELSE eFlags \cup mask
    /\ Signal
    /\ UNCHANGED <<askable, created, call, expired, waited, ret>>

Call(t, c) ==
    /\ created
    /\ ~Inside(t)
    /\ call' = [call EXCEPT ![t] = c]
    /\ UNCHANGED <<askable, created, eFlags, condition, expired, waited, ret>>

ReturnFrom(t, status, wrote) ==
    /\ call' = [call EXCEPT ![t] = NoCall]
    /\ waited' = waited \ {t}
    /\ ret' = [status |-> status, wrote |-> wrote]

\* Consuming clears all the flags.
Consume(t) == eFlags' = IF call[t].consume THEN {} ELSE eFlags

\* The timed wait's loop was left with the event there.
Late(t) == call[t].timeout = "TIMED" /\ t \in waited

\* All the flags that are up are reported,
Retrieve(t) ==
    /\ Contending(t)
    /\ Isolated(eFlags, call[t]) /\ ~Late(t)
    /\ ReturnFrom(t, OSA_SOK, {eFlags})
    /\ Consume(t)
    /\ UNCHANGED <<askable, created, condition, expired>>

\* except after that loop, which neither sets the status nor reports anything.
RetrieveLate(t) ==
    /\ Contending(t)
    /\ Isolated(eFlags, call[t]) /\ Late(t)
    /\ ReturnFrom(t, OSA_EFAIL, {})
    /\ Consume(t)
    /\ UNCHANGED <<askable, created, condition, expired>>

RetrieveNothing(t) ==
    /\ Contending(t)
    /\ ~Isolated(eFlags, call[t])
    /\ call[t].timeout = "NO_SUSPEND"
    /\ ReturnFrom(t, OSA_SOK, {{}})
    /\ UNCHANGED <<askable, created, eFlags, condition, expired>>

\* Mutant: an if where the code has a while, so a wakeup is taken for the event.
WaitOnce(t) ==
    /\ Contending(t)
    /\ ~Isolated(eFlags, call[t])
    /\ call[t].timeout # "NO_SUSPEND"
    /\ \/ /\ condition' = condition \cup {t} /\ waited' = waited \cup {t}
          /\ UNCHANGED <<call, ret>>
       \/ ReturnFrom(t, OSA_SOK, {eFlags}) /\ UNCHANGED condition
    /\ UNCHANGED <<askable, created, eFlags, expired>>

\* Mutant: OSA_NO_SUSPEND is not looked at before waiting.
WaitAnyhow(t) ==
    /\ Contending(t)
    /\ ~Isolated(eFlags, call[t])
    /\ condition' = condition \cup {t}
    /\ waited' = waited \cup {t}
    /\ UNCHANGED <<askable, created, eFlags, call, expired, ret>>

Wait(t) ==
    /\ Contending(t)
    /\ ~Isolated(eFlags, call[t])
    /\ call[t].timeout # "NO_SUSPEND"
    /\ condition' = condition \cup {t}
    /\ waited' = waited \cup {t}
    /\ UNCHANGED <<askable, created, eFlags, call, expired, ret>>

SpuriousWakeup(t) ==
    /\ t \in condition
    /\ condition' = condition \ {t}
    /\ UNCHANGED <<askable, created, eFlags, call, expired, waited, ret>>

\* ETIMEDOUT: the thread still has to get the mutex back.  Assumed of the
\* implementation: a signal that comes while the wait expires wakes a thread that
\* is still asleep, and is not used up by the one whose wait has expired.
TimeOut(t) ==
    /\ t \in condition
    /\ call[t].timeout = "TIMED"
    /\ condition' = condition \ {t}
    /\ expired' = expired \cup {t}
    /\ UNCHANGED <<askable, created, eFlags, call, waited, ret>>

\* Mutant: the loop's exit on ETIMEDOUT consumes as the other exits do.
GiveUpConsuming(t) ==
    /\ t \in expired
    /\ expired' = expired \ {t}
    /\ Consume(t)
    /\ ReturnFrom(t, OSA_SOK, {{}})
    /\ UNCHANGED <<askable, created, condition>>

\* The flags are not looked at again: isolatedFlags is still 0.
GiveUp(t) ==
    /\ t \in expired
    /\ expired' = expired \ {t}
    /\ ReturnFrom(t, OSA_SOK, {{}})
    /\ UNCHANGED <<askable, created, eFlags, condition>>

\* What thread t does when it gets the mutex.
Run(t) ==
    Retrieve(t) \/ RetrieveLate(t) \/ RetrieveNothing(t) \/ Wait(t) \/ GiveUp(t)

EventNext ==
    \/ Create
    \/ Delete
    \/ \E mask \in SUBSET Flags, and \in BOOLEAN : Set(mask, and)
    \/ \E t \in Threads :
          \/ \E c \in askable[t] : Call(t, c)
          \/ Run(t)
          \/ SpuriousWakeup(t)
          \/ TimeOut(t)

\* The mutex starves no thread.  Nobody is made to set an event or to ask for
\* one, no sleeper wakes without a signal, and a timed wait may be very long.
EventFairness == \A t \in Threads : WF_eventVars(Run(t))

EventSpec == EventInit /\ [][EventNext]_eventVars /\ EventFairness

-----------------------------------------------------------------------------
\* Every variable has its type; a sleeper's or an expired thread's call can wait.
EventTypeOK ==
    /\ askable \in Profiles
    /\ created \in BOOLEAN
    /\ eFlags \subseteq Flags
    /\ call \in [Threads -> Requests \cup {NoCall}]
    /\ ret \in [status : {OSA_SOK, OSA_EFAIL}, wrote : SUBSET SUBSET Flags]
    /\ condition \subseteq Threads /\ expired \subseteq Threads
    /\ condition \cap expired = {}
    /\ waited \subseteq Threads /\ condition \cup expired \subseteq waited
    /\ \A t \in waited : Inside(t)
    /\ \A t \in condition : Inside(t) /\ call[t].timeout # "NO_SUSPEND"
    /\ \A t \in expired : Inside(t) /\ call[t].timeout = "TIMED"

\* The event a sleeping thread waits for has happened.
Ready(t) == t \in condition /\ Isolated(eFlags, call[t])

\* All retrievals ask for the same flags in the same way, and consume them.
Alike ==
    \A t, u \in Threads : \A c \in askable[t], d \in askable[u] :
        /\ c.mask = d.mask /\ c.all = d.all
        /\ c.mask # {} /\ c.consume

\* When all ask for the same flags, with CONSUME, one signal for each
\* OSA_EventSet is enough: if what they wait for is there, one of them is awake
\* and on its way to it (osa_event.c:145, 250-266).
NoEventMissed ==
    Alike /\ (\E t \in Threads : Ready(t)) => \E t \in Threads : Contending(t)

\* ... and so every sleeper is woken, or the event is taken from it first.
AlikeWake == \A t \in Threads : (Alike /\ Ready(t)) ~> ~Ready(t)

\* A thread asleep for an event that has happened is woken, or the event is
\* taken from it first: "Tasks waiting on this event will wake up"
\* (osa_event.h:74).
SleepersWake == \A t \in Threads : Ready(t) ~> ~Ready(t)

Leaves(t) == Inside(t) /\ call'[t] = NoCall

\* What the documentation of the operations promises of the flags told.
Met(c, told) == IF c.all THEN c.mask \subseteq told ELSE told \cap c.mask # {}

\* Whatever wakes it and however often, a retrieval that succeeds reports what it
\* asked for, or nothing if it need not wait for ever; and the only one that fails
\* is one that has waited with a timeout (osa_event.c:229-302).
ToldWhatWasAsked ==
    [][\A t \in Threads : Leaves(t) =>
          \/ ret'.status = OSA_EFAIL /\ Late(t)
          \/ /\ ret'.status = OSA_SOK
             /\ \E told \in ret'.wrote :
                   \/ Met(call[t], told)
                   \/ told = {} /\ call[t].timeout # "SUSPEND"]_eventVars

\* A retrieval that succeeds takes down only flags it reports, also when it times
\* out while the event arrives (osa_event.c:285-290, 308-310).
TakenIsTold ==
    [][\A t \in Threads : Leaves(t) /\ ret'.status = OSA_SOK
                            => eFlags \ eFlags' \subseteq UNION ret'.wrote]_eventVars

\* A retrieval that takes flags down succeeds and reports them: "Mask of the Event
\* IDs retreived on success" (osa_event.h:98).
FoundIsTold ==
    [][\A t \in Threads : Leaves(t) /\ eFlags' # eFlags
                            => /\ ret'.status = OSA_SOK
                               /\ eFlags \ eFlags' \subseteq UNION ret'.wrote]_eventVars
=============================================================================
