--------------------------- MODULE OsaEventProofs ---------------------------
(***************************************************************************)
(* What OsaEvent guarantees for any number of threads and flags.           *)
(***************************************************************************)
EXTENDS OsaEvent, TLAPS

\* A thread inside the module makes one of the calls it makes.
Asked == \A t \in Threads : Inside(t) => call[t] \in askable[t]

LEMMA InitType == EventInit => EventTypeOK /\ Asked
<1> SUFFICES ASSUME EventInit
             PROVE  EventTypeOK /\ Asked
  OBVIOUS
<1>1. ret \in [status : {OSA_SOK, OSA_EFAIL}, wrote : SUBSET SUBSET Flags]
  BY DEF EventInit
<1>2. \A t \in Threads : ~Inside(t)
  BY DEF EventInit, Inside
<1> QED
  BY <1>1, <1>2, EventAssumption DEF EventInit, EventTypeOK, Asked

LEMMA StepType == EventTypeOK /\ Asked /\ [EventNext]_eventVars => EventTypeOK' /\ Asked'
<1> SUFFICES ASSUME EventTypeOK, Asked, [EventNext]_eventVars
             PROVE  EventTypeOK' /\ Asked'
  OBVIOUS
<1> USE EventAssumption
<1>1. CASE Create
  BY <1>1 DEF Create, EventTypeOK, Asked, Inside
<1>2. CASE Delete
  BY <1>2 DEF Delete, EventTypeOK, Asked, Inside
<1>3. ASSUME NEW mask \in SUBSET Flags, NEW and \in BOOLEAN, Set(mask, and)
      PROVE  EventTypeOK' /\ Asked'
  <2>1. condition' \subseteq condition
    BY <1>3 DEF Set, Signal
  <2>2. eFlags' \subseteq Flags
    BY <1>3 DEF Set, EventTypeOK
  <2> QED
    BY <1>3, <2>1, <2>2 DEF Set, EventTypeOK, Asked, Inside
<1>4. ASSUME NEW t \in Threads, NEW c \in askable[t], Call(t, c)
      PROVE  EventTypeOK' /\ Asked'
  <2>1. c \in Requests /\ c # NoCall
    BY <1>4 DEF EventTypeOK
  <2> QED
    BY <1>4, <2>1 DEF Call, EventTypeOK, Asked, Inside
<1>5. ASSUME NEW t \in Threads, Retrieve(t) \/ RetrieveLate(t)
      PROVE  EventTypeOK' /\ Asked'
  <2>1. eFlags' \subseteq Flags
    BY <1>5 DEF Retrieve, RetrieveLate, Consume, EventTypeOK
  <2>2. ret' \in [status : {OSA_SOK, OSA_EFAIL}, wrote : SUBSET SUBSET Flags]
    BY <1>5 DEF Retrieve, RetrieveLate, ReturnFrom, EventTypeOK
  <2> QED
    BY <1>5, <2>1, <2>2 DEF Retrieve, RetrieveLate, ReturnFrom, Contending, EventTypeOK,
                            Asked, Inside
<1>6. ASSUME NEW t \in Threads, RetrieveNothing(t)
      PROVE  EventTypeOK' /\ Asked'
  BY <1>6 DEF RetrieveNothing, ReturnFrom, Contending, EventTypeOK, Asked, Inside
<1>7. ASSUME NEW t \in Threads, Wait(t)
      PROVE  EventTypeOK' /\ Asked'
  BY <1>7 DEF Wait, Contending, EventTypeOK, Asked, Inside
<1>8. ASSUME NEW t \in Threads, GiveUp(t)
      PROVE  EventTypeOK' /\ Asked'
  BY <1>8 DEF GiveUp, ReturnFrom, EventTypeOK, Asked, Inside
<1>9. ASSUME NEW t \in Threads, SpuriousWakeup(t)
      PROVE  EventTypeOK' /\ Asked'
  BY <1>9 DEF SpuriousWakeup, EventTypeOK, Asked, Inside
<1>10. ASSUME NEW t \in Threads, TimeOut(t)
       PROVE  EventTypeOK' /\ Asked'
  BY <1>10 DEF TimeOut, EventTypeOK, Asked, Inside
<1>11. CASE UNCHANGED eventVars
  BY <1>11 DEF eventVars, EventTypeOK, Asked, Inside
<1> QED
  BY <1>1, <1>2, <1>3, <1>4, <1>5, <1>6, <1>7, <1>8, <1>9, <1>10, <1>11
     DEF EventNext, Run

\* The types hold whatever the threads ask for (osa_event.c:9-14, 191-321).
THEOREM EventTypes == EventSpec => []EventTypeOK
<1>1. EventInit => EventTypeOK /\ Asked
  BY InitType
<1>2. (EventTypeOK /\ Asked) /\ [EventNext]_eventVars => (EventTypeOK /\ Asked)'
  BY StepType
<1> QED
  BY <1>1, <1>2, PTL DEF EventSpec

-----------------------------------------------------------------------------
\* Threads that ask alike are served alike.
LEMMA AlikeIsolated ==
    ASSUME Alike, EventTypeOK, Asked,
           NEW t \in Threads, NEW u \in Threads, Inside(t), Inside(u)
    PROVE  /\ \A up : Isolated(up, call[t]) <=> Isolated(up, call[u])
           /\ ~Isolated({}, call[t])
           /\ call[t].consume
<1> USE EventAssumption
<1>1. call[t] \in askable[t] /\ call[u] \in askable[u]
  BY DEF Asked
<1>2. /\ call[t].mask = call[u].mask /\ call[t].all = call[u].all
      /\ call[t].mask # {} /\ call[t].consume
  BY <1>1 DEF Alike
<1> QED
  BY <1>2 DEF Isolated

\* How an event object is used does not change.
LEMMA SameProfile == [EventNext]_eventVars => askable' = askable
BY DEF EventNext, Create, Delete, Set, Call, Run, Retrieve, RetrieveLate, RetrieveNothing, Wait, GiveUp,
       SpuriousWakeup, TimeOut, eventVars

LEMMA StepNoEventMissed ==
    ASSUME EventTypeOK, Asked, NoEventMissed, [EventNext]_eventVars
    PROVE  NoEventMissed'
<1> SUFFICES ASSUME Alike', NEW s \in Threads, Ready(s)'
             PROVE  (\E u \in Threads : Contending(u))'
  BY DEF NoEventMissed
<1>11. Alike
  BY SameProfile DEF Alike
<1>0. s \in condition' /\ Isolated(eFlags', call'[s])
  BY DEF Ready
<1>1. CASE Create
  \* Nobody is inside a queue of flags that is not there yet or is cleared.
  <2>1. s \in condition /\ Inside(s) /\ call' = call /\ eFlags' = {}
    BY <1>0, <1>1 DEF Create, EventTypeOK
  <2>2. ~Isolated({}, call[s])
    BY <2>1, AlikeIsolated, <1>11
  <2> QED
    BY <1>0, <2>1, <2>2
<1>2. CASE Delete
  <2>1. s \in condition /\ Inside(s)
    BY <1>0, <1>2 DEF Delete, EventTypeOK
  <2> QED
    BY <1>2, <2>1 DEF Delete
<1>3. ASSUME NEW mask \in SUBSET Flags, NEW and \in BOOLEAN, Set(mask, and)
      PROVE  (\E u \in Threads : Contending(u))'
  <2>1. PICK t \in condition : condition' = condition \ {t}
    BY <1>0, <1>3 DEF Set, Signal
  <2>2. t \in Threads /\ t \notin expired /\ Inside(t)
    BY <2>1 DEF EventTypeOK
  <2>3. Contending(t)'
    BY <1>3, <2>1, <2>2 DEF Set, Contending, Inside
  <2> QED
    BY <2>2, <2>3
<1>4. ASSUME NEW t \in Threads, NEW c \in askable[t], Call(t, c)
      PROVE  (\E u \in Threads : Contending(u))'
  <2>1. ~Inside(t) /\ c # NoCall /\ call'[t] = c
    BY <1>4, EventAssumption DEF Call, EventTypeOK
  <2>2. t \notin condition \cup expired
    BY <2>1 DEF EventTypeOK
  <2>3. Contending(t)'
    BY <1>4, <2>1, <2>2 DEF Call, Contending, Inside
  <2> QED
    BY <2>3
<1>5. ASSUME NEW t \in Threads, Retrieve(t) \/ RetrieveLate(t)
      PROVE  (\E u \in Threads : Contending(u))'
  \* The flags are consumed: nobody can be ready.
  <2>1. Inside(t) /\ call[t].consume
    BY <1>5, AlikeIsolated, <1>11 DEF Retrieve, RetrieveLate, Contending
  <2>2. eFlags' = {} /\ s \in condition /\ s # t /\ call'[s] = call[s]
    BY <1>0, <1>5, <2>1 DEF Retrieve, RetrieveLate, Consume, ReturnFrom, Contending, EventTypeOK
  <2>3. Inside(s)
    BY <2>2 DEF EventTypeOK
  <2> QED
    BY <1>0, <2>2, <2>3, AlikeIsolated, <1>11
<1>6. ASSUME NEW t \in Threads, ~Isolated(eFlags, call[t]), Contending(t),
             eFlags' = eFlags, condition' \subseteq condition \cup {t},
             \A u \in Threads \ {t} : call'[u] = call[u],
             call'[t] \in {call[t], NoCall}, s # t \/ call'[t] # NoCall
      PROVE  FALSE
  \* The thread that ran did not find its event, so no other is ready.
  <2>1. Inside(t) /\ Inside(s) /\ call'[s] = call[s]
    BY <1>0, <1>6 DEF Contending, EventTypeOK, Inside
  <2> QED
    BY <1>0, <1>6, <2>1, AlikeIsolated, <1>11
<1>7. ASSUME NEW t \in Threads, RetrieveNothing(t)
      PROVE  (\E u \in Threads : Contending(u))'
  <2>1. s # t
    BY <1>0, <1>7 DEF RetrieveNothing, Contending
  <2> QED
    BY <1>6, <1>7, <2>1 DEF RetrieveNothing, ReturnFrom, EventTypeOK
<1>8. ASSUME NEW t \in Threads, Wait(t)
      PROVE  (\E u \in Threads : Contending(u))'
  BY <1>6, <1>8 DEF Wait, Contending, Inside
<1>9. ASSUME NEW t \in Threads,
             GiveUp(t) \/ SpuriousWakeup(t) \/ TimeOut(t) \/ UNCHANGED eventVars
      PROVE  (\E u \in Threads : Contending(u))'
  \* Whoever was awake stays awake; who gave up was not contending.
  <2>1. s \in condition /\ eFlags' = eFlags /\ call'[s] = call[s]
    BY <1>0, <1>9 DEF GiveUp, ReturnFrom, SpuriousWakeup, TimeOut, eventVars, EventTypeOK
  <2>2. Ready(s)
    BY <1>0, <2>1 DEF Ready
  <2>3. PICK u \in Threads : Contending(u)
    BY <2>2, <1>11 DEF NoEventMissed
  <2>4. Contending(u)'
    BY <1>9, <2>3 DEF Contending, Inside, GiveUp, ReturnFrom, SpuriousWakeup, TimeOut,
                      eventVars, EventTypeOK
  <2> QED
    BY <2>4
<1>10. Threads # {}
  OBVIOUS
<1> QED
  BY <1>1, <1>2, <1>3, <1>4, <1>5, <1>7, <1>8, <1>9, <1>10 DEF EventNext, Run

\* When all who use an event object ask for the same flags and consume them, one
\* signal for each OSA_EventSet is enough: while the event is there somebody is
\* on its way to it (osa_event.c:145).
THEOREM AlikeWaitersAreWoken == EventSpec => []NoEventMissed
<1>1. EventInit => EventTypeOK /\ Asked /\ NoEventMissed
  BY InitType DEF EventInit, NoEventMissed, Ready
<1>2. (EventTypeOK /\ Asked /\ NoEventMissed) /\ [EventNext]_eventVars
        => (EventTypeOK /\ Asked /\ NoEventMissed)'
  BY StepType, StepNoEventMissed
<1> QED
  BY <1>1, <1>2, PTL DEF EventSpec
-----------------------------------------------------------------------------
\* A retrieval returns in one of four ways.
LEMMA WaysOut ==
    ASSUME EventTypeOK, [EventNext]_eventVars, NEW t \in Threads, Leaves(t)
    PROVE  Retrieve(t) \/ RetrieveLate(t) \/ RetrieveNothing(t) \/ GiveUp(t)
<1>1. call[t] # NoCall /\ call'[t] = NoCall
  BY DEF Leaves, Inside
<1>2. ASSUME NEW u \in Threads, u # t,
             Retrieve(u) \/ RetrieveLate(u) \/ RetrieveNothing(u) \/ GiveUp(u)
      PROVE  FALSE
  <2>1. call' = [call EXCEPT ![u] = NoCall]
    BY <1>2 DEF Retrieve, RetrieveLate, RetrieveNothing, GiveUp, ReturnFrom
  <2> QED
    BY <1>1, <1>2, <2>1 DEF EventTypeOK
<1>3. ASSUME NEW u \in Threads, NEW c \in askable[u], Call(u, c)
      PROVE  FALSE
  <2>1. c # NoCall
    BY EventAssumption DEF EventTypeOK
  <2>2. call' = [call EXCEPT ![u] = c]
    BY <1>3 DEF Call
  <2> QED
    BY <1>1, <2>1, <2>2 DEF EventTypeOK
<1>4. call' # call
  BY <1>1
<1>5. ~ \E u \in Threads : Wait(u) \/ SpuriousWakeup(u) \/ TimeOut(u)
  BY <1>4 DEF Wait, SpuriousWakeup, TimeOut
<1>6. ~ (Create \/ Delete \/ \E mask \in SUBSET Flags, and \in BOOLEAN : Set(mask, and))
  BY <1>4, Zenon DEF Create, Delete, Set
<1>7. ~ UNCHANGED eventVars
  BY <1>4, Zenon DEF eventVars
<1> QED
  BY <1>2, <1>3, <1>5, <1>6, <1>7, Zenon DEF EventNext, Run

\* The flags that are up, among them those it asked for, are what a retrieval whose
\* event is there has to report.
LEMMA IsolatedMet ==
    ASSUME NEW up, NEW c, Isolated(up, c)
    PROVE  Met(c, up)
  BY DEF Isolated, Met

\* Every retrieval that succeeds reports what it asked for, or nothing if it need not
\* wait for ever, whatever the others do meanwhile; those that fail have waited with a
\* timeout (osa_event.c:229-302).
THEOREM RetrievalsTellTruth == EventSpec => ToldWhatWasAsked
<1>1. ASSUME EventTypeOK, [EventNext]_eventVars, NEW t \in Threads, Leaves(t)
      PROVE  \/ ret'.status = OSA_EFAIL /\ Late(t)
             \/ /\ ret'.status = OSA_SOK
                /\ \E told \in ret'.wrote :
                      \/ Met(call[t], told)
                      \/ told = {} /\ call[t].timeout # "SUSPEND"
  <2>1. CASE Retrieve(t)
    <3>1. ret'.status = OSA_SOK /\ ret'.wrote = {eFlags}
      BY <2>1 DEF Retrieve, ReturnFrom
    <3>2. Met(call[t], eFlags)
      BY <2>1, IsolatedMet DEF Retrieve
    <3> QED
      BY <3>1, <3>2
  <2>2. CASE RetrieveLate(t)
    BY <2>2 DEF RetrieveLate, ReturnFrom
  <2>3. CASE RetrieveNothing(t)
    <3>1. ret'.status = OSA_SOK /\ ret'.wrote = {{}} /\ call[t].timeout = "NO_SUSPEND"
      BY <2>3 DEF RetrieveNothing, ReturnFrom
    <3> QED
      BY <3>1
  <2>4. CASE GiveUp(t)
    <3>1. ret'.status = OSA_SOK /\ ret'.wrote = {{}}
      BY <2>4 DEF GiveUp, ReturnFrom
    <3>2. call[t].timeout = "TIMED"
      BY <1>1, <2>4 DEF GiveUp, EventTypeOK
    <3> QED
      BY <3>1, <3>2
  <2> QED
    BY <1>1, <2>1, <2>2, <2>3, <2>4, WaysOut
<1>2. EventTypeOK /\ [EventNext]_eventVars
        => [\A t \in Threads : Leaves(t) =>
               \/ ret'.status = OSA_EFAIL /\ Late(t)
               \/ /\ ret'.status = OSA_SOK
                  /\ \E told \in ret'.wrote :
                        \/ Met(call[t], told)
                        \/ told = {} /\ call[t].timeout # "SUSPEND"]_eventVars
  BY <1>1
<1> QED
  BY <1>2, EventTypes, PTL DEF EventSpec, ToldWhatWasAsked

\* A retrieval that succeeds takes down no flag without reporting it, also when it times
\* out while the flag goes up (osa_event.c:285-290, 308-310).
THEOREM NoFlagVanishes == EventSpec => TakenIsTold
<1>1. ASSUME EventTypeOK, [EventNext]_eventVars, NEW t \in Threads, Leaves(t),
             ret'.status = OSA_SOK
      PROVE  eFlags \ eFlags' \subseteq UNION ret'.wrote
  <2>1. CASE Retrieve(t)
    <3>1. ret'.wrote = {eFlags}
      BY <2>1 DEF Retrieve, ReturnFrom
    <3> QED
      BY <3>1
  <2>2. CASE RetrieveLate(t)
    <3>1. ret'.status = OSA_EFAIL
      BY <2>2 DEF RetrieveLate, ReturnFrom
    <3> QED
      BY <1>1, <3>1 DEF OSA_SOK, OSA_EFAIL
  <2>3. CASE RetrieveNothing(t)
    BY <2>3 DEF RetrieveNothing
  <2>4. CASE GiveUp(t)
    BY <2>4 DEF GiveUp
  <2> QED
    BY <1>1, <2>1, <2>2, <2>3, <2>4, WaysOut
<1>2. EventTypeOK /\ [EventNext]_eventVars
        => [\A t \in Threads : Leaves(t) /\ ret'.status = OSA_SOK
                               => eFlags \ eFlags' \subseteq UNION ret'.wrote]_eventVars
  BY <1>1
<1> QED
  BY <1>2, EventTypes, PTL DEF EventSpec, TakenIsTold
=============================================================================
