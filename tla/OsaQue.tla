------------------------------ MODULE OsaQue ------------------------------
(***************************************************************************)
(* osa/src/osa_que.c: a ring of Int32 slots guarded by one mutex, with a   *)
(* condition variable for the threads that wait for an item (condRd) and   *)
(* one for those that wait for room (condWr).                              *)
(*                                                                         *)
(* All shared state is read and written under the mutex, so one action is  *)
(* one stretch of a thread's run from acquiring the lock to giving it up,  *)
(* by unlocking or by pthread_cond_wait.  A thread inside the module that  *)
(* is in neither wait set contends for the lock.                           *)
(***************************************************************************)
EXTENDS OsaQueCalls

CONSTANT Uninit     \* what a slot holds before it is first written

VARIABLES
    queue,          \* the slots, 0 .. len - 1
    curRd, curWr,   \* the next slot to read and to write
    count,          \* the number of items queued
    condRd, condWr  \* the threads asleep on each condition variable

ring == <<queue, curRd, curWr, count>>
vars == <<created, len, call, ret, ring, condRd, condWr>>

ASSUME UninitAssumption == Uninit \notin Values

Slots == 0 .. len - 1

\* Mutants: no wrap; the last slot is never used.
NextSlotShort(slot) == IF slot + 2 >= len THEN 0 ELSE slot + 1

\* (slot + 1) % len
NextSlot(slot) == IF slot + 1 = len THEN 0 ELSE slot + 1

Contending(t) == Inside(t) /\ t \notin condRd \cup condWr

Init ==
    /\ created = FALSE
    /\ len \in Lens
    /\ call = [t \in Threads |-> NoCall]
    /\ ret = [t \in Threads |-> NoRet]
    /\ queue = [s \in Slots |-> Uninit]
    /\ curRd = 0 /\ curWr = 0 /\ count = 0
    /\ condRd = {} /\ condWr = {}

\* Mutant: a queue created again keeps its old counter.
CreateUncleared(maxLen) ==
    /\ ~created
    /\ curRd' = 0 /\ curWr' = 0 /\ count' = IF count < maxLen THEN count ELSE 0
    /\ len' = maxLen
    /\ queue' = [s \in 0 .. maxLen - 1 |-> Uninit]
    /\ created' \in BOOLEAN
    /\ UNCHANGED <<call, ret, condRd, condWr>>

\* The allocation or one of the pthread inits may fail: created stays FALSE.
Create(maxLen) ==
    /\ ~created
    /\ curRd' = 0 /\ curWr' = 0 /\ count' = 0
    /\ len' = maxLen
    /\ queue' = [s \in 0 .. maxLen - 1 |-> Uninit]
    /\ created' \in BOOLEAN
    /\ UNCHANGED <<call, ret, condRd, condWr>>

\* Nothing in the code checks that nobody is inside; its callers see to it
\* (osa_communication.c drains and deletes after the last user is gone).
Delete ==
    /\ created
    /\ \A t \in Threads : ~Inside(t)
    /\ created' = FALSE
    /\ UNCHANGED <<len, call, ret, ring, condRd, condWr>>

Call(t, c) == Invoke(t, c) /\ UNCHANGED <<created, len, ring, condRd, condWr>>

\* Mutant: the signal is left out.
SignalNobody(sleepers) == {sleepers}

\* pthread_cond_signal: one sleeper, if there is one, goes back for the lock.
Signal(sleepers) ==
    IF sleepers = {} THEN {{}} ELSE {sleepers \ {t} : t \in sleepers}

\* Mutant: signal only the put that makes the queue non-empty.
WakeReaderIfWasEmpty == condRd' \in IF count = 0 THEN Signal(condRd) ELSE {condRd}

\* Every put wakes a reader and every get a writer.
WakeReader == condRd' \in Signal(condRd)
WakeWriter == condWr' \in Signal(condWr)

PutItem(t) ==
    /\ Contending(t) /\ Asking(t, "put")
    /\ count < len
    /\ queue' = [queue EXCEPT ![curWr] = call[t].value]
    /\ curWr' = NextSlot(curWr)
    /\ count' = count + 1
    /\ WakeReader
    /\ Return(t, Answer(OSA_SOK))
    /\ UNCHANGED <<created, len, curRd, condWr>>

PutWait(t) ==
    /\ Contending(t) /\ Asking(t, "put")
    /\ ~(count < len)
    /\ call[t].timeout # "NONE"
    /\ condWr' = condWr \cup {t}
    /\ UNCHANGED <<created, len, call, ret, ring, condRd>>

GetItem(t) ==
    /\ Contending(t) /\ Asking(t, "get")
    /\ count > 0
    /\ curRd' = NextSlot(curRd)
    /\ count' = count - 1
    /\ WakeWriter
    /\ Return(t, Deliver(queue[curRd], call[t].keep))
    /\ UNCHANGED <<created, len, queue, curWr, condRd>>

GetWait(t) ==
    /\ Contending(t) /\ Asking(t, "get")
    /\ ~(count > 0)
    /\ call[t].timeout # "NONE"
    /\ condRd' = condRd \cup {t}
    /\ UNCHANGED <<created, len, call, ret, ring, condWr>>

\* The bodies that only look: what the caller is told.
PutFull(t) ==
    /\ Asking(t, "put") /\ ~(count < len) /\ call[t].timeout = "NONE"
    /\ Return(t, Answer(OSA_EFAIL))

GetEmpty(t) ==
    /\ Asking(t, "get") /\ ~(count > 0) /\ call[t].timeout = "NONE"
    /\ Return(t, Answer(OSA_EFAIL))

\* With a NULL pointer OSA_quePeek fails even when there is an item.
Peek(t) ==
    /\ Asking(t, "peek")
    /\ IF count > 0 /\ call[t].keep
         THEN Return(t, Deliver(queue[curRd], TRUE))
         ELSE Return(t, Answer(OSA_EFAIL))

GetQueuedCount(t) == Asking(t, "count") /\ Return(t, Answer(count))

IsEmpty(t) ==
    Asking(t, "isEmpty") /\ Return(t, Answer(IF count = 0 THEN 1 ELSE 0))

Look(t) ==
    /\ Contending(t)
    /\ PutFull(t) \/ GetEmpty(t) \/ Peek(t) \/ GetQueuedCount(t) \/ IsEmpty(t)
    /\ UNCHANGED <<created, len, ring, condRd, condWr>>

\* pthread_cond_wait may return without a signal; both loops test again.
SpuriousWakeup(t) ==
    /\ t \in condRd \cup condWr
    /\ condRd' = condRd \ {t}
    /\ condWr' = condWr \ {t}
    /\ UNCHANGED <<created, len, call, ret, ring>>

\* What thread t does when it gets the lock.
Run(t) == PutItem(t) \/ PutWait(t) \/ GetItem(t) \/ GetWait(t) \/ Look(t)

Next ==
    \/ \E n \in Lens : Create(n)
    \/ Delete
    \/ \E t \in Threads :
          \/ \E c \in Callable[t] : Call(t, c)
          \/ Run(t)
          \/ SpuriousWakeup(t)

\* A thread that contends for the lock gets it: the mutex starves nobody.
\* Nothing makes a thread call, and nothing makes a sleeper wake unsignalled.
Fairness == \A t \in Threads : WF_vars(Run(t))

Spec == Init /\ [][Next]_vars /\ Fairness

-----------------------------------------------------------------------------
\* Every variable has its type; the cursors stay inside the ring.
TypeOK ==
    /\ CallTypeOK
    /\ queue \in [Slots -> Values \cup {Uninit}]
    /\ curRd \in Nat /\ curWr \in Nat /\ (len > 0 => {curRd, curWr} \subseteq Slots)
    /\ count \in 0 .. len
    /\ condRd \subseteq Threads /\ condWr \subseteq Threads

\* The slot i places after curRd.
SlotAt(i) == IF curRd + i < len THEN curRd + i ELSE curRd + i - len

\* The two cursors and the counter, which the code keeps separately, agree,
\* and a slot that counts as occupied has been written (osa_que.c:59-63, 91-100).
RingOK ==
    /\ len > 0 => curWr = SlotAt(count)
    /\ \A i \in 0 .. count - 1 : queue[SlotAt(i)] # Uninit

\* A thread sleeps only on the condition variable of the call it is making, and
\* nobody is inside a queue that is not there.
SleepersOK ==
    /\ \A t \in condRd : Asking(t, "get") /\ call[t].timeout # "NONE"
    /\ \A t \in condWr : Asking(t, "put") /\ call[t].timeout # "NONE"
    /\ \A t \in Threads : Inside(t) => created

\* The ring and the callers together: the type of what a call returns depends
\* on occupied slots having been written (osa_que.c:59-63, 91-100).
Consistent == TypeOK /\ RingOK /\ SleepersOK

Getters == {t \in Threads : Contending(t) /\ Asking(t, "get")}
Putters == {t \in Threads : Contending(t) /\ Asking(t, "put")}

\* One pthread_cond_signal per item is enough although awakened threads can be
\* overtaken: while a thread sleeps for an item, every item queued has a getter
\* of its own on the way to it, and likewise for room (osa_que.c:65, 102).
NoLostWakeup ==
    /\ condRd # {} => count <= Cardinality(Getters)
    /\ condWr # {} => len - count <= Cardinality(Putters)

\* Readers and writers are never all asleep at once: when threads sleep on both
\* condition variables of a queue that can hold something, one is running.
NoStandoff ==
    len > 0 /\ condRd # {} /\ condWr # {} => \E t \in Threads : Contending(t)

\* The contents of the ring, oldest first.
Contents == [i \in 1 .. count |-> queue[SlotAt(i - 1)]]

Fifo == INSTANCE BlockingFifo WITH items <- Contents

\* The ring, the mutex and the two condition variables behave as the bounded
\* FIFO: every call takes effect at one instant, in order ...
FifoSafety == Fifo!FifoSafety
\* ... and what can be served is served: no wakeup is lost for good.
FifoSpec   == Fifo!FifoSpec
=============================================================================
