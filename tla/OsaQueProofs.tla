--------------------------- MODULE OsaQueProofs ---------------------------
(***************************************************************************)
(* Proofs about OsaQue for any finite set of threads, any values and any   *)
(* capacities: the ring is consistent, no wakeup is lost, and every step   *)
(* is a step of the bounded FIFO.                                          *)
(***************************************************************************)
EXTENDS OsaQue, FiniteSetTheorems, SequenceTheorems, TLAPS

-----------------------------------------------------------------------------
\* What a thread is asking has the fields of its operation.
LEMMA CallShape ==
    ASSUME CallTypeOK, NEW t \in Threads, Inside(t)
    PROVE  /\ call[t] \in Calls
           /\ Asking(t, "put") => call[t].value \in Values /\ call[t].timeout \in Timeouts
           /\ Asking(t, "get") => call[t].keep \in BOOLEAN /\ call[t].timeout \in Timeouts
<1>1. call[t] \in Calls
  BY DEF CallTypeOK, Inside
<1>2. call[t] \in Calls => 
           /\ Asking(t, "put") => call[t].value \in Values /\ call[t].timeout \in Timeouts
           /\ Asking(t, "get") => call[t].keep \in BOOLEAN /\ call[t].timeout \in Timeouts
  BY DEF Asking, Calls, PutCalls, GetCalls, PeekCalls, AskCalls
<1>3. QED
  BY <1>1, <1>2

\* Answers are well typed.
LEMMA AnswerType ==
    /\ \A n \in Int : Answer(n) \in Rets
    /\ \A v \in Values, k \in BOOLEAN : Deliver(v, k) \in Rets
  BY DEF Answer, Deliver, Rets, OSA_SOK

\* Returning keeps the callers' variables typed.
LEMMA ReturnType ==
    ASSUME call \in [Threads -> Calls \cup {NoCall}], ret \in [Threads -> Rets \cup {NoRet}],
           NEW t \in Threads, NEW r \in Rets, Return(t, r)
    PROVE  /\ call' \in [Threads -> Calls \cup {NoCall}]
           /\ ret' \in [Threads -> Rets \cup {NoRet}]
           /\ \A u \in Threads : call'[u] = IF u = t THEN NoCall ELSE call[u]
  BY DEF Return

\* Where the oldest item, the newest and the ones between them are.
LEMMA SlotFacts ==
    ASSUME TypeOK, len > 0
    PROVE  /\ curRd \in Slots /\ curWr \in Slots
           /\ NextSlot(curRd) \in Slots /\ NextSlot(curWr) \in Slots
           /\ SlotAt(0) = curRd
           /\ \A i \in 0 .. len - 1 : SlotAt(i) \in Slots
           /\ \A i, j \in 0 .. len - 1 : i # j => SlotAt(i) # SlotAt(j)
<1>1. len \in Nat /\ curRd \in Slots /\ curWr \in Slots
  BY QueAssumption DEF TypeOK, CallTypeOK
<1>2. QED
  BY <1>1 DEF Slots, NextSlot, SlotAt

-----------------------------------------------------------------------------
LEMMA InitConsistent == Init => Consistent
<1> SUFFICES ASSUME Init PROVE Consistent
  OBVIOUS
<1> USE DEF Init
<1>1. len \in Nat
  BY QueAssumption
<1>2. CallTypeOK
  BY DEF CallTypeOK
<1>3. TypeOK
  BY <1>1, <1>2 DEF TypeOK, Slots
<1>4. RingOK
  BY <1>1 DEF RingOK, SlotAt
<1>5. SleepersOK
  BY DEF SleepersOK, Inside
<1>6. QED
  BY <1>3, <1>4, <1>5 DEF Consistent

\* OSA_quePut writes the slot behind the newest item and no other occupied one.
LEMMA PutItemConsistent ==
    ASSUME Consistent, NEW t \in Threads, PutItem(t)
    PROVE  Consistent'
<1> USE DEF Consistent, PutItem, Contending
<1>1. len \in Nat /\ len > 0 /\ count \in Nat /\ count < len /\ count \in 0 .. len - 1
  BY QueAssumption DEF TypeOK, CallTypeOK
<1>2. call[t].value \in Values
  BY CallShape DEF TypeOK
<1>3. curWr = SlotAt(count) /\ curWr \in Slots /\ NextSlot(curWr) \in Slots
  BY <1>1, SlotFacts DEF RingOK
<1>4. CallTypeOK'
  BY AnswerType, ReturnType DEF TypeOK, CallTypeOK, OSA_SOK
<1>5. TypeOK'
  <2>1. queue' \in [Slots -> Values \cup {Uninit}]
    BY <1>2, <1>3 DEF TypeOK
  <2>2. condRd' \subseteq condRd
    BY DEF Signal, WakeReader, WakeWriter
  <2>3. QED
    BY <1>1, <1>3, <1>4, <2>1, <2>2 DEF TypeOK, Slots
<1>6. RingOK'
  <2>1. curWr' = SlotAt(count')
    BY <1>1, <1>3, SlotFacts DEF NextSlot, SlotAt, Slots
  <2>2. ASSUME NEW i \in 0 .. count' - 1 PROVE queue'[SlotAt(i)] # Uninit
    <3>1. i \in 0 .. len - 1 /\ SlotAt(i) \in Slots
      BY <1>1, SlotFacts
    <3>2. CASE i = count
      BY <3>1, <3>2, <1>2, <1>3, UninitAssumption DEF TypeOK
    <3>3. CASE i # count
      <4>1. i \in 0 .. count - 1
        BY <1>1, <3>3
      <4>2. SlotAt(i) # curWr
        BY <1>1, <1>3, <3>1, <3>3, SlotFacts
      <4>3. QED
        BY <4>1, <4>2, <3>1 DEF TypeOK, RingOK
    <3>4. QED
      BY <3>2, <3>3
  <2>3. QED
    BY <2>1, <2>2 DEF RingOK, SlotAt
<1>7. SleepersOK'
  BY <1>4 DEF SleepersOK, Signal, WakeReader, WakeWriter, Return, Asking, Inside, TypeOK, CallTypeOK
<1>8. QED
  BY <1>5, <1>6, <1>7

\* OSA_queGet reads a slot that has been written and gives up no other.
LEMMA GetItemConsistent ==
    ASSUME Consistent, NEW t \in Threads, GetItem(t)
    PROVE  Consistent' /\ queue[curRd] \in Values
<1> USE DEF Consistent, GetItem, Contending
<1>1. len \in Nat /\ len > 0 /\ count \in Nat /\ 0 < count /\ count <= len
  BY QueAssumption DEF TypeOK, CallTypeOK
<1>2. SlotAt(0) = curRd /\ curRd \in Slots /\ NextSlot(curRd) \in Slots
  BY <1>1, SlotFacts
<1>3. queue[curRd] \in Values
  BY <1>1, <1>2 DEF TypeOK, RingOK
<1>4. CallTypeOK'
  <2>1. Deliver(queue[curRd], call[t].keep) \in Rets
    BY <1>3, CallShape, AnswerType DEF TypeOK
  <2>2. QED
    BY <2>1, ReturnType DEF TypeOK, CallTypeOK
<1>5. TypeOK'
  <2>1. condWr' \subseteq condWr
    BY DEF Signal, WakeReader, WakeWriter
  <2>2. QED
    BY <1>1, <1>2, <1>4, <2>1 DEF TypeOK, Slots
<1>6. RingOK'
  <2>1. \A i \in 0 .. len - 1 : SlotAt(i)' = SlotAt(i + 1)
    BY <1>1, <1>2 DEF NextSlot, SlotAt, Slots
  <2>2. \A i \in 0 .. count' - 1 : i \in 0 .. len - 1 /\ i + 1 \in 0 .. count - 1
    BY <1>1
  <2>3. \A i \in 0 .. count' - 1 : queue'[SlotAt(i)'] # Uninit
    BY <2>1, <2>2 DEF RingOK
  <2>4. len' > 0 => curWr' = SlotAt(count)'
    BY <1>1, <1>2 DEF RingOK, NextSlot, SlotAt, Slots
  <2>5. QED
    BY <2>3, <2>4 DEF RingOK, SlotAt
<1>7. SleepersOK'
  BY <1>4 DEF SleepersOK, Signal, WakeReader, WakeWriter, Return, Asking, Inside, TypeOK, CallTypeOK
<1>8. QED
  BY <1>3, <1>5, <1>6, <1>7

\* The bodies that only look tell the caller something typed.
LEMMA LookConsistent ==
    ASSUME Consistent, NEW t \in Threads, Look(t)
    PROVE  Consistent'
<1> USE DEF Consistent, Look, Contending
<1>1. PICK r \in Rets : Return(t, r)
  <2>1. len \in Nat /\ count \in Nat /\ count <= len
    BY QueAssumption DEF TypeOK, CallTypeOK
  <2>2. ASSUME count > 0 PROVE queue[curRd] \in Values
    BY <2>1, <2>2, SlotFacts DEF TypeOK, RingOK
  <2>3. CASE PutFull(t) \/ GetEmpty(t)
    BY <2>3, AnswerType DEF PutFull, GetEmpty, OSA_EFAIL
  <2>4. CASE Peek(t)
    <3>1. CASE count > 0 /\ call[t].keep
      <4>1. Deliver(queue[curRd], TRUE) \in Rets
        BY <2>2, <3>1, AnswerType
      <4>2. QED
        BY <2>4, <3>1, <4>1 DEF Peek
    <3>2. CASE ~(count > 0 /\ call[t].keep)
      <4>1. Answer(OSA_EFAIL) \in Rets
        BY AnswerType DEF OSA_EFAIL
      <4>2. QED
        BY <2>4, <3>2, <4>1 DEF Peek
    <3>3. QED
      BY <3>1, <3>2
  <2>5. CASE GetQueuedCount(t) \/ IsEmpty(t)
    BY <2>1, <2>5, AnswerType DEF GetQueuedCount, IsEmpty
  <2>6. QED
    BY <2>3, <2>4, <2>5
<1>2. CallTypeOK'
  BY <1>1, ReturnType DEF TypeOK, CallTypeOK
<1>3. TypeOK'
  BY <1>2 DEF TypeOK, ring, Slots
<1>4. RingOK'
  BY DEF RingOK, ring, SlotAt
<1>5. SleepersOK'
  BY <1>1, <1>2 DEF SleepersOK, Return, Asking, Inside, TypeOK, CallTypeOK
<1>6. QED
  BY <1>3, <1>4, <1>5

LEMMA NextConsistent == Consistent /\ [Next]_vars => Consistent'
<1> SUFFICES ASSUME Consistent, [Next]_vars PROVE Consistent'
  OBVIOUS
<1> USE DEF Consistent
<1>0. len \in Nat
  BY QueAssumption DEF TypeOK, CallTypeOK
<1>1. ASSUME NEW n \in Lens, Create(n) PROVE Consistent'
  <2> USE <1>1 DEF Create
  <2>1. n \in Nat
    BY QueAssumption
  <2>2. TypeOK'
    BY <2>1 DEF TypeOK, CallTypeOK, Slots
  <2>3. RingOK'
    BY <2>1 DEF RingOK, SlotAt
  <2>4. SleepersOK'
    BY DEF SleepersOK, TypeOK, CallTypeOK, Asking, Inside
  <2>5. QED
    BY <2>2, <2>3, <2>4
<1>2. CASE Delete
  BY <1>2 DEF Delete, ring, TypeOK, CallTypeOK, Slots, RingOK, SlotAt, SleepersOK, Asking, Inside
<1>3. ASSUME NEW t \in Threads, NEW c \in Callable[t], Call(t, c) PROVE Consistent'
  <2> USE <1>3 DEF Call, Invoke
  <2>1. c \in Calls
    BY QueAssumption
  <2>2. TypeOK'
    BY <2>1 DEF TypeOK, CallTypeOK, ring, Slots
  <2>3. RingOK'
    BY DEF RingOK, ring, SlotAt
  <2>4. SleepersOK'
    BY DEF SleepersOK, Asking, Inside, TypeOK, CallTypeOK
  <2>5. QED
    BY <2>2, <2>3, <2>4
<1>4. ASSUME NEW t \in Threads, PutWait(t) \/ GetWait(t) \/ SpuriousWakeup(t) PROVE Consistent'
  <2> USE <1>4 DEF PutWait, GetWait, SpuriousWakeup, Contending
  <2>1. TypeOK'
    BY DEF TypeOK, CallTypeOK, ring, Slots
  <2>2. RingOK'
    BY DEF RingOK, ring, SlotAt
  <2>3. SleepersOK'
    BY DEF SleepersOK, Asking, Inside, TypeOK, CallTypeOK
  <2>4. QED
    BY <2>1, <2>2, <2>3
<1>5. CASE UNCHANGED vars
  BY <1>5 DEF vars, ring, TypeOK, CallTypeOK, Slots, RingOK, SlotAt, SleepersOK, Asking, Inside
<1>6. QED
  BY <1>1, <1>2, <1>3, <1>4, <1>5, PutItemConsistent, GetItemConsistent, LookConsistent DEF Next, Run

\* The state of the queue is well formed in every reachable state: the cursors
\* and the counter of osa_que.c agree, and nothing unwritten is ever handed out.
THEOREM RingConsistency == Spec => []Consistent
  BY InitConsistent, NextConsistent, PTL DEF Spec

-----------------------------------------------------------------------------
\* Adding a thread to a set of threads, or taking one away, counts by one.
LEMMA CountThreads ==
    ASSUME NEW S \in SUBSET Threads, NEW t \in Threads
    PROVE  /\ IsFiniteSet(S) /\ Cardinality(S) \in Nat
           /\ t \notin S => Cardinality(S \cup {t}) = Cardinality(S) + 1
           /\ t \in S => Cardinality(S \ {t}) = Cardinality(S) - 1
<1>1. IsFiniteSet(S)
  BY QueAssumption, FS_Subset
<1>2. QED
  BY <1>1, FS_AddElement, FS_RemoveElement, FS_CardinalityType

\* A set of threads that grows does not count fewer.
LEMMA CountMonotone ==
    ASSUME NEW S \in SUBSET Threads, NEW T \in SUBSET Threads, S \subseteq T
    PROVE  Cardinality(S) <= Cardinality(T)
  BY QueAssumption, FS_Subset

LEMMA InitNoLostWakeup == Init => NoLostWakeup
  BY DEF Init, NoLostWakeup

\* A put takes the thread that makes it from the putters, and an item's worth
\* of room with it; a thread it wakes joins the getters, as the item does.
LEMMA PutItemNoLostWakeup ==
    ASSUME Consistent, NoLostWakeup, NEW t \in Threads, PutItem(t)
    PROVE  NoLostWakeup'
<1> USE DEF Consistent, PutItem
<1>1. len \in Nat /\ count \in Nat /\ count < len
  BY QueAssumption DEF TypeOK, CallTypeOK
<1>2. call' = [call EXCEPT ![t] = NoCall] /\ call \in [Threads -> Calls \cup {NoCall}]
  BY DEF Return, TypeOK, CallTypeOK
<1>3. Getters \in SUBSET Threads /\ Putters \in SUBSET Threads
  BY DEF Getters, Putters
<1>4. Putters' = Putters \ {t} /\ t \in Putters
  <2>1. condRd' \subseteq condRd
    BY DEF Signal, WakeReader, WakeWriter
  <2>2. \A u \in Threads : Asking(u, "put") => u \notin condRd
    BY DEF SleepersOK, Asking
  <2>3. QED
    BY <1>2, <2>1, <2>2 DEF Putters, Contending, Asking, Inside
<1>5. condRd' # {} => count' <= Cardinality(Getters)'
  <2>1. SUFFICES ASSUME condRd' # {} PROVE count' <= Cardinality(Getters')
    OBVIOUS
  <2>2. PICK u \in condRd : condRd' = condRd \ {u}
    BY <2>1 DEF Signal, WakeReader, WakeWriter
  <2>3. Getters' = Getters \cup {u} /\ u \notin Getters /\ u \in Threads
    BY <1>2, <2>2 DEF Getters, Contending, Asking, Inside, SleepersOK, TypeOK
  <2>4. Cardinality(Getters') = Cardinality(Getters) + 1 /\ Cardinality(Getters) \in Nat
    BY <1>3, <2>3, CountThreads
  <2>5. count <= Cardinality(Getters)
    BY <2>2 DEF NoLostWakeup
  <2>6. QED
    BY <1>1, <2>4, <2>5
<1>6. condWr' # {} => len' - count' <= Cardinality(Putters)'
  <2>1. Cardinality(Putters') = Cardinality(Putters) - 1 /\ Cardinality(Putters) \in Nat
    BY <1>3, <1>4, CountThreads
  <2>2. QED
    BY <1>1, <2>1 DEF NoLostWakeup
<1>7. QED
  BY <1>5, <1>6 DEF NoLostWakeup

\* The same, the other way round, for a get.
LEMMA GetItemNoLostWakeup ==
    ASSUME Consistent, NoLostWakeup, NEW t \in Threads, GetItem(t)
    PROVE  NoLostWakeup'
<1> USE DEF Consistent, GetItem
<1>1. len \in Nat /\ count \in Nat /\ 0 < count
  BY QueAssumption DEF TypeOK, CallTypeOK
<1>2. call' = [call EXCEPT ![t] = NoCall] /\ call \in [Threads -> Calls \cup {NoCall}]
  BY DEF Return, TypeOK, CallTypeOK
<1>3. Getters \in SUBSET Threads /\ Putters \in SUBSET Threads
  BY DEF Getters, Putters
<1>4. Getters' = Getters \ {t} /\ t \in Getters
  <2>1. condWr' \subseteq condWr
    BY DEF Signal, WakeReader, WakeWriter
  <2>2. \A u \in Threads : Asking(u, "get") => u \notin condWr
    BY DEF SleepersOK, Asking
  <2>3. QED
    BY <1>2, <2>1, <2>2 DEF Getters, Contending, Asking, Inside
<1>5. condWr' # {} => len' - count' <= Cardinality(Putters)'
  <2>1. SUFFICES ASSUME condWr' # {} PROVE len' - count' <= Cardinality(Putters')
    OBVIOUS
  <2>2. PICK u \in condWr : condWr' = condWr \ {u}
    BY <2>1 DEF Signal, WakeReader, WakeWriter
  <2>3. Putters' = Putters \cup {u} /\ u \notin Putters /\ u \in Threads
    BY <1>2, <2>2 DEF Putters, Contending, Asking, Inside, SleepersOK, TypeOK
  <2>4. Cardinality(Putters') = Cardinality(Putters) + 1 /\ Cardinality(Putters) \in Nat
    BY <1>3, <2>3, CountThreads
  <2>5. len - count <= Cardinality(Putters)
    BY <2>2 DEF NoLostWakeup
  <2>6. QED
    BY <1>1, <2>4, <2>5
<1>6. condRd' # {} => count' <= Cardinality(Getters)'
  <2>1. Cardinality(Getters') = Cardinality(Getters) - 1 /\ Cardinality(Getters) \in Nat
    BY <1>3, <1>4, CountThreads
  <2>2. QED
    BY <1>1, <2>1 DEF NoLostWakeup
<1>7. QED
  BY <1>5, <1>6 DEF NoLostWakeup

\* Going to sleep or being refused happens only when there is nothing left to
\* wait for; the other looks leave the putters and the getters as they are.
LEMMA IdleNoLostWakeup ==
    ASSUME Consistent, NoLostWakeup, NEW t \in Threads,
           PutWait(t) \/ GetWait(t) \/ Look(t)
    PROVE  NoLostWakeup'
<1> USE DEF Consistent
<1>1. len \in Nat /\ count \in Nat /\ count <= len /\ len' = len /\ count' = count
  BY QueAssumption DEF TypeOK, CallTypeOK, PutWait, GetWait, Look, ring
<1>2. call \in [Threads -> Calls \cup {NoCall}]
  BY DEF TypeOK, CallTypeOK
<1>3. /\ Cardinality(Getters) \in Nat /\ Cardinality(Putters) \in Nat
      /\ Cardinality(Getters)' \in Nat /\ Cardinality(Putters)' \in Nat
  <2>1. /\ Getters \in SUBSET Threads /\ Putters \in SUBSET Threads
        /\ Getters' \in SUBSET Threads /\ Putters' \in SUBSET Threads
    BY DEF Getters, Putters
  <2>2. QED
    BY <2>1, CountThreads
<1>4. CASE PutWait(t) \/ (Look(t) /\ Asking(t, "put"))
  <2>1. ~(count < len)
    BY <1>4 DEF PutWait, Look, PutFull, GetEmpty, Peek, GetQueuedCount, IsEmpty, Asking
  <2>2. Getters' = Getters /\ condRd' = condRd
    BY <1>2, <1>4 DEF Getters, Contending, Asking, Inside, PutWait, Look, PutFull,
         GetEmpty, Peek, GetQueuedCount, IsEmpty, Return
  <2>3. QED
    BY <1>1, <1>3, <2>1, <2>2 DEF NoLostWakeup
<1>5. CASE GetWait(t) \/ (Look(t) /\ Asking(t, "get"))
  <2>1. ~(count > 0)
    BY <1>5 DEF GetWait, Look, PutFull, GetEmpty, Peek, GetQueuedCount, IsEmpty, Asking
  <2>2. Putters' = Putters /\ condWr' = condWr
    BY <1>2, <1>5 DEF Putters, Contending, Asking, Inside, GetWait, Look, PutFull,
         GetEmpty, Peek, GetQueuedCount, IsEmpty, Return
  <2>3. QED
    BY <1>1, <1>3, <2>1, <2>2 DEF NoLostWakeup
<1>6. CASE Look(t) /\ ~Asking(t, "put") /\ ~Asking(t, "get")
  <2>1. Getters' = Getters /\ Putters' = Putters
    BY <1>2, <1>6 DEF Getters, Putters, Contending, Asking, Inside, Look, PutFull,
         GetEmpty, Peek, GetQueuedCount, IsEmpty, Return
  <2>2. QED
    BY <1>1, <1>6, <2>1 DEF NoLostWakeup, Look
<1>7. QED
  BY <1>4, <1>5, <1>6

\* A caller that comes in, and a sleeper that wakes by itself, only add to the
\* threads on their way to an item or to room.
LEMMA ArriveNoLostWakeup ==
    ASSUME Consistent, NoLostWakeup, NEW t \in Threads,
           SpuriousWakeup(t) \/ \E c \in Callable[t] : Call(t, c)
    PROVE  NoLostWakeup'
<1> USE DEF Consistent
<1>1. len \in Nat /\ count \in Nat /\ len' = len /\ count' = count
  BY QueAssumption DEF TypeOK, CallTypeOK, SpuriousWakeup, Call, ring
<1>2. /\ Getters \in SUBSET Threads /\ Putters \in SUBSET Threads
      /\ Getters' \in SUBSET Threads /\ Putters' \in SUBSET Threads
  BY DEF Getters, Putters
<1>3. Getters \subseteq Getters' /\ Putters \subseteq Putters'
  BY DEF Getters, Putters, Contending, Asking, Inside, SpuriousWakeup, Call, Invoke,
         TypeOK, CallTypeOK
<1>4. condRd' \subseteq condRd /\ condWr' \subseteq condWr
  BY DEF SpuriousWakeup, Call
<1>5. /\ Cardinality(Getters) <= Cardinality(Getters')
      /\ Cardinality(Putters) <= Cardinality(Putters')
      /\ Cardinality(Getters) \in Nat /\ Cardinality(Putters) \in Nat
      /\ Cardinality(Getters') \in Nat /\ Cardinality(Putters') \in Nat
  BY <1>2, <1>3, CountMonotone, CountThreads
<1>6. QED
  BY <1>1, <1>4, <1>5 DEF NoLostWakeup

LEMMA NextNoLostWakeup == Consistent /\ NoLostWakeup /\ [Next]_vars => NoLostWakeup'
<1> SUFFICES ASSUME Consistent, NoLostWakeup, [Next]_vars PROVE NoLostWakeup'
  OBVIOUS
<1>1. ASSUME NEW n \in Lens, Create(n) PROVE NoLostWakeup'
  BY <1>1 DEF Create, Consistent, SleepersOK, Asking, TypeOK, NoLostWakeup
<1>2. CASE Delete
  BY <1>2 DEF Delete, Consistent, SleepersOK, Asking, TypeOK, NoLostWakeup
<1>3. CASE UNCHANGED vars
  BY <1>3 DEF vars, ring, NoLostWakeup, Getters, Putters, Contending, Asking, Inside
<1>4. QED
  BY <1>1, <1>2, <1>3, PutItemNoLostWakeup, GetItemNoLostWakeup, IdleNoLostWakeup,
     ArriveNoLostWakeup DEF Next, Run

\* No pthread_cond_signal is wasted: while a thread sleeps for an item there is
\* a getter on its way for every item queued, and likewise for room.
THEOREM WakeupsSuffice == Spec => []NoLostWakeup
<1>1. Init => Consistent /\ NoLostWakeup
  BY InitConsistent, InitNoLostWakeup
<1>2. Consistent /\ NoLostWakeup /\ [Next]_vars => (Consistent /\ NoLostWakeup)'
  BY NextConsistent, NextNoLostWakeup
<1>3. QED
  BY <1>1, <1>2, PTL DEF Spec

\* Readers and writers of a queue with at least one slot are never all asleep.
THEOREM NeverAllAsleep == Spec => []NoStandoff
<1>1. Consistent /\ NoLostWakeup => NoStandoff
  <2> SUFFICES ASSUME Consistent, NoLostWakeup, len > 0, condRd # {}, condWr # {},
                      \A t \in Threads : ~Contending(t)
               PROVE  FALSE
    BY DEF NoStandoff
  <2>1. Getters = {} /\ Putters = {}
    BY DEF Getters, Putters
  <2>2. Cardinality(Getters) = 0 /\ Cardinality(Putters) = 0
    BY <2>1, FS_EmptySet
  <2>3. count <= 0 /\ len - count <= 0
    BY <2>2 DEF NoLostWakeup
  <2>4. len \in Nat /\ count \in Nat
    BY QueAssumption DEF Consistent, TypeOK, CallTypeOK
  <2>5. QED
    BY <2>3, <2>4
<1>2. Spec => []Consistent
  BY InitConsistent, NextConsistent, PTL DEF Spec
<1>3. QED
  BY <1>1, <1>2, WakeupsSuffice, PTL

-----------------------------------------------------------------------------
(* Every step of OsaQue is a step of the bounded FIFO of BlockingFifo or   *)
(* leaves it as it is: the ring of osa_que.c hands out what was put in, in *)
(* order, each call at one instant.                                        *)

\* The ring's contents are a sequence of count values, its head at curRd.
LEMMA ContentsShape ==
    ASSUME Consistent
    PROVE  /\ count \in Nat /\ len \in Nat /\ count <= len
           /\ Contents \in Seq(Values) /\ Len(Contents) = count
           /\ \A i \in 1 .. count : Contents[i] = queue[SlotAt(i - 1)]
           /\ Contents = << >> <=> count = 0
           /\ count > 0 => Head(Contents) = queue[curRd]
<1> USE DEF Consistent
<1>1. count \in Nat /\ len \in Nat /\ count <= len
  BY QueAssumption DEF TypeOK, CallTypeOK
<1>2. \A i \in 1 .. count : queue[SlotAt(i - 1)] \in Values
  <2> TAKE i \in 1 .. count
  <2>1. len > 0 /\ i - 1 \in 0 .. len - 1 /\ i - 1 \in 0 .. count - 1
    BY <1>1
  <2>2. SlotAt(i - 1) \in Slots
    BY <2>1, SlotFacts
  <2>3. QED
    BY <2>1, <2>2 DEF TypeOK, RingOK
<1>3. Contents \in Seq(Values) /\ Len(Contents) = count
  BY <1>1, <1>2 DEF Contents
<1>4. \A i \in 1 .. count : Contents[i] = queue[SlotAt(i - 1)]
  BY DEF Contents
<1>5. Contents = << >> <=> count = 0
  BY <1>1, <1>3
<1>6. ASSUME count > 0 PROVE Head(Contents) = queue[curRd]
  <2>1. Head(Contents) = Contents[1]
    BY <1>1, <1>3, <1>5, <1>6
  <2>2. Contents[1] = queue[SlotAt(0)]
    BY <1>1, <1>4, <1>6
  <2>3. QED
    BY <1>1, <1>6, <2>1, <2>2, SlotFacts
<1>7. QED
  BY <1>1, <1>3, <1>4, <1>5, <1>6

\* How the functions 1 .. n -> Values that a put and a get leave relate to the
\* sequence before.
LEMMA AppendShape ==
    ASSUME NEW n \in Nat, NEW s \in Seq(Values), Len(s) = n, NEW v \in Values,
           NEW f, f = [i \in 1 .. n + 1 |-> IF i <= n THEN s[i] ELSE v]
    PROVE  f = Append(s, v)
<1>1. f \in Seq(Values) /\ Len(f) = n + 1
  OBVIOUS
<1>2. /\ Append(s, v) \in Seq(Values) /\ Len(Append(s, v)) = n + 1
      /\ \A i \in 1 .. n + 1 : Append(s, v)[i] = IF i <= n THEN s[i] ELSE v
  BY AppendProperties
<1>3. \A i \in 1 .. Len(f) : f[i] = Append(s, v)[i]
  BY <1>1, <1>2
<1>4. QED
  BY <1>1, <1>2, <1>3, SeqEqual

LEMMA TailShape ==
    ASSUME NEW n \in Nat, n > 0, NEW s \in Seq(Values), Len(s) = n,
           NEW f, f = [i \in 1 .. n - 1 |-> s[i + 1]]
    PROVE  f = Tail(s)
<1>1. f \in Seq(Values) /\ Len(f) = n - 1
  OBVIOUS
<1>2. /\ Tail(s) \in Seq(Values) /\ Len(Tail(s)) = n - 1
      /\ \A i \in 1 .. n - 1 : Tail(s)[i] = s[i + 1]
  BY HeadTailProperties
<1>3. \A i \in 1 .. Len(f) : f[i] = Tail(s)[i]
  BY <1>1, <1>2
<1>4. QED
  BY <1>1, <1>2, <1>3, SeqEqual

\* OSA_quePut appends.
LEMMA PutItemAppends ==
    ASSUME Consistent, NEW t \in Threads, PutItem(t)
    PROVE  Contents' = Append(Contents, call[t].value)
<1> USE DEF PutItem, Contending
<1> DEFINE v == call[t].value
<1>1. v \in Values
  BY CallShape DEF Consistent, TypeOK
<1>2. /\ count \in Nat /\ len \in Nat /\ count < len /\ len > 0
      /\ Contents \in Seq(Values) /\ Len(Contents) = count
      /\ \A i \in 1 .. count : Contents[i] = queue[SlotAt(i - 1)]
  BY ContentsShape
<1>3. Contents' = [i \in 1 .. count + 1 |-> queue'[SlotAt(i - 1)]]
  BY DEF Contents, SlotAt
<1>4. ASSUME NEW i \in 1 .. count + 1
      PROVE  queue'[SlotAt(i - 1)] = IF i <= count THEN Contents[i] ELSE v
  <2>1. i - 1 \in 0 .. len - 1 /\ count \in 0 .. len - 1
    BY <1>2
  <2>2. curWr = SlotAt(count) /\ queue' = [queue EXCEPT ![curWr] = v]
    BY <1>2 DEF Consistent, RingOK
  <2>3. SlotAt(i - 1) \in Slots /\ (i - 1 # count => SlotAt(i - 1) # SlotAt(count))
    BY <1>2, <2>1, SlotFacts DEF Consistent
  <2>4. DOMAIN queue = Slots
    BY DEF Consistent, TypeOK
  <2>5. CASE i <= count
    BY <1>2, <2>1, <2>2, <2>3, <2>4, <2>5
  <2>6. CASE i = count + 1
    <3>1. SlotAt(i - 1) = curWr
      BY <1>2, <2>2, <2>6
    <3>2. QED
      BY <1>2, <2>2, <2>3, <2>4, <2>6, <3>1
  <2>7. QED
    BY <1>2, <2>5, <2>6
<1>5. Contents' = [i \in 1 .. count + 1 |-> IF i <= count THEN Contents[i] ELSE v]
  BY <1>3, <1>4
<1>6. QED
  BY <1>1, <1>2, <1>5, AppendShape

\* OSA_queGet takes the head off.
LEMMA GetItemBeheads ==
    ASSUME Consistent, NEW t \in Threads, GetItem(t)
    PROVE  /\ Contents # << >> /\ Contents' = Tail(Contents)
           /\ Head(Contents) = queue[curRd]
<1> USE DEF GetItem, Contending
<1>1. /\ count \in Nat /\ len \in Nat /\ 0 < count /\ count <= len
      /\ Contents \in Seq(Values) /\ Len(Contents) = count
      /\ \A i \in 1 .. count : Contents[i] = queue[SlotAt(i - 1)]
      /\ Contents # << >> /\ Head(Contents) = queue[curRd]
  BY ContentsShape
<1>2. curRd \in Slots
  BY <1>1, SlotFacts DEF Consistent
<1>3. Contents' = [i \in 1 .. count - 1 |-> queue[SlotAt(i)]]
  <2>1. \A i \in 1 .. count - 1 : SlotAt(i - 1)' = SlotAt(i)
    BY <1>1, <1>2 DEF SlotAt, NextSlot, Slots
  <2>2. Contents' = [i \in 1 .. count - 1 |-> queue[SlotAt(i - 1)']]
    BY DEF Contents, SlotAt
  <2>3. QED
    BY <2>1, <2>2
<1>4. \A i \in 1 .. count - 1 : queue[SlotAt(i)] = Contents[i + 1]
  BY <1>1
<1>5. Contents' = [i \in 1 .. count - 1 |-> Contents[i + 1]]
  BY <1>3, <1>4
<1>6. QED
  BY <1>1, <1>5, TailShape

-----------------------------------------------------------------------------
\* The abstract specification's reading of a call is this one's.
LEMMA SameCalls ==
    /\ \A t \in Threads : \A o : Fifo!Asking(t, o) <=> Asking(t, o)
    /\ \A t \in Threads : Fifo!Inside(t) <=> Inside(t)
    /\ \A n : Fifo!Answer(n) = Answer(n)
    /\ \A v, k : Fifo!Deliver(v, k) = Deliver(v, k)
    /\ Fifo!OSA_SOK = OSA_SOK /\ Fifo!OSA_EFAIL = OSA_EFAIL
    /\ \A t \in Threads : \A r : Fifo!Return(t, r) <=> Return(t, r)
    /\ \A t \in Threads : \A c : Fifo!Invoke(t, c) <=> Invoke(t, c)
  BY DEF Asking, Fifo!Asking, Inside, Fifo!Inside, Answer, Fifo!Answer, Deliver, Fifo!Deliver,
         OSA_SOK, Fifo!OSA_SOK, OSA_EFAIL, Fifo!OSA_EFAIL, Return, Fifo!Return,
         Invoke, Fifo!Invoke

LEMMA InitRefines == Init => Fifo!FifoInit
<1> SUFFICES ASSUME Init PROVE Fifo!FifoInit
  OBVIOUS
<1>1. Contents = << >>
  BY InitConsistent, ContentsShape DEF Init
<1>2. QED
  BY <1>1 DEF Init, Fifo!FifoInit

LEMMA LookRefines ==
    ASSUME Consistent, NEW t \in Threads, Look(t)
    PROVE  Fifo!Ask(t)
<1> USE DEF Look
<1>1. Contents' = Contents
  BY DEF ring, Contents, SlotAt
<1>2. /\ count \in Nat /\ len \in Nat /\ count <= len /\ Len(Contents) = count
      /\ Contents = << >> <=> count = 0
      /\ count > 0 => Head(Contents) = queue[curRd]
  BY ContentsShape
<1> USE SameCalls
<1>3. CASE PutFull(t)
  BY <1>1, <1>2, <1>3 DEF PutFull, Fifo!Ask, Fifo!PutRefused
<1>4. CASE GetEmpty(t)
  BY <1>1, <1>2, <1>4 DEF GetEmpty, Fifo!Ask, Fifo!GetRefused
<1>5. CASE Peek(t)
  <2>1. count > 0 <=> Contents # << >>
    BY <1>2
  <2>2. Fifo!Peeked(t)
    <3>1. CASE count > 0 /\ call[t].keep
      BY <1>2, <1>5, <2>1, <3>1 DEF Peek, Fifo!Peeked
    <3>2. CASE ~(count > 0 /\ call[t].keep)
      BY <1>2, <1>5, <2>1, <3>2 DEF Peek, Fifo!Peeked
    <3>3. QED
      BY <3>1, <3>2
  <2>3. QED
    BY <1>1, <2>2 DEF Fifo!Ask
<1>6. CASE GetQueuedCount(t)
  BY <1>1, <1>2, <1>6 DEF GetQueuedCount, Fifo!Ask, Fifo!Counted
<1>7. CASE IsEmpty(t)
  BY <1>1, <1>2, <1>7 DEF IsEmpty, Fifo!Ask, Fifo!FoundEmpty
<1>8. QED
  BY <1>3, <1>4, <1>5, <1>6, <1>7

LEMMA NextRefines == Consistent /\ [Next]_vars => [Fifo!FifoNext]_(Fifo!fifoVars)
<1> SUFFICES ASSUME Consistent, Next PROVE [Fifo!FifoNext]_(Fifo!fifoVars)
  BY DEF vars, ring, Fifo!fifoVars, Contents, SlotAt
<1>1. ASSUME NEW n \in Lens, Create(n) PROVE Fifo!FifoNext
  <2>1. Contents' = << >>
    BY <1>1 DEF Create, Contents
  <2>2. Fifo!FifoCreate(n)
    BY <1>1, <2>1 DEF Create, Fifo!FifoCreate
  <2>3. QED
    BY <2>2 DEF Fifo!FifoNext
<1> USE SameCalls
<1>2. CASE Delete
  <2>1. Contents' = Contents
    BY <1>2 DEF Delete, ring, Contents, SlotAt
  <2>2. QED
    BY <1>2, <2>1 DEF Delete, Fifo!FifoNext, Fifo!FifoDelete
<1>3. ASSUME NEW t \in Threads, NEW c \in Callable[t], Call(t, c) PROVE Fifo!FifoNext
  <2>1. Contents' = Contents
    BY <1>3 DEF Call, ring, Contents, SlotAt
  <2>2. Fifo!FifoInvoke(t, c)
    BY <1>3, <2>1 DEF Call, Fifo!FifoInvoke
  <2>3. QED
    BY <2>2 DEF Fifo!FifoNext
<1>4. ASSUME NEW t \in Threads, PutItem(t) PROVE Fifo!FifoNext
  <2>1. Fifo!Put(t)
    BY <1>4, PutItemAppends, ContentsShape DEF PutItem, Fifo!Put
  <2>2. QED
    BY <2>1 DEF Fifo!FifoNext
<1>5. ASSUME NEW t \in Threads, GetItem(t) PROVE Fifo!FifoNext
  <2>1. Fifo!Get(t)
    BY <1>5, GetItemBeheads DEF GetItem, Fifo!Get
  <2>2. QED
    BY <2>1 DEF Fifo!FifoNext
<1>6. ASSUME NEW t \in Threads, Look(t) PROVE Fifo!FifoNext
  BY <1>6, LookRefines DEF Fifo!FifoNext
<1>7. ASSUME NEW t \in Threads, PutWait(t) \/ GetWait(t) \/ SpuriousWakeup(t)
      PROVE  UNCHANGED Fifo!fifoVars
  BY <1>7 DEF PutWait, GetWait, SpuriousWakeup, ring, Fifo!fifoVars, Contents, SlotAt
<1>8. QED
  BY <1>1, <1>2, <1>3, <1>4, <1>5, <1>6, <1>7 DEF Next, Run

\* osa_que.c implements the bounded FIFO: whatever the threads, the values and
\* the capacity, each call takes effect at one instant and items come out in
\* the order they went in, none lost, none twice.
THEOREM QueIsFifo == Spec => FifoSafety
<1>1. Spec => Init /\ [][Next]_vars
  BY PTL DEF Spec
<1>2. Init /\ [][Next]_vars => []Consistent
  BY InitConsistent, NextConsistent, PTL
<1>3. QED
  BY <1>1, <1>2, InitRefines, NextRefines, PTL DEF FifoSafety, Fifo!FifoSafety
=============================================================================
