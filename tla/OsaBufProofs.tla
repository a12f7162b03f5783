--------------------------- MODULE OsaBufProofs ---------------------------
(***************************************************************************)
(* Proofs about OsaBuf for any pool size and any threads: no buffer is in  *)
(* two places, and a put never has to wait.                                *)
(***************************************************************************)
EXTENDS OsaBuf, FiniteSetTheorems, SequenceTheorems, TLAPS

-----------------------------------------------------------------------------
\* Taking the head of a queue of distinct ids takes exactly that id out.
LEMMA TailTakes ==
    ASSUME NEW S, NEW s \in Seq(S), s # << >>, Distinct(s)
    PROVE  /\ Tail(s) \in Seq(S) /\ Distinct(Tail(s))
           /\ Head(s) \in S /\ Head(s) \in Queued(s)
           /\ Queued(Tail(s)) = Queued(s) \ {Head(s)}
<1>1. /\ Tail(s) \in Seq(S) /\ Len(Tail(s)) = Len(s) - 1 /\ Len(s) \in Nat /\ Len(s) > 0
      /\ DOMAIN s = 1 .. Len(s) /\ DOMAIN Tail(s) = 1 .. Len(s) - 1
      /\ \A i \in 1 .. Len(s) - 1 : Tail(s)[i] = s[i + 1]
      /\ Head(s) = s[1] /\ Head(s) \in S
  BY HeadTailProperties, LenProperties, EmptySeq
<1>2. Distinct(Tail(s))
  <2> SUFFICES ASSUME NEW i \in 1 .. Len(s) - 1, NEW j \in 1 .. Len(s) - 1,
                      Tail(s)[i] = Tail(s)[j]
               PROVE  i = j
    BY <1>1 DEF Distinct
  <2>1. i + 1 \in 1 .. Len(s) /\ j + 1 \in 1 .. Len(s) /\ s[i + 1] = s[j + 1]
    BY <1>1
  <2>2. i + 1 = j + 1
    BY <1>1, <2>1 DEF Distinct
  <2>3. QED
    BY <2>2
<1>3. ASSUME NEW x \in Queued(Tail(s)) PROVE x \in Queued(s) \ {Head(s)}
  <2>1. PICK i \in 1 .. Len(s) - 1 : x = s[i + 1]
    BY <1>1 DEF Queued
  <2>2. i + 1 \in 1 .. Len(s) /\ 1 \in 1 .. Len(s) /\ i + 1 # 1
    BY <1>1
  <2>3. QED
    BY <1>1, <2>1, <2>2 DEF Queued, Distinct
<1>4. ASSUME NEW x \in Queued(s) \ {Head(s)} PROVE x \in Queued(Tail(s))
  <2>1. PICK i \in 1 .. Len(s) : x = s[i] /\ i # 1
    BY <1>1 DEF Queued
  <2>2. i - 1 \in 1 .. Len(s) - 1 /\ Tail(s)[i - 1] = s[i - 1 + 1] /\ i - 1 + 1 = i
    BY <1>1, <2>1
  <2>3. QED
    BY <1>1, <2>1, <2>2 DEF Queued
<1>5. Queued(Tail(s)) = Queued(s) \ {Head(s)} /\ Head(s) \in Queued(s)
  <2>1. 1 \in DOMAIN s
    BY <1>1
  <2>2. Head(s) \in Queued(s)
    BY <1>1, <2>1 DEF Queued
  <2>3. QED
    BY <1>3, <1>4, <2>2
<1>6. QED
  BY <1>1, <1>2, <1>5

\* Appending an id that is not queued keeps the ids distinct.
LEMMA AppendAdds ==
    ASSUME NEW S, NEW s \in Seq(S), NEW x \in S, x \notin Queued(s), Distinct(s)
    PROVE  /\ Append(s, x) \in Seq(S) /\ Distinct(Append(s, x))
           /\ Queued(Append(s, x)) = Queued(s) \cup {x}
<1>1. /\ Len(s) \in Nat /\ DOMAIN s = 1 .. Len(s)
      /\ Append(s, x) \in Seq(S) /\ DOMAIN Append(s, x) = 1 .. Len(s) + 1
      /\ \A i \in 1 .. Len(s) : Append(s, x)[i] = s[i]
      /\ Append(s, x)[Len(s) + 1] = x
  BY AppendProperties, LenProperties
<1>2. \A i \in 1 .. Len(s) : s[i] \in Queued(s)
  BY <1>1 DEF Queued
<1>3. Distinct(Append(s, x))
  <2> SUFFICES ASSUME NEW i \in 1 .. Len(s) + 1, NEW j \in 1 .. Len(s) + 1,
                      Append(s, x)[i] = Append(s, x)[j]
               PROVE  i = j
    BY <1>1 DEF Distinct
  <2>1. CASE i \in 1 .. Len(s) /\ j \in 1 .. Len(s)
    BY <1>1, <2>1 DEF Distinct
  <2>2. CASE i = Len(s) + 1 \/ j = Len(s) + 1
    BY <1>1, <1>2, <2>2
  <2>3. QED
    BY <1>1, <2>1, <2>2
<1>4. Queued(Append(s, x)) = Queued(s) \cup {x}
  <2>1. \A y \in Queued(Append(s, x)) : y \in Queued(s) \cup {x}
    BY <1>1 DEF Queued
  <2>2. \A y \in Queued(s) : y \in Queued(Append(s, x))
    BY <1>1 DEF Queued
  <2>3. x \in Queued(Append(s, x))
    BY <1>1 DEF Queued
  <2>4. QED
    BY <2>1, <2>2, <2>3
<1>5. QED
  BY <1>1, <1>3, <1>4

-----------------------------------------------------------------------------
\* No buffer is in two places, with the types that needs.
Owned == TypeOK /\ OneOwner

LEMMA InitOwned == BufInit => Owned
<1> SUFFICES ASSUME BufInit PROVE Owned
  OBVIOUS
<1> USE DEF BufInit, NewPool, Ids
<1>1. NumBuf \in Nat /\ OSA_BUF_ID_INVALID \notin Ids(NumBuf)
  BY BufAssumption DEF OSA_BUF_ID_INVALID
<1>2. pool \in Pools(NumBuf)
  BY <1>1 DEF Pools
<1>3. TypeOK
  BY <1>1, <1>2 DEF TypeOK
<1>4. \A t \in Threads : Held(t) = {}
  BY DEF Held
<1>5. /\ pool.empty = [i \in 1 .. NumBuf |-> i - 1] /\ pool.full = << >>
  OBVIOUS
<1>6. Distinct(pool.empty) /\ Distinct(pool.full) /\ Queued(pool.full) = {}
  BY <1>1, <1>5 DEF Distinct, Queued
<1>7. OneOwner
  BY <1>4, <1>6 DEF OneOwner
<1>8. QED
  BY <1>3, <1>7 DEF Owned

\* The facts about a pool that every action below starts from.
LEMMA PoolFacts ==
    ASSUME Owned
    PROVE  /\ pool.empty \in Seq(Ids(NumBuf)) /\ pool.full \in Seq(Ids(NumBuf))
           /\ pool = [empty |-> pool.empty, full |-> pool.full]
           /\ Distinct(pool.empty) /\ Distinct(pool.full)
           /\ Queued(pool.empty) \cap Queued(pool.full) = {}
           /\ OSA_BUF_ID_INVALID \notin Ids(NumBuf)
           /\ \A t \in Threads : 
                /\ bufId[t] \in Ids(NumBuf) \cup {OSA_BUF_ID_INVALID}
                /\ newBufId[t] \in Ids(NumBuf) \cup {OSA_BUF_ID_INVALID}
                /\ \A b \in Ids(NumBuf) : b \in Held(t) <=> b = bufId[t] \/ b = newBufId[t]
                /\ Held(t) \subseteq Ids(NumBuf)
  BY DEF Owned, TypeOK, OneOwner, Pools, Held, Ids, OSA_BUF_ID_INVALID

\* What each thread has is its own, and in no queue.
LEMMA HandsApart ==
    ASSUME Owned
    PROVE  /\ \A u, w \in Threads : u # w => Held(u) \cap Held(w) = {}
           /\ \A u \in Threads : Held(u) \cap (Queued(pool.empty) \cup Queued(pool.full)) = {}
           /\ \A u \in Threads : pc[u] # "out" => bufId[u] # newBufId[u]
  BY DEF Owned, OneOwner

\* A buffer taken is the head of one of the queues, and goes out of it.
LEMMA GetTakes ==
    ASSUME Owned, NEW t \in Threads, GetEmpty(t) \/ GetFull(t)
    PROVE  \E h \in Ids(NumBuf) :
              /\ h \in Queued(pool.empty) \cup Queued(pool.full)
              /\ bufId' = [bufId EXCEPT ![t] = h]
              /\ pool' \in Pools(NumBuf) /\ Distinct(pool'.empty) /\ Distinct(pool'.full)
              /\ Queued(pool'.empty) = Queued(pool.empty) \ {h}
              /\ Queued(pool'.full) = Queued(pool.full) \ {h}
<1> USE PoolFacts DEF LessEmpty, LessFull
<1>1. CASE GetEmpty(t)
  <2> DEFINE h == Head(pool.empty)
  <2>1. /\ Tail(pool.empty) \in Seq(Ids(NumBuf)) /\ Distinct(Tail(pool.empty))
        /\ h \in Ids(NumBuf) /\ h \in Queued(pool.empty)
        /\ Queued(Tail(pool.empty)) = Queued(pool.empty) \ {h}
    BY <1>1, TailTakes DEF GetEmpty
  <2>2. pool' = [empty |-> Tail(pool.empty), full |-> pool.full]
    BY <1>1 DEF GetEmpty
  <2>3. pool' \in Pools(NumBuf)
    BY <2>1, <2>2 DEF Pools
  <2>4. Queued(pool.full) = Queued(pool.full) \ {h}
    BY <2>1
  <2>5. QED
    <3>1. bufId' = [bufId EXCEPT ![t] = h]
      BY <1>1 DEF GetEmpty
    <3>2. pool'.empty = Tail(pool.empty) /\ pool'.full = pool.full
      BY <2>2
    <3> HIDE DEF h
    <3>3. QED
      BY <2>1, <2>3, <2>4, <3>1, <3>2
<1>2. CASE GetFull(t)
  <2> DEFINE h == Head(pool.full)
  <2>1. /\ Tail(pool.full) \in Seq(Ids(NumBuf)) /\ Distinct(Tail(pool.full))
        /\ h \in Ids(NumBuf) /\ h \in Queued(pool.full)
        /\ Queued(Tail(pool.full)) = Queued(pool.full) \ {h}
    BY <1>2, TailTakes DEF GetFull
  <2>2. pool' = [empty |-> pool.empty, full |-> Tail(pool.full)]
    BY <1>2 DEF GetFull
  <2>3. pool' \in Pools(NumBuf)
    BY <2>1, <2>2 DEF Pools
  <2>4. Queued(pool.empty) = Queued(pool.empty) \ {h}
    BY <2>1
  <2>5. QED
    BY <1>2, <2>1, <2>2, <2>3, <2>4 DEF GetFull
<1>3. QED
  BY <1>1, <1>2

\* It goes to one thread's hands.
LEMMA GetOwned ==
    ASSUME Owned, NEW t \in Threads, GetEmpty(t) \/ GetFull(t)
    PROVE  Owned'
<1> USE PoolFacts DEF Asks, Result
<1>1. PICK h \in Ids(NumBuf) :
        /\ h \in Queued(pool.empty) \cup Queued(pool.full)
        /\ bufId' = [bufId EXCEPT ![t] = h]
        /\ pool' \in Pools(NumBuf) /\ Distinct(pool'.empty) /\ Distinct(pool'.full)
        /\ Queued(pool'.empty) = Queued(pool.empty) \ {h}
        /\ Queued(pool'.full) = Queued(pool.full) \ {h}
  BY GetTakes
<1>2. /\ pc[t] = "out" /\ bufId[t] = OSA_BUF_ID_INVALID /\ newBufId[t] = OSA_BUF_ID_INVALID
      /\ UNCHANGED <<bufInfo, newBufId, pc>> /\ status' = [status EXCEPT ![t] = 0]
  BY DEF GetEmpty, GetFull, Owned, TypeOK
<1>3. TypeOK'
  BY <1>1, <1>2 DEF Owned, TypeOK
<1> DEFINE H == [u \in Threads |-> IF u = t THEN {h} ELSE Held(u)]
<1>4. \A u \in Threads : Held(u)' = H[u]
  BY <1>1, <1>2 DEF Held, Owned, TypeOK
<1>5. \A u \in Threads : H[u] \cap (Queued(pool'.empty) \cup Queued(pool'.full)) = {}
  BY <1>1, HandsApart
<1>6. \A u, w \in Threads : u # w => H[u] \cap H[w] = {}
  BY <1>1, HandsApart
<1>7. \A u \in Threads : pc'[u] # "out" => bufId'[u] # newBufId'[u]
  BY <1>1, <1>2, HandsApart DEF Owned, TypeOK
<1>8. Queued(pool'.empty) \cap Queued(pool'.full) = {}
  BY <1>1
<1>9. OneOwner'
  <2> HIDE DEF H
  <2>1. QED
    BY <1>1, <1>4, <1>5, <1>6, <1>7, <1>8 DEF OneOwner
<1>10. QED
  BY <1>3, <1>9 DEF Owned

\* The first half of a Switch call does the same with the second variable.
LEMMA SwitchTakes ==
    ASSUME Owned, NEW t \in Threads, SwitchFull(t) \/ SwitchEmpty(t),
           ~UNCHANGED <<pool, newBufId, pc>>
    PROVE  \E h \in Ids(NumBuf) :
              /\ h \in Queued(pool.empty) \cup Queued(pool.full)
              /\ newBufId' = [newBufId EXCEPT ![t] = h]
              /\ pool' \in Pools(NumBuf) /\ Distinct(pool'.empty) /\ Distinct(pool'.full)
              /\ Queued(pool'.empty) = Queued(pool.empty) \ {h}
              /\ Queued(pool'.full) = Queued(pool.full) \ {h}
<1> USE PoolFacts DEF LessEmpty, LessFull
<1>1. CASE SwitchFull(t)
  <2> DEFINE h == Head(pool.empty)
  <2>0. pool.empty # << >>
    BY <1>1 DEF SwitchFull
  <2>1. /\ Tail(pool.empty) \in Seq(Ids(NumBuf)) /\ Distinct(Tail(pool.empty))
        /\ h \in Ids(NumBuf) /\ h \in Queued(pool.empty)
        /\ Queued(Tail(pool.empty)) = Queued(pool.empty) \ {h}
    BY <2>0, TailTakes
  <2>2. pool' = [empty |-> Tail(pool.empty), full |-> pool.full]
    BY <1>1, <2>0 DEF SwitchFull
  <2>3. pool' \in Pools(NumBuf)
    BY <2>1, <2>2 DEF Pools
  <2>4. Queued(pool.full) = Queued(pool.full) \ {h}
    BY <2>1
  <2>5. QED
    BY <1>1, <2>0, <2>1, <2>2, <2>3, <2>4 DEF SwitchFull
<1>2. CASE SwitchEmpty(t)
  <2> DEFINE h == Head(pool.full)
  <2>0. pool.full # << >>
    BY <1>2 DEF SwitchEmpty
  <2>1. /\ Tail(pool.full) \in Seq(Ids(NumBuf)) /\ Distinct(Tail(pool.full))
        /\ h \in Ids(NumBuf) /\ h \in Queued(pool.full)
        /\ Queued(Tail(pool.full)) = Queued(pool.full) \ {h}
    BY <2>0, TailTakes
  <2>2. pool' = [empty |-> pool.empty, full |-> Tail(pool.full)]
    BY <1>2, <2>0 DEF SwitchEmpty
  <2>3. pool' \in Pools(NumBuf)
    BY <2>1, <2>2 DEF Pools
  <2>4. Queued(pool.empty) = Queued(pool.empty) \ {h}
    BY <2>1
  <2>5. QED
    BY <1>2, <2>0, <2>1, <2>2, <2>3, <2>4 DEF SwitchEmpty
<1>3. QED
  BY <1>1, <1>2

LEMMA SwitchOwned ==
    ASSUME Owned, NEW t \in Threads, SwitchFull(t) \/ SwitchEmpty(t)
    PROVE  Owned'
<1> USE PoolFacts DEF Result
<1>1. CASE UNCHANGED <<pool, newBufId, pc>>
  <2>1. /\ UNCHANGED <<bufInfo, bufId>> /\ status' \in [Threads -> {0, -1}]
    BY DEF SwitchFull, SwitchEmpty, Owned, TypeOK
  <2>2. QED
    BY <1>1, <2>1 DEF Owned, TypeOK, OneOwner, Held
<1>2. CASE ~UNCHANGED <<pool, newBufId, pc>>
  <2>1. PICK h \in Ids(NumBuf) :
          /\ h \in Queued(pool.empty) \cup Queued(pool.full)
          /\ newBufId' = [newBufId EXCEPT ![t] = h]
          /\ pool' \in Pools(NumBuf) /\ Distinct(pool'.empty) /\ Distinct(pool'.full)
          /\ Queued(pool'.empty) = Queued(pool.empty) \ {h}
          /\ Queued(pool'.full) = Queued(pool.full) \ {h}
    BY <1>2, SwitchTakes
  <2>2. /\ pc[t] = "out" /\ newBufId[t] = OSA_BUF_ID_INVALID
        /\ UNCHANGED <<bufInfo, bufId, status>>
        /\ \E p \in {"switchFull", "switchEmpty"} : pc' = [pc EXCEPT ![t] = p]
    BY <1>2 DEF SwitchFull, SwitchEmpty, Owned, TypeOK
  <2>3. TypeOK'
    BY <2>1, <2>2 DEF Owned, TypeOK
  <2> DEFINE H == [u \in Threads |-> IF u = t THEN Held(t) \cup {h} ELSE Held(u)]
  <2>4. \A u \in Threads : Held(u)' = H[u]
    BY <2>1, <2>2 DEF Held, Owned, TypeOK
  <2>5. \A u \in Threads : H[u] \cap (Queued(pool'.empty) \cup Queued(pool'.full)) = {}
    BY <2>1, HandsApart
  <2>6. \A u, w \in Threads : u # w => H[u] \cap H[w] = {}
    BY <2>1, HandsApart
  <2>7. \A u \in Threads : pc'[u] # "out" => bufId'[u] # newBufId'[u]
    <3>1. h \notin Held(t)
      BY <2>1, HandsApart
    <3>2. bufId[t] # h
      BY <3>1, <2>1
    <3>3. QED
      BY <2>1, <2>2, <3>2, HandsApart DEF Owned, TypeOK
  <2>8. Queued(pool'.empty) \cap Queued(pool'.full) = {}
    BY <2>1
  <2>9. OneOwner'
    <3> HIDE DEF H
    <3>1. QED
      BY <2>1, <2>4, <2>5, <2>6, <2>7, <2>8 DEF OneOwner
  <2>10. QED
    BY <2>3, <2>9 DEF Owned
<1>3. QED
  BY <1>1, <1>2

\* What putting an id that is in neither queue leaves behind.
LEMMA PutBack ==
    ASSUME Owned, NEW x \in Ids(NumBuf),
           x \notin Queued(pool.empty), x \notin Queued(pool.full),
           pool' = WithFull(pool, x) \/ pool' = WithEmpty(pool, x)
    PROVE  /\ pool' \in Pools(NumBuf) /\ Distinct(pool'.empty) /\ Distinct(pool'.full)
           /\ Queued(pool'.empty) \cap Queued(pool'.full) = {}
           /\ Queued(pool'.empty) \cup Queued(pool'.full)
                 = Queued(pool.empty) \cup Queued(pool.full) \cup {x}
<1> USE PoolFacts
<1>1. CASE pool' = WithFull(pool, x)
  <2>1. pool' = [empty |-> pool.empty, full |-> Append(pool.full, x)]
    BY <1>1 DEF WithFull
  <2>2. pool'.empty = pool.empty /\ pool'.full = Append(pool.full, x)
    BY <2>1
  <2>3. /\ Append(pool.full, x) \in Seq(Ids(NumBuf)) /\ Distinct(Append(pool.full, x))
        /\ Queued(Append(pool.full, x)) = Queued(pool.full) \cup {x}
    BY AppendAdds
  <2>4. pool' \in Pools(NumBuf)
    BY <2>1, <2>3 DEF Pools
  <2>5. QED
    BY <2>2, <2>3, <2>4
<1>2. CASE pool' = WithEmpty(pool, x)
  <2>1. pool' = [empty |-> Append(pool.empty, x), full |-> pool.full]
    BY <1>2 DEF WithEmpty
  <2>2. pool'.full = pool.full /\ pool'.empty = Append(pool.empty, x)
    BY <2>1
  <2>3. /\ Append(pool.empty, x) \in Seq(Ids(NumBuf)) /\ Distinct(Append(pool.empty, x))
        /\ Queued(Append(pool.empty, x)) = Queued(pool.empty) \cup {x}
    BY AppendAdds
  <2>4. pool' \in Pools(NumBuf)
    BY <2>1, <2>3 DEF Pools
  <2>5. QED
    BY <2>2, <2>3, <2>4
<1>3. QED
  BY <1>1, <1>2

\* A put moves the caller's buffer to the tail of a queue; a refused id moves
\* nothing.
LEMMA PutOwned ==
    ASSUME Owned, NEW t \in Threads, PutFull(t) \/ PutEmpty(t)
    PROVE  Owned'
<1> USE PoolFacts DEF Result
<1>1. CASE UNCHANGED <<pool, bufId>>
  <2>1. /\ UNCHANGED <<bufInfo, newBufId, pc>> /\ status' \in [Threads -> {0, -1}]
    BY DEF PutFull, PutEmpty, Owned, TypeOK
  <2>2. QED
    BY <1>1, <2>1 DEF Owned, TypeOK, OneOwner, Held
<1>2. CASE ~UNCHANGED <<pool, bufId>>
  <2> DEFINE x == bufId[t]
  <2>1. /\ pc[t] = "out" /\ UNCHANGED <<bufInfo, newBufId, pc>>
        /\ newBufId[t] = OSA_BUF_ID_INVALID
        /\ bufId' = [bufId EXCEPT ![t] = OSA_BUF_ID_INVALID]
        /\ status' = [status EXCEPT ![t] = 0] /\ ValidId(NumBuf, x)
    BY <1>2 DEF PutFull, PutEmpty, Owned, TypeOK
  <2>2. /\ x \in Ids(NumBuf) /\ x \in Held(t)
        /\ x \notin Queued(pool.empty) /\ x \notin Queued(pool.full)
    BY <2>1, HandsApart DEF ValidId, OSA_BUF_ID_INVALID
  <2>3. pool' = WithFull(pool, x) \/ pool' = WithEmpty(pool, x)
    BY <1>2 DEF PutFull, PutEmpty
  <2>4. /\ pool' \in Pools(NumBuf) /\ Distinct(pool'.empty) /\ Distinct(pool'.full)
        /\ Queued(pool'.empty) \cap Queued(pool'.full) = {}
        /\ Queued(pool'.empty) \cup Queued(pool'.full)
              = Queued(pool.empty) \cup Queued(pool.full) \cup {x}
    BY <2>2, <2>3, PutBack
  <2>5. TypeOK'
    BY <2>1, <2>4 DEF Owned, TypeOK
  <2> DEFINE H == [u \in Threads |-> IF u = t THEN {} ELSE Held(u)]
  <2>6. \A u \in Threads : Held(u)' = H[u]
    BY <2>1 DEF Held, Owned, TypeOK
  <2>7. \A u \in Threads : H[u] \cap (Queued(pool'.empty) \cup Queued(pool'.full)) = {}
    BY <2>2, <2>4, HandsApart
  <2>8. \A u, w \in Threads : u # w => H[u] \cap H[w] = {}
    BY HandsApart
  <2>9. \A u \in Threads : pc'[u] # "out" => bufId'[u] # newBufId'[u]
    BY <2>1, HandsApart DEF Owned, TypeOK
  <2> HIDE DEF H
  <2>10. OneOwner'
    BY <2>4, <2>6, <2>7, <2>8, <2>9 DEF OneOwner
  <2>11. QED
    BY <2>5, <2>10 DEF Owned
<1>3. QED
  BY <1>1, <1>2

\* The second half of a Switch puts the old buffer and keeps the new one.
LEMMA SwitchedOwned ==
    ASSUME Owned, NEW t \in Threads, Switched(t)
    PROVE  Owned'
<1> USE PoolFacts DEF Switched, Result, GivenUp
<1> DEFINE x == bufId[t]
           n == newBufId[t]
<1>1. /\ pc[t] # "out" /\ n \in Ids(NumBuf) /\ n \in Held(t) /\ x # n
      /\ bufId' = [bufId EXCEPT ![t] = n]
      /\ newBufId' = [newBufId EXCEPT ![t] = OSA_BUF_ID_INVALID]
      /\ pc' = [pc EXCEPT ![t] = "out"] /\ UNCHANGED bufInfo
      /\ status' = [status EXCEPT ![t] = 0]
  BY HandsApart DEF Owned, TypeOK
<1>2. /\ pool' \in Pools(NumBuf) /\ Distinct(pool'.empty) /\ Distinct(pool'.full)
      /\ Queued(pool'.empty) \cap Queued(pool'.full) = {}
      /\ Queued(pool'.empty) \cup Queued(pool'.full)
            = Queued(pool.empty) \cup Queued(pool.full) \cup ({x} \ {OSA_BUF_ID_INVALID})
  <2>1. CASE x = OSA_BUF_ID_INVALID
    BY <2>1 DEF Owned, TypeOK
  <2>2. CASE x # OSA_BUF_ID_INVALID
    <3>1. /\ x \in Ids(NumBuf) /\ x \in Held(t)
          /\ x \notin Queued(pool.empty) /\ x \notin Queued(pool.full)
      BY <2>2, HandsApart
    <3>2. pool' = WithFull(pool, x) \/ pool' = WithEmpty(pool, x)
      BY <2>2
    <3>3. /\ pool' \in Pools(NumBuf) /\ Distinct(pool'.empty) /\ Distinct(pool'.full)
          /\ Queued(pool'.empty) \cap Queued(pool'.full) = {}
          /\ Queued(pool'.empty) \cup Queued(pool'.full)
                = Queued(pool.empty) \cup Queued(pool.full) \cup {x}
      BY <3>1, <3>2, PutBack
    <3>4. QED
      BY <2>2, <3>3
  <2>3. QED
    BY <2>1, <2>2
<1>3. TypeOK'
  BY <1>1, <1>2 DEF Owned, TypeOK
<1> DEFINE H == [u \in Threads |-> IF u = t THEN {n} ELSE Held(u)]
<1>4. \A u \in Threads : Held(u)' = H[u]
  BY <1>1 DEF Held, Owned, TypeOK
<1>5. x \in Held(t) \cup {OSA_BUF_ID_INVALID}
  BY DEF Held
<1>6. \A u \in Threads : H[u] \cap (Queued(pool'.empty) \cup Queued(pool'.full)) = {}
  BY <1>1, <1>2, <1>5, HandsApart
<1>7. \A u, w \in Threads : u # w => H[u] \cap H[w] = {}
  BY <1>1, HandsApart
<1>8. \A u \in Threads : pc'[u] # "out" => bufId'[u] # newBufId'[u]
  BY <1>1, HandsApart DEF Owned, TypeOK
<1> HIDE DEF H
<1>9. OneOwner'
  <2>1. /\ Distinct(pool'.empty) /\ Distinct(pool'.full)
        /\ Queued(pool'.empty) \cap Queued(pool'.full) = {}
    BY <1>2
  <2> HIDE DEF x, n
  <2>2. QED
    BY <2>1, <1>4, <1>6, <1>7, <1>8 DEF OneOwner
<1>10. QED
  BY <1>3, <1>9 DEF Owned

LEMMA NextOwned == Owned /\ [BufNext]_bufVars => Owned'
<1> SUFFICES ASSUME Owned, [BufNext]_bufVars PROVE Owned'
  OBVIOUS
<1>1. ASSUME NEW t \in Threads, GetNothing(t) PROVE Owned'
  BY <1>1 DEF GetNothing, Result, Owned, TypeOK, OneOwner, Held
<1>2. ASSUME NEW t \in Threads, NEW f \in Frames, Fill(t, f) PROVE Owned'
  BY <1>2 DEF Fill, Owned, TypeOK, OneOwner, Held
<1>3. CASE UNCHANGED bufVars
  BY <1>3 DEF bufVars, Owned, TypeOK, OneOwner, Held
<1>4. QED
  BY <1>1, <1>2, <1>3, GetOwned, SwitchOwned, PutOwned, SwitchedOwned DEF BufNext

\* However the threads interleave, every buffer is in one place at most.
THEOREM BuffersHaveOneOwner == BufSpec => [](TypeOK /\ OneOwner)
  BY InitOwned, NextOwned, PTL DEF BufSpec, Owned

-----------------------------------------------------------------------------
\* A queue of distinct ids that lacks one of the ids has room for it.
LEMMA RoomForOneMore ==
    ASSUME NEW s \in Seq(Ids(NumBuf)), Distinct(s),
           NEW b \in Ids(NumBuf), b \notin Queued(s)
    PROVE  Room(NumBuf, s)
<1>1. NumBuf \in Nat /\ Len(s) \in Nat /\ DOMAIN s = 1 .. Len(s)
  BY BufAssumption, LenProperties
<1>2. SUFFICES ASSUME Len(s) >= NumBuf PROVE FALSE
  BY <1>1 DEF Room
<1> DEFINE others == Ids(NumBuf) \ {b}
<1>3. IsFiniteSet(others) /\ Cardinality(others) = NumBuf - 1
  <2>1. IsFiniteSet(Ids(NumBuf)) /\ Cardinality(Ids(NumBuf)) = NumBuf
    BY <1>1, FS_Interval DEF Ids
  <2>2. QED
    BY <2>1, FS_RemoveElement
<1>4. IsFiniteSet(1 .. Len(s)) /\ Cardinality(1 .. Len(s)) = Len(s)
  <2>1. 1 \in Int /\ Len(s) \in Int /\ (1 > Len(s) => Len(s) = 0) /\ Len(s) - 1 + 1 = Len(s)
    BY <1>1
  <2>2. IsFiniteSet(1 .. Len(s))
    BY <2>1, FS_Interval
  <2>3. Cardinality(1 .. Len(s)) = IF 1 > Len(s) THEN 0 ELSE Len(s) - 1 + 1
    BY <2>1, FS_Interval
  <2>4. QED
    BY <2>1, <2>2, <2>3
<1>5. s \in [1 .. Len(s) -> others]
  BY <1>1, LenProperties DEF Queued
<1>6. Cardinality(others) < Cardinality(1 .. Len(s))
  BY <1>1, <1>2, <1>3, <1>4
<1>7. \E i, j \in 1 .. Len(s) : i # j /\ s[i] = s[j]
  <2> HIDE DEF others
  <2>1. QED
    BY <1>3, <1>4, <1>5, <1>6, FS_PigeonHole
<1>8. QED
  BY <1>1, <1>7 DEF Distinct

\* The puts, which would wait for ever for room, never wait: the id in the
\* caller's hands is missing from both queues.
THEOREM PutsNeverWait == BufSpec => []PutNeverWaits
<1>1. Owned => PutNeverWaits
  <2> SUFFICES ASSUME Owned, NEW t \in Threads, bufId[t] # OSA_BUF_ID_INVALID
               PROVE  Room(NumBuf, pool.full) /\ Room(NumBuf, pool.empty)
    BY DEF PutNeverWaits
  <2>1. /\ bufId[t] \in Ids(NumBuf) /\ bufId[t] \in Held(t)
        /\ bufId[t] \notin Queued(pool.full) /\ bufId[t] \notin Queued(pool.empty)
    BY PoolFacts, HandsApart
  <2>2. QED
    BY <2>1, PoolFacts, RoomForOneMore
<1>2. BufSpec => []Owned
  BY InitOwned, NextOwned, PTL DEF BufSpec
<1>3. QED
  BY <1>1, <1>2, PTL
-----------------------------------------------------------------------------
\* Every buffer is in some place.  A buffer leaves a queue for the hands of the thread
\* that takes it, whose variable has no other, and a put leaves it in a queue.
Somewhere(b) ==
    \/ b \in Queued(pool.empty) \cup Queued(pool.full)
    \/ \E t \in Threads : b \in {bufId[t], newBufId[t]}

AllKept == \A b \in Ids(NumBuf) : Somewhere(b)

LEMMA InitKept == BufInit => AllKept
<1> SUFFICES ASSUME BufInit, NEW b \in Ids(NumBuf)
             PROVE  b \in Queued(pool.empty)
  BY DEF AllKept, Somewhere
<1>1. NumBuf \in Nat /\ b + 1 \in 1 .. NumBuf /\ b = (b + 1) - 1
  BY BufAssumption DEF Ids
<1>2. pool.empty = [i \in 1 .. NumBuf |-> i - 1]
  BY DEF BufInit, NewPool
<1> QED
  BY <1>1, <1>2 DEF Queued

LEMMA NextKept == Owned /\ AllKept /\ [BufNext]_bufVars => AllKept'
<1> SUFFICES ASSUME Owned, AllKept, [BufNext]_bufVars, NEW b \in Ids(NumBuf)
             PROVE  Somewhere(b)'
  BY DEF AllKept
<1>0. Somewhere(b)
  BY DEF AllKept
<1> USE PoolFacts DEF Somewhere
<1>1. ASSUME NEW t \in Threads, GetEmpty(t) \/ GetFull(t)
      PROVE  Somewhere(b)'
  <2>1. bufId[t] # b /\ UNCHANGED newBufId
    BY <1>1 DEF GetEmpty, GetFull, Asks
  <2>2. PICK h \in Ids(NumBuf) :
           /\ bufId' = [bufId EXCEPT ![t] = h]
           /\ Queued(pool'.empty) = Queued(pool.empty) \ {h}
           /\ Queued(pool'.full) = Queued(pool.full) \ {h}
    BY <1>1, GetTakes
  <2>3. bufId \in [Threads -> Ids(NumBuf) \cup {OSA_BUF_ID_INVALID}]
    BY DEF Owned, TypeOK
  <2> QED
    BY <1>0, <2>1, <2>2, <2>3
<1>2. ASSUME NEW t \in Threads, SwitchFull(t) \/ SwitchEmpty(t)
      PROVE  Somewhere(b)'
  <2>1. CASE UNCHANGED <<pool, newBufId, pc>>
    BY <1>0, <1>2, <2>1 DEF SwitchFull, SwitchEmpty
  <2>2. CASE ~UNCHANGED <<pool, newBufId, pc>>
    <3>1. newBufId[t] # b /\ UNCHANGED bufId
      BY <1>2, <2>2 DEF SwitchFull, SwitchEmpty, Owned, TypeOK
    <3>2. PICK h \in Ids(NumBuf) :
             /\ newBufId' = [newBufId EXCEPT ![t] = h]
             /\ Queued(pool'.empty) = Queued(pool.empty) \ {h}
             /\ Queued(pool'.full) = Queued(pool.full) \ {h}
      BY <1>2, <2>2, SwitchTakes
    <3>3. newBufId \in [Threads -> Ids(NumBuf) \cup {OSA_BUF_ID_INVALID}]
      BY DEF Owned, TypeOK
    <3> QED
      BY <1>0, <3>1, <3>2, <3>3
  <2> QED
    BY <2>1, <2>2
<1>3. ASSUME NEW t \in Threads, PutFull(t) \/ PutEmpty(t)
      PROVE  Somewhere(b)'
  <2>1. CASE UNCHANGED <<pool, bufId>>
    BY <1>0, <1>3, <2>1 DEF PutFull, PutEmpty
  <2>2. CASE ~UNCHANGED <<pool, bufId>>
    <3>1. /\ bufId' = [bufId EXCEPT ![t] = OSA_BUF_ID_INVALID] /\ UNCHANGED newBufId
          /\ pool' = WithFull(pool, bufId[t]) \/ pool' = WithEmpty(pool, bufId[t])
          /\ bufId[t] \in Ids(NumBuf)
      BY <1>3, <2>2 DEF PutFull, PutEmpty, ValidId, OSA_BUF_ID_INVALID
    <3>2. Queued(pool'.empty) \cup Queued(pool'.full)
             = Queued(pool.empty) \cup Queued(pool.full) \cup {bufId[t]}
      BY <3>1, HandsApart, PutBack
    <3> QED
      BY <1>0, <3>1, <3>2
  <2> QED
    BY <2>1, <2>2
<1>4. ASSUME NEW t \in Threads, Switched(t)
      PROVE  Somewhere(b)'
  <2>1. /\ bufId' = [bufId EXCEPT ![t] = newBufId[t]]
        /\ newBufId' = [newBufId EXCEPT ![t] = OSA_BUF_ID_INVALID]
    BY <1>4 DEF Switched
  <2>2. Queued(pool.empty) \cup Queued(pool.full) \cup ({bufId[t]} \ {OSA_BUF_ID_INVALID})
           \subseteq Queued(pool'.empty) \cup Queued(pool'.full)
    <3>1. CASE bufId[t] = OSA_BUF_ID_INVALID
      BY <1>4, <3>1 DEF Switched
    <3>2. CASE bufId[t] # OSA_BUF_ID_INVALID
      <4>1. pool' = WithFull(pool, bufId[t]) \/ pool' = WithEmpty(pool, bufId[t])
        BY <1>4, <3>2 DEF Switched, GivenUp
      <4>2. Queued(pool'.empty) \cup Queued(pool'.full)
               = Queued(pool.empty) \cup Queued(pool.full) \cup {bufId[t]}
        BY <3>2, <4>1, HandsApart, PutBack
      <4> QED
        BY <4>2
    <3> QED
      BY <3>1, <3>2
  <2>3. bufId \in [Threads -> Ids(NumBuf) \cup {OSA_BUF_ID_INVALID}]
        /\ newBufId \in [Threads -> Ids(NumBuf) \cup {OSA_BUF_ID_INVALID}]
    BY DEF Owned, TypeOK
  <2> QED
    BY <1>0, <2>1, <2>2, <2>3
<1>5. ASSUME NEW t \in Threads, GetNothing(t) \/ (\E f \in Frames : Fill(t, f))
      PROVE  Somewhere(b)'
  BY <1>0, <1>5 DEF GetNothing, Fill
<1>6. CASE UNCHANGED bufVars
  BY <1>0, <1>6 DEF bufVars
<1> QED
  BY <1>1, <1>2, <1>3, <1>4, <1>5, <1>6 DEF BufNext

\* No interleaving of gets, puts and the two halves of the Switch calls loses a
\* buffer (osa_buf.c:50-246).
THEOREM NoBufferLost == BufSpec => []NoneLost
<1>1. BufSpec => [](Owned /\ AllKept)
  BY InitOwned, NextOwned, InitKept, NextKept, PTL DEF BufSpec
<1>2. Owned /\ AllKept => NoneLost
  BY PoolFacts DEF Owned, AllKept, Somewhere, NoneLost
<1> QED
  BY <1>1, <1>2, PTL

-----------------------------------------------------------------------------
(* The order of the frames *)

\* What the buffers with these ids hold.
Look(info, ids) == [i \in DOMAIN ids |-> info[ids[i]]]

LEMMA LookTail ==
    ASSUME NEW S, NEW s \in Seq(S), s # << >>, NEW info
    PROVE  /\ Look(info, s) # << >> /\ Head(Look(info, s)) = info[Head(s)]
           /\ Look(info, Tail(s)) = Tail(Look(info, s))
<1>1. /\ Len(s) \in Nat /\ Len(s) > 0 /\ DOMAIN s = 1 .. Len(s)
      /\ DOMAIN Tail(s) = 1 .. Len(s) - 1
      /\ \A i \in 1 .. Len(s) - 1 : Tail(s)[i] = s[i + 1]
      /\ Head(s) = s[1] /\ \A i \in 1 .. Len(s) : s[i] \in S
  BY HeadTailProperties, LenProperties, EmptySeq
<1> DEFINE R == {info[x] : x \in S}
           g == Look(info, s)
<1>2. g \in Seq(R) /\ Len(g) = Len(s) /\ g # << >>
  BY <1>1, LenProperties, EmptySeq DEF Look
<1>3. \A i \in 1 .. Len(s) : g[i] = info[s[i]]
  BY <1>1 DEF Look
<1> HIDE DEF g, R
<1>4. /\ Len(Tail(g)) = Len(s) - 1 /\ DOMAIN Tail(g) = 1 .. Len(s) - 1 /\ Tail(g) \in Seq(R)
      /\ \A i \in 1 .. Len(s) - 1 : Tail(g)[i] = g[i + 1]
      /\ Head(g) = g[1]
  BY <1>1, <1>2, HeadTailProperties, LenProperties
<1>5. Look(info, Tail(s)) = Tail(g)
  <2>1. /\ Tail(g) = [i \in 1 .. Len(s) - 1 |-> Tail(g)[i]]
        /\ \A i \in 1 .. Len(s) - 1 : Tail(g)[i] = info[Tail(s)[i]]
    <3>1. Tail(g) = [i \in 1 .. Len(s) - 1 |-> Tail(g)[i]]
      BY <1>1, <1>4, LenProperties
    <3>2. ASSUME NEW i \in 1 .. Len(s) - 1
          PROVE  Tail(g)[i] = info[Tail(s)[i]]
      <4>1. i + 1 \in 1 .. Len(s)
        BY <1>1
      <4> QED
        BY <1>1, <1>3, <1>4, <4>1
    <3> QED
      BY <3>1, <3>2
  <2> QED
    BY <1>1, <2>1 DEF Look
<1> QED
  BY <1>1, <1>2, <1>3, <1>4, <1>5 DEF g

LEMMA LookAppend ==
    ASSUME NEW S, NEW s \in Seq(S), NEW x \in S, NEW info
    PROVE  Look(info, Append(s, x)) = Append(Look(info, s), info[x])
<1>1. /\ Len(s) \in Nat /\ DOMAIN s = 1 .. Len(s)
      /\ DOMAIN Append(s, x) = 1 .. Len(s) + 1
      /\ \A i \in 1 .. Len(s) : Append(s, x)[i] = s[i] /\ s[i] \in S
      /\ Append(s, x)[Len(s) + 1] = x
  BY AppendProperties, LenProperties
<1> DEFINE R == {info[y] : y \in S}
           g == Look(info, s)
           a == Append(g, info[x])
<1>2. g \in Seq(R) /\ Len(g) = Len(s) /\ info[x] \in R
  BY <1>1, LenProperties DEF Look
<1>3. \A i \in 1 .. Len(s) : g[i] = info[s[i]]
  BY <1>1 DEF Look
<1> HIDE DEF g, R
<1>4. /\ a \in Seq(R) /\ DOMAIN a = 1 .. Len(s) + 1
      /\ \A i \in 1 .. Len(s) : a[i] = g[i]
      /\ a[Len(s) + 1] = info[x]
  BY <1>1, <1>2, AppendProperties, LenProperties
<1>5. /\ a = [i \in 1 .. Len(s) + 1 |-> a[i]]
      /\ \A i \in 1 .. Len(s) + 1 : a[i] = info[Append(s, x)[i]]
  <2> HIDE DEF a
  <2>1. a = [i \in 1 .. Len(s) + 1 |-> a[i]]
    BY <1>1, <1>4, LenProperties
  <2>2. ASSUME NEW i \in 1 .. Len(s) + 1
        PROVE  a[i] = info[Append(s, x)[i]]
    <3>1. i \in 1 .. Len(s) \/ i = Len(s) + 1
      BY <1>1
    <3> QED
      BY <1>1, <1>3, <1>4, <3>1
  <2> QED
    BY <2>1, <2>2
<1> HIDE DEF a
<1>6. Look(info, Append(s, x)) = a
  BY <1>1, <1>5 DEF Look
<1> QED
  BY <1>6 DEF a, g

\* What a step does to the frames handed over.
HandsOver ==
    \/ Shown' = Shown
    \/ \E t \in Threads : bufId[t] # OSA_BUF_ID_INVALID
                          /\ Shown' = Append(Shown, bufInfo[bufId[t]])
    \/ /\ Shown # << >>
       /\ Shown' = Tail(Shown)
       /\ \E t \in Threads : \E b \in Ids(NumBuf) :
             b \in {bufId'[t], newBufId'[t]} \ Held(t) /\ bufInfo'[b] = Head(Shown)

LEMMA StepHandsOver == Owned /\ [BufNext]_bufVars => [HandsOver]_bufVars
<1> SUFFICES ASSUME Owned, BufNext
             PROVE  HandsOver
  BY DEF bufVars
<1>0. Shown = Look(bufInfo, pool.full) /\ Shown' = Look(bufInfo', pool'.full)
  BY DEF Shown, Look
<1> USE PoolFacts
<1>1. ASSUME UNCHANGED bufInfo, pool'.full = pool.full
      PROVE  HandsOver
  BY <1>0, <1>1 DEF HandsOver
<1>2. ASSUME NEW t \in Threads, bufId[t] # OSA_BUF_ID_INVALID,
             UNCHANGED bufInfo, pool' = WithFull(pool, bufId[t])
      PROVE  HandsOver
  <2>1. pool'.full = Append(pool.full, bufId[t]) /\ bufId[t] \in Ids(NumBuf)
    BY <1>2 DEF WithFull
  <2>2. Shown' = Append(Shown, bufInfo[bufId[t]])
    <3>1. Look(bufInfo, Append(pool.full, bufId[t]))
             = Append(Look(bufInfo, pool.full), bufInfo[bufId[t]])
      <4>1. pool.full \in Seq(Ids(NumBuf)) /\ bufId[t] \in Ids(NumBuf)
        BY <2>1
      <4> QED
        BY <4>1, LookAppend, SMTT(60)
    <3> QED
      BY <1>0, <1>2, <2>1, <3>1
  <2> QED
    BY <1>2, <2>2 DEF HandsOver
<1>3. ASSUME NEW t \in Threads, UNCHANGED bufInfo, pool.full # << >>, pool' = LessFull(pool),
             Head(pool.full) \in {bufId'[t], newBufId'[t]}
      PROVE  HandsOver
  <2> DEFINE h == Head(pool.full)
  <2>1. pool'.full = Tail(pool.full)
    BY <1>3 DEF LessFull
  <2>2. Shown # << >> /\ Shown' = Tail(Shown) /\ bufInfo[h] = Head(Shown)
    BY <1>0, <1>3, <2>1, LookTail
  <2>3. h \in Ids(NumBuf) /\ h \in Queued(pool.full)
    BY <1>3, TailTakes
  <2>4. h \notin Held(t)
    BY <2>3, HandsApart
  <2> QED
    BY <1>3, <2>2, <2>3, <2>4 DEF HandsOver
<1>4. ASSUME NEW t \in Threads, NEW f \in Frames, Fill(t, f)
      PROVE  HandsOver
  <2>1. bufId[t] \in Ids(NumBuf) /\ bufId[t] \notin Queued(pool.full)
    BY <1>4, HandsApart DEF Fill
  <2>2. \A i \in DOMAIN pool.full : pool.full[i] # bufId[t] /\ pool.full[i] \in Ids(NumBuf)
    BY <2>1, LenProperties DEF Queued
  <2>3. \A i \in DOMAIN pool.full : bufInfo'[pool.full[i]] = bufInfo[pool.full[i]]
    BY <1>4, <2>2 DEF Fill, Owned, TypeOK
  <2> QED
    BY <1>0, <1>4, <2>3 DEF Fill, Look, HandsOver
<1>5. ASSUME NEW t \in Threads, GetEmpty(t) \/ GetNothing(t) \/ PutEmpty(t) \/ SwitchFull(t)
      PROVE  HandsOver
  BY <1>1, <1>5 DEF GetEmpty, GetNothing, PutEmpty, SwitchFull, LessEmpty, WithEmpty
<1>6. ASSUME NEW t \in Threads, GetFull(t)
      PROVE  HandsOver
  <2>1. bufId'[t] = Head(pool.full)
    BY <1>6 DEF GetFull, Owned, TypeOK
  <2> QED
    BY <1>3, <1>6, <2>1 DEF GetFull
<1>7. ASSUME NEW t \in Threads, PutFull(t)
      PROVE  HandsOver
  BY <1>1, <1>2, <1>7 DEF PutFull, ValidId, OSA_BUF_ID_INVALID
<1>8. ASSUME NEW t \in Threads, SwitchEmpty(t)
      PROVE  HandsOver
  <2>1. pool.full # << >> => newBufId'[t] = Head(pool.full)
    BY <1>8 DEF SwitchEmpty, Owned, TypeOK
  <2> QED
    BY <1>1, <1>3, <1>8, <2>1 DEF SwitchEmpty
<1>9. ASSUME NEW t \in Threads, Switched(t)
      PROVE  HandsOver
  <2>1. CASE bufId[t] = OSA_BUF_ID_INVALID
    BY <1>1, <1>9, <2>1 DEF Switched
  <2>2. CASE bufId[t] # OSA_BUF_ID_INVALID /\ pool' = WithFull(pool, bufId[t])
    BY <1>2, <1>9, <2>2 DEF Switched
  <2>3. CASE pool' = WithEmpty(pool, bufId[t])
    BY <1>1, <1>9, <2>3 DEF Switched, WithEmpty
  <2> QED
    BY <1>9, <2>1, <2>2, <2>3 DEF Switched, GivenUp
<1> QED
  BY <1>4, <1>5, <1>6, <1>7, <1>8, <1>9 DEF BufNext

\* Frames are taken in the order they were handed over, and what the taker finds in
\* its buffer is what was put there: nobody writes a buffer that is queued
\* (osa_buf.c:77-140).
THEOREM FramesKeepOrder == BufSpec => FramesInOrder
<1>1. BufSpec => []Owned
  BY InitOwned, NextOwned, PTL DEF BufSpec
<1> QED
  BY <1>1, StepHandsOver, PTL DEF BufSpec, FramesInOrder, HandsOver
=============================================================================
