-------------------------- MODULE OsaServerProofs --------------------------
(***************************************************************************)
(* Proofs about OsaServer for any number of peers, clients, buffers and    *)
(* frames: the client list and the life of the handles, the buffers of     *)
(* each client's pool and the blocks in them, the order of frames, and the *)
(* descriptors.                                                            *)
(***************************************************************************)
EXTENDS OsaServer, FiniteSetTheorems, SequenceTheorems, WellFoundedInduction, TLAPS

-----------------------------------------------------------------------------
(* The bounds of the scenarios *)

\* A finite set of naturals with something in it has a greatest element.
LEMMA GreatestExists ==
    \A S \in SUBSET Nat : IsFiniteSet(S) /\ S # {} => \E x \in S : \A y \in S : x >= y
<1> DEFINE Bad(S) == /\ S \in SUBSET Nat /\ IsFiniteSet(S) /\ S # {}
                     /\ ~ \E x \in S : \A y \in S : x >= y
           Sizes == {n \in Nat : \E S : Bad(S) /\ Cardinality(S) = n}
<1>1. SUFFICES ASSUME NEW T, Bad(T) PROVE FALSE
  OBVIOUS
<1>2. Cardinality(T) \in Sizes
  BY <1>1, FS_CardinalityType
<1>3. PICK n \in Sizes : \A k \in Sizes : ~(k < n)
  <2> HIDE DEF Sizes
  <2>1. Sizes \subseteq Nat
    BY DEF Sizes
  <2>2. PICK n \in Sizes : \A k \in Sizes : <<k, n>> \notin OpToRel(<, Nat)
    BY <1>2, <2>1, NatLessThanWellFounded, WFMin
  <2>3. QED
    BY <2>1, <2>2 DEF OpToRel
<1>4. PICK S : Bad(S) /\ Cardinality(S) = n
  OBVIOUS
<1>5. PICK x \in S : x \in Nat
  BY <1>4
<1>6. /\ IsFiniteSet(S \ {x}) /\ Cardinality(S \ {x}) = Cardinality(S) - 1
      /\ Cardinality(S) \in Nat /\ Cardinality(S \ {x}) \in Nat
  BY <1>4, <1>5, FS_RemoveElement, FS_CardinalityType
<1>7. ~Bad(S \ {x})
  <2>1. Cardinality(S \ {x}) < n
    BY <1>4, <1>6
  <2>2. Bad(S \ {x}) => Cardinality(S \ {x}) \in Sizes
    BY <1>6
  <2> HIDE DEF Bad, Sizes
  <2>3. QED
    BY <1>3, <2>1, <2>2
<1>8. CASE S \ {x} = {}
  <2>1. \A y \in S : x >= y
    BY <1>5, <1>8
  <2>2. QED
    BY <1>4, <2>1
<1>9. CASE S \ {x} # {}
  <2>1. PICK m \in S \ {x} : \A y \in S \ {x} : m >= y
    BY <1>4, <1>6, <1>7, <1>9
  <2>2. m \in Nat
    BY <1>4, <2>1
  <2>3. CASE m >= x
    <3>1. \A y \in S : m >= y
      BY <2>1, <2>3
    <3>2. QED
      BY <1>4, <2>1, <3>1
  <2>4. CASE ~(m >= x)
    <3>1. \A y \in S : x >= y
      BY <1>4, <1>5, <2>1, <2>2, <2>4
    <3>2. QED
      BY <1>4, <1>5, <3>1
  <2>5. QED
    BY <2>3, <2>4
<1>10. QED
  BY <1>8, <1>9

\* Max of such a set is its greatest element.
LEMMA GreatestIsMax ==
    ASSUME NEW S, S \subseteq Nat, IsFiniteSet(S), NEW s \in S
    PROVE  Max(S) \in Nat /\ s <= Max(S)
<1>1. \E x \in S : \A y \in S : x >= y
  BY GreatestExists
<1>2. Max(S) \in S /\ \A y \in S : Max(S) >= y
  BY <1>1 DEF Max
<1>3. QED
  BY <1>2

\* No scenario has more peers or frames than the model has numbers for.
LEMMA Bounds ==
    ASSUME NEW s \in Scenarios
    PROVE  /\ MaxConns \in Nat /\ s.peers \in Nat /\ s.peers <= MaxConns
           /\ MaxFrames \in Nat /\ s.frames \in Nat /\ s.frames <= MaxFrames
           /\ s.buf_num \in Nat \ {0}
<1>1. \A t \in Scenarios : t.peers \in Nat /\ t.frames \in Nat /\ t.buf_num \in Nat \ {0}
  BY ServerAssumption
<1>2. IsFiniteSet({t.peers : t \in Scenarios}) /\ IsFiniteSet({t.frames : t \in Scenarios})
  <2>1. \A S, T, f : IsFiniteSet(S) /\ f \in Surjection(S, T) => IsFiniteSet(T)
    BY FS_Surjection
  <2>2. /\ [t \in Scenarios |-> t.peers]
             \in Surjection(Scenarios, {t.peers : t \in Scenarios})
        /\ [t \in Scenarios |-> t.frames]
             \in Surjection(Scenarios, {t.frames : t \in Scenarios})
    BY DEF Surjection
  <2>3. QED
    BY <2>1, <2>2, ServerAssumption
<1>3. /\ {t.peers : t \in Scenarios} \subseteq Nat /\ s.peers \in {t.peers : t \in Scenarios}
      /\ {t.frames : t \in Scenarios} \subseteq Nat /\ s.frames \in {t.frames : t \in Scenarios}
  BY <1>1
<1>4. MaxConns \in Nat /\ s.peers <= MaxConns
  BY <1>2, <1>3, GreatestIsMax DEF MaxConns
<1>5. MaxFrames \in Nat /\ s.frames <= MaxFrames
  BY <1>2, <1>3, GreatestIsMax DEF MaxFrames
<1>6. QED
  BY <1>1, <1>4, <1>5

-----------------------------------------------------------------------------
(* Sequences without repetition: the client list and the queues of ids *)

\* Appending what is not there keeps the elements distinct.
LEMMA AppendAdds ==
    ASSUME NEW S, NEW s \in Seq(S), NEW x \in S, x \notin Range(s), IsInjective(s)
    PROVE  /\ Append(s, x) \in Seq(S) /\ IsInjective(Append(s, x))
           /\ Range(Append(s, x)) = Range(s) \cup {x}
<1>1. /\ Len(s) \in Nat /\ DOMAIN s = 1 .. Len(s)
      /\ Append(s, x) \in Seq(S) /\ DOMAIN Append(s, x) = 1 .. Len(s) + 1
      /\ \A i \in 1 .. Len(s) : Append(s, x)[i] = s[i]
      /\ Append(s, x)[Len(s) + 1] = x
  BY AppendProperties, LenProperties
<1>2. \A i \in 1 .. Len(s) : s[i] \in Range(s)
  BY <1>1 DEF Range
<1>3. IsInjective(Append(s, x))
  <2> SUFFICES ASSUME NEW i \in 1 .. Len(s) + 1, NEW j \in 1 .. Len(s) + 1,
                      Append(s, x)[i] = Append(s, x)[j]
               PROVE  i = j
    BY <1>1 DEF IsInjective
  <2>1. CASE i \in 1 .. Len(s) /\ j \in 1 .. Len(s)
    BY <1>1, <2>1 DEF IsInjective
  <2>2. CASE i = Len(s) + 1 \/ j = Len(s) + 1
    BY <1>1, <1>2, <2>2
  <2>3. QED
    BY <1>1, <2>1, <2>2
<1>4. \A y \in Range(Append(s, x)) : y \in Range(s) \cup {x}
  BY <1>1 DEF Range
<1>5. \A y \in Range(s) : y \in Range(Append(s, x))
  BY <1>1 DEF Range
<1>6. x \in Range(Append(s, x))
  BY <1>1 DEF Range
<1>7. QED
  BY <1>1, <1>3, <1>4, <1>5, <1>6

\* Taking the head takes exactly that element out.
LEMMA TailTakes ==
    ASSUME NEW S, NEW s \in Seq(S), s # << >>, IsInjective(s)
    PROVE  /\ Tail(s) \in Seq(S) /\ IsInjective(Tail(s))
           /\ Len(s) > 0 /\ Len(Tail(s)) = Len(s) - 1 /\ Head(s) = s[1]
           /\ \A i \in 1 .. Len(s) - 1 : Tail(s)[i] = s[i + 1]
           /\ Head(s) \in S /\ Head(s) \in Range(s)
           /\ Range(Tail(s)) = Range(s) \ {Head(s)}
<1>1. /\ Tail(s) \in Seq(S) /\ Len(Tail(s)) = Len(s) - 1 /\ Len(s) \in Nat /\ Len(s) > 0
      /\ DOMAIN s = 1 .. Len(s) /\ DOMAIN Tail(s) = 1 .. Len(s) - 1
      /\ \A i \in 1 .. Len(s) - 1 : Tail(s)[i] = s[i + 1]
      /\ Head(s) = s[1] /\ Head(s) \in S
  BY HeadTailProperties, LenProperties, EmptySeq
<1>2. IsInjective(Tail(s))
  <2> SUFFICES ASSUME NEW i \in 1 .. Len(s) - 1, NEW j \in 1 .. Len(s) - 1,
                      Tail(s)[i] = Tail(s)[j]
               PROVE  i = j
    BY <1>1 DEF IsInjective
  <2>1. i + 1 \in 1 .. Len(s) /\ j + 1 \in 1 .. Len(s) /\ s[i + 1] = s[j + 1]
    BY <1>1
  <2>2. i + 1 = j + 1
    BY <1>1, <2>1 DEF IsInjective
  <2>3. QED
    BY <2>2
<1>3. ASSUME NEW x \in Range(Tail(s)) PROVE x \in Range(s) \ {Head(s)}
  <2>1. PICK i \in 1 .. Len(s) - 1 : x = s[i + 1]
    BY <1>1 DEF Range
  <2>2. i + 1 \in 1 .. Len(s) /\ 1 \in 1 .. Len(s) /\ i + 1 # 1
    BY <1>1
  <2>3. QED
    BY <1>1, <2>1, <2>2 DEF Range, IsInjective
<1>4. ASSUME NEW x \in Range(s) \ {Head(s)} PROVE x \in Range(Tail(s))
  <2>1. PICK i \in 1 .. Len(s) : x = s[i] /\ i # 1
    BY <1>1 DEF Range
  <2>2. i - 1 \in 1 .. Len(s) - 1 /\ Tail(s)[i - 1] = s[i - 1 + 1] /\ i - 1 + 1 = i
    BY <1>1, <2>1
  <2>3. QED
    BY <1>1, <2>1, <2>2 DEF Range
<1>5. Head(s) \in Range(s)
  <2>1. 1 \in DOMAIN s
    BY <1>1
  <2>2. QED
    BY <1>1, <2>1 DEF Range
<1>6. Range(Tail(s)) = Range(s) \ {Head(s)}
  BY <1>3, <1>4
<1>7. QED
  BY <1>1, <1>2, <1>5, <1>6

\* Taking one element out leaves the others, in their order.
LEMMA RemoveTakesOut ==
    ASSUME NEW S, NEW s \in Seq(S), IsInjective(s), NEW x
    PROVE  /\ RemoveFirst(s, x) \in Seq(S) /\ IsInjective(RemoveFirst(s, x))
           /\ Range(RemoveFirst(s, x)) = Range(s) \ {x}
           /\ Len(RemoveFirst(s, x)) = IF x \in Range(s) THEN Len(s) - 1 ELSE Len(s)
<1> DEFINE r == RemoveFirst(s, x)
<1>0. Len(s) \in Nat /\ DOMAIN s = 1 .. Len(s) /\ \A i \in 1 .. Len(s) : s[i] \in S
  BY LenProperties, ElementOfSeq
<1>1. CASE x \notin Range(s)
  <2>1. ~ \E i \in 1 .. Len(s) : s[i] = x
    BY <1>0, <1>1 DEF Range
  <2>2. r = s
    BY <2>1 DEF RemoveFirst
  <2>3. r \in Seq(S) /\ IsInjective(r) /\ Range(r) = Range(s) \ {x} /\ Len(r) = Len(s)
    BY <1>1, <2>2
  <2>4. QED
    BY <1>1, <2>3
<1>2. CASE x \in Range(s)
  <2>1. PICK k \in 1 .. Len(s) : s[k] = x
    BY <1>0, <1>2 DEF Range
  <2>2. {i \in 1 .. Len(s) : s[i] = x} = {k}
    BY <1>0, <2>1 DEF IsInjective
  <2>3. Min({k}) = k
    BY <2>1 DEF Min
  <2>4. SelectInSeq(s, LAMBDA v : v = x) = k
    BY <2>2, <2>3 DEF SelectInSeq
  <2>5. r = SubSeq(s, 1, k - 1) \o SubSeq(s, k + 1, Len(s))
    BY <2>1, <2>4 DEF RemoveFirst, RemoveAt
  <2>6. /\ SubSeq(s, 1, k - 1) \in Seq(S) /\ Len(SubSeq(s, 1, k - 1)) = k - 1
        /\ \A i \in 1 .. k - 1 : SubSeq(s, 1, k - 1)[i] = s[i]
    <3>1. \A i \in 1 .. k - 1 : s[i] \in S
      BY <1>0
    <3>2. QED
      BY <1>0, <2>1, <3>1, SubSeqProperties
  <2>7. /\ SubSeq(s, k + 1, Len(s)) \in Seq(S) /\ Len(SubSeq(s, k + 1, Len(s))) = Len(s) - k
        /\ \A i \in 1 .. Len(s) - k : SubSeq(s, k + 1, Len(s))[i] = s[k + i]
    <3>1. \A i \in k + 1 .. Len(s) : s[i] \in S
      BY <1>0
    <3>2. k + 1 \in Int /\ Len(s) \in Int
      BY <1>0
    <3>3. /\ SubSeq(s, k + 1, Len(s)) \in Seq(S)
          /\ Len(SubSeq(s, k + 1, Len(s)))
               = IF k + 1 <= Len(s) THEN Len(s) - (k + 1) + 1 ELSE 0
          /\ \A i \in 1 .. Len(s) - (k + 1) + 1 :
                SubSeq(s, k + 1, Len(s))[i] = s[k + 1 + i - 1]
      BY <3>1, <3>2, SubSeqProperties
    <3>4. Len(s) - (k + 1) + 1 = Len(s) - k
      BY <1>0, <2>1
    <3>5. \A i \in 1 .. Len(s) - k : k + 1 + i - 1 = k + i
      BY <1>0, <2>1
    <3>6. Len(SubSeq(s, k + 1, Len(s))) = Len(s) - k
      <4>1. CASE k + 1 <= Len(s)
        BY <3>3, <3>4, <4>1
      <4>2. CASE ~(k + 1 <= Len(s))
        <5>1. k \in Nat /\ k <= Len(s) /\ Len(s) \in Nat /\ ~(k + 1 <= Len(s))
          BY <1>0, <2>1, <4>2
        <5>2. Len(s) - k = 0
          BY <5>1
        <5>3. QED
          BY <3>3, <4>2, <5>2
      <4>3. QED
        BY <4>1, <4>2
    <3>7. \A i \in 1 .. Len(s) - k : SubSeq(s, k + 1, Len(s))[i] = s[k + i]
      BY <3>3, <3>4, <3>5
    <3>8. QED
      BY <3>3, <3>6, <3>7
  <2>8. /\ r \in Seq(S) /\ Len(r) = Len(s) - 1
        /\ \A i \in 1 .. Len(s) - 1 : r[i] = IF i < k THEN s[i] ELSE s[i + 1]
    <3> DEFINE a == SubSeq(s, 1, k - 1)
               b == SubSeq(s, k + 1, Len(s))
    <3>1. /\ r \in Seq(S) /\ Len(r) = k - 1 + (Len(s) - k)
          /\ \A i \in 1 .. k - 1 + (Len(s) - k) :
                r[i] = IF i <= k - 1 THEN a[i] ELSE b[i - (k - 1)]
      <4> HIDE DEF a, b, r
      <4>1. r = a \o b
        BY <2>5 DEF a, b
      <4>2. a \in Seq(S) /\ Len(a) = k - 1 /\ b \in Seq(S) /\ Len(b) = Len(s) - k
        BY <2>6, <2>7 DEF a, b
      <4>3. /\ a \o b \in Seq(S) /\ Len(a \o b) = Len(a) + Len(b)
            /\ \A i \in 1 .. Len(a) + Len(b) :
                  (a \o b)[i] = IF i <= Len(a) THEN a[i] ELSE b[i - Len(a)]
        <5>1. a \in Seq(S) /\ b \in Seq(S)
          BY <4>2
        <5>2. QED
          BY ONLY <5>1, ConcatProperties
      <4>4. Len(a) = k - 1 /\ Len(b) = Len(s) - k
        BY <4>2
      <4>5. QED
        BY ONLY <4>1, <4>3, <4>4
    <3> HIDE DEF r
    <3>2. ASSUME NEW i \in 1 .. Len(s) - 1 PROVE r[i] = IF i < k THEN s[i] ELSE s[i + 1]
      <4>1. i \in 1 .. k - 1 + (Len(s) - k)
        BY <1>0, <2>1
      <4>2. CASE i < k
        BY <1>0, <2>1, <2>6, <3>1, <4>1, <4>2
      <4>3. CASE ~(i < k)
        <5>1. i - (k - 1) \in 1 .. Len(s) - k /\ k + (i - (k - 1)) = i + 1
          BY <1>0, <2>1, <4>3
        <5>2. SubSeq(s, k + 1, Len(s))[i - (k - 1)] = s[i + 1]
          BY <2>7, <5>1
        <5>3. QED
          BY <1>0, <2>1, <3>1, <4>1, <4>3, <5>2
      <4>4. QED
        BY <4>2, <4>3
    <3>3. k - 1 + (Len(s) - k) = Len(s) - 1
      BY <1>0, <2>1
    <3>4. QED
      BY <3>1, <3>2, <3>3
  <2> HIDE DEF r
  <2>9. DOMAIN r = 1 .. Len(s) - 1
    BY <2>8, LenProperties
  <2>10. IsInjective(r)
    <3> SUFFICES ASSUME NEW i \in 1 .. Len(s) - 1, NEW j \in 1 .. Len(s) - 1, r[i] = r[j]
                 PROVE  i = j
      BY <2>9 DEF IsInjective
    <3>1. i \in 1 .. Len(s) /\ j \in 1 .. Len(s) /\ i + 1 \in 1 .. Len(s) /\ j + 1 \in 1 .. Len(s)
      BY <1>0
    <3> DEFINE at(n) == IF n < k THEN n ELSE n + 1
    <3>2. at(i) \in 1 .. Len(s) /\ at(j) \in 1 .. Len(s) /\ s[at(i)] = s[at(j)]
      BY <2>8, <3>1
    <3>3. at(i) = at(j)
      <4> HIDE DEF at
      <4>1. QED
        BY <1>0, <3>2 DEF IsInjective
    <3>4. QED
      BY <2>1, <3>3
  <2>11. ASSUME NEW y \in Range(r) PROVE y \in Range(s) \ {x}
    <3>1. PICK i \in 1 .. Len(s) - 1 : y = r[i]
      BY <2>9 DEF Range
    <3>2. i \in 1 .. Len(s) /\ i + 1 \in 1 .. Len(s)
      BY <1>0
    <3>3. PICK j \in 1 .. Len(s) : y = s[j] /\ j # k
      BY <1>0, <2>1, <2>8, <3>1, <3>2
    <3>4. QED
      BY <1>0, <2>1, <3>3 DEF Range, IsInjective
  <2>12. ASSUME NEW y \in Range(s) \ {x} PROVE y \in Range(r)
    <3>1. PICK j \in 1 .. Len(s) : y = s[j] /\ j # k
      BY <1>0, <2>1 DEF Range
    <3>2. CASE j < k
      <4>1. j \in 1 .. Len(s) - 1 /\ r[j] = y
        BY <1>0, <2>1, <2>8, <3>1, <3>2
      <4>2. QED
        BY <2>9, <4>1 DEF Range
    <3>3. CASE ~(j < k)
      <4>1. j - 1 \in 1 .. Len(s) - 1 /\ ~(j - 1 < k) /\ j - 1 + 1 = j
        BY <1>0, <2>1, <3>1, <3>3
      <4>2. r[j - 1] = y
        BY <2>8, <3>1, <4>1
      <4>3. QED
        BY <2>9, <4>1, <4>2 DEF Range
    <3>4. QED
      BY <3>2, <3>3
  <2>13. Range(r) = Range(s) \ {x}
    BY <2>11, <2>12
  <2>14. QED
    BY <1>2, <2>8, <2>10, <2>13 DEF r
<1>3. QED
  BY <1>1, <1>2

-----------------------------------------------------------------------------
(* The inductive invariant *)

\* From its push to its erase a client is served; while it is busy its thread is
\* between two looks at the server's status.
Busy   == {"get", "recv", "send", "putEmpty", "test", "free", "clear", "fail"}
Served == Busy \cup {"loop", "erase"}

\* The next connection has no thread yet; the accepting thread and the
\* application agree on how far the server has got.
SrvInv ==
    /\ srvPc \in {"size", "admit"} => srvConn \in Conns /\ pc[srvConn] = "none"
    /\ \A c \in Conns : c > srvConn => pc[c] = "none"
    /\ server_status = "SERVER_ABOR" => srvPc = "done"

\* The list holds the served clients that a node was found for, and the node the
\* application is at.
ListInv ==
    /\ IsInjective(clientList)
    /\ \A c \in Conns : c \in Range(clientList) <=> pc[c] \in Served /\ c \notin unlisted
    /\ \A c \in unlisted : pc[c] \notin {"none", "init", "push"}
    /\ appPc \in FillSteps /\ appAt # NoConn => appAt \in Range(clientList)
SizeInv ==
    /\ Len(clientList) <= nSize
    /\ unlisted = {} => nSize = Len(clientList)

\* Once the application has seen an empty list, and unless the accepting thread has
\* started after it, no listed client is busy again.  It does not end the thread that
\* SERVER_STAR keeps going.
StopInv ==
    /\ server_status = "SERVER_STAR" => srvPc \notin {"abor", "done"}
    /\ appPc \in {"aborWait", "done"} /\ server_status # "SERVER_STAR"
          => \A c \in Conns \ unlisted : pc[c] \notin Busy
    /\ handle = "freed" => srvPc = "done" /\ appPc = "done"

\* No id is in two places.
PoolApart(p) ==
    /\ IsInjective(p.empty) /\ IsInjective(p.full)
    /\ Range(p.empty) \cap Range(p.full) = {}

HandsInv ==
    /\ appPc \in FillSteps => frame >= 1
    /\ appPc \in FillSteps \ {"fill"} => appAt # NoConn /\ appBuf \in Ids(NumBuf)
    /\ \A c \in Conns :
        /\ PoolApart(pool[c])
        /\ pc[c] \in {"send", "putEmpty", "test", "free", "clear"} => buf_id[c] \in Ids(NumBuf)
        /\ Sending(c) => buf_id[c] \notin Range(pool[c].empty) \cup Range(pool[c].full)
        /\ Filling(c) => appBuf \notin Range(pool[c].empty) \cup Range(pool[c].full)
        /\ Sending(c) /\ Filling(c) => buf_id[c] # appBuf

\* The clients that this call of OSA_server_sendBuf has still to give its frame.
Ahead(c) ==
    /\ appPc \in FillSteps
    /\ \E i, j \in DOMAIN clientList :
          /\ clientList[i] = appAt /\ clientList[j] = c
          /\ i < j \/ (i = j /\ appPc \in {"fill", "alloc"})

\* No client has seen a later frame than the one being sent, and a client ahead
\* has not seen that one either.
Older(c, n) == /\ sent[c] < n /\ \A k \in freed[c] : k < n
               /\ \A b \in Ids(NumBuf) : data[c][b] < n
FreshInv ==
    \A c \in Conns : Older(c, frame + 1) /\ (Ahead(c) => Older(c, frame))

\* A block is in one buffer, and none after it was freed, but for the one whose
\* pointer is about to be cleared.
BlocksOwn(c) ==
    /\ \A a, b \in Ids(NumBuf) : data[c][a] = data[c][b] /\ a # b => data[c][a] = NULL
    /\ \A b \in Ids(NumBuf) :
          data[c][b] \in freed[c] => pc[c] = "clear" /\ b = buf_id[c]
    /\ pc[c] = "free" => data[c][buf_id[c]] # NULL
BlockInv == \A c \in Conns : BlocksOwn(c)

\* Frames queued are in order, later than the frame being sent, which is later
\* than those sent; the frame being filled in is later than all of them.
Before(k, l) == k # NULL /\ l # NULL => k < l
InOrder(c) ==
    /\ \A i, j \in DOMAIN pool[c].full :
          i < j => Before(data[c][pool[c].full[i]], data[c][pool[c].full[j]])
    /\ \A b \in Range(pool[c].full) :
          data[c][b] # NULL =>
             /\ sent[c] < data[c][b]
             /\ pc[c] = "send" => data[c][buf_id[c]] < data[c][b]
    /\ pc[c] = "send" /\ data[c][buf_id[c]] # NULL => sent[c] < data[c][buf_id[c]]
    /\ Filling(c) /\ appPc # "alloc" =>
          /\ data[c][appBuf] \in {NULL, frame} /\ sent[c] < frame
          /\ \A b \in Ids(NumBuf) \ {appBuf} : data[c][b] < frame
OrderInv == \A c \in Conns : InOrder(c)

\* The descriptors that the threads know, whose they are unless another's thread has
\* closed them, and what it takes for that to happen.
SockSteps == {"loop", "get", "recv", "send", "putEmpty", "test", "free", "clear", "fail",
              "erase", "close"}
Active == {"init", "push"} \cup SockSteps
Connected(c) == \/ pc[c] \in {"init", "push"}
                \/ pc[c] \in SockSteps /\ status[c] = "CLIENT_CONNECT"
Owns(c) == client_socket[c] \in Fds /\ (c \notin struck => fdOwner[client_socket[c]] = c)
SockInv ==
    /\ \A c \in Conns :
          /\ pc[c] = "push" => status[c] = "CLIENT_CONNECT"
          /\ pc[c] \in Busy => status[c] = "CLIENT_CONNECT"
          /\ pc[c] \in SockSteps /\ status[c] # "CLIENT_CONNECT" => socket[c] = -1
          /\ pc[c] \in Active => client_socket[c] \in Fds
          /\ Connected(c) => Owns(c)
    /\ srvPc \in {"size", "admit"} => Owns(srvConn)
    /\ struck # {} => \E d \in Conns : pc[d] \in {"drain", "gone"} /\ socket[d] = -1

-----------------------------------------------------------------------------
(* What the calls of the buffer pool do to it *)

LEMMA PoolCalls ==
    ASSUME NEW n, NEW p, p \in Pools(n)
    PROVE  /\ LessEmpty(p) = [empty |-> Tail(p.empty), full |-> p.full]
           /\ LessFull(p) = [empty |-> p.empty, full |-> Tail(p.full)]
           /\ \A b : WithEmpty(p, b) = [empty |-> Append(p.empty, b), full |-> p.full]
           /\ \A b : WithFull(p, b) = [empty |-> p.empty, full |-> Append(p.full, b)]
<1>1. /\ \A t : [p EXCEPT !.empty = t] = [empty |-> t, full |-> p.full]
      /\ \A t : [p EXCEPT !.full = t] = [empty |-> p.empty, full |-> t]
  BY DEF Pools
<1>2. LessEmpty(p) = [empty |-> Tail(p.empty), full |-> p.full]
  <2> DEFINE t == Tail(p.empty)
  <2>1. LessEmpty(p) = [p EXCEPT !.empty = t]
    BY DEF LessEmpty
  <2> HIDE DEF t
  <2>2. LessEmpty(p) = [empty |-> t, full |-> p.full]
    BY <1>1, <2>1
  <2>3. QED
    BY <2>2 DEF t
<1>3. LessFull(p) = [empty |-> p.empty, full |-> Tail(p.full)]
  <2> DEFINE t == Tail(p.full)
  <2>1. LessFull(p) = [p EXCEPT !.full = t]
    BY DEF LessFull
  <2> HIDE DEF t
  <2>2. LessFull(p) = [empty |-> p.empty, full |-> t]
    BY <1>1, <2>1
  <2>3. QED
    BY <2>2 DEF t
<1>4. ASSUME NEW b PROVE WithEmpty(p, b) = [empty |-> Append(p.empty, b), full |-> p.full]
  <2> DEFINE t == Append(p.empty, b)
  <2>1. WithEmpty(p, b) = [p EXCEPT !.empty = t]
    BY DEF WithEmpty
  <2> HIDE DEF t
  <2>2. WithEmpty(p, b) = [empty |-> t, full |-> p.full]
    BY <1>1, <2>1
  <2>3. QED
    BY <2>2 DEF t
<1>5. ASSUME NEW b PROVE WithFull(p, b) = [empty |-> p.empty, full |-> Append(p.full, b)]
  <2> DEFINE t == Append(p.full, b)
  <2>1. WithFull(p, b) = [p EXCEPT !.full = t]
    BY DEF WithFull
  <2> HIDE DEF t
  <2>2. WithFull(p, b) = [empty |-> p.empty, full |-> t]
    BY <1>1, <2>1
  <2>3. QED
    BY <2>2 DEF t
<1>6. QED
  BY <1>2, <1>3, <1>4, <1>5

LEMMA PoolParts ==
    ASSUME NEW n, NEW p, p \in Pools(n)
    PROVE  /\ p.empty \in Seq(Ids(n)) /\ p.full \in Seq(Ids(n))
           /\ p = [empty |-> p.empty, full |-> p.full]
  BY DEF Pools

\* OSA_bufGetFull takes the oldest id that is ready to be used.
LEMMA FullTaken ==
    ASSUME NEW n, NEW p, p \in Pools(n), PoolApart(p), p.full # << >>
    PROVE  /\ LessFull(p) \in Pools(n) /\ PoolApart(LessFull(p))
           /\ LessFull(p).empty = p.empty /\ LessFull(p).full = Tail(p.full)
           /\ Head(p.full) \in Ids(n) /\ Head(p.full) \in Range(p.full)
           /\ Head(p.full) \notin Range(p.empty)
           /\ Range(LessFull(p).full) = Range(p.full) \ {Head(p.full)}
<1>1. p.empty \in Seq(Ids(n)) /\ p.full \in Seq(Ids(n))
  BY PoolParts
<1>2. LessFull(p) = [empty |-> p.empty, full |-> Tail(p.full)]
  BY PoolCalls
<1>3. LessFull(p).empty = p.empty /\ LessFull(p).full = Tail(p.full)
  BY <1>2
<1>4. /\ Tail(p.full) \in Seq(Ids(n)) /\ IsInjective(Tail(p.full))
      /\ Head(p.full) \in Ids(n) /\ Head(p.full) \in Range(p.full)
      /\ Range(Tail(p.full)) = Range(p.full) \ {Head(p.full)}
  BY <1>1, TailTakes DEF PoolApart
<1>5. LessFull(p) \in Pools(n)
  BY <1>1, <1>2, <1>4 DEF Pools
<1>6. PoolApart(LessFull(p))
  BY <1>3, <1>4 DEF PoolApart
<1>7. QED
  BY <1>3, <1>4, <1>5, <1>6 DEF PoolApart

\* OSA_bufGetEmpty takes the oldest id that is ready to be filled.
LEMMA EmptyTaken ==
    ASSUME NEW n, NEW p, p \in Pools(n), PoolApart(p), p.empty # << >>
    PROVE  /\ LessEmpty(p) \in Pools(n) /\ PoolApart(LessEmpty(p))
           /\ LessEmpty(p).full = p.full
           /\ Head(p.empty) \in Ids(n) /\ Head(p.empty) \in Range(p.empty)
           /\ Head(p.empty) \notin Range(p.full)
           /\ Range(LessEmpty(p).empty) = Range(p.empty) \ {Head(p.empty)}
<1>1. p.empty \in Seq(Ids(n)) /\ p.full \in Seq(Ids(n))
  BY PoolParts
<1>2. LessEmpty(p) = [empty |-> Tail(p.empty), full |-> p.full]
  BY PoolCalls
<1>3. LessEmpty(p).full = p.full /\ LessEmpty(p).empty = Tail(p.empty)
  BY <1>2
<1>4. /\ Tail(p.empty) \in Seq(Ids(n)) /\ IsInjective(Tail(p.empty))
      /\ Head(p.empty) \in Ids(n) /\ Head(p.empty) \in Range(p.empty)
      /\ Range(Tail(p.empty)) = Range(p.empty) \ {Head(p.empty)}
  BY <1>1, TailTakes DEF PoolApart
<1>5. LessEmpty(p) \in Pools(n)
  BY <1>1, <1>2, <1>4 DEF Pools
<1>6. PoolApart(LessEmpty(p))
  BY <1>3, <1>4 DEF PoolApart
<1>7. QED
  BY <1>3, <1>4, <1>5, <1>6 DEF PoolApart

\* OSA_bufPutEmpty and OSA_bufPutFull queue an id that is in neither queue.
LEMMA EmptyGiven ==
    ASSUME NEW n, NEW p, p \in Pools(n), PoolApart(p), NEW b, b \in Ids(n),
           b \notin Range(p.empty), b \notin Range(p.full)
    PROVE  /\ WithEmpty(p, b) \in Pools(n) /\ PoolApart(WithEmpty(p, b))
           /\ WithEmpty(p, b).full = p.full
           /\ Range(WithEmpty(p, b).empty) = Range(p.empty) \cup {b}
<1>1. p.empty \in Seq(Ids(n)) /\ p.full \in Seq(Ids(n))
  BY PoolParts
<1>2. WithEmpty(p, b) = [empty |-> Append(p.empty, b), full |-> p.full]
  BY PoolCalls
<1>3. WithEmpty(p, b).full = p.full /\ WithEmpty(p, b).empty = Append(p.empty, b)
  BY <1>2
<1>4. /\ Append(p.empty, b) \in Seq(Ids(n)) /\ IsInjective(Append(p.empty, b))
      /\ Range(Append(p.empty, b)) = Range(p.empty) \cup {b}
  BY <1>1, AppendAdds DEF PoolApart
<1>5. WithEmpty(p, b) \in Pools(n)
  BY <1>1, <1>2, <1>4 DEF Pools
<1>6. PoolApart(WithEmpty(p, b))
  BY <1>3, <1>4 DEF PoolApart
<1>7. QED
  BY <1>3, <1>4, <1>5, <1>6

LEMMA FullGiven ==
    ASSUME NEW n, NEW p, p \in Pools(n), PoolApart(p), NEW b, b \in Ids(n),
           b \notin Range(p.empty), b \notin Range(p.full)
    PROVE  /\ WithFull(p, b) \in Pools(n) /\ PoolApart(WithFull(p, b))
           /\ WithFull(p, b).empty = p.empty
           /\ WithFull(p, b).full = Append(p.full, b)
           /\ Range(WithFull(p, b).full) = Range(p.full) \cup {b}
<1>1. p.empty \in Seq(Ids(n)) /\ p.full \in Seq(Ids(n))
  BY PoolParts
<1>2. WithFull(p, b) = [empty |-> p.empty, full |-> Append(p.full, b)]
  BY PoolCalls
<1>3. WithFull(p, b).empty = p.empty /\ WithFull(p, b).full = Append(p.full, b)
  BY <1>2
<1>4. /\ Append(p.full, b) \in Seq(Ids(n)) /\ IsInjective(Append(p.full, b))
      /\ Range(Append(p.full, b)) = Range(p.full) \cup {b}
  BY <1>1, AppendAdds DEF PoolApart
<1>5. WithFull(p, b) \in Pools(n)
  BY <1>1, <1>2, <1>4 DEF Pools
<1>6. PoolApart(WithFull(p, b))
  BY <1>3, <1>4 DEF PoolApart
<1>7. QED
  BY <1>3, <1>4, <1>5, <1>6

\* Without OSA_bufCreate, and after OSA_bufDelete, there is no id.
LEMMA NoPool ==
    ASSUME NEW n, NEW p, p = [empty |-> << >>, full |-> << >>]
    PROVE  p \in Pools(n) /\ PoolApart(p) /\ Range(p.empty) = {} /\ Range(p.full) = {}
<1>1. << >> \in Seq(Ids(n)) /\ DOMAIN << >> = {}
  BY EmptySeq
<1>2. p.empty = << >> /\ p.full = << >>
  OBVIOUS
<1>3. QED
  BY <1>1, <1>2 DEF Pools, PoolApart, IsInjective, Range

\* OSA_bufCreate queues each id once.
LEMMA FreshPool ==
    ASSUME NEW n, n \in Nat, NEW p, p = NewPool(n)
    PROVE  p \in Pools(n) /\ PoolApart(p) /\ Range(p.full) = {}
<1>1. << >> \in Seq(Ids(n)) /\ DOMAIN << >> = {}
  BY EmptySeq
<1>2. p = [empty |-> [i \in 1 .. n |-> i - 1], full |-> << >>]
  BY DEF NewPool
<1>3. p.empty = [i \in 1 .. n |-> i - 1] /\ p.full = << >>
  BY <1>2
<1>4. [i \in 1 .. n |-> i - 1] \in Seq(Ids(n))
  BY DEF Ids
<1>5. IsInjective(p.empty)
  BY <1>3 DEF IsInjective
<1>6. QED
  BY <1>1, <1>2, <1>3, <1>4, <1>5 DEF Pools, PoolApart, IsInjective, Range

-----------------------------------------------------------------------------
(* The client list *)

\* The walk starts at the first node,
LEMMA FirstIs ==
    ASSUME clientList \in Seq(Conns)
    PROVE  \/ FirstNode = NoConn
           \/ /\ 1 \in DOMAIN clientList /\ FirstNode = clientList[1]
              /\ FirstNode \in Conns /\ FirstNode \in Range(clientList)
<1>1. CASE clientList = << >>
  BY <1>1 DEF FirstNode
<1>2. CASE clientList # << >>
  <2>1. 1 \in DOMAIN clientList /\ Head(clientList) = clientList[1]
    BY <1>2, HeadTailProperties, LenProperties, EmptySeq
  <2>2. FirstNode = clientList[1]
    BY <1>2, <2>1 DEF FirstNode
  <2>3. clientList[1] \in Conns
    BY <2>1, ElementOfSeq, LenProperties
  <2>4. QED
    BY <2>1, <2>2, <2>3 DEF Range
<1>3. QED
  BY <1>1, <1>2

\* and goes on to the node behind.
LEMMA NextIs ==
    ASSUME clientList \in Seq(Conns), NEW c, c \in Range(clientList), IsInjective(clientList)
    PROVE  \/ NextNode(c) = NoConn
           \/ \E i \in DOMAIN clientList :
                 /\ i + 1 \in DOMAIN clientList
                 /\ clientList[i] = c /\ NextNode(c) = clientList[i + 1]
                 /\ NextNode(c) \in Conns /\ NextNode(c) \in Range(clientList)
<1>1. /\ Len(clientList) \in Nat /\ DOMAIN clientList = 1 .. Len(clientList)
      /\ \A i \in 1 .. Len(clientList) : clientList[i] \in Conns
  BY LenProperties, ElementOfSeq
<1>2. PICK k \in 1 .. Len(clientList) : clientList[k] = c
  BY <1>1 DEF Range
<1>3. CASE c = Last(clientList)
  BY <1>3 DEF NextNode
<1>4. CASE c # Last(clientList)
  <2>1. k # Len(clientList)
    BY <1>2, <1>4 DEF Last
  <2> DEFINE l == Len(clientList)
  <2>2. k + 1 \in 1 .. l /\ k + 1 > 1 /\ k + 1 - 1 = k
    <3>1. l \in Nat /\ k \in 1 .. l /\ k # l
      BY <1>1, <2>1
    <3> HIDE DEF l
    <3>2. QED
      BY <3>1
  <2> DEFINE n == CHOOSE i \in DOMAIN clientList : i > 1 /\ clientList[i - 1] = c
  <2>3. n \in DOMAIN clientList /\ n > 1 /\ clientList[n - 1] = c
    <3>1. k + 1 \in DOMAIN clientList /\ k + 1 > 1 /\ clientList[k + 1 - 1] = c
      BY <1>1, <1>2, <2>2
    <3>2. \E i \in DOMAIN clientList : i > 1 /\ clientList[i - 1] = c
      <4> USE <3>1
      <4> WITNESS k + 1 \in DOMAIN clientList
      <4>1. QED
        BY <3>1
    <3>3. QED
      BY <3>2, Zenon
  <2>4. NextNode(c) = clientList[n]
    BY <1>4 DEF NextNode
  <2> HIDE DEF n
  <2>5. n - 1 \in DOMAIN clientList /\ n - 1 + 1 = n
    BY <1>1, <2>3
  <2>6. clientList[n] \in Conns /\ clientList[n] \in Range(clientList)
    BY <1>1, <2>3 DEF Range
  <2>7. QED
    BY <2>3, <2>4, <2>5, <2>6
<1>5. QED
  BY <1>3, <1>4

-----------------------------------------------------------------------------
(* Whose steps change what *)

AppStep == AppSendBuf \/ AppPrintfInfo \/ AppDestory \/ App

LEMMA StepsAre ==
    ASSUME [Next]_vars
    PROVE  \/ UNCHANGED vars
           \/ Srv \/ AppStep \/ \E c \in Conns : Cli(c)
  BY DEF Next, AppStep

LEMMA SrvLeaves ==
    ASSUME Srv
    PROVE  UNCHANGED <<init_param, handle, clientList, nSize, unlisted, appVars, status, bufVars,
                       broken>>
  BY DEF Srv, SrvBind, SrvStart, SrvCheck, SrvAccept, SrvSize, SrvAdmit, SrvAbor,
         handleVars, appVars, cliVars, bufVars, sockVars

LEMMA AppLeaves ==
    ASSUME AppStep
    PROVE  UNCHANGED <<init_param, clientList, nSize, unlisted, srvVars, pc, status, sockVars, buf_id,
                       freed, sent>>
<1> USE DEF handleVars, srvVars, appVars, cliVars, bufVars, sockVars, Break
<1>1. CASE AppSendBuf \/ AppPrintfInfo \/ AppDestory
  BY <1>1 DEF AppSendBuf, AppPrintfInfo, AppDestory
<1>2. CASE AppUnlock \/ AppSkip \/ AppGetEmpty \/ AppAlloc \/ AppPutFull
  BY <1>2 DEF AppUnlock, AppSkip, AppGetEmpty, AppAlloc, AppPutFull
<1>3. CASE AppAssert
  BY <1>3 DEF AppAssert
<1>4. CASE AppCopy
  BY <1>4 DEF AppCopy
<1>5. CASE AppWalk
  BY <1>5 DEF AppWalk
<1>6. CASE AppDrained \/ AppFree
  BY <1>6 DEF AppDrained, AppFree
<1>7. QED
  BY <1>1, <1>2, <1>3, <1>4, <1>5, <1>6 DEF AppStep, App

LEMMA CliLeaves ==
    ASSUME NEW c \in Conns, Cli(c)
    PROVE  /\ UNCHANGED <<init_param, server_status, handle, srvVars, appVars, client_socket>>
           /\ pc[c] # "none"
<1> USE DEF handleVars, srvVars, appVars, cliVars, bufVars, sockVars, Break
<1>1. CASE CliInit(c) \/ CliPush(c) \/ CliLoop(c) \/ CliGet(c) \/ CliSend(c) \/ CliPutEmpty(c)
  BY <1>1 DEF CliInit, CliPush, PushBack, CliLoop, CliGet, CliSend, CliPutEmpty
<1>2. CASE CliTest(c) \/ CliFree(c) \/ CliClear(c) \/ CliRecv(c) \/ CliFail(c)
  BY <1>2 DEF CliTest, CliFree, CliClear, CliRecv, CliFail, Close
<1>3. CASE CliFreesWild(c) \/ CliErase(c) \/ CliClose(c) \/ CliDrain(c) \/ CliUsesFreed(c)
  BY <1>3 DEF CliFreesWild, CliErase, Erase, CliClose, Close, CliDrain, CliUsesFreed
<1>4. QED
  BY <1>1, <1>2, <1>3 DEF Cli

\* A client thread changes nothing of another client, its descriptor apart.
LEMMA CliLocal ==
    ASSUME TypeOK, NEW c \in Conns, Cli(c), NEW d \in Conns, d # c
    PROVE  /\ pc'[d] = pc[d] /\ status'[d] = status[d] /\ socket'[d] = socket[d]
           /\ buf_id'[d] = buf_id[d] /\ pool'[d] = pool[d] /\ data'[d] = data[d]
           /\ freed'[d] = freed[d] /\ sent'[d] = sent[d]
<1> USE DEF handleVars, srvVars, appVars, cliVars, bufVars, sockVars, Break, ToPc
<1>0. /\ d \in DOMAIN pc /\ d \in DOMAIN status /\ d \in DOMAIN socket /\ d \in DOMAIN buf_id
      /\ d \in DOMAIN pool /\ d \in DOMAIN data /\ d \in DOMAIN freed /\ d \in DOMAIN sent
  BY DEF TypeOK
<1>1. CASE CliInit(c) \/ CliPush(c) \/ CliLoop(c) \/ CliGet(c) \/ CliSend(c) \/ CliPutEmpty(c)
  BY <1>0, <1>1 DEF CliInit, CliPush, PushBack, CliLoop, CliGet, CliSend, CliPutEmpty
<1>2. CASE CliTest(c) \/ CliFree(c) \/ CliClear(c) \/ CliRecv(c) \/ CliFail(c)
  BY <1>0, <1>2 DEF CliTest, CliFree, CliClear, CliRecv, CliFail, Close
<1>3. CASE CliFreesWild(c) \/ CliErase(c) \/ CliClose(c) \/ CliDrain(c) \/ CliUsesFreed(c)
  BY <1>0, <1>3 DEF CliFreesWild, CliErase, Erase, CliClose, Close, CliDrain, CliUsesFreed
<1>4. QED
  BY <1>1, <1>2, <1>3 DEF Cli

\* The parameters of OSA_server_init stay.
LEMMA Settings ==
    ASSUME [Next]_vars
    PROVE  init_param' = init_param /\ NumBuf' = NumBuf
<1>1. init_param' = init_param
  BY StepsAre, SrvLeaves, AppLeaves, CliLeaves DEF vars, handleVars
<1>2. QED
  BY <1>1 DEF NumBuf

-----------------------------------------------------------------------------
IInv == /\ TypeOK /\ SrvInv /\ ListInv /\ SizeInv /\ StopInv /\ HandsInv
        /\ FreshInv /\ BlockInv /\ OrderInv /\ SockInv

LEMMA Starts == Init => IInv
<1> SUFFICES ASSUME Init PROVE IInv
  OBVIOUS
<1>1. /\ init_param \in Scenarios /\ NumBuf \in Nat \ {0} /\ MaxConns \in Nat /\ MaxFrames \in Nat
  BY Bounds DEF Init, NumBuf
<1>2. \A c \in Conns : /\ pool[c] = [empty |-> << >>, full |-> << >>]
                       /\ data[c] = [b \in Ids(NumBuf) |-> NULL]
                       /\ freed[c] = {} /\ sent[c] = 0 /\ pc[c] = "none"
  BY DEF Init
<1>3. \A c \in Conns : /\ pool[c] \in Pools(NumBuf) /\ PoolApart(pool[c])
                       /\ Range(pool[c].full) = {} /\ DOMAIN pool[c].full = {}
  BY <1>2, NoPool DEF PoolApart, Range
<1>4. clientList \in Seq(Conns) /\ DOMAIN clientList = {} /\ Range(clientList) = {}
  BY EmptySeq DEF Init, Range
<1>5. TypeOK
  <2>1. pool \in [Conns -> Pools(NumBuf)]
    BY <1>3 DEF Init
  <2>2. data \in [Conns -> [Ids(NumBuf) -> Frames \cup {NULL}]]
    BY DEF Init
  <2>3. /\ pc \in [Conns -> {"none", "init", "push", "loop", "get", "recv", "send", "putEmpty",
                           "test", "free", "clear", "fail", "erase", "close", "drain", "gone"}]
        /\ status \in [Conns -> {"CLIENT_CONNECT", "CLIENT_DISCONNECT"}]
    BY DEF Init
  <2>4. /\ socket \in [Conns -> Fds \cup {-1}] /\ client_socket \in [Conns -> Fds \cup {-1}]
        /\ buf_id \in [Conns -> Ids(NumBuf) \cup {OSA_BUF_ID_INVALID}]
        /\ freed \in [Conns -> SUBSET Frames] /\ fdOwner \in [Fds -> Conns \cup {NoConn}]
    BY DEF Init
  <2>5. /\ sent \in [Conns -> 0 .. MaxFrames] /\ srvConn \in 0 .. MaxConns
        /\ client_size \in Nat /\ frame \in 0 .. MaxFrames /\ nSize \in Nat
        /\ unlisted \in SUBSET Conns /\ struck \in SUBSET Conns
    BY <1>1 DEF Init, NoConn
  <2>6. /\ init_param \in Scenarios /\ clientList \in Seq(Conns)
        /\ server_status = "SERVER_STAR" /\ handle = "live" /\ srvPc = "bind" /\ appPc = "idle"
        /\ appAt = NoConn /\ appBuf = OSA_BUF_ID_INVALID /\ broken = "no"
    BY <1>1, <1>4 DEF Init
  <2>7. QED
    BY <2>1, <2>2, <2>3, <2>4, <2>5, <2>6 DEF TypeOK
<1>6. SrvInv
  BY <1>1 DEF Init, SrvInv
<1>7. ListInv /\ SizeInv
  BY <1>4, EmptySeq DEF Init, ListInv, SizeInv, FillSteps, Served, Busy, IsInjective
<1>8. StopInv
  BY DEF Init, StopInv
<1>9. HandsInv
  BY <1>3 DEF Init, HandsInv, FillSteps, Sending, Filling
<1>10. FreshInv
  BY <1>2 DEF Init, FreshInv, Older, Ahead, FillSteps, NULL
<1>11. BlockInv
  BY <1>2 DEF BlockInv, BlocksOwn
<1>12. OrderInv
  BY <1>2, <1>3 DEF Init, OrderInv, InOrder, Filling, FillSteps
<1>13. SockInv
  BY DEF Init, SockInv, SockSteps, Active, Connected, Busy
<1>14. QED
  BY <1>5, <1>6, <1>7, <1>8, <1>9, <1>10, <1>11, <1>12, <1>13 DEF IInv

-----------------------------------------------------------------------------
(* Types *)

LEMMA BlockTypes ==
    ASSUME TypeOK
    PROVE  \A c \in Conns : \A b \in Ids(NumBuf) : data[c][b] \in Frames \cup {NULL}
<1>1. ASSUME NEW c \in Conns PROVE data[c] \in [Ids(NumBuf) -> Frames \cup {NULL}]
  BY DEF TypeOK
<1>2. QED
  BY <1>1

LEMMA SrvTypes ==
    ASSUME IInv, Srv
    PROVE  TypeOK'
<1> USE DEF IInv
<1>1. /\ init_param \in Scenarios /\ init_param' = init_param /\ NumBuf' = NumBuf
      /\ UNCHANGED <<handle, clientList, nSize, unlisted, appPc, appAt, appBuf, frame, status,
                     buf_id, pool, data, freed, sent, broken>>
  BY SrvLeaves DEF TypeOK, NumBuf, appVars, bufVars
<1>2. MaxConns \in Nat /\ init_param.peers \in Nat /\ init_param.peers <= MaxConns
  BY <1>1, Bounds
<1>3. CASE SrvBind \/ SrvStart \/ SrvCheck \/ SrvAbor
  <2>1. UNCHANGED <<srvConn, client_size, pc, socket, client_socket, fdOwner, struck>>
    BY <1>3 DEF SrvBind, SrvStart, SrvCheck, SrvAbor, cliVars, sockVars
  <2>2. /\ server_status' \in {"SERVER_STAR", "SERVER_STOP", "SERVER_ABOR"}
        /\ srvPc' \in {"bind", "start", "dead", "check", "accept", "size", "admit", "abor", "done"}
    BY <1>3 DEF TypeOK, SrvBind, SrvStart, SrvCheck, SrvAbor, handleVars
  <2>3. QED
    BY <1>1, <2>1, <2>2 DEF TypeOK
<1>4. CASE SrvAccept
  <2>1. /\ UNCHANGED <<server_status, client_size, pc, socket, struck>>
        /\ srvPc' \in {"check", "size"}
        /\ srvPc' \in {"bind", "start", "dead", "check", "accept", "size", "admit", "abor", "done"}
    BY <1>4 DEF SrvAccept, handleVars
  <2>2. CASE UNCHANGED <<srvConn, client_socket, fdOwner>>
    <3>1. srvConn' = srvConn /\ client_socket' = client_socket /\ fdOwner' = fdOwner
      BY <2>2
    <3>2. /\ srvConn' \in 0 .. MaxConns /\ client_socket' \in [Conns -> Fds \cup {-1}]
          /\ fdOwner' \in [Fds -> Conns \cup {NoConn}]
      BY <3>1 DEF TypeOK
    <3>3. QED
      BY <1>1, <2>1, <3>2 DEF TypeOK
  <2>3. CASE ~UNCHANGED <<srvConn, client_socket, fdOwner>>
    <3>1. PICK f \in Fds :
             /\ srvConn < init_param.peers /\ srvConn' = srvConn + 1
             /\ fdOwner' = [fdOwner EXCEPT ![f] = srvConn + 1]
             /\ client_socket' = [client_socket EXCEPT ![srvConn + 1] = f]
      BY <1>4, <2>3 DEF SrvAccept
    <3>2. srvConn + 1 \in Conns /\ srvConn + 1 \in 0 .. MaxConns
      <4>1. srvConn \in 0 .. MaxConns
        BY DEF TypeOK
      <4>2. QED
        BY <1>2, <3>1, <4>1 DEF Conns
    <3>3. /\ fdOwner' \in [Fds -> Conns \cup {NoConn}]
          /\ client_socket' \in [Conns -> Fds \cup {-1}]
      BY <3>1, <3>2 DEF TypeOK
    <3>4. srvConn' \in 0 .. MaxConns
      BY <3>1, <3>2
    <3>5. QED
      BY <1>1, <2>1, <3>3, <3>4 DEF TypeOK
  <2>4. QED
    BY <2>2, <2>3
<1>5. CASE SrvSize
  <2>1. /\ UNCHANGED <<server_status, srvConn, pc, socket, client_socket, fdOwner, struck>>
        /\ srvPc' = "admit" /\ client_size' = nSize
    BY <1>5 DEF SrvSize, handleVars, cliVars, sockVars
  <2>2. client_size' \in Nat
    BY <2>1 DEF TypeOK
  <2>3. QED
    BY <1>1, <2>1, <2>2 DEF TypeOK
<1>6. CASE SrvAdmit
  <2>1. /\ UNCHANGED <<server_status, srvConn, client_size, client_socket, fdOwner, struck>>
        /\ srvPc' = "check" /\ srvConn \in Conns
        /\ \/ /\ pc' = [pc EXCEPT ![srvConn] = "init"]
              /\ socket' = [socket EXCEPT ![srvConn] = client_socket[srvConn]]
           \/ UNCHANGED <<pc, socket>>
    BY <1>6 DEF SrvAdmit, handleVars, SrvInv
  <2>2. /\ pc' \in [Conns -> {"none", "init", "push", "loop", "get", "recv", "send", "putEmpty",
                              "test", "free", "clear", "fail", "erase", "close", "drain", "gone"}]
        /\ socket' \in [Conns -> Fds \cup {-1}]
    BY <2>1 DEF TypeOK
  <2>3. QED
    BY <1>1, <2>1, <2>2 DEF TypeOK
<1>7. QED
  BY <1>3, <1>4, <1>5, <1>6 DEF Srv

LEMMA AppTypes ==
    ASSUME IInv, AppStep
    PROVE  TypeOK'
<1> USE DEF IInv
<1>1. /\ init_param \in Scenarios /\ init_param' = init_param /\ NumBuf' = NumBuf
      /\ UNCHANGED <<clientList, nSize, unlisted, srvPc, srvConn, client_size, pc, status, socket,
                     client_socket, fdOwner, struck, buf_id, freed, sent>>
  BY AppLeaves DEF TypeOK, NumBuf, srvVars, sockVars
<1>2. MaxFrames \in Nat /\ init_param.frames \in Nat /\ init_param.frames <= MaxFrames
  BY <1>1, Bounds
<1> DEFINE Typed ==
            /\ server_status \in {"SERVER_STAR", "SERVER_STOP", "SERVER_ABOR"}
            /\ handle \in {"live", "freed"}
            /\ appPc \in {"idle", "walk", "drainWait", "aborWait", "done"} \cup FillSteps
            /\ appAt \in Conns \cup {NoConn} /\ frame \in 0 .. MaxFrames
            /\ appBuf \in Ids(NumBuf) \cup {OSA_BUF_ID_INVALID}
            /\ pool \in [Conns -> Pools(NumBuf)]
            /\ data \in [Conns -> [Ids(NumBuf) -> Frames \cup {NULL}]]
            /\ broken \in {"no", "assertion", "NULL store", "NULL node", "freed block", "freed node",
                            "freed handle", "wild free"}
<1>12. Typed
  BY DEF TypeOK
<1>13. Typed' => TypeOK'
  BY <1>1 DEF TypeOK
<1>3. /\ FirstNode \in Conns \cup {NoConn}
      /\ appAt \in Range(clientList) => NextNode(appAt) \in Conns \cup {NoConn}
  BY FirstIs, NextIs DEF TypeOK, ListInv
<1>4. CASE UNCHANGED <<frame, appBuf, pool, data>> /\ appAt' = appAt
  <2>1. /\ server_status' \in {"SERVER_STAR", "SERVER_STOP", "SERVER_ABOR"}
        /\ handle' \in {"live", "freed"}
        /\ appPc' \in {"idle", "walk", "drainWait", "aborWait", "done"} \cup FillSteps
        /\ broken' \in {"no", "assertion", "NULL store", "NULL node", "freed block", "freed node",
                        "freed handle", "wild free"}
    <3> USE DEF TypeOK, handleVars, appVars, cliVars, bufVars, Break, FillSteps
    <3>1. CASE AppSendBuf \/ AppPrintfInfo \/ AppDestory \/ AppUnlock \/ AppSkip \/ AppGetEmpty
      BY <3>1 DEF AppSendBuf, AppPrintfInfo, AppDestory, AppUnlock, AppSkip, AppGetEmpty
    <3>2. CASE AppAlloc \/ AppPutFull \/ AppDrained \/ AppFree
      BY <3>2 DEF AppAlloc, AppPutFull, AppDrained, AppFree
    <3>3. CASE AppAssert \/ AppCopy
      BY <3>3 DEF AppAssert, AppCopy
    <3>4. CASE AppWalk
      BY <3>4 DEF AppWalk
    <3>5. QED
      BY <3>1, <3>2, <3>3, <3>4 DEF AppStep, App
  <2>2. QED
    BY <1>1, <1>12, <1>13, <1>4, <2>1
<1>5. CASE AppSendBuf \/ AppPrintfInfo
  <2>1. /\ UNCHANGED <<server_status, handle, appBuf, pool, data, broken>>
        /\ appPc' \in {"fill", "walk"} /\ appAt' = FirstNode
        /\ frame' = frame \/ (frame < init_param.frames /\ frame' = frame + 1)
    BY <1>5 DEF AppSendBuf, AppPrintfInfo, handleVars, appVars, cliVars, bufVars
  <2>2. frame' \in 0 .. MaxFrames
    <3>1. frame \in 0 .. MaxFrames
      BY DEF TypeOK
    <3>2. QED
      BY <1>2, <2>1, <3>1
  <2>3. /\ appPc' \in {"idle", "walk", "drainWait", "aborWait", "done"} \cup FillSteps
        /\ appAt' \in Conns \cup {NoConn}
    BY <1>3, <2>1 DEF FillSteps
  <2>4. QED
    BY <1>1, <1>12, <1>13, <2>1, <2>2, <2>3
<1>6. CASE AppSkip \/ (AppWalk /\ appAt' # appAt)
  <2>1. /\ UNCHANGED <<server_status, handle, appBuf, frame, appPc, pool, data, broken>>
        /\ appAt' = NextNode(appAt) /\ appAt \in Range(clientList)
    <3>1. CASE AppSkip
      BY <3>1 DEF AppSkip, ListInv, FillSteps, handleVars, cliVars, bufVars
    <3>2. CASE AppWalk /\ appAt' # appAt
      BY <3>2 DEF AppWalk, Listed, Range, Break, handleVars, appVars, cliVars, bufVars
    <3>3. QED
      BY <1>6, <3>1, <3>2
  <2>2. appAt' \in Conns \cup {NoConn}
    BY <1>3, <2>1
  <2>3. QED
    BY <1>1, <1>12, <1>13, <2>1, <2>2
<1>7. CASE AppGetEmpty
  <2>1. /\ UNCHANGED <<server_status, handle, appAt, frame, data, broken>>
        /\ appPc' = "alloc" /\ appAt \in Conns /\ pool[appAt].empty # << >>
        /\ appBuf' = Head(pool[appAt].empty)
        /\ pool' = [pool EXCEPT ![appAt] = LessEmpty(pool[appAt])]
    BY <1>7 DEF AppGetEmpty, TypeOK, handleVars
  <2>2. pool[appAt] \in Pools(NumBuf) /\ PoolApart(pool[appAt])
    BY <2>1 DEF TypeOK, HandsInv
  <2>3. LessEmpty(pool[appAt]) \in Pools(NumBuf) /\ appBuf' \in Ids(NumBuf)
    BY <2>1, <2>2, EmptyTaken
  <2>4. pool' \in [Conns -> Pools(NumBuf)]
    BY <2>1, <2>3 DEF TypeOK
  <2>5. /\ appPc' \in {"idle", "walk", "drainWait", "aborWait", "done"} \cup FillSteps
        /\ appBuf' \in Ids(NumBuf) \cup {OSA_BUF_ID_INVALID}
    BY <2>1, <2>3 DEF FillSteps
  <2>6. QED
    BY <1>1, <1>12, <1>13, <2>1, <2>4, <2>5
<1>8. CASE AppAlloc
  <2>1. /\ UNCHANGED <<server_status, handle, appAt, appBuf, frame, pool, broken>>
        /\ appPc' = "assert" /\ data' = [data EXCEPT ![appAt][appBuf] = frame]
    BY <1>8 DEF AppAlloc, handleVars
  <2>2. frame \in Frames
    <3>1. frame \in 0 .. MaxFrames /\ frame >= 1
      BY <1>8 DEF AppAlloc, TypeOK, HandsInv, FillSteps
    <3>2. QED
      BY <1>2, <3>1 DEF Frames
  <2>3. data' \in [Conns -> [Ids(NumBuf) -> Frames \cup {NULL}]]
    BY <2>1, <2>2 DEF TypeOK
  <2>4. appPc' \in {"idle", "walk", "drainWait", "aborWait", "done"} \cup FillSteps
    BY <2>1 DEF FillSteps
  <2>5. QED
    BY <1>1, <1>12, <1>13, <2>1, <2>3, <2>4
<1>9. CASE AppPutFull
  <2>1. /\ UNCHANGED <<server_status, handle, frame, data, broken>>
        /\ appPc = "put" /\ appPc' = "fill" /\ appAt' = NextNode(appAt)
        /\ appBuf' = OSA_BUF_ID_INVALID
        /\ pool' = [pool EXCEPT ![appAt] = WithFull(pool[appAt], appBuf)]
    BY <1>9 DEF AppPutFull, handleVars
  <2>2. appAt \in Conns /\ appBuf \in Ids(NumBuf) /\ appAt \in Range(clientList)
    BY <2>1 DEF TypeOK, HandsInv, ListInv, FillSteps
  <2>3. /\ pool[appAt] \in Pools(NumBuf) /\ PoolApart(pool[appAt])
        /\ appBuf \notin Range(pool[appAt].empty) /\ appBuf \notin Range(pool[appAt].full)
    BY <2>1, <2>2 DEF TypeOK, HandsInv, Filling, FillSteps
  <2>4. WithFull(pool[appAt], appBuf) \in Pools(NumBuf)
    BY <2>2, <2>3, FullGiven
  <2>5. pool' \in [Conns -> Pools(NumBuf)]
    BY <2>1, <2>2, <2>4 DEF TypeOK
  <2>6. /\ appPc' \in {"idle", "walk", "drainWait", "aborWait", "done"} \cup FillSteps
        /\ appBuf' \in Ids(NumBuf) \cup {OSA_BUF_ID_INVALID} /\ appAt' \in Conns \cup {NoConn}
    BY <1>3, <2>1, <2>2 DEF FillSteps
  <2>7. QED
    BY <1>1, <1>12, <1>13, <2>1, <2>5, <2>6
<1>10. CASE AppDestory \/ AppUnlock \/ AppAssert \/ AppCopy \/ AppDrained \/ AppFree
            \/ (AppWalk /\ appAt' = appAt)
  <2>1. UNCHANGED <<frame, appBuf, pool, data>> /\ appAt' = appAt
    BY <1>10 DEF AppDestory, AppUnlock, AppAssert, AppCopy, AppDrained, AppFree, AppWalk, Break,
                 appVars, cliVars, bufVars
  <2>2. QED
    BY <1>4, <2>1
<1>11. QED
  BY <1>5, <1>6, <1>7, <1>8, <1>9, <1>10 DEF AppStep, App

\* Closing leaves the table of descriptors a table.
LEMMA CloseTyped ==
    ASSUME NEW c \in Conns, Close(c), client_socket[c] \in Fds, struck \in SUBSET Conns,
           fdOwner \in [Fds -> Conns \cup {NoConn}]
    PROVE  struck' \in SUBSET Conns /\ fdOwner' \in [Fds -> Conns \cup {NoConn}]
  BY DEF Close

\* Taking a client off the list, in it or not, keeps the size above its length.
LEMMA EraseSizes ==
    ASSUME NEW c \in Conns, Erase(c), clientList \in Seq(Conns), IsInjective(clientList),
           nSize \in Nat, Len(clientList) <= nSize
    PROVE  /\ nSize' \in Nat /\ Len(clientList') <= nSize'
           /\ nSize = Len(clientList) => nSize' = Len(clientList')
<1>1. Len(clientList) \in Nat /\ DOMAIN clientList = 1 .. Len(clientList)
  BY LenProperties
<1>2. Len(clientList') = IF c \in Range(clientList) THEN Len(clientList) - 1 ELSE Len(clientList)
  BY RemoveTakesOut DEF Erase
<1>3. nSize' = IF c \in Range(clientList) THEN nSize - 1 ELSE nSize
  BY <1>1 DEF Erase, Contains, Range
<1>4. c \in Range(clientList) => Len(clientList) >= 1
  BY <1>1 DEF Range
<1>5. \A m, n, k \in Nat : m <= n /\ k >= 1 /\ m >= k
                            => n - 1 \in Nat /\ m - 1 <= n - 1 /\ (n = m => n - 1 = m - 1)
  OBVIOUS
<1>6. CASE c \in Range(clientList)
  <2>1. Len(clientList') = Len(clientList) - 1 /\ nSize' = nSize - 1 /\ 1 \in Nat
    BY <1>2, <1>3, <1>6
  <2>2. nSize - 1 \in Nat /\ Len(clientList) - 1 <= nSize - 1
    BY <1>1, <1>4, <1>5, <1>6
  <2>3. QED
    BY <2>1, <2>2
<1>7. CASE c \notin Range(clientList)
  BY <1>1, <1>2, <1>3, <1>7
<1>8. QED
  BY <1>6, <1>7

LEMMA CliTypes ==
    ASSUME IInv, NEW c \in Conns, Cli(c)
    PROVE  TypeOK'
<1> USE DEF IInv
<1> DEFINE Typed ==
            /\ clientList \in Seq(Conns) /\ nSize \in Nat /\ unlisted \in SUBSET Conns
            /\ pc \in [Conns -> {"none", "init", "push", "loop", "get", "recv", "send", "putEmpty",
                                 "test", "free", "clear", "fail", "erase", "close", "drain", "gone"}]
            /\ socket \in [Conns -> Fds \cup {-1}]
            /\ status \in [Conns -> {"CLIENT_CONNECT", "CLIENT_DISCONNECT"}]
            /\ buf_id \in [Conns -> Ids(NumBuf) \cup {OSA_BUF_ID_INVALID}]
            /\ pool \in [Conns -> Pools(NumBuf)]
            /\ data \in [Conns -> [Ids(NumBuf) -> Frames \cup {NULL}]]
            /\ freed \in [Conns -> SUBSET Frames]
            /\ sent \in [Conns -> 0 .. MaxFrames]
            /\ fdOwner \in [Fds -> Conns \cup {NoConn}] /\ struck \in SUBSET Conns
            /\ broken \in {"no", "assertion", "NULL store", "NULL node", "freed block", "freed node",
                           "freed handle", "wild free"}
<1>1. /\ init_param \in Scenarios /\ init_param' = init_param /\ NumBuf' = NumBuf
      /\ UNCHANGED <<server_status, handle, srvPc, srvConn, client_size, appPc, appAt, appBuf,
                     frame, client_socket>>
  BY CliLeaves DEF TypeOK, NumBuf, srvVars, appVars
<1>2. Typed
  BY DEF TypeOK
<1>3. Typed' => TypeOK'
  BY <1>1 DEF TypeOK
<1>4. MaxFrames \in Nat /\ NumBuf \in Nat
  BY <1>1, Bounds DEF NumBuf
<1> USE DEF ToPc, handleVars, cliVars, sockVars, bufVars
<1>5. CASE CliInit(c)
  <2>1. NewPool(NumBuf) \in Pools(NumBuf)
    BY <1>4, FreshPool
  <2>2. pool' = pool \/ pool' = [pool EXCEPT ![c] = NewPool(NumBuf)]
    BY <1>5 DEF CliInit
  <2>3. pool' \in [Conns -> Pools(NumBuf)]
    BY <1>2, <2>1, <2>2
  <2>4. QED
    BY <1>1, <1>2, <1>3, <1>5, <2>3 DEF CliInit
<1>6. CASE CliPush(c)
  <2>1. /\ Append(clientList, c) \in Seq(Conns) /\ unlisted \cup {c} \in SUBSET Conns
        /\ nSize + 1 \in Nat
    <3>1. clientList \in Seq(Conns) /\ nSize \in Nat /\ unlisted \in SUBSET Conns
      BY <1>2
    <3>2. nSize + 1 \in Nat /\ unlisted \cup {c} \in SUBSET Conns
      BY <3>1
    <3>3. QED
      BY <3>1, <3>2, AppendProperties
  <2>2. CASE Break("NULL node")
    BY <1>1, <1>2, <1>3, <2>2 DEF Break
  <2>3. CASE ~Break("NULL node")
    BY <1>1, <1>2, <1>3, <1>6, <2>1, <2>3 DEF CliPush, PushBack
  <2>4. QED
    BY <2>2, <2>3
<1>7. CASE CliLoop(c)
  BY <1>1, <1>2, <1>3, <1>7 DEF CliLoop
<1>8. CASE CliGet(c)
  <2>1. pool[c] \in Pools(NumBuf) /\ PoolApart(pool[c]) /\ pool[c].full # << >>
    BY <1>2, <1>8 DEF CliGet, HandsInv
  <2>2. LessFull(pool[c]) \in Pools(NumBuf) /\ Head(pool[c].full) \in Ids(NumBuf)
    BY <2>1, FullTaken
  <2>3. QED
    BY <1>1, <1>2, <1>3, <1>8, <2>2 DEF CliGet
<1>9. CASE CliSend(c)
  <2>1. buf_id[c] \in Ids(NumBuf)
    BY <1>9 DEF CliSend, HandsInv
  <2>2. data[c][buf_id[c]] # NULL => data[c][buf_id[c]] \in 0 .. MaxFrames
    <3>1. data[c][buf_id[c]] \in Frames \cup {NULL}
      BY <2>1, BlockTypes
    <3>2. QED
      BY <1>4, <3>1 DEF Frames
  <2>3. sent' \in [Conns -> 0 .. MaxFrames]
    BY <1>2, <1>9, <2>2 DEF CliSend
  <2>4. QED
    BY <1>1, <1>2, <1>3, <1>9, <2>3 DEF CliSend
<1>10. CASE CliPutEmpty(c)
  <2>1. /\ pool[c] \in Pools(NumBuf) /\ PoolApart(pool[c]) /\ buf_id[c] \in Ids(NumBuf)
        /\ buf_id[c] \notin Range(pool[c].empty) /\ buf_id[c] \notin Range(pool[c].full)
    BY <1>2, <1>10 DEF CliPutEmpty, HandsInv, Sending
  <2>2. WithEmpty(pool[c], buf_id[c]) \in Pools(NumBuf)
    BY <2>1, EmptyGiven
  <2>3. QED
    BY <1>1, <1>2, <1>3, <1>10, <2>2 DEF CliPutEmpty
<1>11. CASE CliTest(c) \/ CliRecv(c)
  BY <1>1, <1>2, <1>3, <1>11 DEF CliTest, CliRecv
<1>12. CASE CliFree(c)
  <2>1. buf_id[c] \in Ids(NumBuf) /\ data[c][buf_id[c]] # NULL
    BY <1>12 DEF CliFree, HandsInv, BlockInv, BlocksOwn
  <2>2. data[c][buf_id[c]] \in Frames
    BY <2>1, BlockTypes
  <2>3. freed' \in [Conns -> SUBSET Frames]
    BY <1>2, <1>12, <2>2 DEF CliFree
  <2>4. QED
    BY <1>1, <1>2, <1>3, <1>12, <2>3 DEF CliFree
<1>13. CASE CliClear(c)
  BY <1>1, <1>2, <1>3, <1>13 DEF CliClear
<1>14. CASE CliFail(c)
  <2>1. pc[c] = "fail"
    BY <1>14 DEF CliFail
  <2>2. struck' \in SUBSET Conns /\ fdOwner' \in [Fds -> Conns \cup {NoConn}]
    BY <1>2, <1>14, <2>1, CloseTyped DEF CliFail, SockInv, Active, SockSteps
  <2>3. QED
    BY <1>1, <1>2, <1>3, <1>14, <2>2 DEF CliFail
<1>15. CASE CliErase(c)
  <2>1. RemoveFirst(clientList, c) \in Seq(Conns)
    BY <1>2, RemoveTakesOut DEF ListInv
  <2>2. nSize' \in Nat
    BY <1>15, EraseSizes DEF CliErase, ListInv, SizeInv, TypeOK
  <2>3. QED
    BY <1>1, <1>2, <1>3, <1>15, <2>1, <2>2 DEF CliErase, Erase
<1>16. CASE CliClose(c)
  <2>1. pc[c] = "close"
    BY <1>16 DEF CliClose
  <2>2. struck' \in SUBSET Conns /\ fdOwner' \in [Fds -> Conns \cup {NoConn}]
    BY <1>2, <1>16, <2>1, CloseTyped DEF CliClose, SockInv, Active, SockSteps
  <2>3. QED
    BY <1>1, <1>2, <1>3, <1>16, <2>2 DEF CliClose
<1>17. CASE CliDrain(c)
  <2> DEFINE left == {data[c][pool[c].full[i]] : i \in DOMAIN pool[c].full} \ {NULL}
  <2>1. left \subseteq Frames
    <3>1. \A i \in DOMAIN pool[c].full : pool[c].full[i] \in Ids(NumBuf)
      <4>1. pool[c] \in Pools(NumBuf)
        BY <1>2
      <4>2. pool[c].full \in Seq(Ids(NumBuf))
        BY <4>1 DEF Pools
      <4>3. QED
        BY <4>2, ElementOfSeq, LenProperties
    <3>2. QED
      BY <3>1, BlockTypes
  <2>2. freed' = [freed EXCEPT ![c] = freed[c] \cup left]
    BY <1>17 DEF CliDrain
  <2>3. freed' \in [Conns -> SUBSET Frames]
    <3> HIDE DEF left
    <3>1. QED
      BY <1>2, <2>1, <2>2
  <2>4. [empty |-> << >>, full |-> << >>] \in Pools(NumBuf)
    BY NoPool
  <2>5. pool' \in [Conns -> Pools(NumBuf)]
    BY <1>2, <1>17, <2>4 DEF CliDrain
  <2>6. data' \in [Conns -> [Ids(NumBuf) -> Frames \cup {NULL}]]
    BY <1>2, <1>17 DEF CliDrain
  <2>7. QED
    BY <1>1, <1>2, <1>3, <1>17, <2>3, <2>5, <2>6 DEF CliDrain
<1>18. CASE CliFreesWild(c) \/ CliUsesFreed(c)
  BY <1>1, <1>2, <1>3, <1>18 DEF CliFreesWild, CliUsesFreed, Break
<1>19. QED
  BY <1>5, <1>6, <1>7, <1>8, <1>9, <1>10, <1>11, <1>12, <1>13, <1>14, <1>15, <1>16, <1>17,
     <1>18 DEF Cli

LEMMA TypesKept ==
    ASSUME IInv, [Next]_vars
    PROVE  TypeOK'
<1>1. CASE UNCHANGED vars
  <2>1. NumBuf' = NumBuf /\ UNCHANGED <<handleVars, srvVars, appVars, cliVars, broken>>
    BY <1>1, Settings DEF vars
  <2>2. /\ UNCHANGED <<init_param, server_status, handle, clientList, srvPc, srvConn, client_size>>
        /\ UNCHANGED <<appPc, appAt, appBuf, frame, pc, status, socket, client_socket, fdOwner>>
        /\ UNCHANGED <<nSize, unlisted, struck>>
        /\ UNCHANGED <<buf_id, pool, data, freed, sent, broken>>
    BY <2>1 DEF handleVars, srvVars, appVars, cliVars, sockVars, bufVars
  <2>3. TypeOK
    BY DEF IInv
  <2>4. /\ init_param' \in Scenarios
        /\ server_status' \in {"SERVER_STAR", "SERVER_STOP", "SERVER_ABOR"}
        /\ handle' \in {"live", "freed"} /\ clientList' \in Seq(Conns)
        /\ srvPc' \in {"bind", "start", "dead", "check", "accept", "size", "admit", "abor", "done"}
        /\ srvConn' \in 0 .. MaxConns /\ client_size' \in Nat
        /\ nSize' \in Nat /\ unlisted' \in SUBSET Conns /\ struck' \in SUBSET Conns
    BY <2>2, <2>3 DEF TypeOK
  <2>5. /\ appPc' \in {"idle", "walk", "drainWait", "aborWait", "done"} \cup FillSteps
        /\ appAt' \in Conns \cup {NoConn} /\ frame' \in 0 .. MaxFrames
        /\ appBuf' \in Ids(NumBuf) \cup {OSA_BUF_ID_INVALID}
        /\ pc' \in [Conns -> {"none", "init", "push", "loop", "get", "recv", "send", "putEmpty",
                              "test", "free", "clear", "fail", "erase", "close", "drain", "gone"}]
    BY <2>2, <2>3 DEF TypeOK
  <2>6. /\ socket' \in [Conns -> Fds \cup {-1}] /\ client_socket' \in [Conns -> Fds \cup {-1}]
        /\ status' \in [Conns -> {"CLIENT_CONNECT", "CLIENT_DISCONNECT"}]
        /\ fdOwner' \in [Fds -> Conns \cup {NoConn}]
    BY <2>2, <2>3 DEF TypeOK
  <2>7. /\ buf_id' \in [Conns -> Ids(NumBuf) \cup {OSA_BUF_ID_INVALID}]
        /\ pool' \in [Conns -> Pools(NumBuf)]
        /\ data' \in [Conns -> [Ids(NumBuf) -> Frames \cup {NULL}]]
        /\ freed' \in [Conns -> SUBSET Frames] /\ sent' \in [Conns -> 0 .. MaxFrames]
        /\ broken' \in {"no", "assertion", "NULL store", "NULL node", "freed block", "freed node",
                        "freed handle", "wild free"}
    BY <2>2, <2>3 DEF TypeOK
  <2>8. QED
    BY <2>1, <2>4, <2>5, <2>6, <2>7 DEF TypeOK
<1>2. QED
  BY <1>1, StepsAre, SrvTypes, AppTypes, CliTypes

-----------------------------------------------------------------------------
(* The accepting thread, the list, and the end of the server *)

LEMMA SrvKept ==
    ASSUME IInv, [Next]_vars
    PROVE  SrvInv'
<1> USE DEF IInv
<1>1. CASE UNCHANGED vars
  BY <1>1 DEF SrvInv, vars, handleVars, srvVars, appVars, cliVars
<1>2. CASE Srv
  <2>1. UNCHANGED <<appPc, appAt>>
    BY <1>2, SrvLeaves DEF appVars
  <2>2. CASE SrvBind \/ SrvStart \/ SrvCheck \/ SrvAbor
    BY <2>1, <2>2 DEF SrvBind, SrvStart, SrvCheck, SrvAbor, SrvInv, handleVars, cliVars
  <2>3. CASE SrvAccept
    <3>1. UNCHANGED <<pc, server_status>> /\ srvPc = "accept" /\ srvPc' \in {"check", "size"}
      BY <2>3 DEF SrvAccept, handleVars
    <3>2. CASE srvPc' = "check" /\ srvConn' = srvConn
      BY <2>1, <3>1, <3>2 DEF SrvInv
    <3>3. CASE srvConn < init_param.peers /\ srvConn' = srvConn + 1
      <4>1. /\ MaxConns \in Nat /\ init_param.peers \in Nat /\ init_param.peers <= MaxConns
            /\ srvConn \in 0 .. MaxConns
        BY Bounds DEF TypeOK
      <4>2. srvConn' \in Conns /\ srvConn' > srvConn
        BY <3>3, <4>1 DEF Conns
      <4>3. \A d \in Conns : d > srvConn' => d > srvConn
        BY <3>3, <4>1 DEF Conns
      <4>4. QED
        BY <2>1, <3>1, <4>2, <4>3 DEF SrvInv
    <3>4. QED
      BY <2>3, <3>2, <3>3 DEF SrvAccept
  <2>4. CASE SrvSize
    BY <2>1, <2>4 DEF SrvSize, SrvInv, handleVars, cliVars
  <2>5. CASE SrvAdmit
    <3>1. /\ UNCHANGED <<server_status, srvConn>> /\ srvPc = "admit" /\ srvPc' = "check"
          /\ pc' = [pc EXCEPT ![srvConn] = "init"] \/ pc' = pc
      BY <2>5 DEF SrvAdmit, handleVars
    <3>2. \A d \in Conns : d > srvConn => pc'[d] = pc[d]
      <4>1. srvConn \in Int /\ \A d \in Conns : d > srvConn => d # srvConn
        <5>1. srvConn \in 0 .. MaxConns /\ MaxConns \in Nat
          BY Bounds DEF TypeOK
        <5>2. QED
          BY <5>1 DEF Conns
      <4>2. QED
        BY <3>1, <4>1 DEF TypeOK
    <3>3. QED
      BY <2>1, <3>1, <3>2 DEF SrvInv
  <2>6. QED
    BY <1>2, <2>2, <2>3, <2>4, <2>5 DEF Srv
<1>3. CASE AppStep
  <2>1. UNCHANGED <<srvPc, srvConn, pc>>
    BY <1>3, AppLeaves DEF srvVars
  <2>2. server_status' = "SERVER_ABOR" => server_status = "SERVER_ABOR"
    <3> USE DEF handleVars, Break
    <3>1. CASE AppSendBuf \/ AppPrintfInfo \/ AppDestory \/ AppUnlock \/ AppSkip
      BY <3>1 DEF AppSendBuf, AppPrintfInfo, AppDestory, AppUnlock, AppSkip
    <3>2. CASE AppGetEmpty \/ AppAlloc \/ AppPutFull \/ AppDrained \/ AppFree
      BY <3>2 DEF AppGetEmpty, AppAlloc, AppPutFull, AppDrained, AppFree
    <3>3. CASE AppAssert \/ AppCopy \/ AppWalk
      BY <3>3 DEF AppAssert, AppCopy, AppWalk
    <3>4. QED
      BY <1>3, <3>1, <3>2, <3>3 DEF AppStep, App
  <2>3. QED
    BY <2>1, <2>2 DEF SrvInv
<1>4. CASE \E c \in Conns : Cli(c)
  <2>1. PICK c \in Conns : Cli(c)
    BY <1>4
  <2>2. UNCHANGED <<server_status, srvPc, srvConn, appPc>> /\ pc[c] # "none"
    BY <2>1, CliLeaves DEF srvVars, appVars
  <2>3. \A d \in Conns : pc[d] = "none" => pc'[d] = "none"
    BY <2>1, <2>2, CliLocal
  <2>4. QED
    BY <2>2, <2>3 DEF SrvInv
<1>5. QED
  BY <1>1, <1>2, <1>3, <1>4, StepsAre

\* How a client's thread enters and leaves the served.
LEMMA CliServes ==
    ASSUME TypeOK, NEW c \in Conns, Cli(c)
    PROVE  \/ CliPush(c) \/ CliErase(c)
           \/ /\ UNCHANGED <<clientList, nSize, unlisted>>
              /\ pc'[c] \in Served <=> pc[c] \in Served
              /\ pc'[c] \in {"none", "init", "push"} => pc[c] \in {"none", "init", "push"}
<1> USE DEF Served, Busy, ToPc, handleVars, cliVars, Break
<1>0. DOMAIN pc = Conns
  BY DEF TypeOK
<1>1. CASE CliInit(c) \/ CliLoop(c) \/ CliGet(c) \/ CliSend(c) \/ CliPutEmpty(c)
  BY <1>0, <1>1 DEF CliInit, CliLoop, CliGet, CliSend, CliPutEmpty
<1>2. CASE CliTest(c) \/ CliFree(c) \/ CliClear(c) \/ CliRecv(c) \/ CliFail(c)
  BY <1>0, <1>2 DEF CliTest, CliFree, CliClear, CliRecv, CliFail, Close
<1>3. CASE CliFreesWild(c) \/ CliClose(c) \/ CliDrain(c) \/ CliUsesFreed(c)
  BY <1>0, <1>3 DEF CliFreesWild, CliClose, Close, CliDrain, CliUsesFreed
<1>4. QED
  BY <1>1, <1>2, <1>3 DEF Cli

LEMMA ListKept ==
    ASSUME IInv, [Next]_vars
    PROVE  ListInv' /\ SizeInv'
<1> USE DEF IInv
<1>0. /\ clientList \in Seq(Conns) /\ IsInjective(clientList) /\ DOMAIN pc = Conns
      /\ nSize \in Nat /\ unlisted \in SUBSET Conns
  BY DEF TypeOK, ListInv
<1>1. CASE UNCHANGED vars
  BY <1>1 DEF ListInv, SizeInv, vars, handleVars, appVars, cliVars
<1>2. CASE Srv
  <2>1. UNCHANGED <<clientList, nSize, unlisted, appPc, appAt>>
    BY <1>2, SrvLeaves DEF appVars
  <2>2. \A d \in Conns : /\ pc'[d] \in Served <=> pc[d] \in Served
                         /\ pc[d] \notin {"none", "init", "push"} => pc'[d] = pc[d]
    <3>1. CASE pc' = pc
      BY <3>1
    <3>2. CASE SrvAdmit /\ pc' # pc
      <4>1. pc' = [pc EXCEPT ![srvConn] = "init"] /\ srvConn \in Conns /\ pc[srvConn] = "none"
        BY <3>2 DEF SrvAdmit, SrvInv
      <4>2. QED
        BY <1>0, <4>1 DEF Served, Busy
    <3>3. QED
      BY <1>2, <3>1, <3>2 DEF Srv, SrvBind, SrvStart, SrvCheck, SrvAccept, SrvSize, SrvAbor, cliVars
  <2>3. QED
    BY <1>0, <2>1, <2>2 DEF ListInv, SizeInv
<1>3. CASE AppStep
  <2>1. UNCHANGED <<clientList, nSize, unlisted, pc>>
    BY <1>3, AppLeaves
  <2>2. ASSUME appPc' \in FillSteps, appAt' # NoConn PROVE appAt' \in Range(clientList)
    <3>1. CASE AppSendBuf \/ AppPrintfInfo
      <4>1. appAt' = FirstNode
        BY <3>1 DEF AppSendBuf, AppPrintfInfo
      <4>2. QED
        BY <1>0, <2>2, <4>1, FirstIs
    <3>2. CASE AppSkip \/ AppPutFull
      <4>1. appAt' = NextNode(appAt) /\ appPc \in FillSteps /\ appAt # NoConn
        BY <3>2 DEF AppSkip, AppPutFull, FillSteps, HandsInv
      <4>2. appAt \in Range(clientList)
        BY <4>1 DEF ListInv
      <4>3. QED
        BY <1>0, <2>2, <4>1, <4>2, NextIs
    <3>3. CASE AppGetEmpty \/ AppAlloc \/ AppAssert \/ AppCopy
      <4>1. appAt' = appAt /\ appPc \in FillSteps
        BY <3>3 DEF AppGetEmpty, AppAlloc, AppAssert, AppCopy, FillSteps, Break, appVars
      <4>2. QED
        BY <2>2, <4>1 DEF ListInv
    <3>4. CASE AppDestory \/ AppUnlock \/ AppDrained \/ AppFree
      BY <2>2, <3>4 DEF AppDestory, AppUnlock, AppDrained, AppFree, FillSteps
    <3>5. CASE AppWalk
      BY <2>2, <3>5 DEF AppWalk, FillSteps, Break, appVars
    <3>6. QED
      BY <1>3, <3>1, <3>2, <3>3, <3>4, <3>5 DEF AppStep, App
  <2>3. QED
    BY <2>1, <2>2 DEF ListInv, SizeInv
<1>4. CASE \E c \in Conns : Cli(c)
  <2>1. PICK c \in Conns : Cli(c)
    BY <1>4
  <2>2. UNCHANGED <<appPc, appAt>>
    BY <2>1, CliLeaves DEF appVars
  <2>3. \A d \in Conns : d # c => pc'[d] = pc[d]
    BY <2>1, CliLocal
  <2>4. CASE CliPush(c)
    <3>1. pc[c] = "push" /\ appPc \notin FillSteps /\ c \notin Range(clientList)
      BY <2>4 DEF CliPush, list_mutexFree, ListInv, Served, Busy
    <3>2. c \notin unlisted
      BY <3>1 DEF ListInv
    <3>3. CASE Break("NULL node")
      BY <2>2, <3>3 DEF Break, handleVars, cliVars, ListInv, SizeInv
    <3>4. CASE /\ clientList' = Append(clientList, c) /\ nSize' = nSize + 1
               /\ unlisted' = unlisted /\ pc'[c] = "loop"
      <4>1. /\ IsInjective(clientList') /\ Range(clientList') = Range(clientList) \cup {c}
            /\ Len(clientList') = Len(clientList) + 1 /\ Len(clientList) \in Nat
        BY <1>0, <3>1, <3>4, AppendAdds, AppendProperties, LenProperties
      <4>2. ListInv'
        BY <1>0, <2>2, <2>3, <3>1, <3>2, <3>4, <4>1 DEF ListInv, Served
      <4>3. SizeInv'
        BY <1>0, <3>4, <4>1 DEF SizeInv
      <4>4. QED
        BY <4>2, <4>3
    <3>5. CASE /\ clientList' = clientList /\ nSize' = IF nSize = 0 THEN 0 ELSE nSize + 1
               /\ unlisted' = unlisted \cup {c} /\ pc'[c] = "loop"
      <4>1. ListInv'
        BY <1>0, <2>2, <2>3, <3>1, <3>5 DEF ListInv, Served
      <4>2. SizeInv'
        BY <1>0, <3>5, LenProperties DEF SizeInv
      <4>3. QED
        BY <4>1, <4>2
    <3>6. QED
      BY <1>0, <2>4, <3>3, <3>4, <3>5 DEF CliPush, PushBack, ToPc
  <2>5. CASE CliErase(c)
    <3>1. /\ pc[c] = "erase" /\ pc'[c] = "close" /\ appPc \notin FillSteps
          /\ Erase(c) /\ unlisted' = unlisted
      BY <1>0, <2>5 DEF CliErase, ToPc, list_mutexFree
    <3>2. IsInjective(clientList') /\ Range(clientList') = Range(clientList) \ {c}
      BY <1>0, <3>1, RemoveTakesOut DEF Erase
    <3>3. ListInv'
      BY <1>0, <2>2, <2>3, <3>1, <3>2 DEF ListInv, Served, Busy
    <3>4. SizeInv'
      BY <1>0, <3>1, EraseSizes DEF SizeInv
    <3>5. QED
      BY <3>3, <3>4
  <2>6. CASE /\ UNCHANGED <<clientList, nSize, unlisted>>
             /\ pc'[c] \in Served <=> pc[c] \in Served
             /\ pc'[c] \in {"none", "init", "push"} => pc[c] \in {"none", "init", "push"}
    BY <1>0, <2>2, <2>3, <2>6 DEF ListInv, SizeInv
  <2>7. QED
    BY <2>1, <2>4, <2>5, <2>6, CliServes
<1>5. QED
  BY <1>1, <1>2, <1>3, <1>4, StepsAre

LEMMA StopKept ==
    ASSUME IInv, [Next]_vars
    PROVE  StopInv'
<1> USE DEF IInv
<1>0. DOMAIN pc = Conns
  BY DEF TypeOK
<1>1. CASE UNCHANGED vars
  BY <1>1 DEF StopInv, vars, handleVars, srvVars, appVars, cliVars
<1>2. CASE Srv
  <2>1. UNCHANGED <<handle, appPc>> /\ srvPc # "done"
    BY <1>2, SrvLeaves DEF appVars, Srv, SrvBind, SrvStart, SrvCheck, SrvAccept, SrvSize, SrvAdmit,
                           SrvAbor
  <2>2. /\ server_status' = "SERVER_STAR" => srvPc' \notin {"abor", "done"}
        /\ server_status' # "SERVER_STAR" => server_status # "SERVER_STAR"
    BY <1>2 DEF Srv, SrvBind, SrvStart, SrvCheck, SrvAccept, SrvSize, SrvAdmit, SrvAbor, handleVars,
                StopInv
  <2>3. \A d \in Conns : pc'[d] \in Busy => pc[d] \in Busy
    BY <1>0, <1>2 DEF Srv, SrvBind, SrvStart, SrvCheck, SrvAccept, SrvSize, SrvAdmit, SrvAbor,
                      cliVars, Busy
  <2>4. unlisted' = unlisted
    BY <1>2, SrvLeaves
  <2>5. QED
    BY <2>1, <2>2, <2>3, <2>4 DEF StopInv
<1>3. CASE AppStep
  <2>1. UNCHANGED <<srvPc, pc, unlisted>>
    BY <1>3, AppLeaves DEF srvVars
  <2>2. CASE AppSendBuf \/ AppPrintfInfo \/ AppUnlock \/ AppSkip \/ AppGetEmpty \/ AppAlloc
             \/ AppPutFull
    <3>1. UNCHANGED <<server_status, handle>> /\ appPc' \in {"idle", "walk"} \cup FillSteps
      BY <2>2 DEF AppSendBuf, AppPrintfInfo, AppUnlock, AppSkip, AppGetEmpty, AppAlloc, AppPutFull,
                  handleVars, FillSteps
    <3>2. appPc # "done"
      BY <2>2 DEF AppSendBuf, AppPrintfInfo, AppUnlock, AppSkip, AppGetEmpty, AppAlloc, AppPutFull,
                  Calls
    <3>3. QED
      BY <2>1, <3>1, <3>2 DEF StopInv, FillSteps
  <2>3. CASE AppAssert \/ AppCopy \/ AppWalk
    <3>1. /\ UNCHANGED <<server_status, handle>> /\ appPc \in {"walk"} \cup FillSteps
          /\ appPc' \in {"idle", "walk"} \cup FillSteps
      <4> USE DEF handleVars, appVars, Break, FillSteps
      <4>1. CASE AppAssert
        BY <4>1 DEF AppAssert
      <4>2. CASE AppCopy
        BY <4>2 DEF AppCopy
      <4>3. CASE AppWalk
        BY <4>3 DEF AppWalk
      <4>4. QED
        BY <2>3, <4>1, <4>2, <4>3
    <3>2. QED
      BY <2>1, <3>1 DEF StopInv, FillSteps
  <2>4. CASE AppDestory
    BY <2>1, <2>4 DEF AppDestory, Calls, StopInv
  <2>5. CASE AppDrained
    <3>1. Range(clientList) = {}
      <4>1. Len(clientList) \in Nat /\ DOMAIN clientList = 1 .. Len(clientList)
        BY LenProperties DEF TypeOK
      <4>2. Len(clientList) = 0
        BY <2>5, <4>1 DEF AppDrained, SizeInv
      <4>3. QED
        BY <4>1, <4>2 DEF Range
    <3>2. \A d \in Conns \ unlisted : pc[d] \notin Busy
      BY <3>1 DEF ListInv, Served
    <3>3. QED
      BY <2>1, <2>5, <3>2 DEF AppDrained, StopInv, handleVars
  <2>6. CASE AppFree
    BY <2>1, <2>6 DEF AppFree, StopInv, SrvInv
  <2>7. QED
    BY <1>3, <2>2, <2>3, <2>4, <2>5, <2>6 DEF AppStep, App
<1>4. CASE \E c \in Conns : Cli(c)
  <2>1. PICK c \in Conns : Cli(c)
    BY <1>4
  <2>2. UNCHANGED <<server_status, handle, srvPc, appPc>>
    BY <2>1, CliLeaves DEF srvVars, appVars
  <2>3. \A d \in Conns : d # c => pc'[d] = pc[d]
    BY <2>1, CliLocal
  <2>4. pc'[c] \in Busy => pc[c] \in Busy \/ server_status = "SERVER_STAR"
    <3> USE DEF Busy, ToPc, handleVars, cliVars, Break
    <3>1. CASE CliInit(c) \/ CliPush(c) \/ CliLoop(c) \/ CliGet(c) \/ CliSend(c)
      BY <1>0, <3>1 DEF CliInit, CliPush, PushBack, CliLoop, CliGet, CliSend, Looping
    <3>2. CASE CliPutEmpty(c) \/ CliTest(c) \/ CliFree(c) \/ CliClear(c) \/ CliRecv(c) \/ CliFail(c)
      BY <1>0, <3>2 DEF CliPutEmpty, CliTest, CliFree, CliClear, CliRecv, CliFail, Close
    <3>3. CASE CliFreesWild(c) \/ CliErase(c) \/ CliClose(c) \/ CliDrain(c) \/ CliUsesFreed(c)
      BY <1>0, <3>3 DEF CliFreesWild, CliErase, Erase, CliClose, Close, CliDrain, CliUsesFreed
    <3>4. QED
      BY <2>1, <3>1, <3>2, <3>3 DEF Cli
  <2>5. unlisted \subseteq unlisted' \/ unlisted' = unlisted
    BY <2>1, CliServes DEF CliPush, PushBack, CliErase, Break, handleVars
  <2>6. QED
    BY <2>2, <2>3, <2>4, <2>5 DEF StopInv
<1>5. QED
  BY <1>1, <1>2, <1>3, <1>4, StepsAre

-----------------------------------------------------------------------------
(* The buffers of each pool *)

\* What the invariants say of the pool of one client when nobody has a buffer
\* of it in hand.
LEMMA HandsFacts ==
    ASSUME IInv, NEW c \in Conns
    PROVE  /\ pool[c] \in Pools(NumBuf) /\ PoolApart(pool[c])
           /\ Range(pool[c].empty) \cap Range(pool[c].full) = {}
           /\ pc[c] \in {"send", "putEmpty", "test", "free", "clear"} => buf_id[c] \in Ids(NumBuf)
           /\ Sending(c) => buf_id[c] \notin Range(pool[c].empty) \cup Range(pool[c].full)
           /\ Filling(c) => /\ appBuf \in Ids(NumBuf)
                            /\ appBuf \notin Range(pool[c].empty) \cup Range(pool[c].full)
           /\ Sending(c) /\ Filling(c) => buf_id[c] # appBuf
           /\ Filling(c) => pc[c] \in Served
<1>1. pool[c] \in Pools(NumBuf)
  BY DEF IInv, TypeOK
<1>2. Filling(c) => pc[c] \in Served
  BY DEF IInv, ListInv, Filling, FillSteps, HandsInv
<1>3. QED
  BY <1>1, <1>2 DEF IInv, HandsInv, Filling, PoolApart

LEMMA SrvHands ==
    ASSUME IInv, Srv
    PROVE  HandsInv'
<1>1. UNCHANGED <<init_param, appPc, appAt, appBuf, frame, buf_id, pool>>
  BY SrvLeaves DEF appVars, bufVars
<1>2. \A d \in Conns : pc'[d] = pc[d] \/ pc'[d] = "init"
  BY DEF IInv, TypeOK, Srv, SrvBind, SrvStart, SrvCheck, SrvAccept, SrvSize, SrvAdmit, SrvAbor,
         cliVars
<1>3. \A d \in Conns : Sending(d)' => Sending(d)
  BY <1>2 DEF Sending
<1>4. \A d \in Conns : Filling(d)' <=> Filling(d)
  BY <1>1 DEF Filling
<1>5. QED
  BY <1>1, <1>2, <1>3, <1>4 DEF IInv, HandsInv, NumBuf

LEMMA AppHands ==
    ASSUME IInv, AppStep
    PROVE  HandsInv'
<1> USE DEF IInv
<1>1. NumBuf' = NumBuf /\ UNCHANGED <<pc, buf_id>>
  BY AppLeaves DEF NumBuf
<1>2. \A d \in Conns : (Sending(d)' <=> Sending(d)) 
  BY <1>1 DEF Sending
<1>3. frame \in Nat
  <2>1. frame \in 0 .. MaxFrames /\ MaxFrames \in Nat
    BY Bounds DEF TypeOK
  <2>2. QED
    BY <2>1
<1>4. CASE \/ AppSendBuf \/ AppPrintfInfo \/ AppDestory \/ AppUnlock \/ AppSkip \/ AppWalk
           \/ AppDrained \/ AppFree
  <2>1. pool' = pool /\ appPc' \notin FillSteps \ {"fill"}
    BY <1>4 DEF AppSendBuf, AppPrintfInfo, AppDestory, AppUnlock, AppSkip, AppWalk, AppDrained,
                AppFree, cliVars, bufVars, appVars, Break, FillSteps
  <2>2. appPc' \in FillSteps => frame' >= 1
    <3>1. CASE AppSendBuf
      BY <1>3, <3>1 DEF AppSendBuf
    <3>2. CASE AppSkip
      BY <3>2 DEF AppSkip, HandsInv
    <3>3. CASE AppPrintfInfo \/ AppDestory \/ AppUnlock \/ AppDrained \/ AppFree
      BY <3>3 DEF AppPrintfInfo, AppDestory, AppUnlock, AppDrained, AppFree, FillSteps
    <3>4. CASE AppWalk
      BY <3>4 DEF AppWalk, appVars, Break, FillSteps
    <3>5. QED
      BY <1>4, <3>1, <3>2, <3>3, <3>4
  <2>3. \A d \in Conns : ~Filling(d)'
    BY <2>1 DEF Filling
  <2>4. QED
    BY <1>1, <1>2, <2>1, <2>2, <2>3 DEF HandsInv
<1>5. CASE AppAlloc \/ AppAssert \/ AppCopy
  <2>1. /\ UNCHANGED <<pool, appAt, appBuf, frame>>
        /\ appPc \in FillSteps \ {"fill"} /\ appPc' \in FillSteps \ {"fill"}
    BY <1>5 DEF AppAlloc, AppAssert, AppCopy, cliVars, bufVars, appVars, Break, FillSteps
  <2>2. \A d \in Conns : Filling(d)' <=> Filling(d)
    BY <2>1 DEF Filling
  <2>3. QED
    BY <1>1, <1>2, <2>1, <2>2 DEF HandsInv
<1>6. CASE AppGetEmpty
  <2>1. /\ UNCHANGED <<appAt, frame>> /\ appPc = "fill" /\ appPc' = "alloc"
        /\ appAt \in Conns /\ appAt # NoConn /\ pool[appAt].empty # << >>
        /\ appBuf' = Head(pool[appAt].empty)
        /\ pool' = [pool EXCEPT ![appAt] = LessEmpty(pool[appAt])]
    BY <1>6 DEF AppGetEmpty, TypeOK
  <2> DEFINE p == pool[appAt]
             q == LessEmpty(p)
  <2>2. p \in Pools(NumBuf) /\ PoolApart(p)
    BY <2>1, HandsFacts
  <2>3. /\ PoolApart(q) /\ q.full = p.full
        /\ Head(p.empty) \in Ids(NumBuf) /\ Head(p.empty) \in Range(p.empty)
        /\ Head(p.empty) \notin Range(p.full)
        /\ Range(q.empty) = Range(p.empty) \ {Head(p.empty)}
    BY <2>1, <2>2, EmptyTaken
  <2>4. pool'[appAt] = q /\ \A d \in Conns : d # appAt => pool'[d] = pool[d]
    BY <2>1 DEF TypeOK
  <2>5. \A d \in Conns : (Filling(d)' <=> d = appAt) /\ ~Filling(d)
    BY <2>1 DEF Filling, FillSteps
  <2>6. Sending(appAt) => buf_id[appAt] \notin Range(p.empty) \cup Range(p.full)
    BY <2>1, HandsFacts
  <2>7. frame' >= 1 /\ appAt' # NoConn /\ appBuf' \in Ids(NumBuf)
    BY <2>1, <2>3 DEF HandsInv, FillSteps
  <2> HIDE DEF p, q
  <2>8. /\ appBuf' \notin Range(q.empty) \cup Range(q.full)
        /\ Sending(appAt) => /\ buf_id[appAt] \notin Range(q.empty) \cup Range(q.full)
                             /\ buf_id[appAt] # appBuf'
    BY <2>1, <2>3, <2>6 DEF p
  <2>9. QED
    BY <1>1, <1>2, <2>1, <2>3, <2>4, <2>5, <2>7, <2>8 DEF HandsInv
<1>7. CASE AppPutFull
  <2>1. /\ frame' = frame /\ appPc = "put" /\ appPc' = "fill"
        /\ pool' = [pool EXCEPT ![appAt] = WithFull(pool[appAt], appBuf)]
    BY <1>7 DEF AppPutFull
  <2>2. appAt \in Conns /\ Filling(appAt)
    BY <2>1 DEF TypeOK, HandsInv, FillSteps, Filling
  <2> DEFINE p == pool[appAt]
             q == WithFull(p, appBuf)
  <2>3. /\ p \in Pools(NumBuf) /\ PoolApart(p) /\ appBuf \in Ids(NumBuf)
        /\ appBuf \notin Range(p.empty) /\ appBuf \notin Range(p.full)
        /\ Sending(appAt) => /\ buf_id[appAt] \notin Range(p.empty) \cup Range(p.full)
                             /\ buf_id[appAt] # appBuf
    BY <2>2, HandsFacts
  <2>4. PoolApart(q) /\ q.empty = p.empty /\ Range(q.full) = Range(p.full) \cup {appBuf}
    <3> HIDE DEF p
    <3>1. QED
      BY <2>3, FullGiven
  <2>5. pool'[appAt] = q /\ \A d \in Conns : d # appAt => pool'[d] = pool[d]
    BY <2>1, <2>2 DEF TypeOK
  <2>6. \A d \in Conns : ~Filling(d)'
    BY <2>1 DEF Filling
  <2>7. frame' >= 1 /\ appPc' \notin FillSteps \ {"fill"}
    BY <2>1 DEF HandsInv, FillSteps
  <2> HIDE DEF p, q
  <2>8. Sending(appAt) => buf_id[appAt] \notin Range(q.empty) \cup Range(q.full)
    BY <2>3, <2>4
  <2>9. QED
    BY <1>1, <1>2, <2>4, <2>5, <2>6, <2>7, <2>8 DEF HandsInv
<1>8. QED
  BY <1>4, <1>5, <1>6, <1>7 DEF AppStep, App

LEMMA CliHands ==
    ASSUME IInv, NEW c \in Conns, Cli(c)
    PROVE  HandsInv'
<1> USE DEF IInv
<1>0. DOMAIN pc = Conns /\ DOMAIN pool = Conns /\ DOMAIN buf_id = Conns
  BY DEF TypeOK
<1>1. NumBuf' = NumBuf /\ UNCHANGED <<appPc, appAt, appBuf, frame>>
  BY CliLeaves DEF NumBuf, appVars
<1>2. \A d \in Conns : d # c => pc'[d] = pc[d] /\ buf_id'[d] = buf_id[d] /\ pool'[d] = pool[d]
  BY CliLocal
<1>3. \A d \in Conns : Filling(d)' <=> Filling(d)
  BY <1>1 DEF Filling
<1>4. \A d \in Conns : d # c => (Sending(d)' <=> Sending(d))
  BY <1>2 DEF Sending
<1> DEFINE Fits ==
      /\ PoolApart(pool'[c])
      /\ pc'[c] \in {"send", "putEmpty", "test", "free", "clear"} => buf_id'[c] \in Ids(NumBuf)
      /\ Sending(c)' => buf_id'[c] \notin Range(pool'[c].empty) \cup Range(pool'[c].full)
      /\ Filling(c) => appBuf \notin Range(pool'[c].empty) \cup Range(pool'[c].full)
      /\ Sending(c)' /\ Filling(c) => buf_id'[c] # appBuf
<1>5. SUFFICES Fits
  <2> HIDE DEF Fits
  <2>1. \A d \in Conns : d = c \/ d # c
    OBVIOUS
  <2>2. ASSUME Fits PROVE HandsInv'
    BY <1>1, <1>2, <1>3, <1>4, <2>2 DEF HandsInv, Fits
  <2>3. QED
    BY <2>2
<1> DEFINE p == pool[c]
<1>6. /\ p \in Pools(NumBuf) /\ PoolApart(p) /\ Range(p.empty) \cap Range(p.full) = {}
      /\ pc[c] \in {"send", "putEmpty", "test", "free", "clear"} => buf_id[c] \in Ids(NumBuf)
      /\ Sending(c) => buf_id[c] \notin Range(p.empty) \cup Range(p.full)
      /\ Filling(c) => appBuf \notin Range(p.empty) \cup Range(p.full)
      /\ Sending(c) /\ Filling(c) => buf_id[c] # appBuf
      /\ Filling(c) => pc[c] \in Served
  BY HandsFacts
<1>7. CASE CliInit(c)
  <2>1. /\ pc[c] = "init" /\ pc'[c] \in {"push", "gone"}
        /\ pool'[c] = p \/ pool'[c] = NewPool(NumBuf)
    BY <1>0, <1>7 DEF CliInit, ToPc
  <2>2. NumBuf \in Nat
    BY Bounds DEF TypeOK, NumBuf
  <2>3. PoolApart(pool'[c])
    BY <1>6, <2>1, <2>2, FreshPool
  <2>4. ~Sending(c)' /\ ~Filling(c)
    BY <1>6, <2>1 DEF Sending, Served, Busy
  <2>5. QED
    BY <2>1, <2>3, <2>4
<1>8. CASE CliGet(c)
  <2>1. /\ pc[c] = "get" /\ pc'[c] = "send" /\ p.full # << >> /\ buf_id'[c] = Head(p.full)
        /\ pool'[c] = LessFull(p)
    BY <1>0, <1>8 DEF CliGet, ToPc
  <2>2. /\ PoolApart(LessFull(p)) /\ LessFull(p).empty = p.empty
        /\ Head(p.full) \in Ids(NumBuf) /\ Head(p.full) \in Range(p.full)
        /\ Head(p.full) \notin Range(p.empty)
        /\ Range(LessFull(p).full) = Range(p.full) \ {Head(p.full)}
    BY <1>6, <2>1, FullTaken
  <2> DEFINE q == LessFull(p)
  <2> HIDE DEF p, q
  <2>3. QED
    BY <1>6, <2>1, <2>2 DEF q
<1>9. CASE CliPutEmpty(c)
  <2>1. /\ pc[c] = "putEmpty" /\ pc'[c] = "test" /\ buf_id' = buf_id
        /\ pool'[c] = WithEmpty(p, buf_id[c])
    BY <1>0, <1>9 DEF CliPutEmpty, ToPc
  <2>2. Sending(c) /\ ~Sending(c)'
    BY <2>1 DEF Sending
  <2>3. /\ PoolApart(WithEmpty(p, buf_id[c])) /\ WithEmpty(p, buf_id[c]).full = p.full
        /\ Range(WithEmpty(p, buf_id[c]).empty) = Range(p.empty) \cup {buf_id[c]}
    BY <1>6, <2>1, <2>2, EmptyGiven
  <2> DEFINE q == WithEmpty(p, buf_id[c])
  <2> HIDE DEF p, q
  <2>4. QED
    BY <1>6, <2>1, <2>2, <2>3 DEF q
<1>10. CASE CliDrain(c)
  <2>1. /\ pc[c] = "drain" /\ pc'[c] = "gone"
        /\ pool'[c] = [empty |-> << >>, full |-> << >>]
    BY <1>0, <1>10 DEF CliDrain, ToPc
  <2>2. PoolApart(pool'[c])
    BY <2>1, NoPool
  <2>3. ~Sending(c)' /\ ~Filling(c)
    BY <1>6, <2>1 DEF Sending, Served, Busy
  <2>4. QED
    BY <2>1, <2>2, <2>3
<1>11. CASE UNCHANGED <<pool, buf_id>> /\ pc'[c] \in {"test", "free", "clear"}
            /\ pc[c] \in {"test", "free", "clear"}
  BY <1>6, <1>11 DEF Sending
<1>12. CASE UNCHANGED <<pool, buf_id>>
            /\ (pc'[c] = pc[c] \/ (pc'[c] = "putEmpty" /\ pc[c] = "send"))
  BY <1>6, <1>12 DEF Sending
<1>13. CASE UNCHANGED <<pool, buf_id>>
            /\ pc'[c] \notin {"send", "putEmpty", "test", "free", "clear"}
  BY <1>6, <1>13 DEF Sending
<1>14. \/ CliInit(c) \/ CliGet(c) \/ CliPutEmpty(c) \/ CliDrain(c)
       \/ UNCHANGED <<pool, buf_id>>
          /\ \/ pc'[c] \in {"test", "free", "clear"} /\ pc[c] \in {"test", "free", "clear"}
             \/ pc'[c] = pc[c] \/ (pc'[c] = "putEmpty" /\ pc[c] = "send")
             \/ pc'[c] \notin {"send", "putEmpty", "test", "free", "clear"}
  <2> USE DEF ToPc, cliVars, bufVars, Break
  <2>1. CASE CliPush(c) \/ CliLoop(c) \/ CliSend(c) \/ CliTest(c) \/ CliFree(c) \/ CliClear(c)
    BY <1>0, <2>1 DEF CliPush, PushBack, CliLoop, CliSend, CliTest, CliFree, CliClear
  <2>2. CASE CliRecv(c) \/ CliFail(c) \/ CliErase(c) \/ CliClose(c)
    BY <1>0, <2>2 DEF CliRecv, CliFail, Close, CliErase, Erase, CliClose
  <2>3. CASE CliFreesWild(c) \/ CliUsesFreed(c)
    BY <1>0, <2>3 DEF CliFreesWild, CliUsesFreed
  <2>4. QED
    BY <2>1, <2>2, <2>3 DEF Cli
<1> HIDE DEF p, Fits, IInv
<1>15. QED
  BY <1>7, <1>8, <1>9, <1>10, <1>11, <1>12, <1>13, <1>14

LEMMA HandsKept ==
    ASSUME IInv, [Next]_vars
    PROVE  HandsInv'
<1>1. CASE UNCHANGED vars
  BY <1>1 DEF IInv, HandsInv, Sending, Filling, NumBuf, vars, handleVars, appVars, cliVars, bufVars
<1>2. QED
  BY <1>1, StepsAre, SrvHands, AppHands, CliHands

-----------------------------------------------------------------------------
(* The frames a client has seen *)

\* A client thread sends and frees what is in its buffers, and empties them.
LEMMA CliBlocks ==
    ASSUME IInv, NEW c \in Conns, Cli(c)
    PROVE  /\ \A b \in Ids(NumBuf) : data'[c][b] = data[c][b] \/ data'[c][b] = NULL
           /\ sent'[c] = sent[c] \/ \E b \in Ids(NumBuf) : sent'[c] = data[c][b]
           /\ \A k \in freed'[c] : k \in freed[c] \/ \E b \in Ids(NumBuf) : k = data[c][b]
<1> USE DEF IInv
<1>0. /\ DOMAIN pc = Conns /\ DOMAIN data = Conns /\ DOMAIN sent = Conns /\ DOMAIN freed = Conns
      /\ DOMAIN data[c] = Ids(NumBuf)
  BY DEF TypeOK
<1>1. pc[c] \in {"send", "putEmpty", "test", "free", "clear"} => buf_id[c] \in Ids(NumBuf)
  BY HandsFacts
<1>2. CASE UNCHANGED <<data, sent, freed>>
  BY <1>2
<1>3. CASE CliSend(c)
  BY <1>0, <1>1, <1>3 DEF CliSend
<1>4. CASE CliFree(c)
  BY <1>0, <1>1, <1>4 DEF CliFree
<1>5. CASE CliClear(c)
  BY <1>0, <1>1, <1>5 DEF CliClear
<1>6. CASE CliDrain(c)
  <2>1. pool[c].full \in Seq(Ids(NumBuf))
    BY PoolParts DEF TypeOK
  <2>2. \A i \in DOMAIN pool[c].full : pool[c].full[i] \in Ids(NumBuf)
    BY <2>1, ElementOfSeq, LenProperties
  <2>3. /\ sent' = sent /\ \A b \in Ids(NumBuf) : data'[c][b] = NULL
        /\ freed'[c] = freed[c] \cup ({data[c][pool[c].full[i]] : i \in DOMAIN pool[c].full} \ {NULL})
    BY <1>0, <1>6 DEF CliDrain
  <2>4. QED
    BY <2>2, <2>3
<1>7. CASE \/ CliInit(c) \/ CliPush(c) \/ CliLoop(c) \/ CliGet(c) \/ CliPutEmpty(c)
           \/ CliTest(c) \/ CliRecv(c) \/ CliFail(c)
  <2>1. UNCHANGED <<data, sent, freed>>
    BY <1>7 DEF CliInit, CliPush, PushBack, Break, CliLoop, CliGet, CliPutEmpty, CliTest, CliRecv,
                CliFail, cliVars, bufVars
  <2>2. QED
    BY <1>2, <2>1
<1>8. CASE CliFreesWild(c) \/ CliErase(c) \/ CliClose(c) \/ CliUsesFreed(c)
  <2>1. UNCHANGED <<data, sent, freed>>
    BY <1>8 DEF CliFreesWild, CliErase, CliClose, CliUsesFreed, Break, cliVars, bufVars
  <2>2. QED
    BY <1>2, <2>1
<1>9. QED
  BY <1>3, <1>4, <1>5, <1>6, <1>7, <1>8 DEF Cli

\* The list changes only while no frame is being sent.
LEMMA CliList ==
    ASSUME NEW c \in Conns, Cli(c)
    PROVE  clientList' = clientList \/ appPc \notin FillSteps
<1> USE DEF handleVars, Break
<1>1. CASE CliInit(c) \/ CliPush(c) \/ CliLoop(c) \/ CliGet(c) \/ CliSend(c) \/ CliPutEmpty(c)
  BY <1>1 DEF CliInit, CliPush, PushBack, CliLoop, CliGet, CliSend, CliPutEmpty, list_mutexFree
<1>2. CASE CliTest(c) \/ CliFree(c) \/ CliClear(c) \/ CliRecv(c) \/ CliFail(c)
  BY <1>2 DEF CliTest, CliFree, CliClear, CliRecv, CliFail, Close
<1>3. CASE CliFreesWild(c) \/ CliErase(c) \/ CliClose(c) \/ CliDrain(c) \/ CliUsesFreed(c)
  BY <1>3 DEF CliFreesWild, CliErase, Erase, CliClose, Close, CliDrain, CliUsesFreed, list_mutexFree
<1>4. QED
  BY <1>1, <1>2, <1>3 DEF Cli

\* What is older than one frame is older than the next.
LEMMA FrameTypes ==
    ASSUME TypeOK
    PROVE  /\ frame \in Nat /\ \A c \in Conns : sent[c] \in Nat
           /\ \A c \in Conns : \A k \in freed[c] : k \in Nat
           /\ \A c \in Conns : \A b \in Ids(NumBuf) : data[c][b] \in Nat
<1>1. frame \in 0 .. MaxFrames /\ \A c \in Conns : sent[c] \in 0 .. MaxFrames
  BY DEF TypeOK
<1>2. \A c \in Conns : \A k \in freed[c] : k \in Frames
  BY DEF TypeOK
<1>3. \A c \in Conns : \A b \in Ids(NumBuf) : data[c][b] \in Frames \cup {NULL}
  BY BlockTypes
<1>4. MaxFrames \in Nat /\ \A k \in Frames \cup {NULL} : k \in Nat
  <2>1. init_param \in Scenarios
    BY DEF TypeOK
  <2>2. MaxFrames \in Nat
    BY <2>1, Bounds
  <2>3. QED
    BY <2>2 DEF Frames, NULL
<1>5. QED
  BY <1>1, <1>2, <1>3, <1>4

LEMMA OlderStill ==
    ASSUME IInv, NEW c \in Conns, Older(c, frame)
    PROVE  Older(c, frame + 1)
  BY FrameTypes DEF IInv, Older

\* A client that is ahead of the next node was ahead of this one.
LEMMA AheadOfNext ==
    ASSUME IInv, clientList' = clientList, appPc \in FillSteps, appAt # NoConn,
           appAt' = NextNode(appAt), NEW d \in Conns, Ahead(d)'
    PROVE  Ahead(d)
<1>1. /\ clientList \in Seq(Conns) /\ IsInjective(clientList) /\ appAt \in Range(clientList)
  BY DEF IInv, TypeOK, ListInv
<1>2. PICK i \in DOMAIN clientList, j \in DOMAIN clientList :
         /\ clientList[i] = appAt' /\ clientList[j] = d
         /\ i < j \/ i = j
  BY DEF Ahead
<1>3. /\ DOMAIN clientList = 1 .. Len(clientList) /\ Len(clientList) \in Nat
      /\ clientList[i] \in Conns
  BY <1>1, LenProperties, ElementOfSeq
<1>4. appAt' # NoConn
  BY <1>2, <1>3 DEF Conns, NoConn
<1>5. PICK k \in DOMAIN clientList :
         /\ k + 1 \in DOMAIN clientList
         /\ clientList[k] = appAt /\ appAt' = clientList[k + 1]
  BY <1>1, <1>4, NextIs
<1>6. i = k + 1
  BY <1>1, <1>2, <1>5 DEF IsInjective
<1>7. k < j
  BY <1>2, <1>3, <1>5, <1>6
<1>8. QED
  BY <1>2, <1>5, <1>7 DEF Ahead

\* What a step of the application makes of a buffer and of the node it is at.
LEMMA AppFills ==
    ASSUME IInv, AppStep
    PROVE  \/ AppSendBuf /\ data' = data
           \/ AppAlloc
           \/ /\ AppSkip \/ AppPutFull
              /\ data' = data /\ frame' = frame /\ appPc \in {"fill", "put"} /\ appPc' = "fill"
              /\ appAt # NoConn /\ appAt' = NextNode(appAt)
           \/ /\ data' = data /\ frame' = frame /\ appPc' \notin FillSteps
           \/ /\ data' = data /\ frame' = frame /\ appAt' = appAt
              /\ \/ appPc \in {"fill", "alloc"} /\ appPc' = "alloc"
                 \/ appPc \in {"assert", "copy"} /\ appPc' \in {"assert", "copy", "put"}
<1> USE DEF FillSteps, appVars, cliVars, bufVars, Break, IInv
<1>1. CASE AppSendBuf
  BY <1>1 DEF AppSendBuf
<1>2. CASE AppPrintfInfo \/ AppDestory \/ AppUnlock \/ AppDrained \/ AppFree
  BY <1>2 DEF AppPrintfInfo, AppDestory, AppUnlock, AppDrained, AppFree
<1>3. CASE AppWalk
  BY <1>3 DEF AppWalk
<1>4. CASE AppSkip
  BY <1>4 DEF AppSkip
<1>5. CASE AppPutFull
  BY <1>5 DEF AppPutFull, HandsInv
<1>6. CASE AppGetEmpty
  BY <1>6 DEF AppGetEmpty
<1>7. CASE AppAssert
  BY <1>7 DEF AppAssert
<1>8. CASE AppCopy
  BY <1>8 DEF AppCopy
<1>9. QED
  BY <1>1, <1>2, <1>3, <1>4, <1>5, <1>6, <1>7, <1>8 DEF AppStep, App

\* At its allocation, the client the application is at has seen no block of this
\* frame, and afterwards it is not ahead any more.
LEMMA AtAlloc ==
    ASSUME IInv, AppAlloc
    PROVE  /\ appAt \in Conns /\ appBuf \in Ids(NumBuf) /\ frame \in Nat /\ frame >= 1
           /\ Older(appAt, frame) /\ pc[appAt] \in Served
           /\ \A d \in Conns : Ahead(d)' => d # appAt /\ Ahead(d)
           /\ frame' = frame /\ data'[appAt][appBuf] = frame
           /\ \A b \in Ids(NumBuf) \ {appBuf} : data'[appAt][b] = data[appAt][b]
           /\ \A d \in Conns \ {appAt} : data'[d] = data[d]
<1> USE DEF IInv
<1>1. /\ appPc = "alloc" /\ appPc' = "assert" /\ appAt' = appAt /\ frame' = frame
      /\ clientList' = clientList /\ data' = [data EXCEPT ![appAt][appBuf] = frame]
  BY DEF AppAlloc, handleVars
<1>2. /\ appAt \in Conns /\ appAt # NoConn /\ appBuf \in Ids(NumBuf) /\ frame >= 1
  BY <1>1 DEF TypeOK, HandsInv, FillSteps
<1>3. /\ clientList \in Seq(Conns) /\ IsInjective(clientList) /\ appAt \in Range(clientList)
      /\ pc[appAt] \in Served
  BY <1>1, <1>2 DEF TypeOK, ListInv, FillSteps
<1>4. DOMAIN clientList = 1 .. Len(clientList) /\ Len(clientList) \in Nat
  BY <1>3, LenProperties
<1>5. Ahead(appAt)
  BY <1>1, <1>3 DEF Ahead, FillSteps, Range
<1>6. Older(appAt, frame)
  BY <1>2, <1>5 DEF FreshInv
<1>7. ASSUME NEW d \in Conns, Ahead(d)' PROVE d # appAt /\ Ahead(d)
  <2>1. PICK i \in DOMAIN clientList, j \in DOMAIN clientList :
           clientList[i] = appAt /\ clientList[j] = d /\ i < j
    BY <1>1, <1>7 DEF Ahead
  <2>2. i # j
    BY <1>4, <2>1
  <2>3. QED
    BY <1>1, <1>3, <2>1, <2>2 DEF Ahead, FillSteps, IsInjective
<1>8. frame \in Nat /\ DOMAIN data = Conns /\ DOMAIN data[appAt] = Ids(NumBuf)
  BY <1>2, FrameTypes DEF TypeOK
<1>9. /\ data'[appAt][appBuf] = frame
      /\ \A b \in Ids(NumBuf) \ {appBuf} : data'[appAt][b] = data[appAt][b]
      /\ \A d \in Conns \ {appAt} : data'[d] = data[d]
  BY <1>1, <1>2, <1>8
<1>10. QED
  BY <1>1, <1>2, <1>3, <1>6, <1>7, <1>8, <1>9

\* The blocks of a client after a step are older than a frame.
OlderNext(c, n) == /\ sent'[c] < n /\ \A k \in freed'[c] : k < n
                   /\ \A b \in Ids(NumBuf)' : data'[c][b] < n

LEMMA FreshNext ==
    ASSUME \A d \in Conns : OlderNext(d, frame' + 1) /\ (Ahead(d)' => OlderNext(d, frame'))
    PROVE  FreshInv'
  BY DEF FreshInv, Older, OlderNext

LEMMA AppFresh ==
    ASSUME IInv, AppStep
    PROVE  FreshInv'
<1> USE DEF IInv
<1>1. NumBuf' = NumBuf /\ UNCHANGED <<clientList, sent, freed>>
  BY AppLeaves DEF NumBuf
<1>2. \A d \in Conns : Older(d, frame + 1) /\ (Ahead(d) => Older(d, frame))
  BY DEF FreshInv
<1>3. CASE AppSendBuf /\ data' = data
  <2>1. frame' = frame + 1
    BY <1>3 DEF AppSendBuf
  <2>2. \A d \in Conns : OlderNext(d, frame')
    BY <1>1, <1>2, <1>3, <2>1 DEF Older, OlderNext
  <2>3. \A d \in Conns : OlderNext(d, frame' + 1)
    BY <1>1, <1>3, <2>1, <2>2, FrameTypes DEF Older, OlderNext
  <2>4. QED
    BY <2>2, <2>3, FreshNext
<1>4. CASE AppAlloc
  <2>1. /\ appAt \in Conns /\ appBuf \in Ids(NumBuf) /\ frame \in Nat /\ frame >= 1
        /\ \A d \in Conns : Ahead(d)' => d # appAt /\ Ahead(d)
        /\ frame' = frame /\ data'[appAt][appBuf] = frame
        /\ \A b \in Ids(NumBuf) \ {appBuf} : data'[appAt][b] = data[appAt][b]
        /\ \A d \in Conns \ {appAt} : data'[d] = data[d]
    BY <1>4, AtAlloc
  <2>2. OlderNext(appAt, frame' + 1)
    BY <1>1, <1>2, <2>1 DEF Older, OlderNext
  <2>3. \A d \in Conns \ {appAt} : OlderNext(d, frame' + 1) /\ (Older(d, frame) => OlderNext(d, frame'))
    BY <1>1, <1>2, <2>1 DEF Older, OlderNext
  <2>4. \A d \in Conns : OlderNext(d, frame' + 1)
    <3>1. \A d \in Conns \ {appAt} : OlderNext(d, frame' + 1)
      BY <2>3
    <3>2. QED
      BY <2>2, <3>1
  <2>5. ASSUME NEW d \in Conns, Ahead(d)' PROVE OlderNext(d, frame')
    <3>1. d # appAt /\ Ahead(d)
      BY <2>1, <2>5
    <3>2. Older(d, frame)
      BY <1>2, <3>1
    <3>3. QED
      BY <2>3, <3>1, <3>2
  <2>6. QED
    BY <2>4, <2>5, FreshNext
<1>5. CASE data' = data /\ frame' = frame /\ \A d \in Conns : Ahead(d)' => Ahead(d)
  <2>1. \A d \in Conns : (Older(d, frame + 1) => OlderNext(d, frame' + 1))
                         /\ (Older(d, frame) => OlderNext(d, frame'))
    BY <1>1, <1>5 DEF Older, OlderNext
  <2>2. QED
    BY <1>2, <1>5, <2>1, FreshNext
<1>6. CASE /\ AppSkip \/ AppPutFull
           /\ data' = data /\ frame' = frame /\ appPc \in {"fill", "put"} /\ appPc' = "fill"
           /\ appAt # NoConn /\ appAt' = NextNode(appAt)
  <2>1. \A d \in Conns : Ahead(d)' => Ahead(d)
    BY <1>1, <1>6, AheadOfNext DEF FillSteps
  <2>2. QED
    BY <1>5, <1>6, <2>1
<1>7. CASE data' = data /\ frame' = frame /\ appPc' \notin FillSteps
  BY <1>5, <1>7 DEF Ahead
<1>8. CASE /\ data' = data /\ frame' = frame /\ appAt' = appAt
           /\ \/ appPc \in {"fill", "alloc"} /\ appPc' = "alloc"
              \/ appPc \in {"assert", "copy"} /\ appPc' \in {"assert", "copy", "put"}
  <2>1. \A d \in Conns : Ahead(d)' => Ahead(d)
    BY <1>1, <1>8 DEF Ahead, FillSteps
  <2>2. QED
    BY <1>5, <1>8, <2>1
<1>9. QED
  BY <1>3, <1>4, <1>6, <1>7, <1>8, AppFills

LEMMA FreshKept ==
    ASSUME IInv, [Next]_vars
    PROVE  FreshInv'
<1> USE DEF IInv
<1>0. \A d \in Conns : Older(d, frame + 1) /\ (Ahead(d) => Older(d, frame))
  BY DEF FreshInv
<1>1. CASE UNCHANGED vars \/ Srv
  <2>1. UNCHANGED <<init_param, clientList, appPc, appAt, frame, sent, freed, data>>
    BY <1>1, SrvLeaves DEF vars, handleVars, appVars, cliVars, bufVars
  <2>2. \A d \in Conns : Ahead(d)' => Ahead(d)
    BY <2>1 DEF Ahead
  <2>3. \A d \in Conns : (Older(d, frame + 1) => OlderNext(d, frame' + 1))
                         /\ (Older(d, frame) => OlderNext(d, frame'))
    BY <2>1 DEF Older, OlderNext, NumBuf
  <2>4. QED
    BY <1>0, <2>2, <2>3, FreshNext
<1>2. CASE \E c \in Conns : Cli(c)
  <2>1. PICK c \in Conns : Cli(c)
    BY <1>2
  <2>2. NumBuf' = NumBuf /\ UNCHANGED <<appPc, appAt, frame>>
    BY <2>1, CliLeaves DEF NumBuf, appVars
  <2>3. \A d \in Conns : Ahead(d)' => Ahead(d)
    BY <2>1, <2>2, CliList DEF Ahead
  <2>4. ASSUME NEW d \in Conns, d # c
        PROVE  (Older(d, frame + 1) => OlderNext(d, frame' + 1)) /\ (Older(d, frame) => OlderNext(d, frame'))
    BY <2>1, <2>2, <2>4, CliLocal DEF Older, OlderNext
  <2>5. ASSUME NEW n \in Nat, n >= 1, Older(c, n)
        PROVE  /\ sent'[c] < n /\ \A k \in freed'[c] : k < n
               /\ \A b \in Ids(NumBuf) : data'[c][b] < n
    BY <2>1, <2>5, CliBlocks, FrameTypes DEF Older, NULL
  <2>6. frame \in Nat /\ (Ahead(c) => frame >= 1)
    BY FrameTypes DEF Ahead, HandsInv
  <2>7. Older(c, frame + 1) => OlderNext(c, frame' + 1)
    BY <2>2, <2>5, <2>6 DEF Older, OlderNext
  <2>8. Older(c, frame) /\ frame >= 1 => OlderNext(c, frame')
    BY <2>2, <2>5, <2>6 DEF Older, OlderNext
  <2>9. QED
    BY <1>0, <2>3, <2>4, <2>6, <2>7, <2>8, FreshNext
<1>3. QED
  BY <1>1, <1>2, StepsAre, AppFresh

-----------------------------------------------------------------------------
(* The blocks in the buffers *)

LEMMA SrvPcs ==
    ASSUME IInv, Srv, NEW d \in Conns
    PROVE  pc'[d] = pc[d] \/ (pc[d] = "none" /\ pc'[d] = "init")
<1>1. CASE SrvAdmit
  <2>1. srvConn \in Conns /\ pc[srvConn] = "none" /\ DOMAIN pc = Conns
    BY <1>1 DEF SrvAdmit, IInv, SrvInv, TypeOK
  <2>2. pc' = [pc EXCEPT ![srvConn] = "init"] \/ pc' = pc
    BY <1>1 DEF SrvAdmit
  <2>3. QED
    BY <2>1, <2>2
<1>2. CASE SrvBind \/ SrvStart \/ SrvCheck \/ SrvAccept \/ SrvSize \/ SrvAbor
  BY <1>2 DEF SrvBind, SrvStart, SrvCheck, SrvAccept, SrvSize, SrvAbor, cliVars
<1>3. QED
  BY <1>1, <1>2 DEF Srv

LEMMA AppBlocks ==
    ASSUME IInv, AppStep
    PROVE  BlockInv'
<1> SUFFICES ASSUME NEW d \in Conns PROVE BlocksOwn(d)'
  BY DEF BlockInv
<1>1. NumBuf' = NumBuf /\ UNCHANGED <<pc, buf_id, freed>>
  BY AppLeaves DEF NumBuf
<1>2. BlocksOwn(d)
  BY DEF IInv, BlockInv
<1>3. CASE data'[d] = data[d]
  BY <1>1, <1>2, <1>3 DEF BlocksOwn
<1>4. CASE AppAlloc /\ d = appAt
  <2>1. /\ appBuf \in Ids(NumBuf) /\ frame \in Nat /\ frame >= 1
        /\ Older(d, frame) /\ data'[d][appBuf] = frame
        /\ \A b \in Ids(NumBuf) \ {appBuf} : data'[d][b] = data[d][b]
    BY <1>4, AtAlloc
  <2>2. frame \notin freed[d] /\ frame # NULL
    BY <2>1 DEF Older, NULL
  <2>3. \A b \in Ids(NumBuf) \ {appBuf} : data[d][b] # frame
    BY <2>1, FrameTypes DEF Older, IInv
  <2>4. ASSUME NEW a \in Ids(NumBuf), NEW b \in Ids(NumBuf), data'[d][a] = data'[d][b], a # b
        PROVE  data'[d][a] = NULL
    BY <1>2, <2>1, <2>3, <2>4 DEF BlocksOwn
  <2>5. ASSUME NEW b \in Ids(NumBuf), data'[d][b] \in freed[d]
        PROVE  pc[d] = "clear" /\ b = buf_id[d]
    BY <1>2, <2>1, <2>2, <2>5 DEF BlocksOwn
  <2>6. pc[d] = "free" => buf_id[d] \in Ids(NumBuf)
    BY HandsFacts
  <2>7. pc[d] = "free" => data'[d][buf_id[d]] # NULL
    BY <1>2, <2>1, <2>2, <2>6 DEF BlocksOwn
  <2>8. QED
    BY <1>1, <2>4, <2>5, <2>7 DEF BlocksOwn
<1>5. CASE AppAlloc /\ d # appAt
  BY <1>3, <1>5, AtAlloc
<1>6. QED
  BY <1>3, <1>4, <1>5, AppFills

LEMMA CliOwn ==
    ASSUME IInv, NEW c \in Conns, Cli(c)
    PROVE  BlocksOwn(c)'
<1> USE DEF IInv
<1>0. /\ DOMAIN pc = Conns /\ DOMAIN data = Conns /\ DOMAIN freed = Conns /\ DOMAIN buf_id = Conns
      /\ DOMAIN data[c] = Ids(NumBuf)
  BY DEF TypeOK
<1>1. NumBuf' = NumBuf
  BY CliLeaves DEF NumBuf
<1>2. BlocksOwn(c)
  BY DEF BlockInv
<1>3. pc[c] \in {"send", "putEmpty", "test", "free", "clear"} => buf_id[c] \in Ids(NumBuf)
  BY HandsFacts
<1>4. NULL \notin freed[c]
  <2>1. freed[c] \in SUBSET Frames
    BY DEF TypeOK
  <2>2. init_param \in Scenarios
    BY DEF TypeOK
  <2>3. MaxFrames \in Nat
    BY <2>2, Bounds
  <2>4. 0 \notin Frames
    BY <2>3 DEF Frames
  <2>5. QED
    BY <2>1, <2>4 DEF NULL
<1>5. CASE CliTest(c)
  <2>1. /\ pc[c] = "test" /\ UNCHANGED <<data, freed, buf_id>>
        /\ pc'[c] = IF data[c][buf_id[c]] # NULL THEN "free" ELSE "loop"
    BY <1>0, <1>5 DEF CliTest, ToPc, bufVars
  <2>2. QED
    BY <1>1, <1>2, <2>1 DEF BlocksOwn
<1>6. CASE CliFree(c)
  <2>1. /\ pc[c] = "free" /\ pc'[c] = "clear" /\ UNCHANGED <<data, buf_id>>
        /\ freed'[c] = freed[c] \cup {data[c][buf_id[c]]}
    BY <1>0, <1>6 DEF CliFree, ToPc
  <2>2. QED
    BY <1>1, <1>2, <1>3, <2>1 DEF BlocksOwn
<1>7. CASE CliClear(c)
  <2>1. /\ pc[c] = "clear" /\ pc'[c] = "loop" /\ freed' = freed
        /\ data'[c][buf_id[c]] = NULL
        /\ \A b \in Ids(NumBuf) \ {buf_id[c]} : data'[c][b] = data[c][b]
    BY <1>0, <1>3, <1>7 DEF CliClear, ToPc
  <2>2. QED
    BY <1>1, <1>2, <1>4, <2>1 DEF BlocksOwn
<1>8. CASE CliDrain(c)
  <2>1. pc'[c] = "gone" /\ \A b \in Ids(NumBuf) : data'[c][b] = NULL
    BY <1>0, <1>8 DEF CliDrain, ToPc
  <2>2. NULL \notin freed'[c]
    BY <1>0, <1>4, <1>8 DEF CliDrain
  <2>3. QED
    BY <1>1, <2>1, <2>2 DEF BlocksOwn
<1>9. CASE /\ data' = data /\ freed' = freed /\ pc[c] # "clear" /\ pc'[c] # "free"
  BY <1>1, <1>2, <1>9 DEF BlocksOwn
<1>10. CASE \/ CliInit(c) \/ CliPush(c) \/ CliLoop(c) \/ CliGet(c) \/ CliSend(c) \/ CliPutEmpty(c)
            \/ CliRecv(c) \/ CliFail(c)
  <2>1. /\ data' = data /\ freed' = freed /\ pc[c] # "clear" /\ pc'[c] # "free"
    BY <1>0, <1>10 DEF CliInit, CliPush, PushBack, Break, CliLoop, CliGet, CliSend, CliPutEmpty,
                       CliRecv, CliFail, ToPc, cliVars, bufVars
  <2>2. QED
    BY <1>9, <2>1
<1>11. CASE CliFreesWild(c) \/ CliErase(c) \/ CliClose(c) \/ CliUsesFreed(c)
  <2>1. /\ data' = data /\ freed' = freed /\ pc[c] # "clear" /\ pc'[c] # "free"
    BY <1>0, <1>11 DEF CliFreesWild, CliErase, CliClose, CliUsesFreed, Break, ToPc, cliVars, bufVars
  <2>2. QED
    BY <1>9, <2>1
<1>12. QED
  BY <1>5, <1>6, <1>7, <1>8, <1>10, <1>11 DEF Cli

LEMMA BlockKept ==
    ASSUME IInv, [Next]_vars
    PROVE  BlockInv'
<1>1. \A d \in Conns : BlocksOwn(d)
  BY DEF IInv, BlockInv
<1>2. CASE UNCHANGED vars
  BY <1>1, <1>2 DEF BlockInv, BlocksOwn, NumBuf, vars, handleVars, cliVars, bufVars
<1>3. CASE Srv
  <2>1. UNCHANGED <<init_param, data, freed, buf_id>>
    BY <1>3, SrvLeaves DEF bufVars
  <2>2. \A d \in Conns : pc'[d] = pc[d] \/ (pc[d] = "none" /\ pc'[d] = "init")
    BY <1>3, SrvPcs
  <2>3. QED
    BY <1>1, <2>1, <2>2 DEF BlockInv, BlocksOwn, NumBuf
<1>4. CASE \E c \in Conns : Cli(c)
  <2>1. PICK c \in Conns : Cli(c)
    BY <1>4
  <2>2. NumBuf' = NumBuf
    BY <2>1, CliLeaves DEF NumBuf
  <2>3. ASSUME NEW d \in Conns, d # c PROVE BlocksOwn(d)'
    BY <1>1, <2>1, <2>2, <2>3, CliLocal DEF BlocksOwn, IInv
  <2>4. BlocksOwn(c)'
    BY <2>1, CliOwn
  <2>5. QED
    BY <2>3, <2>4 DEF BlockInv
<1>5. QED
  BY <1>2, <1>3, <1>4, StepsAre, AppBlocks

-----------------------------------------------------------------------------
(* The order of the frames *)

\* The ids queued as full.
LEMMA FullIds ==
    ASSUME TypeOK, NEW c \in Conns
    PROVE  /\ pool[c] \in Pools(NumBuf) /\ pool[c].full \in Seq(Ids(NumBuf))
           /\ Len(pool[c].full) \in Nat /\ DOMAIN pool[c].full = 1 .. Len(pool[c].full)
           /\ \A i \in DOMAIN pool[c].full : /\ pool[c].full[i] \in Ids(NumBuf)
                                             /\ pool[c].full[i] \in Range(pool[c].full)
           /\ \A b \in Range(pool[c].full) :
                 b \in Ids(NumBuf) /\ \E i \in DOMAIN pool[c].full : pool[c].full[i] = b
<1>1. pool[c] \in Pools(NumBuf)
  BY DEF TypeOK
<1>2. pool[c].full \in Seq(Ids(NumBuf))
  BY <1>1, PoolParts
<1>3. Len(pool[c].full) \in Nat /\ DOMAIN pool[c].full = 1 .. Len(pool[c].full)
  BY <1>2, LenProperties
<1>4. \A i \in DOMAIN pool[c].full : /\ pool[c].full[i] \in Ids(NumBuf)
                                     /\ pool[c].full[i] \in Range(pool[c].full)
  BY <1>2, <1>3, ElementOfSeq DEF Range
<1>5. \A b \in Range(pool[c].full) :
         b \in Ids(NumBuf) /\ \E i \in DOMAIN pool[c].full : pool[c].full[i] = b
  BY <1>4 DEF Range
<1>6. QED
  BY <1>1, <1>2, <1>3, <1>4, <1>5

\* A step that queues, sends and takes no frame of this client keeps their order,
\* though it may forget one.
LEMMA OrderStays ==
    ASSUME IInv, NEW c \in Conns, NumBuf' = NumBuf,
           pool'[c].full = pool[c].full, sent'[c] = sent[c],
           \A b \in Ids(NumBuf) : data'[c][b] = data[c][b] \/ data'[c][b] = NULL,
           pc'[c] = "send" => pc[c] = "send" /\ buf_id'[c] = buf_id[c],
           (Filling(c) /\ appPc # "alloc")' =>
              Filling(c) /\ appPc # "alloc" /\ appBuf' = appBuf /\ frame' = frame
    PROVE  InOrder(c)'
<1> USE DEF IInv
<1> DEFINE q == pool[c].full
<1>1. /\ DOMAIN q = 1 .. Len(q)
      /\ \A i \in DOMAIN q : q[i] \in Ids(NumBuf) /\ q[i] \in Range(q)
      /\ \A b \in Range(q) : b \in Ids(NumBuf)
  BY FullIds
<1>2. InOrder(c)
  BY DEF OrderInv
<1>3. pc[c] = "send" => buf_id[c] \in Ids(NumBuf)
  BY HandsFacts
<1>4. Filling(c) /\ appPc # "alloc" => appBuf \in Ids(NumBuf) /\ frame >= 1 /\ frame \in Nat
  BY FrameTypes DEF Filling, HandsInv, FillSteps
<1>5. \A b \in Ids(NumBuf) : data[c][b] \in Nat /\ (data'[c][b] # NULL => data'[c][b] = data[c][b])
  BY FrameTypes
<1>6. \A i, j \in DOMAIN q : i < j => Before(data'[c][q[i]], data'[c][q[j]])
  BY <1>1, <1>2, <1>5 DEF InOrder, Before
<1>7. ASSUME NEW b \in Range(q), data'[c][b] # NULL
      PROVE  sent[c] < data'[c][b] /\ (pc'[c] = "send" => data'[c][buf_id[c]] < data'[c][b])
  <2>1. data'[c][b] = data[c][b] /\ sent[c] < data[c][b] /\ data[c][b] \in Nat
    BY <1>1, <1>2, <1>5, <1>7 DEF InOrder
  <2>2. ASSUME pc'[c] = "send" PROVE data'[c][buf_id[c]] < data[c][b]
    <3>1. data[c][buf_id[c]] < data[c][b] /\ buf_id[c] \in Ids(NumBuf)
      BY <1>2, <1>3, <1>7, <2>1, <2>2 DEF InOrder
    <3>2. QED
      BY <1>5, <1>7, <2>1, <3>1 DEF NULL
  <2>3. QED
    BY <2>1, <2>2
<1>8. pc'[c] = "send" /\ data'[c][buf_id[c]] # NULL => sent[c] < data'[c][buf_id[c]]
  BY <1>2, <1>3, <1>5 DEF InOrder
<1>9. ASSUME Filling(c), appPc # "alloc"
      PROVE  /\ data'[c][appBuf] \in {NULL, frame} /\ sent[c] < frame
             /\ \A b \in Ids(NumBuf) \ {appBuf} : data'[c][b] < frame
  BY <1>2, <1>4, <1>5, <1>9 DEF InOrder, NULL
<1> HIDE DEF q
<1>10. pool'[c].full = q
  BY DEF q
<1>11. QED
  BY <1>6, <1>7, <1>8, <1>9, <1>10 DEF InOrder

\* The application moves ids in two of its steps.
LEMMA AppMoves ==
    ASSUME IInv, AppStep
    PROVE  \/ AppGetEmpty \/ AppPutFull \/ AppAlloc
           \/ /\ pool' = pool /\ data' = data
              /\ \A d \in Conns : (Filling(d) /\ appPc # "alloc")' =>
                    Filling(d) /\ appPc # "alloc" /\ appBuf' = appBuf /\ frame' = frame
<1> USE DEF FillSteps, appVars, cliVars, bufVars, Break, IInv, Filling
<1>1. CASE AppSendBuf
  BY <1>1 DEF AppSendBuf
<1>2. CASE AppPrintfInfo \/ AppDestory \/ AppUnlock \/ AppDrained \/ AppFree
  BY <1>2 DEF AppPrintfInfo, AppDestory, AppUnlock, AppDrained, AppFree
<1>3. CASE AppWalk
  BY <1>3 DEF AppWalk
<1>4. CASE AppSkip
  BY <1>4 DEF AppSkip
<1>5. CASE AppAssert
  BY <1>5 DEF AppAssert
<1>6. CASE AppCopy
  BY <1>6 DEF AppCopy
<1>7. QED
  BY <1>1, <1>2, <1>3, <1>4, <1>5, <1>6 DEF AppStep, App

\* The frame that is filled in is later than every one that is queued.
LEMMA QueuedInOrder ==
    ASSUME IInv, AppPutFull, NEW d \in Conns, d = appAt
    PROVE  InOrder(d)'
<1> USE DEF IInv
<1> DEFINE q == pool[appAt].full
<1>1. /\ appPc = "put" /\ appPc' = "fill" /\ UNCHANGED <<init_param, pc, buf_id, data, sent>>
      /\ pool' = [pool EXCEPT ![appAt] = WithFull(pool[appAt], appBuf)]
  BY DEF AppPutFull, handleVars
<1>2. /\ appAt \in Conns /\ Filling(appAt)
  BY <1>1 DEF TypeOK, HandsInv, FillSteps, Filling
<1>3. /\ pool[appAt] \in Pools(NumBuf) /\ q \in Seq(Ids(NumBuf)) /\ Len(q) \in Nat
      /\ DOMAIN q = 1 .. Len(q)
      /\ \A i \in DOMAIN q : q[i] \in Ids(NumBuf) /\ q[i] \in Range(q)
  BY <1>2, FullIds
<1>4. /\ PoolApart(pool[appAt]) /\ appBuf \in Ids(NumBuf)
      /\ appBuf \notin Range(pool[appAt].empty) /\ appBuf \notin Range(q)
      /\ pc[appAt] = "send" => buf_id[appAt] \in Ids(NumBuf) /\ buf_id[appAt] # appBuf
  BY <1>2, HandsFacts DEF Sending
<1> DEFINE r == Append(q, appBuf)
<1>5. pool'[appAt].full = r /\ Range(r) = Range(q) \cup {appBuf}
  <2>1. /\ WithFull(pool[appAt], appBuf).full = r
        /\ Range(WithFull(pool[appAt], appBuf).full) = Range(q) \cup {appBuf}
    <3> DEFINE p == pool[appAt]
    <3>1. /\ p \in Pools(NumBuf) /\ PoolApart(p) /\ appBuf \in Ids(NumBuf)
          /\ appBuf \notin Range(p.empty) /\ appBuf \notin Range(p.full)
      BY <1>3, <1>4
    <3> HIDE DEF p
    <3>2. /\ WithFull(p, appBuf).full = Append(p.full, appBuf)
          /\ Range(WithFull(p, appBuf).full) = Range(p.full) \cup {appBuf}
      BY <3>1, FullGiven
    <3>3. QED
      BY <3>2 DEF p
  <2>2. pool'[appAt] = WithFull(pool[appAt], appBuf)
    BY <1>1, <1>2 DEF TypeOK
  <2>3. QED
    BY <2>1, <2>2
<1>6. /\ DOMAIN r = 1 .. Len(q) + 1 /\ \A i \in 1 .. Len(q) : r[i] = q[i]
      /\ r[Len(q) + 1] = appBuf
  BY <1>3, <1>4, AppendProperties, LenProperties
<1>7. InOrder(appAt)
  BY <1>2 DEF OrderInv
<1>8. /\ data[appAt][appBuf] \in {NULL, frame} /\ sent[appAt] < frame
      /\ \A b \in Ids(NumBuf) \ {appBuf} : data[appAt][b] < frame
  BY <1>1, <1>2, <1>7 DEF InOrder
<1>9. \A b \in Range(q) : b \in Ids(NumBuf) \ {appBuf}
  BY <1>2, <1>4, FullIds
<1> HIDE DEF r
<1>10. ASSUME NEW i \in 1 .. Len(q) + 1, NEW j \in 1 .. Len(q) + 1, i < j
       PROVE  Before(data[appAt][r[i]], data[appAt][r[j]])
  <2>1. i \in 1 .. Len(q)
    BY <1>3, <1>10
  <2>2. CASE j \in 1 .. Len(q)
    BY <1>3, <1>6, <1>7, <1>10, <2>1, <2>2 DEF InOrder
  <2>3. CASE j = Len(q) + 1
    <3>1. data[appAt][r[i]] < frame /\ r[j] = appBuf
      BY <1>3, <1>6, <1>8, <1>9, <2>1, <2>3
    <3>2. QED
      BY <1>8, <3>1 DEF Before
  <2>4. QED
    BY <1>3, <2>2, <2>3
<1>11. ASSUME NEW b \in Range(r), data[appAt][b] # NULL
       PROVE  /\ sent[appAt] < data[appAt][b]
              /\ pc[appAt] = "send" => data[appAt][buf_id[appAt]] < data[appAt][b]
  <2>1. CASE b \in Range(q)
    BY <1>7, <1>11, <2>1 DEF InOrder
  <2>2. CASE b = appBuf
    BY <1>4, <1>8, <1>11, <2>2
  <2>3. QED
    BY <1>5, <2>1, <2>2
<1>12. pc[appAt] = "send" /\ data[appAt][buf_id[appAt]] # NULL
          => sent[appAt] < data[appAt][buf_id[appAt]]
  BY <1>7 DEF InOrder
<1> HIDE DEF q
<1>13. ~Filling(d)'
  BY <1>1 DEF Filling
<1>14. pool'[d].full = r /\ DOMAIN r = 1 .. Len(q) + 1
  BY <1>5, <1>6
<1>15. QED
  BY <1>1, <1>10, <1>11, <1>12, <1>13, <1>14 DEF InOrder

LEMMA AppOrder ==
    ASSUME IInv, AppStep
    PROVE  OrderInv'
<1> USE DEF IInv
<1> SUFFICES ASSUME NEW d \in Conns PROVE InOrder(d)'
  BY DEF OrderInv
<1>1. NumBuf' = NumBuf /\ UNCHANGED <<pc, buf_id, sent>>
  BY AppLeaves DEF NumBuf
<1>2. CASE AppPutFull
  <2>1. CASE d = appAt
    BY <1>2, <2>1, QueuedInOrder
  <2>2. CASE d # appAt
    <3>1. pool'[d] = pool[d] /\ data' = data /\ ~Filling(d)'
      BY <1>2, <2>2 DEF AppPutFull, Filling, TypeOK
    <3>2. QED
      BY <1>1, <3>1, OrderStays
  <2>3. QED
    BY <2>1, <2>2
<1>3. CASE AppGetEmpty
  <2>1. data' = data /\ appPc' = "alloc"
    BY <1>3 DEF AppGetEmpty
  <2>2. pool'[d].full = pool[d].full
    <3>1. /\ pool' = [pool EXCEPT ![appAt] = LessEmpty(pool[appAt])]
          /\ appAt \in Conns /\ pool[appAt].empty # << >>
      BY <1>3 DEF AppGetEmpty, TypeOK
    <3>2. LessEmpty(pool[appAt]).full = pool[appAt].full
      BY <3>1, HandsFacts, EmptyTaken
    <3>3. QED
      BY <3>1, <3>2 DEF TypeOK
  <2>3. QED
    BY <1>1, <2>1, <2>2, OrderStays
<1>4. CASE AppAlloc
  <2>1. /\ appAt \in Conns /\ appBuf \in Ids(NumBuf) /\ frame \in Nat /\ frame >= 1
        /\ Older(appAt, frame) /\ frame' = frame /\ data'[appAt][appBuf] = frame
        /\ \A b \in Ids(NumBuf) \ {appBuf} : data'[appAt][b] = data[appAt][b]
        /\ \A e \in Conns \ {appAt} : data'[e] = data[e]
    BY <1>4, AtAlloc
  <2>2. pool' = pool /\ appPc = "alloc" /\ appAt' = appAt /\ appBuf' = appBuf
    BY <1>4 DEF AppAlloc
  <2>3. CASE d # appAt
    <3>1. data'[d] = data[d] /\ ~Filling(d)'
      BY <2>1, <2>2, <2>3 DEF Filling
    <3>2. QED
      BY <1>1, <2>2, <3>1, OrderStays
  <2>4. CASE d = appAt
    <3>1. Filling(d) /\ InOrder(d)
      BY <2>2, <2>4 DEF Filling, FillSteps, OrderInv
    <3>2. appBuf \notin Range(pool[d].full) /\ (pc[d] = "send" => buf_id[d] # appBuf)
      BY <3>1, HandsFacts DEF Sending
    <3>3. pc[d] = "send" => buf_id[d] \in Ids(NumBuf)
      BY HandsFacts
    <3>4. \A b \in Range(pool[d].full) : data'[d][b] = data[d][b]
      BY <2>1, <2>4, <3>2, FullIds
    <3>5. \A i, j \in DOMAIN pool[d].full :
             i < j => Before(data'[d][pool[d].full[i]], data'[d][pool[d].full[j]])
      BY <3>1, <3>4, FullIds DEF InOrder
    <3>6. pc[d] = "send" => data'[d][buf_id[d]] = data[d][buf_id[d]]
      BY <2>1, <2>4, <3>2, <3>3
    <3>7. /\ data'[d][appBuf] \in {NULL, frame} /\ sent[d] < frame
          /\ \A b \in Ids(NumBuf) \ {appBuf} : data'[d][b] < frame
      BY <2>1, <2>4 DEF Older
    <3>8. QED
      BY <1>1, <2>1, <2>2, <3>1, <3>4, <3>5, <3>6, <3>7 DEF InOrder
  <2>5. QED
    BY <2>3, <2>4
<1>5. CASE /\ pool' = pool /\ data' = data
           /\ \A e \in Conns : (Filling(e) /\ appPc # "alloc")' =>
                 Filling(e) /\ appPc # "alloc" /\ appBuf' = appBuf /\ frame' = frame
  BY <1>1, <1>5, OrderStays
<1>6. QED
  BY <1>2, <1>3, <1>4, <1>5, AppMoves

\* The frame that is taken out is before those behind it.
LEMMA TakenInOrder ==
    ASSUME IInv, NEW c \in Conns, CliGet(c)
    PROVE  InOrder(c)'
<1> USE DEF IInv
<1> DEFINE q == pool[c].full
           t == Tail(q)
<1>1. /\ pc'[c] = "send" /\ q # << >> /\ buf_id'[c] = Head(q) /\ pool'[c] = LessFull(pool[c])
      /\ UNCHANGED <<init_param, appPc, appAt, appBuf, frame, data, sent>>
  BY DEF CliGet, TypeOK, handleVars, appVars, ToPc
<1>2. /\ pool[c] \in Pools(NumBuf) /\ q \in Seq(Ids(NumBuf)) /\ Len(q) \in Nat
      /\ DOMAIN q = 1 .. Len(q)
      /\ \A i \in DOMAIN q : q[i] \in Ids(NumBuf) /\ q[i] \in Range(q)
      /\ \A b \in Range(q) : b \in Ids(NumBuf) /\ \E i \in DOMAIN q : q[i] = b
  BY FullIds
<1>3. PoolApart(pool[c]) /\ IsInjective(q)
  BY HandsFacts DEF PoolApart
<1>4. pool'[c].full = t
  <2> DEFINE p == pool[c]
  <2>1. p \in Pools(NumBuf) /\ PoolApart(p) /\ p.full # << >>
    BY <1>1, <1>2, <1>3
  <2> HIDE DEF p
  <2>2. LessFull(p).full = Tail(p.full)
    BY <2>1, FullTaken
  <2>3. QED
    BY <1>1, <2>2 DEF p
<1>5. /\ t \in Seq(Ids(NumBuf)) /\ Len(q) > 0 /\ Len(t) = Len(q) - 1 /\ Head(q) = q[1]
      /\ \A i \in 1 .. Len(q) - 1 : t[i] = q[i + 1]
      /\ Range(t) = Range(q) \ {Head(q)}
  <2> HIDE DEF q
  <2>1. QED
    BY <1>1, <1>2, <1>3, TailTakes
<1>6. DOMAIN t = 1 .. Len(q) - 1
  BY <1>5, LenProperties
<1>7. InOrder(c)
  BY DEF OrderInv
<1> HIDE DEF t
<1>8. ASSUME NEW i \in 1 .. Len(q) - 1, NEW j \in 1 .. Len(q) - 1, i < j
      PROVE  Before(data[c][t[i]], data[c][t[j]])
  <2>1. i + 1 \in DOMAIN q /\ j + 1 \in DOMAIN q /\ i + 1 < j + 1
    BY <1>2, <1>8
  <2>2. Before(data[c][q[i + 1]], data[c][q[j + 1]])
    BY <1>7, <2>1 DEF InOrder
  <2>3. QED
    BY <1>5, <2>2
<1>9. Head(q) \in Range(q) /\ Head(q) \in Ids(NumBuf) /\ 1 \in DOMAIN q
  BY <1>2, <1>5
<1>10. ASSUME NEW b \in Range(t), data[c][b] # NULL
       PROVE  sent[c] < data[c][b] /\ data[c][Head(q)] < data[c][b]
  <2>1. b \in Range(q) /\ b # Head(q) /\ data[c][b] \in Nat /\ data[c][Head(q)] \in Nat
    BY <1>2, <1>5, <1>9, <1>10, FrameTypes
  <2>2. PICK i \in DOMAIN q : q[i] = b
    BY <1>2, <2>1
  <2>3. 1 < i
    BY <1>2, <1>5, <2>1, <2>2
  <2>4. Before(data[c][Head(q)], data[c][b])
    BY <1>5, <1>7, <1>9, <2>2, <2>3 DEF InOrder
  <2>5. sent[c] < data[c][b]
    BY <1>7, <1>10, <2>1 DEF InOrder
  <2>6. QED
    BY <1>10, <2>1, <2>4, <2>5 DEF Before, NULL
<1>11. data[c][Head(q)] # NULL => sent[c] < data[c][Head(q)]
  BY <1>7, <1>9 DEF InOrder
<1>12. Filling(c)' /\ appPc # "alloc" =>
          /\ data[c][appBuf] \in {NULL, frame} /\ sent[c] < frame
          /\ \A b \in Ids(NumBuf) \ {appBuf} : data[c][b] < frame
  BY <1>1, <1>7 DEF InOrder, Filling
<1> HIDE DEF q
<1>13. NumBuf' = NumBuf
  BY <1>1 DEF NumBuf
<1>14. QED
  BY <1>1, <1>4, <1>6, <1>8, <1>10, <1>11, <1>12, <1>13 DEF InOrder

\* The frame that is sent is after those sent before and before those queued.
LEMMA SentIsNext ==
    ASSUME IInv, NEW c \in Conns, CliSend(c), sent'[c] # sent[c]
    PROVE  /\ data[c][buf_id[c]] # NULL /\ sent'[c] = data[c][buf_id[c]]
           /\ pc[c] = "send" /\ pc'[c] = "putEmpty"
           /\ UNCHANGED <<init_param, appPc, appAt, appBuf, frame, data, pool, buf_id>>
  BY DEF CliSend, IInv, TypeOK, ToPc, handleVars, appVars

LEMMA CliOrder ==
    ASSUME IInv, NEW c \in Conns, Cli(c)
    PROVE  InOrder(c)'
<1> USE DEF IInv
<1>0. DOMAIN pc = Conns /\ DOMAIN pool = Conns
  BY DEF TypeOK
<1>1. NumBuf' = NumBuf /\ UNCHANGED <<appPc, appAt, appBuf, frame>>
  BY CliLeaves DEF NumBuf, appVars
<1>2. \A b \in Ids(NumBuf) : data'[c][b] = data[c][b] \/ data'[c][b] = NULL
  BY CliBlocks
<1>3. Filling(c)' <=> Filling(c)
  BY <1>1 DEF Filling
<1>4. CASE /\ pool'[c].full = pool[c].full /\ sent'[c] = sent[c]
           /\ pc'[c] = "send" => pc[c] = "send" /\ buf_id'[c] = buf_id[c]
  BY <1>1, <1>2, <1>3, <1>4, OrderStays
<1>5. CASE CliGet(c)
  BY <1>5, TakenInOrder
<1>6. CASE CliSend(c) /\ sent'[c] # sent[c]
  <2>1. /\ data[c][buf_id[c]] # NULL /\ sent'[c] = data[c][buf_id[c]]
        /\ pc[c] = "send" /\ pc'[c] = "putEmpty" /\ UNCHANGED <<data, pool, buf_id>>
    BY <1>6, SentIsNext
  <2>2. InOrder(c)
    BY DEF OrderInv
  <2>3. Filling(c) => buf_id[c] # appBuf /\ buf_id[c] \in Ids(NumBuf)
    BY <2>1, HandsFacts DEF Sending
  <2>4. QED
    BY <1>1, <1>3, <2>1, <2>2, <2>3 DEF InOrder
<1>7. CASE CliInit(c) \/ CliDrain(c)
  <2>1. DOMAIN pool'[c].full = {} \/ pool'[c].full = pool[c].full
    <3>1. << >> = [i \in {} |-> 0]
      OBVIOUS
    <3>2. CASE CliInit(c)
      <4>1. pool' = pool \/ pool'[c] = NewPool(NumBuf)
        BY <1>0, <3>2 DEF CliInit
      <4>2. NewPool(NumBuf).full = << >>
        BY DEF NewPool
      <4>3. QED
        BY <4>1, <4>2, EmptySeq
    <3>3. CASE CliDrain(c)
      <4>1. pool'[c] = [empty |-> << >>, full |-> << >>]
        BY <1>0, <3>3 DEF CliDrain
      <4>2. QED
        BY <4>1, EmptySeq
    <3>4. QED
      BY <1>7, <3>2, <3>3
  <2>2. /\ pc[c] \in {"init", "drain"} /\ pc'[c] \in {"push", "gone"} /\ sent' = sent
    BY <1>0, <1>7 DEF CliInit, CliDrain, ToPc
  <2>3. ~Filling(c)
    BY <2>2, HandsFacts DEF Served, Busy
  <2>4. CASE DOMAIN pool'[c].full = {}
    BY <1>3, <2>2, <2>3, <2>4 DEF InOrder, Range
  <2>5. CASE pool'[c].full = pool[c].full
    BY <1>4, <2>2, <2>5
  <2>6. QED
    BY <2>1, <2>4, <2>5
<1>8. CASE CliPutEmpty(c)
  <2>1. /\ pc'[c] = "test" /\ sent' = sent /\ pool[c] \in Pools(NumBuf)
        /\ pool'[c] = WithEmpty(pool[c], buf_id[c])
    BY <1>0, <1>8 DEF CliPutEmpty, ToPc, TypeOK
  <2>2. WithEmpty(pool[c], buf_id[c]).full = pool[c].full
    <3> DEFINE p == pool[c]
    <3>1. p \in Pools(NumBuf)
      BY <2>1
    <3> HIDE DEF p
    <3>2. WithEmpty(p, buf_id[c]) = [empty |-> Append(p.empty, buf_id[c]), full |-> p.full]
      BY <3>1, PoolCalls
    <3>3. QED
      BY <3>2 DEF p
  <2>3. QED
    BY <1>4, <2>1, <2>2
<1>9. CASE CliSend(c) /\ sent'[c] = sent[c]
  <2>1. pool' = pool /\ pc'[c] \in {"putEmpty", "fail"}
    BY <1>0, <1>9 DEF CliSend, ToPc
  <2>2. QED
    BY <1>4, <1>9, <2>1
<1>10. CASE CliPush(c) \/ CliLoop(c) \/ CliTest(c) \/ CliFree(c) \/ CliClear(c) \/ CliRecv(c)
            \/ CliFail(c)
  <2>1. pool' = pool /\ sent' = sent /\ pc'[c] # "send"
    BY <1>0, <1>10 DEF CliPush, PushBack, Break, CliLoop, CliTest, CliFree, CliClear, CliRecv,
                       CliFail, ToPc, cliVars, bufVars
  <2>2. QED
    BY <1>4, <2>1
<1>11. CASE CliFreesWild(c) \/ CliErase(c) \/ CliClose(c) \/ CliUsesFreed(c)
  <2>1. pool' = pool /\ sent' = sent /\ buf_id' = buf_id /\ (pc'[c] = "send" => pc[c] = "send")
    BY <1>0, <1>11 DEF CliFreesWild, CliErase, CliClose, CliUsesFreed, ToPc, bufVars, cliVars, Break
  <2>2. QED
    BY <1>4, <2>1
<1>12. QED
  BY <1>5, <1>6, <1>7, <1>8, <1>9, <1>10, <1>11 DEF Cli

LEMMA OrderKept ==
    ASSUME IInv, [Next]_vars
    PROVE  OrderInv'
<1>1. CASE UNCHANGED vars \/ Srv
  <2>1. UNCHANGED <<init_param, appPc, appAt, appBuf, frame, sent, data, pool, buf_id>>
    BY <1>1, SrvLeaves DEF vars, handleVars, appVars, cliVars, bufVars
  <2>2. \A d \in Conns : pc'[d] = "send" => pc[d] = "send"
    BY <1>1, SrvPcs DEF vars, cliVars
  <2>3. NumBuf' = NumBuf /\ \A d \in Conns : Filling(d)' <=> Filling(d)
    BY <2>1 DEF Filling, NumBuf
  <2>4. ASSUME NEW d \in Conns PROVE InOrder(d)'
    BY <2>1, <2>2, <2>3, OrderStays
  <2>5. QED
    BY <2>4 DEF OrderInv
<1>2. CASE \E c \in Conns : Cli(c)
  <2>1. PICK c \in Conns : Cli(c)
    BY <1>2
  <2>2. NumBuf' = NumBuf /\ UNCHANGED <<appPc, appAt, appBuf, frame>>
    BY <2>1, CliLeaves DEF NumBuf, appVars
  <2>3. \A d \in Conns : Filling(d)' <=> Filling(d)
    BY <2>2 DEF Filling
  <2>4. ASSUME NEW d \in Conns, d # c PROVE InOrder(d)'
    <3>1. /\ pc'[d] = pc[d] /\ buf_id'[d] = buf_id[d] /\ pool'[d] = pool[d]
          /\ data'[d] = data[d] /\ sent'[d] = sent[d]
      BY <2>1, <2>4, CliLocal DEF IInv
    <3>2. QED
      BY <2>2, <2>3, <3>1, OrderStays
  <2>5. InOrder(c)'
    BY <2>1, CliOrder
  <2>6. QED
    BY <2>4, <2>5 DEF OrderInv
<1>3. QED
  BY <1>1, <1>2, StepsAre, AppOrder

-----------------------------------------------------------------------------
(* The descriptors *)

\* What a step of a client thread does to its connection.
LEMMA CliSocks ==
    ASSUME IInv, NEW c \in Conns, Cli(c)
    PROVE  \/ /\ pc[c] = "init" /\ pc'[c] = "push" /\ status'[c] = "CLIENT_CONNECT"
              /\ UNCHANGED <<socket, fdOwner, struck>>
           \/ /\ pc[c] = "fail" /\ pc'[c] = "loop" /\ status'[c] = "CLIENT_DISCONNECT"
              /\ socket'[c] = -1 /\ Close(c)
           \/ /\ pc[c] = "close" /\ pc'[c] = "drain" /\ UNCHANGED <<status, socket>>
              /\ Close(c)
           \/ /\ UNCHANGED <<status, socket, fdOwner, struck>>
              /\ \/ /\ pc[c] \in SockSteps \cup {"push"} /\ pc'[c] \in SockSteps
                    /\ pc'[c] \in Busy => pc[c] \in Busy \/ status[c] = "CLIENT_CONNECT"
                 \/ pc'[c] = pc[c]
                 \/ pc[c] \in {"init", "drain"} /\ pc'[c] = "gone"
<1> USE DEF IInv, SockSteps, Busy
<1>0. DOMAIN pc = Conns /\ DOMAIN status = Conns /\ DOMAIN socket = Conns
  BY DEF TypeOK
<1>1. CASE CliInit(c)
  BY <1>0, <1>1 DEF CliInit, ToPc, sockVars
<1>2. CASE CliFail(c)
  BY <1>0, <1>2 DEF CliFail, ToPc
<1>3. CASE CliClose(c)
  BY <1>0, <1>3 DEF CliClose, ToPc
<1>4. CASE CliPush(c)
  BY <1>0, <1>4 DEF CliPush, PushBack, Break, ToPc, sockVars, cliVars
<1>5. CASE CliLoop(c)
  BY <1>0, <1>5 DEF CliLoop, Looping, ToPc, sockVars
<1>6. CASE CliGet(c) \/ CliSend(c) \/ CliPutEmpty(c)
  BY <1>0, <1>6 DEF CliGet, CliSend, CliPutEmpty, ToPc, sockVars
<1>7. CASE CliTest(c) \/ CliFree(c) \/ CliClear(c) \/ CliRecv(c) \/ CliErase(c)
  BY <1>0, <1>7 DEF CliTest, CliFree, CliClear, CliRecv, CliErase, ToPc, sockVars
<1>8. CASE CliDrain(c)
  BY <1>0, <1>8 DEF CliDrain, ToPc, sockVars
<1>9. CASE CliFreesWild(c) \/ CliUsesFreed(c)
  BY <1>9 DEF CliFreesWild, CliUsesFreed, Break, cliVars, sockVars
<1>10. QED
  BY <1>1, <1>2, <1>3, <1>4, <1>5, <1>6, <1>7, <1>8, <1>9 DEF Cli

\* A close takes another connection's descriptor only by striking it.
LEMMA CloseStrikes ==
    ASSUME TypeOK, NEW c \in Conns, Close(c), client_socket[c] \in Fds,
           NEW d \in Conns, d # c, client_socket' = client_socket, Owns(d)
    PROVE  Owns(d)'
<1>1. DOMAIN fdOwner = Fds /\ d # NoConn
  <2>1. d # 0
    BY DEF Conns
  <2>2. QED
    BY <2>1 DEF TypeOK, NoConn
<1>2. ASSUME d \notin struck' PROVE fdOwner'[client_socket[d]] = d
  <2>1. fdOwner[client_socket[d]] = d
    BY <1>2 DEF Owns, Close
  <2>2. client_socket[d] # client_socket[c]
    BY <1>1, <1>2, <2>1 DEF Close
  <2>3. QED
    BY <1>1, <2>1, <2>2 DEF Close, Owns
<1>3. QED
  BY <1>2 DEF Owns

LEMMA SrvSock ==
    ASSUME IInv, Srv
    PROVE  SockInv'
<1> USE DEF IInv
<1>0. DOMAIN pc = Conns /\ DOMAIN socket = Conns
  BY DEF TypeOK
<1>1. /\ status' = status /\ struck' = struck
      /\ \A d \in Conns : pc'[d] = pc[d] \/ (pc[d] = "none" /\ pc'[d] = "init")
  BY SrvLeaves, SrvPcs DEF Srv, SrvBind, SrvStart, SrvCheck, SrvAccept, SrvSize, SrvAdmit, SrvAbor,
                           cliVars, sockVars
<1>2. \A d \in Conns : pc[d] # "none" => socket'[d] = socket[d]
  <2>1. CASE SrvAdmit
    BY <1>0, <2>1 DEF SrvAdmit, SrvInv
  <2>2. CASE SrvBind \/ SrvStart \/ SrvCheck \/ SrvAccept \/ SrvSize \/ SrvAbor
    BY <2>2 DEF SrvBind, SrvStart, SrvCheck, SrvAccept, SrvSize, SrvAbor, cliVars, sockVars
  <2>3. QED
    BY <2>1, <2>2 DEF Srv
<1>3. struck' # {} => \E d \in Conns : pc'[d] \in {"drain", "gone"} /\ socket'[d] = -1
  BY <1>1, <1>2 DEF SockInv
<1>4. \A d \in Conns :
         /\ pc'[d] = "push" => status'[d] = "CLIENT_CONNECT"
         /\ pc'[d] \in Busy => status'[d] = "CLIENT_CONNECT"
         /\ pc'[d] \in SockSteps /\ status'[d] # "CLIENT_CONNECT" => socket'[d] = -1
  BY <1>1, <1>2 DEF SockInv, SockSteps, Busy
<1>5. \A d \in Conns : pc'[d] = pc[d] => (Connected(d)' <=> Connected(d))
  BY <1>1 DEF Connected
<1>6. /\ \A d \in Conns : /\ pc'[d] \in Active => client_socket'[d] \in Fds
                          /\ Connected(d)' => Owns(d)'
      /\ srvPc' \in {"size", "admit"} => Owns(srvConn)'
  <2>1. CASE SrvBind \/ SrvStart \/ SrvCheck \/ SrvAbor
    <3>1. UNCHANGED <<pc, client_socket, fdOwner>> /\ srvPc' \notin {"size", "admit"}
      BY <2>1 DEF SrvBind, SrvStart, SrvCheck, SrvAbor, cliVars, sockVars
    <3>2. QED
      BY <1>1, <1>5, <3>1 DEF SockInv, Owns
  <2>2. CASE SrvSize
    <3>1. UNCHANGED <<pc, client_socket, fdOwner, srvConn>> /\ srvPc = "size"
      BY <2>2 DEF SrvSize, cliVars, sockVars
    <3>2. QED
      BY <1>1, <1>5, <3>1 DEF SockInv, Owns
  <2>3. CASE SrvAdmit
    <3>1. /\ UNCHANGED <<client_socket, fdOwner>> /\ srvPc = "admit" /\ srvPc' = "check"
          /\ pc' = [pc EXCEPT ![srvConn] = "init"] \/ pc' = pc
      BY <2>3 DEF SrvAdmit
    <3>2. \A d \in Conns : pc'[d] = pc[d] \/ d = srvConn
      BY <1>0, <3>1
    <3>3. Owns(srvConn) /\ \A d \in Conns : Owns(d)' <=> Owns(d)
      BY <1>1, <3>1 DEF SockInv, Owns
    <3>4. ASSUME NEW d \in Conns
          PROVE  (pc'[d] \in Active => client_socket'[d] \in Fds) /\ (Connected(d)' => Owns(d)')
      <4>1. CASE pc'[d] = pc[d]
        BY <1>5, <3>1, <3>3, <4>1 DEF SockInv
      <4>2. CASE d = srvConn
        BY <3>1, <3>3, <4>2 DEF Owns
      <4>3. QED
        BY <3>2, <4>1, <4>2
    <3>5. QED
      BY <3>1, <3>4
  <2>4. CASE SrvAccept
    <3>1. pc' = pc
      BY <2>4 DEF SrvAccept
    <3>2. CASE srvPc' = "check" /\ UNCHANGED <<client_socket, fdOwner>>
      BY <1>1, <1>5, <3>1, <3>2 DEF SockInv, Owns
    <3>3. CASE ~(srvPc' = "check" /\ UNCHANGED <<client_socket, fdOwner>>)
      <4>1. PICK f \in Fds : /\ LowestFree(f) /\ srvConn < init_param.peers
                             /\ srvConn' = srvConn + 1
                             /\ fdOwner' = [fdOwner EXCEPT ![f] = srvConn + 1]
                             /\ client_socket' = [client_socket EXCEPT ![srvConn + 1] = f]
        BY <2>4, <3>3 DEF SrvAccept
      <4>2. srvConn \in 0 .. MaxConns /\ init_param \in Scenarios
        BY DEF TypeOK
      <4>3. MaxConns \in Nat /\ init_param.peers \in Nat /\ init_param.peers <= MaxConns
        BY <4>2, Bounds
      <4>4. srvConn \in Nat /\ srvConn + 1 \in Conns /\ srvConn + 1 > srvConn
        BY <4>1, <4>2, <4>3 DEF Conns
      <4>5. pc[srvConn + 1] = "none"
        BY <4>4 DEF SrvInv
      <4>6. fdOwner[f] = NoConn /\ DOMAIN fdOwner = Fds /\ DOMAIN client_socket = Conns
        BY <4>1 DEF LowestFree, TypeOK
      <4>7. \A d \in Conns : d # NoConn
        BY DEF Conns, NoConn
      <4>8. ASSUME NEW d \in Conns, pc[d] \in Active
            PROVE  client_socket'[d] \in Fds /\ (Connected(d)' => Owns(d)')
        <5>1. d # srvConn + 1
          BY <4>5, <4>8 DEF Active, SockSteps
        <5>2. client_socket'[d] = client_socket[d] /\ client_socket[d] \in Fds
          BY <4>1, <4>6, <4>8, <5>1 DEF SockInv
        <5>3. Connected(d)' => Owns(d)
          BY <1>5, <3>1 DEF SockInv
        <5>4. ASSUME Owns(d) PROVE Owns(d)'
          <6>1. ASSUME d \notin struck PROVE fdOwner'[client_socket[d]] = d
            <7>1. fdOwner[client_socket[d]] = d
              BY <5>4, <6>1 DEF Owns
            <7>2. QED
              BY <4>1, <4>6, <4>7, <5>2, <7>1
          <6>2. QED
            BY <1>1, <5>2, <6>1 DEF Owns
        <5>5. QED
          BY <5>2, <5>3, <5>4
      <4>9. Owns(srvConn)'
        BY <4>1, <4>4, <4>6 DEF Owns
      <4>10. \A d \in Conns : Connected(d)' => pc[d] \in Active
        BY <3>1 DEF Connected, Active
      <4>11. QED
        BY <3>1, <4>8, <4>9, <4>10
    <3>4. QED
      BY <3>2, <3>3
  <2>5. QED
    BY <2>1, <2>2, <2>3, <2>4 DEF Srv
<1>7. QED
  BY <1>3, <1>4, <1>6 DEF SockInv

LEMMA CliSock ==
    ASSUME IInv, NEW c \in Conns, Cli(c)
    PROVE  SockInv'
<1> USE DEF IInv
<1>1. /\ UNCHANGED <<client_socket, srvPc, srvConn>> /\ pc[c] # "none"
      /\ \A d \in Conns : d # c => /\ pc'[d] = pc[d] /\ status'[d] = status[d]
                                   /\ socket'[d] = socket[d]
  BY CliLeaves, CliLocal DEF srvVars
<1>2. \/ /\ pc[c] = "init" /\ pc'[c] = "push" /\ status'[c] = "CLIENT_CONNECT"
         /\ UNCHANGED <<socket, fdOwner, struck>>
      \/ /\ pc[c] = "fail" /\ pc'[c] = "loop" /\ status'[c] = "CLIENT_DISCONNECT"
         /\ socket'[c] = -1 /\ Close(c)
      \/ /\ pc[c] = "close" /\ pc'[c] = "drain" /\ UNCHANGED <<status, socket>>
         /\ Close(c)
      \/ /\ UNCHANGED <<status, socket, fdOwner, struck>>
         /\ \/ /\ pc[c] \in SockSteps \cup {"push"} /\ pc'[c] \in SockSteps
               /\ pc'[c] \in Busy => pc[c] \in Busy \/ status[c] = "CLIENT_CONNECT"
            \/ pc'[c] = pc[c]
            \/ pc[c] \in {"init", "drain"} /\ pc'[c] = "gone"
  BY CliSocks
<1>3. /\ pc[c] = "push" => status[c] = "CLIENT_CONNECT"
      /\ pc[c] \in Busy => status[c] = "CLIENT_CONNECT"
      /\ pc[c] \in SockSteps /\ status[c] # "CLIENT_CONNECT" => socket[c] = -1
      /\ pc[c] \in Active => client_socket[c] \in Fds
      /\ Connected(c) => Owns(c)
  BY DEF SockInv
<1>4. /\ pc'[c] = "push" => status'[c] = "CLIENT_CONNECT"
      /\ pc'[c] \in Busy => status'[c] = "CLIENT_CONNECT"
      /\ pc'[c] \in SockSteps /\ status'[c] # "CLIENT_CONNECT" => socket'[c] = -1
      /\ pc'[c] \in Active => client_socket[c] \in Fds
  BY <1>2, <1>3 DEF SockSteps, Busy, Active
<1>5. \/ UNCHANGED <<fdOwner, struck>>
      \/ Close(c) /\ client_socket[c] \in Fds /\ ~Connected(c)'
  BY <1>2, <1>3 DEF Connected, Active, SockSteps
<1>6. ASSUME NEW d \in Conns, Owns(d), d # c \/ UNCHANGED <<fdOwner, struck>>
      PROVE  Owns(d)'
  <2>1. CASE UNCHANGED <<fdOwner, struck>>
    BY <1>1, <1>6, <2>1 DEF Owns
  <2>2. CASE ~UNCHANGED <<fdOwner, struck>>
    BY <1>1, <1>5, <1>6, <2>2, CloseStrikes
  <2>3. QED
    BY <2>1, <2>2
<1>7. Connected(c)' => Connected(c) /\ UNCHANGED <<fdOwner, struck>>
  BY <1>2, <1>5 DEF Connected, SockSteps
<1>8. ASSUME NEW d \in Conns
      PROVE  /\ pc'[d] = "push" => status'[d] = "CLIENT_CONNECT"
             /\ pc'[d] \in Busy => status'[d] = "CLIENT_CONNECT"
             /\ pc'[d] \in SockSteps /\ status'[d] # "CLIENT_CONNECT" => socket'[d] = -1
             /\ pc'[d] \in Active => client_socket'[d] \in Fds
             /\ Connected(d)' => Owns(d)'
  <2>1. CASE d = c
    BY <1>1, <1>3, <1>4, <1>6, <1>7, <2>1
  <2>2. CASE d # c
    <3>1. Connected(d)' => Connected(d)
      BY <1>1, <2>2 DEF Connected
    <3>2. QED
      BY <1>1, <1>6, <2>2, <3>1 DEF SockInv
  <2>3. QED
    BY <2>1, <2>2
<1>9. srvPc' \in {"size", "admit"} => Owns(srvConn)'
  <2> SUFFICES ASSUME srvPc \in {"size", "admit"} PROVE Owns(srvConn)'
    BY <1>1
  <2>1. srvConn \in Conns /\ srvConn # c /\ Owns(srvConn)
    BY <1>1 DEF SrvInv, SockInv
  <2>2. QED
    BY <1>1, <1>6, <2>1
<1>10. ASSUME struck' # {} PROVE \E d \in Conns : pc'[d] \in {"drain", "gone"} /\ socket'[d] = -1
  <2>1. CASE struck # {}
    <3>1. PICK d \in Conns : pc[d] \in {"drain", "gone"} /\ socket[d] = -1
      BY <2>1 DEF SockInv
    <3>2. pc'[d] \in {"drain", "gone"} /\ socket'[d] = -1
      BY <1>1, <1>2, <3>1 DEF SockSteps
    <3>3. QED
      BY <3>2
  <2>2. CASE struck = {}
    <3>1. Close(c) /\ fdOwner[client_socket[c]] # c
      BY <1>2, <1>10, <2>2 DEF Close
    <3>2. ~Connected(c)
      BY <1>3, <2>2, <3>1 DEF Owns
    <3>3. pc[c] = "close" /\ pc'[c] = "drain" /\ UNCHANGED <<status, socket>>
      BY <1>2, <1>3, <1>10, <2>2, <3>2 DEF Connected, SockSteps, Busy
    <3>4. socket'[c] = -1
      BY <1>3, <3>2, <3>3 DEF Connected, SockSteps
    <3>5. QED
      BY <3>3, <3>4
  <2>3. QED
    BY <2>1, <2>2
<1>11. QED
  BY <1>8, <1>9, <1>10 DEF SockInv

LEMMA SockKept ==
    ASSUME IInv, [Next]_vars
    PROVE  SockInv'
<1>1. CASE UNCHANGED vars
  <2>1. UNCHANGED <<pc, status, socket, client_socket, fdOwner, struck, srvPc, srvConn>>
    BY <1>1 DEF vars, cliVars, sockVars, srvVars
  <2>2. QED
    BY <2>1 DEF IInv, SockInv, Connected, Owns
<1>2. CASE AppStep
  <2>1. UNCHANGED <<pc, status, socket, client_socket, fdOwner, struck, srvPc, srvConn>>
    BY <1>2, AppLeaves DEF sockVars, srvVars
  <2>2. QED
    BY <2>1 DEF IInv, SockInv, Connected, Owns
<1>3. QED
  BY <1>1, <1>2, StepsAre, SrvSock, CliSock

-----------------------------------------------------------------------------
(* The theorems *)

LEMMA Inductive == Spec => []IInv
<1>1. IInv /\ [Next]_vars => IInv'
  BY TypesKept, SrvKept, ListKept, StopKept, HandsKept, FreshKept, BlockKept, OrderKept,
     SockKept DEF IInv
<1>2. QED
  BY <1>1, Starts, PTL DEF Spec

\* Whatever the peers, the application and the accepting thread do, a client
\* handle is in the list exactly once from its thread's push to its erase, unless the
\* push failed; the size is off only after such a push, and then too great; and the
\* client OSA_server_sendBuf is at is one of the list.
THEOREM ListStaysCoherent == Spec => []ListCoherent
<1>1. IInv => ListCoherent
  <2> SUFFICES ASSUME IInv PROVE ListCoherent
    OBVIOUS
  <2>1. \A c \in Conns : Listed(c) <=> c \in Range(clientList)
    BY DEF Listed, Range
  <2>2. QED
    BY <2>1 DEF IInv, TypeOK, ListInv, SizeInv, ListCoherent, Served, Busy
<1>2. QED
  BY <1>1, Inductive, PTL

\* When OSA_server_destory frees the server handle, the accepting thread has ended
\* and no listed client's thread is between two looks at the server's status.
THEOREM HandleOutlivesThreads == Spec => []HandleOutlives
<1>1. IInv => HandleOutlives
  <2> SUFFICES ASSUME IInv, handle = "freed"
               PROVE  /\ srvPc = "done"
                      /\ \A c \in Conns \ unlisted :
                            pc[c] \in {"none", "init", "push", "loop", "erase", "close",
                                      "drain", "gone"}
    BY DEF HandleOutlives
  <2>1. srvPc = "done" /\ \A c \in Conns \ unlisted : pc[c] \notin Busy
    BY DEF IInv, StopInv
  <2>2. QED
    BY <2>1 DEF IInv, TypeOK, Busy
<1>2. QED
  BY <1>1, Inductive, PTL

\* No id is in both queues or twice in one, read as one sequence.
LEMMA ApartTogether ==
    ASSUME NEW n, NEW p, p \in Pools(n), PoolApart(p)
    PROVE  /\ IsInjective(p.empty \o p.full)
           /\ \A b : Contains(p.empty \o p.full, b) => b \in Range(p.empty) \cup Range(p.full)
<1> DEFINE e == p.empty
           f == p.full
<1>1. e \in Seq(Ids(n)) /\ f \in Seq(Ids(n))
  BY PoolParts
<1>2. IsInjective(e) /\ IsInjective(f) /\ Range(e) \cap Range(f) = {}
  BY DEF PoolApart
<1> HIDE DEF e, f
<1> DEFINE s == e \o f
<1>3. /\ Len(e) \in Nat /\ Len(f) \in Nat /\ s \in Seq(Ids(n)) /\ Len(s) = Len(e) + Len(f)
      /\ DOMAIN e = 1 .. Len(e) /\ DOMAIN f = 1 .. Len(f) /\ DOMAIN s = 1 .. Len(s)
      /\ \A i \in 1 .. Len(e) + Len(f) : s[i] = IF i <= Len(e) THEN e[i] ELSE f[i - Len(e)]
  BY <1>1, ConcatProperties, LenProperties
<1> HIDE DEF s
<1>4. ASSUME NEW i \in 1 .. Len(s)
      PROVE  \/ i \in DOMAIN e /\ s[i] = e[i] /\ s[i] \in Range(e)
             \/ /\ i > Len(e) /\ i - Len(e) \in DOMAIN f /\ s[i] = f[i - Len(e)]
                /\ s[i] \in Range(f)
  <2>1. CASE i <= Len(e)
    BY <1>3, <2>1 DEF Range
  <2>2. CASE ~(i <= Len(e))
    <3>1. i > Len(e) /\ i - Len(e) \in DOMAIN f /\ s[i] = f[i - Len(e)]
      BY <1>3, <2>2
    <3>2. QED
      BY <3>1 DEF Range
  <2>3. QED
    BY <2>1, <2>2
<1>5. ASSUME NEW i \in 1 .. Len(s), NEW j \in 1 .. Len(s), s[i] = s[j] PROVE i = j
  <2>1. CASE i \in DOMAIN e /\ j \in DOMAIN e /\ e[i] = e[j]
    BY <1>2, <2>1 DEF IsInjective
  <2>2. CASE /\ i - Len(e) \in DOMAIN f /\ j - Len(e) \in DOMAIN f
             /\ f[i - Len(e)] = f[j - Len(e)]
    <3>1. i - Len(e) = j - Len(e)
      BY <1>2, <2>2 DEF IsInjective
    <3>2. QED
      BY <1>3, <3>1
  <2>3. QED
    BY <1>2, <1>4, <1>5, <2>1, <2>2
<1>6. IsInjective(s)
  BY <1>3, <1>5 DEF IsInjective
<1>7. \A b : Contains(s, b) => b \in Range(e) \cup Range(f)
  BY <1>4 DEF Contains
<1>8. QED
  BY <1>6, <1>7 DEF s, e, f

\* The buffer a client's thread is sending and the one OSA_server_sendBuf is
\* filling are different, and neither is in a queue of the client's pool; no id is
\* queued twice.
THEOREM BuffersStayApart == Spec => []BuffersApart
<1>1. IInv => BuffersApart
  <2> SUFFICES ASSUME IInv, NEW c \in Conns
               PROVE  /\ IsInjective(pool[c].empty \o pool[c].full)
                      /\ Sending(c) => ~Contains(pool[c].empty \o pool[c].full, buf_id[c])
                      /\ Filling(c) => ~Contains(pool[c].empty \o pool[c].full, appBuf)
                      /\ Sending(c) /\ Filling(c) => buf_id[c] # appBuf
    BY DEF BuffersApart
  <2>1. /\ pool[c] \in Pools(NumBuf) /\ PoolApart(pool[c])
        /\ Sending(c) => buf_id[c] \notin Range(pool[c].empty) \cup Range(pool[c].full)
        /\ Filling(c) => appBuf \notin Range(pool[c].empty) \cup Range(pool[c].full)
        /\ Sending(c) /\ Filling(c) => buf_id[c] # appBuf
    BY HandsFacts
  <2> DEFINE p == pool[c]
  <2>2. p \in Pools(NumBuf) /\ PoolApart(p)
    BY <2>1
  <2> HIDE DEF p
  <2>3. /\ IsInjective(p.empty \o p.full)
        /\ \A b : Contains(p.empty \o p.full, b) => b \in Range(p.empty) \cup Range(p.full)
    BY <2>2, ApartTogether
  <2>4. QED
    BY <2>1, <2>3 DEF p
<1>2. QED
  BY <1>1, Inductive, PTL

\* Although a buffer goes back to the empty queue before its block is freed and its
\* pointer cleared, no client's thread sends from or frees a block twice.
THEOREM BlocksStayLive == Spec => []BlocksLive
<1>1. IInv => BlocksLive
  <2> SUFFICES ASSUME IInv, NEW c \in Conns, pc[c] \in {"send", "free"}
               PROVE  data[c][buf_id[c]] \notin freed[c]
    BY DEF BlocksLive
  <2>1. buf_id[c] \in Ids(NumBuf)
    BY HandsFacts
  <2>2. QED
    BY <2>1 DEF IInv, BlockInv, BlocksOwn
<1>2. QED
  BY <1>1, Inductive, PTL

\* Every connected client's thread sends on and closes the descriptor accept returned
\* for its own connection, unless another's thread has closed that number; and none
\* does before a connection has failed and been closed a second time.
THEOREM SocketsStayOwn == Spec => []OwnSocket
<1>1. IInv => OwnSocket
  <2> SUFFICES ASSUME IInv PROVE OwnSocket
    OBVIOUS
  <2>1. ASSUME NEW c \in Conns \ struck, pc[c] \in SockSteps, status[c] = "CLIENT_CONNECT"
        PROVE  fdOwner[client_socket[c]] = c
    BY <2>1 DEF IInv, SockInv, Connected, Owns
  <2>2. struck # {} => \E d \in Conns : pc[d] \in {"drain", "gone"} /\ socket[d] = -1
    BY DEF IInv, SockInv
  <2>3. QED
    BY <2>1, <2>2 DEF OwnSocket, SockSteps
<1>2. QED
  BY <1>1, Inductive, PTL

\* What a client's thread sends is always a later frame than the one before: the
\* frames OSA_server_sendBuf was given arrive in their order, each at most once.
THEOREM SentInOrder == Spec => FramesInOrder
<1> DEFINE Later == \A c \in Conns : pc[c] = "send" /\ pc'[c] = "putEmpty" => sent'[c] > sent[c]
<1>1. ASSUME IInv, [Next]_vars, NEW c \in Conns, pc[c] = "send", pc'[c] = "putEmpty"
      PROVE  sent'[c] > sent[c]
  <2>1. PICK d \in Conns : Cli(d)
    <3>1. ~UNCHANGED pc
      BY <1>1
    <3>2. ~AppStep
      BY <3>1, AppLeaves
    <3>3. ~Srv
      BY <1>1, SrvPcs
    <3>4. ~UNCHANGED vars
      BY <3>1 DEF vars, cliVars
    <3>5. QED
      BY <1>1, <3>2, <3>3, <3>4, StepsAre
  <2>2. d = c
    BY <1>1, <2>1, CliLocal DEF IInv
  <2>3. /\ data[c][buf_id[c]] # NULL /\ sent'[c] = data[c][buf_id[c]]
    <3> USE DEF ToPc, Break, cliVars, IInv
    <3>1. DOMAIN pc = Conns /\ DOMAIN sent = Conns
      BY <1>1 DEF TypeOK
    <3>2. ~(CliInit(c) \/ CliPush(c) \/ CliLoop(c) \/ CliGet(c) \/ CliPutEmpty(c) \/ CliTest(c))
      BY <1>1 DEF CliInit, CliPush, PushBack, CliLoop, CliGet, CliPutEmpty, CliTest
    <3>3. ~(CliFree(c) \/ CliClear(c) \/ CliRecv(c) \/ CliFail(c) \/ CliFreesWild(c) \/ CliErase(c))
      BY <1>1 DEF CliFree, CliClear, CliRecv, CliFail, Close, CliFreesWild, CliErase, Erase
    <3>4. ~(CliClose(c) \/ CliDrain(c) \/ CliUsesFreed(c))
      BY <1>1 DEF CliClose, Close, CliDrain, CliUsesFreed
    <3>5. CliSend(c)
      BY <2>1, <2>2, <3>2, <3>3, <3>4 DEF Cli
    <3>6. QED
      BY <1>1, <3>1, <3>5 DEF CliSend
  <2>4. sent[c] < data[c][buf_id[c]]
    BY <1>1, <2>3 DEF IInv, OrderInv, InOrder
  <2>5. buf_id[c] \in Ids(NumBuf) /\ sent[c] \in Nat
    BY <1>1, HandsFacts, FrameTypes DEF IInv
  <2>6. data[c][buf_id[c]] \in Nat
    BY <1>1, <2>5, FrameTypes DEF IInv
  <2>7. QED
    BY <2>3, <2>4, <2>5, <2>6
<1>2. IInv /\ [Next]_vars => [Later]_vars
  BY <1>1
<1>3. QED
  BY <1>2, Inductive, PTL DEF Spec, FramesInOrder
=============================================================================
