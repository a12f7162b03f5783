---------------------------- MODULE OsaMbxProofs ----------------------------
(***************************************************************************)
(* What OsaMbx guarantees for any tasks, whoever sends to whom, and any    *)
(* capacities: a message block is in one place and freed once, every       *)
(* acknowledgement is expected and finds room, and a parameter lives as    *)
(* long as it is needed and no longer.                                     *)
(***************************************************************************)
EXTENDS OsaMbx, FiniteSetTheorems, SequenceTheorems, WellFoundedInduction, TLAPS

-----------------------------------------------------------------------------
(* The least of a set, and what a take and a put do to a family of queues *)

LEMMA LeastIsLeast ==
    ASSUME NEW S \in SUBSET Nat, S # {}
    PROVE  Least(S) \in S
<1>1. PICK x \in S : \A y \in S : <<y, x>> \notin OpToRel(<, Nat)
  BY NatLessThanWellFounded, WFMin
<1>2. \A y \in S : ~(y < x)
  BY <1>1, Zenon DEF OpToRel
<1>3. \A y \in S : x <= y
  BY <1>2
<1> QED
  BY <1>3 DEF Least

LEMMA HeadAndTail ==
    ASSUME NEW S, NEW s \in Seq(S), s # << >>
    PROVE  /\ Len(s) \in Nat /\ Len(s) > 0 /\ DOMAIN s = 1 .. Len(s)
           /\ Head(s) = s[1] /\ Head(s) \in S
           /\ Tail(s) \in Seq(S) /\ Len(Tail(s)) = Len(s) - 1
           /\ DOMAIN Tail(s) = 1 .. Len(s) - 1
           /\ \A i \in 1 .. Len(s) - 1 : Tail(s)[i] = s[i + 1]
  BY HeadTailProperties, LenProperties, EmptySeq

Families == [Tasks -> Seq(Msgs)]

\* No message is in two queues or twice in one.
Apart(q) ==
    \A t, u \in Tasks : \A i \in DOMAIN q[t], j \in DOMAIN q[u] :
        q[t][i] = q[u][j] => t = u /\ i = j

\* The families that a take from queue t leaves, and a put of m in it.
Took(q, t)   == {r \in Families : r[t] = Tail(q[t]) /\ \A u \in Tasks \ {t} : r[u] = q[u]}
Put(q, t, m) == {r \in Families : r[t] = Append(q[t], m) /\ \A u \in Tasks \ {t} : r[u] = q[u]}

LEMMA TakeFirst ==
    ASSUME NEW q, NEW t, NEW r, r \in Took(q, t),
           q \in Families, t \in Tasks, Apart(q), q[t] # << >>
    PROVE  /\ Apart(r) /\ Len(r[t]) < Len(q[t])
           /\ Head(q[t]) \in Msgs /\ Head(q[t]) \in Range(q[t])
           /\ Range(r[t]) = Range(q[t]) \ {Head(q[t])}
           /\ \A u \in Tasks \ {t} : Head(q[t]) \notin Range(q[u])
<1>1. /\ q[t] \in Seq(Msgs) /\ Len(q[t]) \in Nat /\ Len(q[t]) > 0
      /\ DOMAIN q[t] = 1 .. Len(q[t])
      /\ Head(q[t]) = q[t][1] /\ Head(q[t]) \in Msgs
      /\ r[t] \in Seq(Msgs) /\ Len(r[t]) = Len(q[t]) - 1 /\ DOMAIN r[t] = 1 .. Len(q[t]) - 1
      /\ \A i \in 1 .. Len(q[t]) - 1 : r[t][i] = q[t][i + 1]
  <2>1. q[t] \in Seq(Msgs) /\ r[t] = Tail(q[t])
    BY DEF Families, Took
  <2> QED
    BY <2>1, HeadAndTail
<1>2. \A u \in Tasks \ {t} : r[u] = q[u]
  BY DEF Took
<1>4. 1 \in DOMAIN q[t]
  BY <1>1
<1>5. ASSUME NEW u \in Tasks, NEW i \in DOMAIN r[u]
      PROVE  \E j \in DOMAIN q[u] : r[u][i] = q[u][j] /\ (u = t => j = i + 1 /\ i \in Nat)
                                    /\ (u # t => j = i)
  <2>1. CASE u = t
    <3>1. i \in 1 .. Len(q[t]) - 1 /\ i + 1 \in DOMAIN q[t]
      BY <1>1, <2>1
    <3> QED
      BY <1>1, <2>1, <3>1
  <2>2. CASE u # t
    BY <1>2, <2>2
  <2> QED
    BY <2>1, <2>2
<1>6. Apart(r)
  <2> SUFFICES ASSUME NEW u \in Tasks, NEW w \in Tasks, NEW i \in DOMAIN r[u], NEW j \in DOMAIN r[w],
                      r[u][i] = r[w][j]
               PROVE  u = w /\ i = j
    BY DEF Apart
  <2>1. PICK k \in DOMAIN q[u] : r[u][i] = q[u][k] /\ (u = t => k = i + 1 /\ i \in Nat)
                                 /\ (u # t => k = i)
    BY <1>5
  <2>2. PICK l \in DOMAIN q[w] : r[w][j] = q[w][l] /\ (w = t => l = j + 1 /\ j \in Nat)
                                 /\ (w # t => l = j)
    BY <1>5
  <2>3. q[u][k] = q[w][l]
    BY <2>1, <2>2
  <2>4. u = w /\ k = l
    BY <2>3 DEF Apart
  <2> QED
    BY <2>1, <2>2, <2>4
<1>7. ASSUME NEW u \in Tasks
      PROVE  Head(q[t]) \notin Range(r[u])
  <2> SUFFICES ASSUME NEW i \in DOMAIN r[u], r[u][i] = q[t][1]
               PROVE  FALSE
    BY <1>1 DEF Range
  <2>1. PICK j \in DOMAIN q[u] : r[u][i] = q[u][j] /\ (u = t => j = i + 1 /\ i \in Nat)
    BY <1>5
  <2>2. q[u][j] = q[t][1]
    BY <2>1
  <2>3. u = t /\ j = 1
    BY <1>4, <2>2 DEF Apart
  <2> QED
    BY <1>1, <2>1, <2>3
<1>8. Range(r[t]) = Range(q[t]) \ {Head(q[t])}
  <2>1. \A x \in Range(r[t]) : x \in Range(q[t])
    BY <1>5 DEF Range
  <2>2. ASSUME NEW i \in DOMAIN q[t], q[t][i] # Head(q[t])
        PROVE  q[t][i] \in Range(r[t])
    <3>1. i - 1 \in 1 .. Len(q[t]) - 1 /\ i = (i - 1) + 1
      BY <1>1, <2>2
    <3> QED
      BY <1>1, <3>1 DEF Range
  <2> QED
    BY <1>7, <2>1, <2>2 DEF Range
<1>9. Head(q[t]) \in Range(q[t])
  BY <1>1, <1>4 DEF Range
<1>10. Len(r[t]) < Len(q[t]) /\ Head(q[t]) \in Msgs
  BY <1>1
<1> QED
  BY <1>2, <1>6, <1>7, <1>8, <1>9, <1>10

LEMMA PutLast ==
    ASSUME NEW q, NEW t, NEW m, NEW r, r \in Put(q, t, m),
           q \in Families, t \in Tasks, m \in Msgs, Apart(q),
           \A u \in Tasks : m \notin Range(q[u])
    PROVE  /\ Apart(r) /\ Len(r[t]) = Len(q[t]) + 1
           /\ Range(r[t]) = Range(q[t]) \cup {m}
<1>1. /\ Len(q[t]) \in Nat /\ DOMAIN q[t] = 1 .. Len(q[t])
      /\ r[t] \in Seq(Msgs) /\ DOMAIN r[t] = 1 .. Len(q[t]) + 1
      /\ Len(r[t]) = Len(q[t]) + 1
      /\ \A i \in 1 .. Len(q[t]) : r[t][i] = q[t][i]
      /\ r[t][Len(q[t]) + 1] = m
  <2>1. q[t] \in Seq(Msgs) /\ r[t] = Append(q[t], m)
    BY DEF Families, Put
  <2> QED
    BY <2>1, AppendProperties, LenProperties
<1>2. \A u \in Tasks \ {t} : r[u] = q[u]
  BY DEF Put
<1>4. ASSUME NEW u \in Tasks, NEW i \in DOMAIN r[u]
      PROVE  \/ i \in DOMAIN q[u] /\ r[u][i] = q[u][i] /\ r[u][i] # m
             \/ u = t /\ i = Len(q[t]) + 1 /\ r[u][i] = m
  <2>1. CASE u # t \/ i \in 1 .. Len(q[t])
    BY <1>1, <1>2, <2>1 DEF Range
  <2>2. CASE u = t /\ i = Len(q[t]) + 1
    BY <1>1, <2>2
  <2> QED
    BY <1>1, <2>1, <2>2
<1>5. Apart(r)
  <2> SUFFICES ASSUME NEW u \in Tasks, NEW w \in Tasks, NEW i \in DOMAIN r[u], NEW j \in DOMAIN r[w],
                      r[u][i] = r[w][j]
               PROVE  u = w /\ i = j
    BY DEF Apart
  <2> QED
    BY <1>4 DEF Apart
<1>6. Range(r[t]) = Range(q[t]) \cup {m}
  <2>1. \A x \in Range(r[t]) : x \in Range(q[t]) \cup {m}
    BY <1>4 DEF Range
  <2>2. \A x \in Range(q[t]) : x \in Range(r[t])
    BY <1>1 DEF Range
  <2>3. m \in Range(r[t])
    BY <1>1 DEF Range
  <2> QED
    BY <2>1, <2>2, <2>3
<1>7. Len(r[t]) = Len(q[t]) + 1
  BY <1>1
<1> QED
  BY <1>5, <1>6, <1>7

-----------------------------------------------------------------------------
(* The inductive invariant *)

MsgRec  == [from : Tasks, wait : BOOLEAN, prm : Prms \cup {NULL}]
CallRec == [to : Seq(Tasks), wait : BOOLEAN, prm : Prms \cup {NULL},
            sent : SUBSET Msgs, all : BOOLEAN]
Spots   == {"main", "send", "acks", "assert", "cmd", "flush"} \cup DOMAIN After

TypesInv ==
    /\ sendsTo \in Topologies
    /\ rcvMbx \in Families /\ ackMbx \in Families
    /\ \A t \in Tasks : Len(rcvMbx[t]) <= QLen /\ Len(ackMbx[t]) <= QLen
    /\ msg \in [Msgs -> MsgRec \cup {NULL}]
    /\ prmLive \subseteq Prms
    /\ at \in [Tasks -> Spots]
    /\ held \in [Tasks -> Msgs \cup {NULL}]
    /\ call \in [Tasks -> CallRec]

\* A task has a message in hand where it deals with one, none where it waits for
\* one, and a call where it sends.
HandsInv == \A t \in Tasks :
    /\ at[t] \in DOMAIN After => held[t] # NULL
    /\ at[t] \in {"main", "cmd", "flush"} => held[t] = NULL
    /\ at[t] # "assert"

CallFits(place, c) ==
    /\ place \notin {"send", "acks"} => c = NoCall
    /\ place = "send" => c.to # << >>
    /\ place = "acks" => c.wait /\ c.to = << >>
    /\ place = "send" /\ ~c.all => Len(c.to) = 1 /\ c.sent = {}
    /\ place = "acks" /\ ~c.all => \E m \in Msgs : c.sent = {m}
    /\ c.prm # NULL /\ ~c.wait => ~c.all

CallInv == \A t \in Tasks : CallFits(at[t], call[t])

\* No call waits for more acknowledgements than a queue holds.
RoomInv == \A t \in Tasks :
    /\ Cardinality(call[t].sent) <= QLen
    /\ \/ Cardinality(call[t].sent) + Len(call[t].to) <= QLen
       \/ Cardinality(call[t].sent) + Len(call[t].to) <= 1

\* A message is in one queue, or in one hand, or free.
PlaceInv ==
    /\ Apart(rcvMbx) /\ Apart(ackMbx)
    /\ \A t, u \in Tasks :
          /\ \A m \in Range(rcvMbx[t]) : m \notin Range(ackMbx[u])
          /\ held[t] \notin Range(rcvMbx[u]) /\ held[t] \notin Range(ackMbx[u])
          /\ held[t] # NULL /\ held[t] = held[u] => t = u
    /\ \A m \in Msgs :
          m \in Live <=> \E t \in Tasks : \/ m \in Range(rcvMbx[t])
                                        \/ m \in Range(ackMbx[t])
                                        \/ m = held[t]

\* A message that asks for an acknowledgement belongs to the call its sender is
\* in, and only such messages come back.
WaitInv ==
    /\ \A m \in Live : msg[m].wait =>
          /\ call[msg[m].from].wait /\ m \in call[msg[m].from].sent
          /\ call[msg[m].from].prm = msg[m].prm
    /\ \A t \in Tasks : \A m \in Range(ackMbx[t]) : msg[m].wait /\ msg[m].from = t

\* Parameters are shared only by the messages of one call, which all ask for an
\* acknowledgement: whoever frees them is the last to use them.
PrmInv ==
    /\ \A m \in Live : msg[m].prm # NULL => msg[m].prm \in prmLive
    /\ \A t \in Tasks : call[t].prm # NULL => call[t].prm \in prmLive
    /\ \A p \in prmLive : \/ \E m \in Live : msg[m].prm = p
                          \/ \E t \in Tasks : call[t].prm = p
    /\ \A t, u \in Tasks : call[t].prm # NULL /\ call[t].prm = call[u].prm => t = u
    /\ \A m \in Live, t \in Tasks :
          msg[m].prm # NULL /\ msg[m].prm = call[t].prm => msg[m].wait /\ msg[m].from = t
    /\ \A m, n \in Live : msg[m].prm # NULL /\ msg[m].prm = msg[n].prm /\ m # n => msg[m].wait

IInv == TypesInv /\ HandsInv /\ CallInv /\ RoomInv /\ PlaceInv /\ WaitInv /\ PrmInv

LEMMA AfterIs ==
    /\ DOMAIN After = {"held", "answer", "skip", "drop"}
    /\ \A x \in DOMAIN After : After[x] \in {"main", "cmd", "flush"}
BY DEF After

\* NULL is neither a message nor a parameter.
LEMMA NullApart ==
    /\ NULL \notin Msgs /\ NULL \notin Prms /\ NULL \notin MsgRec
BY MbxAssumption DEF MsgRec

LEMMA MsgsFinite == IsFiniteSet(Msgs)
<1>1. MaxMsgs \in Int
  BY MbxAssumption
<1> QED
  BY <1>1, FS_Interval DEF Msgs

LEMMA NoCallIs ==
    /\ NoCall \in CallRec /\ NoCall.to = << >> /\ NoCall.prm = NULL /\ NoCall.sent = {}
    /\ NoCall.wait = FALSE /\ NoCall.all = FALSE
<1>1. << >> \in Seq(Tasks)
  BY EmptySeq
<1> QED
  BY <1>1 DEF NoCall, CallRec

LEMMA Starts == Init => IInv
<1> SUFFICES ASSUME Init PROVE IInv
  OBVIOUS
<1> USE DEF Init
<1>1. /\ << >> \in Seq(Msgs) /\ Len(<< >>) = 0 /\ DOMAIN << >> = {}
  BY EmptySeq
<1>2. QLen \in Nat
  BY MbxAssumption
<1>3. TypesInv
  <2>1. rcvMbx \in Families /\ ackMbx \in Families
    BY <1>1 DEF Families
  <2>2. \A t \in Tasks : Len(rcvMbx[t]) <= QLen /\ Len(ackMbx[t]) <= QLen
    BY <1>1, <1>2
  <2> QED
    BY <2>1, <2>2, NoCallIs DEF TypesInv, Spots
<1>4. \A t \in Tasks : Range(rcvMbx[t]) = {} /\ Range(ackMbx[t]) = {}
  BY <1>1 DEF Range
<1>5. Live = {}
  BY DEF Live
<1>6. HandsInv /\ CallInv
  BY AfterIs, NoCallIs DEF HandsInv, CallInv, CallFits
<1>7. RoomInv
  <2>1. Cardinality({}) = 0
    BY FS_EmptySet
  <2>2. \A t \in Tasks : call[t].sent = {} /\ call[t].to = << >>
    BY NoCallIs
  <2>3. \A t \in Tasks : Cardinality(call[t].sent) = 0 /\ Len(call[t].to) = 0
    BY <1>1, <2>1, <2>2
  <2> QED
    BY <1>2, <2>3 DEF RoomInv
<1>8. PlaceInv
  <2>1. Apart(rcvMbx) /\ Apart(ackMbx)
    BY <1>1 DEF Apart
  <2> QED
    BY <2>1, <1>4, <1>5, NullApart DEF PlaceInv
<1>9. WaitInv /\ PrmInv
  BY <1>4, <1>5, NoCallIs DEF WaitInv, PrmInv
<1> QED
  BY <1>3, <1>6, <1>7, <1>8, <1>9 DEF IInv

-----------------------------------------------------------------------------
(* A step of each kind preserves it *)

\* What a call that begins adds: a parameter nobody has, or none.
LEMMA BeginKeeps ==
    ASSUME IInv, NEW t \in Tasks, MaySend(t),
           NEW to \in Seq(Tasks), to # << >>, Len(to) <= QLen \/ Len(to) <= 1,
           NEW wait \in BOOLEAN, NEW free \in BOOLEAN, NEW all \in BOOLEAN,
           ~all => Len(to) = 1, free /\ ~wait => ~all,
           Begin(t, to, wait, free, all)
    PROVE  IInv'
<1> DEFINE prm == IF free THEN Least(Prms \ prmLive) ELSE NULL
           c == [to |-> to, wait |-> wait, prm |-> prm, sent |-> {}, all |-> all]
<1> USE DEF IInv, TypesInv
<1>1. /\ call' = [call EXCEPT ![t] = c]
      /\ prmLive' = prmLive \cup ({prm} \ {NULL})
      /\ at' = [at EXCEPT ![t] = "send"]
      /\ UNCHANGED <<sendsTo, rcvMbx, ackMbx, msg, held>>
  BY DEF Begin, queues
<1>2. prm # NULL => prm \in Prms \ prmLive
  <2>1. CASE free
    <3>1. prmLive # Prms /\ prmLive \subseteq Prms
      BY <2>1 DEF Begin
    <3>2. Prms \ prmLive \in SUBSET Nat
      BY DEF Prms
    <3>3. Prms \ prmLive # {}
      BY <3>1
    <3> QED
      BY <2>1, <3>2, <3>3, LeastIsLeast
  <2> QED
    BY <2>1
<1>3. c \in CallRec
  BY <1>2 DEF CallRec
<1>4. /\ c.to = to /\ c.wait = wait /\ c.prm = prm /\ c.sent = {} /\ c.all = all
      /\ call'[t] = c /\ \A u \in Tasks \ {t} : call'[u] = call[u]
      /\ at'[t] = "send" /\ \A u \in Tasks \ {t} : at'[u] = at[u]
  BY <1>1
<1>5. at[t] \in {"held", "main"} /\ call[t] = NoCall
  BY DEF MaySend, CallInv, CallFits
<1> HIDE DEF prm, c
<1>6. TypesInv'
  <2>1. prmLive' \subseteq Prms
    BY <1>1, <1>2
  <2>2. at' \in [Tasks -> Spots] /\ call' \in [Tasks -> CallRec]
    BY <1>1, <1>3 DEF Spots
  <2> QED
    BY <1>1, <2>1, <2>2
<1>7. HandsInv'
  BY <1>1, <1>4, AfterIs DEF HandsInv
<1>8. CallInv'
  <2>1. prm # NULL => free
    BY DEF prm
  <2>2. CallFits("send", c)
    BY <1>4, <2>1 DEF CallFits
  <2> QED
    BY <1>4, <2>2 DEF CallInv
<1>9. RoomInv'
  <2>1. Cardinality({}) = 0 /\ QLen \in Nat /\ Len(to) \in Nat
    BY FS_EmptySet, MbxAssumption, LenProperties
  <2>2. Cardinality(call'[t].sent) = 0 /\ call'[t].to = to
    BY <1>4, <2>1
  <2>3. /\ Cardinality(call'[t].sent) <= QLen
        /\ \/ Cardinality(call'[t].sent) + Len(call'[t].to) <= QLen
           \/ Cardinality(call'[t].sent) + Len(call'[t].to) <= 1
    <3>1. Cardinality(call'[t].sent) = 0 /\ Len(call'[t].to) = Len(to)
      BY <2>2
    <3>2. Len(to) <= QLen \/ Len(to) <= 1
      OBVIOUS
    <3> QED
      BY ONLY <2>1, <3>1, <3>2
  <2>4. \A u \in Tasks \ {t} : call'[u] = call[u]
    BY <1>4
  <2> QED
    BY <2>3, <2>4 DEF RoomInv
<1>10. PlaceInv'
  <2>1. Apart(rcvMbx)' /\ Apart(ackMbx)'
    BY <1>1 DEF PlaceInv, Apart
  <2>2. \A u \in Tasks : Range(rcvMbx'[u]) = Range(rcvMbx[u]) /\ Range(ackMbx'[u]) = Range(ackMbx[u])
    BY <1>1 DEF Range
  <2>3. Live' = Live /\ held' = held
    BY <1>1 DEF Live
  <2> QED
    BY <2>1, <2>2, <2>3 DEF PlaceInv
<1>11. Live' = Live /\ \A m \in Live : msg[m] \in MsgRec /\ msg[m].from \in Tasks
  BY <1>1 DEF Live, MsgRec
<1>12. \A m \in Live : msg[m].wait => msg[m].from # t
  BY <1>5, NoCallIs DEF WaitInv
<1>13. WaitInv'
  <2>1. \A u \in Tasks : Range(ackMbx'[u]) = Range(ackMbx[u])
    BY <1>1 DEF Range
  <2> QED
    BY <1>1, <1>4, <1>11, <1>12, <2>1 DEF WaitInv
<1>14. PrmInv'
  <2>1. call[t].prm = NULL
    BY <1>5, NoCallIs
  <2>2. \A m \in Live : msg[m].prm # NULL => msg[m].prm # prm
    BY <1>2 DEF PrmInv
  <2>3. \A u \in Tasks : call[u].prm # NULL => call[u].prm # prm
    BY <1>2 DEF PrmInv
  <2>4. \A u \in Tasks : call'[u].prm = IF u = t THEN prm ELSE call[u].prm
    BY <1>4
  <2>5. prm \in prmLive' \cup {NULL} /\ prmLive \subseteq prmLive'
    BY <1>1
  <2>6. \A p \in prmLive' : p \in prmLive \/ p = prm
    BY <1>1
  <2>7. \A p \in prmLive' : \/ \E m \in Live : msg[m].prm = p
                           \/ \E u \in Tasks : call'[u].prm = p
    <3>1. ASSUME NEW p \in prmLive
          PROVE  \/ \E m \in Live : msg[m].prm = p
                 \/ \E u \in Tasks : u # t /\ call[u].prm = p
      <4>1. p # NULL
        BY NullApart
      <4> QED
        BY <2>1, <4>1 DEF PrmInv
    <3> QED
      BY <2>4, <2>6, <3>1
  <2>8. \A u, w \in Tasks : call'[u].prm # NULL /\ call'[u].prm = call'[w].prm => u = w
    BY <2>3, <2>4 DEF PrmInv
  <2>9. \A m \in Live, u \in Tasks : msg[m].prm # NULL /\ msg[m].prm = call'[u].prm
            => msg[m].wait /\ msg[m].from = u
    BY <2>2, <2>4 DEF PrmInv
  <2>10. \A u \in Tasks : call'[u].prm # NULL => call'[u].prm \in prmLive'
    BY <2>4, <2>5 DEF PrmInv
  <2> QED
    <3>1. \A m \in Live : msg[m].prm # NULL => msg[m].prm \in prmLive'
      BY <2>5 DEF PrmInv
    <3>2. \A m, n \in Live : msg[m].prm # NULL /\ msg[m].prm = msg[n].prm /\ m # n => msg[m].wait
      BY DEF PrmInv
    <3>3. Live' = Live /\ msg' = msg
      BY <1>1, <1>11
    <3>4. \A m \in Live', u \in Tasks : msg'[m].prm # NULL /\ msg'[m].prm = call'[u].prm
              => msg'[m].wait /\ msg'[m].from = u
      BY <2>9, <3>3
    <3> HIDE DEF IInv, TypesInv
    <3> QED
      BY <2>7, <2>8, <2>10, <3>1, <3>2, <3>3, <3>4 DEF PrmInv
<1> QED
  BY <1>6, <1>7, <1>8, <1>9, <1>10, <1>13, <1>14

LEMMA SendKeeps ==
    ASSUME IInv, NEW t \in Tasks, Send(t)
    PROVE  IInv'
<1>1. PICK u \in Targets(t), wait \in BOOLEAN, free \in BOOLEAN :
          Begin(t, <<u>>, wait, free, FALSE)
  BY DEF Send
<1>2. /\ <<u>> \in Seq(Tasks) /\ <<u>> # << >>
      /\ Len(<<u>>) = 1 /\ Len(<<u>>) <= 1
  BY DEF Targets
<1>3. MaySend(t)
  BY DEF Send
<1> QED
  BY <1>1, <1>2, <1>3, BeginKeeps

LEMMA BroadcastKeeps ==
    ASSUME IInv, NEW t \in Tasks, Broadcast(t)
    PROVE  IInv'
<1>1. PICK list \in Lists(t), wait \in BOOLEAN, free \in BOOLEAN :
          (free => wait) /\ Begin(t, list, wait, free, TRUE)
  BY DEF Broadcast
<1>2. PICK n \in 2 .. BroadcastMax - 1 : list \in [1 .. n -> Targets(t)]
  BY DEF Lists
<1>3. n \in Nat /\ n >= 2 /\ n <= QLen
  BY <1>2, MbxAssumption
<1>4. list \in [1 .. n -> Tasks]
  BY <1>2 DEF Targets
<1>5. list \in Seq(Tasks) /\ Len(list) = n
  BY <1>3, <1>4
<1>6. list # << >>
  BY <1>3, <1>5, EmptySeq
<1> QED
  BY <1>1, <1>3, <1>5, <1>6, BeginKeeps DEF Broadcast

LEMMA DeliverKeeps ==
    ASSUME IInv, NEW t \in Tasks, Deliver(t)
    PROVE  IInv'
<1> DEFINE c == call[t]
           u == Head(c.to)
           m == Least(Msgs \ Live)
           rest == [c EXCEPT !.to = Tail(@), !.sent = @ \cup {m}]
           d == IF rest.to = << >> /\ ~c.wait THEN NoCall ELSE rest
           place == IF rest.to # << >> THEN "send" ELSE IF c.wait THEN "acks" ELSE Resume(t)
           new == [from |-> t, wait |-> c.wait, prm |-> c.prm]
<1> USE DEF IInv, TypesInv
<1>1. /\ at[t] = "send" /\ Len(rcvMbx[u]) < QLen
      /\ msg' = [msg EXCEPT ![m] = new]
      /\ rcvMbx' = [rcvMbx EXCEPT ![u] = Append(@, m)]
      /\ call' = [call EXCEPT ![t] = d]
      /\ at' = [at EXCEPT ![t] = place]
      /\ UNCHANGED <<sendsTo, ackMbx, prmLive, held>>
  BY DEF Deliver
<1>2. m \in Msgs /\ m \notin Live
  <2>1. Live \subseteq Msgs
    BY DEF Live
  <2>2. Msgs \ Live \in SUBSET Nat
    BY DEF Msgs
  <2>3. Msgs \ Live # {}
    BY <2>1 DEF Deliver
  <2> QED
    BY <2>2, <2>3, LeastIsLeast
<1>3. /\ c \in CallRec /\ c.to \in Seq(Tasks) /\ c.to # << >> /\ c.prm \in Prms \cup {NULL}
      /\ c.wait \in BOOLEAN /\ c.all \in BOOLEAN /\ c.sent \subseteq Msgs
  BY <1>1 DEF CallInv, CallFits, CallRec
<1>4. /\ u \in Tasks /\ Tail(c.to) \in Seq(Tasks)
      /\ Len(c.to) \in Nat /\ Len(Tail(c.to)) = Len(c.to) - 1
  BY <1>3, HeadAndTail
<1>5. /\ rest \in CallRec /\ rest.to = Tail(c.to) /\ rest.sent = c.sent \cup {m}
      /\ rest.wait = c.wait /\ rest.prm = c.prm /\ rest.all = c.all
  BY <1>2, <1>3, <1>4 DEF CallRec
<1>6. new \in MsgRec /\ new # NULL /\ new.from = t /\ new.wait = c.wait /\ new.prm = c.prm
  BY <1>3, NullApart DEF MsgRec
<1>7. /\ call'[t] = d /\ \A w \in Tasks \ {t} : call'[w] = call[w]
      /\ at'[t] = place /\ \A w \in Tasks \ {t} : at'[w] = at[w]
  BY <1>1
<1>8. /\ msg'[m] = new /\ \A n \in Live : n # m /\ msg'[n] = msg[n]
      /\ Live' = Live \cup {m}
  BY <1>1, <1>2, <1>6 DEF Live
<1>9. \A w \in Tasks : m \notin Range(rcvMbx[w]) /\ m \notin Range(ackMbx[w]) /\ m # held[w]
  BY <1>2 DEF PlaceInv
<1>10. /\ rcvMbx' \in Families /\ Apart(rcvMbx') /\ Len(rcvMbx'[u]) = Len(rcvMbx[u]) + 1
       /\ Range(rcvMbx'[u]) = Range(rcvMbx[u]) \cup {m}
       /\ \A w \in Tasks \ {u} : rcvMbx'[w] = rcvMbx[w]
  <2>1. /\ rcvMbx' \in Families /\ rcvMbx'[u] = Append(rcvMbx[u], m)
        /\ \A w \in Tasks \ {u} : rcvMbx'[w] = rcvMbx[w]
    BY <1>1, <1>2, <1>4 DEF Families
  <2>2. rcvMbx' \in Put(rcvMbx, u, m)
    BY <2>1 DEF Put
  <2>3. Apart(rcvMbx) /\ rcvMbx \in Families /\ \A w \in Tasks : m \notin Range(rcvMbx[w])
    BY <1>9 DEF PlaceInv
  <2>4. /\ Apart(rcvMbx') /\ Len(rcvMbx'[u]) = Len(rcvMbx[u]) + 1
        /\ Range(rcvMbx'[u]) = Range(rcvMbx[u]) \cup {m}
    <3> HIDE DEF u, m
    <3> QED
      BY <1>2, <1>4, <2>2, <2>3, PutLast
  <2> QED
    BY <2>1, <2>4
<1>11. d \in CallRec
  BY <1>5, NoCallIs
<1>12. \/ place = "send" /\ rest.to # << >> /\ d = rest
       \/ place = "acks" /\ rest.to = << >> /\ c.wait /\ d = rest
       \/ place = "answer" /\ held[t] # NULL /\ d = NoCall
       \/ place = "main" /\ held[t] = NULL /\ d = NoCall
  BY <1>3 DEF Resume
<1>13. rest.to = << >> /\ ~c.wait => d = NoCall
  OBVIOUS
<1> HIDE DEF c, u, m, rest, d, place, new
<1>14. TypesInv'
  <2>1. msg' \in [Msgs -> MsgRec \cup {NULL}]
    BY <1>1, <1>2, <1>6
  <2>2. \A w \in Tasks : Len(rcvMbx'[w]) <= QLen
    <3>1. QLen \in Nat /\ Len(rcvMbx[u]) \in Nat
      BY <1>4, MbxAssumption, LenProperties DEF Families
    <3> QED
      BY <1>1, <1>10, <3>1
  <2>3. call' \in [Tasks -> CallRec]
    BY <1>1, <1>11
  <2>4. at' \in [Tasks -> Spots]
    BY <1>1, <1>12, AfterIs DEF Spots
  <2> QED
    BY <1>1, <1>10, <2>1, <2>2, <2>3, <2>4
<1>15. HandsInv'
  BY <1>1, <1>7, <1>12, AfterIs DEF HandsInv
<1>16. ~c.all => Tail(c.to) = << >> /\ c.sent = {}
  <2>1. ~c.all => Len(c.to) = 1 /\ c.sent = {}
    BY <1>1 DEF CallInv, CallFits, c
  <2>2. Tail(c.to) # << >> => Len(Tail(c.to)) # 0
    BY <1>4, EmptySeq
  <2> QED
    BY <1>4, <2>1, <2>2
<1>17. c.prm # NULL /\ ~c.wait => ~c.all
  BY DEF CallInv, CallFits, c
<1>18. CallInv'
  <2>1. CASE d = rest /\ place = "send" /\ rest.to # << >>
    <3>1. c.all
      BY <1>3, <1>5, <1>16, <2>1
    <3> QED
      <4>1. CallFits(place, d)
        BY <1>5, <1>17, <2>1, <3>1 DEF CallFits
      <4> QED
        BY <1>7, <4>1 DEF CallInv
  <2>2. CASE d = rest /\ place = "acks" /\ rest.to = << >> /\ c.wait
    <3>1. ~rest.all => rest.sent = {m}
      BY <1>5, <1>16
    <3>2. CallFits(place, d)
      BY <1>2, <1>5, <2>2, <3>1 DEF CallFits
    <3> QED
      BY <1>7, <3>2 DEF CallInv
  <2>3. CASE d = NoCall /\ place \in {"answer", "main"}
    BY <1>7, <2>3, NoCallIs DEF CallInv, CallFits
  <2> QED
    BY <1>12, <2>1, <2>2, <2>3
<1>19. RoomInv'
  <2>1. QLen \in Nat /\ QLen > 0
    <3>1. QLen \in Nat /\ Len(rcvMbx[u]) \in Nat
      BY <1>4, MbxAssumption, LenProperties DEF Families
    <3> QED
      BY <1>1, <3>1
  <2>2. Cardinality({}) = 0 /\ Len(<< >>) = 0
    BY FS_EmptySet
  <2>3. /\ Cardinality(c.sent) \in Nat
        /\ \/ Cardinality(rest.sent) = Cardinality(c.sent)
           \/ Cardinality(rest.sent) = Cardinality(c.sent) + 1
    <3>1. IsFiniteSet(Msgs)
      BY MsgsFinite
    <3>2. IsFiniteSet(c.sent)
      BY <1>3, <3>1, FS_Subset
    <3>3. rest.sent = c.sent \cup {m}
      BY <1>5
    <3> QED
      BY <3>2, <3>3, FS_AddElement, FS_CardinalityType
  <2>4. \/ Cardinality(c.sent) + Len(c.to) <= QLen
        \/ Cardinality(c.sent) + Len(c.to) <= 1
    BY DEF RoomInv, c
  <2>5. Len(c.to) > 0 /\ Len(rest.to) = Len(c.to) - 1
    BY <1>3, <1>4, <1>5, HeadAndTail
  <2>6. /\ Cardinality(d.sent) <= QLen
        /\ Cardinality(d.sent) + Len(d.to) <= QLen \/ Cardinality(d.sent) + Len(d.to) <= 1
    <3>1. CASE d = rest
      BY <1>4, <2>1, <2>3, <2>4, <2>5, <3>1
    <3>2. CASE d = NoCall
      <4>1. Cardinality(d.sent) = 0 /\ Len(d.to) = 0
        BY <2>2, <3>2, NoCallIs
      <4> QED
        BY <2>1, <4>1
    <3> QED
      BY <1>12, <3>1, <3>2
  <2> QED
    BY <1>7, <2>6 DEF RoomInv
<1>20. PlaceInv'
  <2>1. Apart(ackMbx)' /\ \A w \in Tasks : Range(ackMbx'[w]) = Range(ackMbx[w])
    BY <1>1 DEF PlaceInv, Apart, Range
  <2>2. ASSUME NEW w \in Tasks, NEW n
        PROVE  n \in Range(rcvMbx'[w]) <=> n \in Range(rcvMbx[w]) \/ (n = m /\ w = u)
    BY <1>10
  <2>3. \A w, x \in Tasks :
          /\ \A n \in Range(rcvMbx'[w]) : n \notin Range(ackMbx'[x])
          /\ held'[w] \notin Range(rcvMbx'[x]) /\ held'[w] \notin Range(ackMbx'[x])
          /\ held'[w] # NULL /\ held'[w] = held'[x] => w = x
    <3>1. held' = held /\ ackMbx' = ackMbx
      BY <1>1
    <3>2. \A w \in Tasks : m \notin Range(ackMbx[w]) /\ m # held[w]
      BY <1>9
    <3>3. ASSUME NEW w \in Tasks, NEW x \in Tasks, NEW n \in Range(rcvMbx'[w])
          PROVE  n \notin Range(ackMbx'[x])
      <4>1. n \in Range(rcvMbx[w]) \/ n = m
        BY <2>2
      <4> QED
        BY <3>1, <3>2, <4>1 DEF PlaceInv
    <3>4. ASSUME NEW w \in Tasks, NEW x \in Tasks
          PROVE  held'[w] \notin Range(rcvMbx'[x]) /\ held'[w] \notin Range(ackMbx'[x])
      <4>1. held[w] # m /\ held[w] \notin Range(rcvMbx[x]) /\ held[w] \notin Range(ackMbx[x])
        BY <3>2 DEF PlaceInv
      <4> QED
        BY <2>2, <3>1, <4>1
    <3>5. \A w, x \in Tasks : held'[w] # NULL /\ held'[w] = held'[x] => w = x
      BY <3>1 DEF PlaceInv
    <3> QED
      BY <3>3, <3>4, <3>5, Zenon
  <2>4. \A n \in Msgs : n \in Live' <=> \E w \in Tasks : \/ n \in Range(rcvMbx'[w])
                                                       \/ n \in Range(ackMbx'[w])
                                                       \/ n = held'[w]
    <3>1. ASSUME NEW n \in Msgs
          PROVE  n \in Live' <=> n \in Live \/ n = m
      BY <1>8
    <3> QED
      BY <1>1, <1>4, <2>1, <2>2, <3>1 DEF PlaceInv
  <2> QED
    BY <1>10, <2>1, <2>3, <2>4 DEF PlaceInv
<1>21. WaitInv'
  <2>1. ASSUME NEW n \in Live, msg[n].wait
        PROVE  LET f == msg[n].from
               IN  call'[f].wait /\ n \in call'[f].sent /\ call'[f].prm = msg[n].prm
    <3>1. LET f == msg[n].from
          IN  f \in Tasks /\ call[f].wait /\ n \in call[f].sent /\ call[f].prm = msg[n].prm
      BY <2>1 DEF WaitInv, Live, MsgRec
    <3>2. CASE msg[n].from = t
      <4>1. c.wait /\ d = rest
        BY <1>12, <1>13, <3>1, <3>2 DEF d, c
      <4> QED
        BY <1>5, <1>7, <3>1, <3>2, <4>1 DEF c
    <3> QED
      BY <1>7, <3>1, <3>2
  <2>2. new.wait => call'[t].wait /\ m \in call'[t].sent /\ call'[t].prm = new.prm
    <3>1. c.wait => d = rest
      BY DEF d
    <3> QED
      BY <1>5, <1>6, <1>7, <3>1
  <2>3. \A w \in Tasks : \A n \in Range(ackMbx'[w]) : n \in Live /\ msg[n].wait /\ msg[n].from = w
    <3>1. ackMbx' = ackMbx /\ \A w \in Tasks : Range(ackMbx[w]) \subseteq Msgs
      BY <1>1 DEF Families, Range
    <3> QED
      BY <3>1 DEF WaitInv, PlaceInv
  <2> QED
    BY <1>6, <1>8, <2>1, <2>2, <2>3 DEF WaitInv
<1>22. PrmInv'
  <2>1. \A w \in Tasks : call'[w].prm # NULL => call'[w].prm = call[w].prm
    BY <1>5, <1>7, <1>12, NoCallIs DEF c
  <2>2. \A n \in Live' : msg'[n].prm # NULL => msg'[n].prm \in prmLive'
    BY <1>1, <1>6, <1>8 DEF PrmInv, c
  <2>3. \A w \in Tasks : call'[w].prm # NULL => call'[w].prm \in prmLive'
    BY <1>1, <2>1 DEF PrmInv
  <2>4. \A p \in prmLive' : \/ \E n \in Live' : msg'[n].prm = p
                            \/ \E w \in Tasks : call'[w].prm = p
    <3> SUFFICES ASSUME NEW p \in prmLive
                 PROVE  \/ \E n \in Live' : msg'[n].prm = p
                        \/ \E w \in Tasks : call'[w].prm = p
      BY <1>1
    <3>1. CASE \E n \in Live : msg[n].prm = p
      BY <1>8, <3>1
    <3>2. CASE c.prm = p
      BY <1>6, <1>8, <3>2
    <3>3. CASE \E w \in Tasks \ {t} : call[w].prm = p
      BY <1>7, <3>3
    <3> QED
      BY <3>1, <3>2, <3>3 DEF PrmInv, c
  <2>5. \A w, x \in Tasks : call'[w].prm # NULL /\ call'[w].prm = call'[x].prm => w = x
    BY <2>1 DEF PrmInv
  <2>6. call'[t].prm # NULL => c.wait
    BY <1>3, <1>5, <1>7, <1>12, <1>13, <1>16, <1>17, NoCallIs
  <2>7. ASSUME NEW n \in Live', NEW w \in Tasks,
               msg'[n].prm # NULL, msg'[n].prm = call'[w].prm
        PROVE  msg'[n].wait /\ msg'[n].from = w
    <3>1. call'[w].prm = call[w].prm
      BY <2>1, <2>7
    <3>2. CASE n \in Live
      BY <1>8, <2>7, <3>1, <3>2 DEF PrmInv
    <3>3. CASE n = m
      <4>1. w = t
        BY <1>6, <1>8, <2>7, <3>1, <3>3 DEF PrmInv, c
      <4> QED
        BY <1>6, <1>8, <2>6, <2>7, <3>3, <4>1
    <3> QED
      BY <1>8, <3>2, <3>3
  <2>8. ASSUME NEW n \in Live, msg[n].prm # NULL, msg[n].prm = c.prm
        PROVE  msg[n].wait /\ c.wait
    <3>1. msg[n].wait /\ msg[n].from = t
      BY <2>8 DEF PrmInv, c
    <3> QED
      BY <3>1 DEF WaitInv, c
  <2>9. ASSUME NEW n \in Live', NEW o \in Live',
               msg'[n].prm # NULL, msg'[n].prm = msg'[o].prm, n # o
        PROVE  msg'[n].wait
    <3>1. CASE n \in Live /\ o \in Live
      BY <1>8, <2>9, <3>1 DEF PrmInv
    <3>2. CASE n = m /\ o \in Live
      BY <1>6, <1>8, <2>8, <2>9, <3>2
    <3>3. CASE n \in Live /\ o = m
      BY <1>6, <1>8, <2>8, <2>9, <3>3
    <3> QED
      BY <1>8, <2>9, <3>1, <3>2, <3>3
  <2> HIDE DEF IInv, TypesInv
  <2> QED
    BY <2>2, <2>3, <2>4, <2>5, <2>7, <2>9 DEF PrmInv
<1> QED
  BY <1>14, <1>15, <1>18, <1>19, <1>20, <1>21, <1>22

\* The first acknowledgement in a mailbox is for a message its owner waits on.
LEMMA AckIsMine ==
    ASSUME IInv, NEW t \in Tasks, ackMbx[t] # << >>
    PROVE  LET m == Head(ackMbx[t])
           IN  /\ m \in Msgs /\ m \in Live /\ msg[m].wait /\ msg[m].from = t
               /\ call[t].wait /\ m \in call[t].sent /\ call[t].prm = msg[m].prm
<1> DEFINE m == Head(ackMbx[t])
<1>1. ackMbx[t] \in Seq(Msgs)
  BY DEF IInv, TypesInv, Families
<1>2. m \in Msgs /\ m \in Range(ackMbx[t])
  <2>1. m \in Msgs /\ 1 \in DOMAIN ackMbx[t] /\ m = ackMbx[t][1]
    BY <1>1, HeadAndTail
  <2> QED
    BY <2>1 DEF Range
<1> HIDE DEF m
<1>3. m \in Live /\ msg[m].wait /\ msg[m].from = t
  BY <1>2 DEF IInv, PlaceInv, WaitInv
<1>4. call[t].wait /\ m \in call[t].sent /\ call[t].prm = msg[m].prm
  BY <1>3 DEF IInv, WaitInv
<1> QED
  BY <1>2, <1>3, <1>4 DEF m

\* Nobody but its call has a message's parameters when the call's last
\* acknowledgement is in.
LEMMA AckedKeeps ==
    ASSUME IInv, NEW t \in Tasks, at[t] = "acks", ackMbx[t] # << >>,
           TakeAck(t), FreeMsgHndl(Head(ackMbx[t])),
           UNCHANGED <<sendsTo, rcvMbx, held>>,
           LET left == call[t].sent \ {Head(ackMbx[t])}
           IN  IF left = {}
                 THEN Finish(t) /\ prmLive' = prmLive \ {call[t].prm}
                 ELSE call' = [call EXCEPT ![t].sent = left] /\ UNCHANGED <<at, prmLive>>
    PROVE  IInv'
<1> DEFINE c == call[t]
           m == Head(ackMbx[t])
           left == c.sent \ {m}
           d == IF left = {} THEN NoCall ELSE [c EXCEPT !.sent = left]
           place == IF left = {} THEN Resume(t) ELSE "acks"
           gone == IF left = {} THEN {c.prm} ELSE {}
<1> USE DEF IInv, TypesInv
<1>1. /\ m \in Msgs /\ m \in Live /\ msg[m].wait /\ msg[m].from = t
      /\ c.wait /\ m \in c.sent /\ c.prm = msg[m].prm
  BY AckIsMine
<1>2. /\ c \in CallRec /\ c.to = << >> /\ c.prm \in Prms \cup {NULL}
      /\ c.wait \in BOOLEAN /\ c.all \in BOOLEAN /\ c.sent \subseteq Msgs
  BY DEF CallInv, CallFits, CallRec
<1>3. /\ call' = [call EXCEPT ![t] = d] /\ at' = [at EXCEPT ![t] = place]
      /\ prmLive' = prmLive \ gone
      /\ UNCHANGED <<sendsTo, rcvMbx, held>>
  <2>1. CASE left = {}
    BY <2>1 DEF Finish
  <2>2. CASE left # {}
    BY <1>2, <2>2
  <2> QED
    BY <2>1, <2>2
<1>4. /\ call'[t] = d /\ \A w \in Tasks \ {t} : call'[w] = call[w]
      /\ at'[t] = place /\ \A w \in Tasks \ {t} : at'[w] = at[w]
  BY <1>3
<1>5. /\ d \in CallRec /\ d.to = << >>
      /\ d.sent = left
      /\ left = {} => d = NoCall
      /\ left # {} => d.prm = c.prm /\ d.wait /\ d.all = c.all
  <2>1. CASE left = {}
    BY <2>1, NoCallIs
  <2>2. CASE left # {}
    <3>1. d = [c EXCEPT !.sent = left]
      BY <2>2
    <3> HIDE DEF d
    <3> QED
      BY <1>1, <1>2, <2>2, <3>1 DEF CallRec
  <2> QED
    BY <2>1, <2>2
<1>6. \/ left # {} /\ place = "acks"
      \/ left = {} /\ place = "answer" /\ held[t] # NULL
      \/ left = {} /\ place = "main" /\ held[t] = NULL
  BY DEF Resume
<1>7. /\ msg' \in [Msgs -> MsgRec \cup {NULL}]
      /\ Live' = Live \ {m}
      /\ \A n \in Live' : msg'[n] = msg[n] /\ n \in Live /\ n # m
  BY <1>1 DEF FreeMsgHndl, Live
<1>8. /\ ackMbx' \in Took(ackMbx, t) /\ ackMbx' \in Families
      /\ \A w \in Tasks \ {t} : ackMbx'[w] = ackMbx[w]
  <2>1. ackMbx[t] \in Seq(Msgs)
    BY DEF Families
  <2>2. Tail(ackMbx[t]) \in Seq(Msgs)
    BY <2>1, HeadAndTail
  <2> QED
    BY <2>2 DEF TakeAck, Took, Families
<1>9. /\ Apart(ackMbx') /\ Len(ackMbx'[t]) < Len(ackMbx[t])
      /\ Range(ackMbx'[t]) = Range(ackMbx[t]) \ {m}
      /\ m \in Range(ackMbx[t])
      /\ \A w \in Tasks \ {t} : m \notin Range(ackMbx[w])
  <2>1. Apart(ackMbx)
    BY DEF PlaceInv
  <2> QED
    BY <1>8, <2>1, TakeFirst
<1>10. ASSUME NEW w \in Tasks, NEW n
       PROVE  n \in Range(ackMbx'[w]) <=> n \in Range(ackMbx[w]) /\ n # m
  BY <1>8, <1>9
<1>11. left = {} => c.sent = {m}
  BY <1>1
<1> HIDE DEF c, m, left, d, place, gone
<1>12. TypesInv'
  <2>1. \A w \in Tasks : Len(ackMbx'[w]) <= QLen
    <3>1. QLen \in Nat /\ Len(ackMbx[t]) \in Nat /\ Len(ackMbx'[t]) \in Nat
      BY <1>8, MbxAssumption, LenProperties DEF Families
    <3> QED
      BY <1>8, <1>9, <3>1
  <2>2. call' \in [Tasks -> CallRec]
    BY <1>3, <1>5
  <2>3. at' \in [Tasks -> Spots]
    BY <1>3, <1>6, AfterIs DEF Spots
  <2> QED
    BY <1>3, <1>7, <1>8, <2>1, <2>2, <2>3
<1>13. HandsInv'
  BY <1>3, <1>4, <1>6, AfterIs DEF HandsInv
<1>14. CallInv'
  <2>1. CASE left = {}
    BY <1>4, <1>5, <1>6, <2>1, NoCallIs DEF CallInv, CallFits
  <2>2. CASE left # {}
    <3>1. c.all
      <4>1. ~c.all => \E n \in Msgs : c.sent = {n}
        BY DEF CallInv, CallFits, c
      <4> QED
        BY <1>1, <1>2, <2>2, <4>1 DEF left
    <3>2. CallFits(place, d)
      BY <1>5, <1>6, <2>2, <3>1 DEF CallFits
    <3> QED
      BY <1>4, <3>2 DEF CallInv
  <2> QED
    BY <2>1, <2>2
<1>15. RoomInv'
  <2>1. QLen \in Nat /\ Len(<< >>) = 0
    BY MbxAssumption, EmptySeq
  <2>2. /\ Cardinality(left) \in Nat /\ Cardinality(c.sent) \in Nat
        /\ Cardinality(left) = Cardinality(c.sent) - 1
    <3>1. IsFiniteSet(Msgs)
      BY MsgsFinite
    <3>2. IsFiniteSet(c.sent)
      BY <1>2, <3>1, FS_Subset
    <3>3. left = c.sent \ {m}
      BY DEF left
    <3> QED
      BY <1>1, <3>2, <3>3, FS_RemoveElement, FS_CardinalityType
  <2>3. Cardinality(c.sent) <= QLen
    BY DEF RoomInv, c
  <2>4. Cardinality(d.sent) = Cardinality(left) /\ Len(d.to) = 0
    BY <1>5, <2>1
  <2> QED
    BY <1>4, <2>1, <2>2, <2>3, <2>4 DEF RoomInv
<1>16. PlaceInv'
  <2>1. Apart(rcvMbx)'
    BY <1>3 DEF PlaceInv, Apart
  <2>2. held' = held /\ rcvMbx' = rcvMbx
    BY <1>3
  <2>3. \A w, x \in Tasks :
          /\ \A n \in Range(rcvMbx[w]) : n \notin Range(ackMbx'[x])
          /\ held[w] \notin Range(rcvMbx[x]) /\ held[w] \notin Range(ackMbx'[x])
          /\ held[w] # NULL /\ held[w] = held[x] => w = x
    BY <1>10 DEF PlaceInv
  <2>4. ASSUME NEW n \in Msgs
        PROVE  n \in Live' <=> \E w \in Tasks : \/ n \in Range(rcvMbx[w])
                                              \/ n \in Range(ackMbx'[w])
                                              \/ n = held[w]
    <3>1. n \in Live' <=> n \in Live /\ n # m
      BY <1>7
    <3>2. \A w \in Tasks : m \notin Range(rcvMbx[w]) /\ m # held[w]
      BY <1>9 DEF PlaceInv
    <3>3. n \in Live <=> \E w \in Tasks : \/ n \in Range(rcvMbx[w])
                                         \/ n \in Range(ackMbx[w])
                                         \/ n = held[w]
      BY DEF PlaceInv
    <3>4. \A w \in Tasks : n \in Range(ackMbx'[w]) <=> n \in Range(ackMbx[w]) /\ n # m
      BY <1>10
    <3> HIDE DEF IInv, TypesInv
    <3>5. CASE n = m
      BY <3>1, <3>2, <3>4, <3>5
    <3>6. CASE n # m
      BY <3>1, <3>3, <3>4, <3>6
    <3> QED
      BY <3>5, <3>6
  <2> QED
    BY <1>9, <2>1, <2>2, <2>3, <2>4 DEF PlaceInv
<1>17. WaitInv'
  <2>1. ASSUME NEW n \in Live', msg[n].wait
        PROVE  LET f == msg[n].from
               IN  call'[f].wait /\ n \in call'[f].sent /\ call'[f].prm = msg[n].prm
    <3>1. LET f == msg[n].from
          IN  f \in Tasks /\ call[f].wait /\ n \in call[f].sent /\ call[f].prm = msg[n].prm
      BY <1>7, <2>1 DEF WaitInv, Live, MsgRec
    <3>2. CASE msg[n].from = t
      <4>1. n \in left
        BY <1>7, <3>1, <3>2 DEF left, c
      <4> QED
        BY <1>4, <1>5, <3>1, <3>2, <4>1 DEF c
    <3> QED
      BY <1>4, <3>1, <3>2
  <2>2. \A w \in Tasks : \A n \in Range(ackMbx'[w]) : n \in Live' /\ msg[n].wait /\ msg[n].from = w
    <3>1. \A w \in Tasks : Range(ackMbx[w]) \subseteq Msgs
      BY DEF Families, Range
    <3> QED
      BY <1>7, <1>10, <3>1 DEF WaitInv, PlaceInv
  <2> QED
    BY <1>7, <2>1, <2>2 DEF WaitInv
<1>18. PrmInv'
  <2>1. \A w \in Tasks : call'[w].prm # NULL => call'[w].prm = call[w].prm /\ call'[w].prm \notin gone
    <3>1. ASSUME NEW w \in Tasks, w # t, call[w].prm # NULL
          PROVE  call[w].prm # c.prm
      BY <3>1 DEF PrmInv, c
    <3>2. call'[t].prm # NULL => call'[t].prm = c.prm /\ gone = {}
      BY <1>4, <1>5, NoCallIs DEF gone
    <3> QED
      BY <1>4, <3>1, <3>2 DEF c, gone
  <2>2. ASSUME NEW n \in Live', msg[n].prm # NULL
        PROVE  msg[n].prm \notin gone
    <3> SUFFICES ASSUME left = {}, msg[n].prm = c.prm
                 PROVE  FALSE
      BY DEF gone
    <3>1. n \in Live /\ n # m /\ msg[n].wait /\ msg[n].from = t
      BY <1>7, <2>2 DEF PrmInv, c
    <3>2. n \in c.sent
      BY <3>1 DEF WaitInv, c
    <3> QED
      BY <1>11, <3>1, <3>2
  <2>3. \A n \in Live' : msg'[n].prm # NULL => msg'[n].prm \in prmLive'
    BY <1>3, <1>7, <2>2 DEF PrmInv
  <2>4. \A w \in Tasks : call'[w].prm # NULL => call'[w].prm \in prmLive'
    BY <1>3, <2>1 DEF PrmInv
  <2>5. ASSUME NEW p \in prmLive'
        PROVE  \/ \E n \in Live' : msg'[n].prm = p
               \/ \E w \in Tasks : call'[w].prm = p
    <3>1. p \in prmLive /\ p \notin gone
      BY <1>3
    <3>2. CASE \E n \in Live : msg[n].prm = p /\ n # m
      BY <1>7, <3>2
    <3>3. CASE c.prm = p
      BY <1>4, <1>5, <3>1, <3>3 DEF gone
    <3>4. CASE \E w \in Tasks \ {t} : call[w].prm = p
      BY <1>4, <3>4
    <3> QED
      BY <1>1, <3>1, <3>2, <3>3, <3>4 DEF PrmInv, c
  <2>6. \A w, x \in Tasks : call'[w].prm # NULL /\ call'[w].prm = call'[x].prm => w = x
    BY <2>1 DEF PrmInv
  <2>7. \A n \in Live', w \in Tasks : msg'[n].prm # NULL /\ msg'[n].prm = call'[w].prm
            => msg'[n].wait /\ msg'[n].from = w
    BY <1>7, <2>1 DEF PrmInv
  <2>8. \A n, o \in Live' : msg'[n].prm # NULL /\ msg'[n].prm = msg'[o].prm /\ n # o => msg'[n].wait
    BY <1>7 DEF PrmInv
  <2> HIDE DEF IInv, TypesInv
  <2> QED
    BY <2>3, <2>4, <2>5, <2>6, <2>7, <2>8 DEF PrmInv
<1> QED
  BY <1>12, <1>13, <1>14, <1>15, <1>16, <1>17, <1>18

LEMMA SendAckedKeeps ==
    ASSUME IInv, NEW t \in Tasks, SendAcked(t)
    PROVE  IInv'
<1> DEFINE m == Head(ackMbx[t])
<1>1. /\ at[t] = "acks" /\ ~call[t].all /\ ackMbx[t] # << >> /\ TakeAck(t)
      /\ UNCHANGED <<sendsTo, rcvMbx, held>>
  BY DEF SendAcked
<1>2. m \in call[t].sent /\ call[t].prm = msg[m].prm
  BY <1>1, AckIsMine
<1>3. call[t].sent = {m}
  BY <1>1, <1>2 DEF IInv, CallInv, CallFits
<1>4. FreeMsgHndl(m) /\ prmLive' = prmLive \ {call[t].prm} /\ Finish(t)
  BY <1>2 DEF SendAcked
<1> QED
  BY <1>1, <1>3, <1>4, AckedKeeps

LEMMA BroadcastAckedKeeps ==
    ASSUME IInv, NEW t \in Tasks, BroadcastAcked(t)
    PROVE  IInv'
<1> DEFINE m == Head(ackMbx[t])
           left == call[t].sent \ {m}
<1>1. /\ at[t] = "acks" /\ ackMbx[t] # << >> /\ TakeAck(t) /\ FreeMsgHndl(m)
      /\ UNCHANGED <<sendsTo, rcvMbx, held>>
  BY DEF BroadcastAcked
<1>2. m \in call[t].sent
  BY <1>1, AckIsMine
<1>3. IF left = {}
        THEN Finish(t) /\ prmLive' = prmLive \ {call[t].prm}
        ELSE call' = [call EXCEPT ![t].sent = left] /\ UNCHANGED <<at, prmLive>>
  BY <1>2 DEF BroadcastAcked
<1> QED
  BY <1>1, <1>3, AckedKeeps

LEMMA TakeKeeps ==
    ASSUME IInv, NEW t \in Tasks, at[t] \in {"main", "cmd", "flush"},
           NEW place \in DOMAIN After, Take(t, place)
    PROVE  IInv'
<1> DEFINE m == Head(rcvMbx[t])
<1> USE DEF IInv, TypesInv
<1>1. /\ rcvMbx[t] # << >>
      /\ held' = [held EXCEPT ![t] = m]
      /\ rcvMbx' = [rcvMbx EXCEPT ![t] = Tail(@)]
      /\ at' = [at EXCEPT ![t] = place]
      /\ UNCHANGED <<sendsTo, ackMbx, msg, prmLive, call>>
  BY DEF Take, memory
<1>2. /\ at'[t] = place /\ \A w \in Tasks \ {t} : at'[w] = at[w]
      /\ held'[t] = m /\ \A w \in Tasks \ {t} : held'[w] = held[w]
      /\ held[t] = NULL
  BY <1>1 DEF HandsInv
<1>3. /\ rcvMbx' \in Took(rcvMbx, t) /\ rcvMbx' \in Families
      /\ \A w \in Tasks \ {t} : rcvMbx'[w] = rcvMbx[w]
  <2>1. rcvMbx[t] \in Seq(Msgs)
    BY DEF Families
  <2>2. Tail(rcvMbx[t]) \in Seq(Msgs)
    BY <1>1, <2>1, HeadAndTail
  <2> QED
    BY <1>1, <2>2 DEF Took, Families
<1>4. /\ Apart(rcvMbx') /\ Len(rcvMbx'[t]) < Len(rcvMbx[t])
      /\ Range(rcvMbx'[t]) = Range(rcvMbx[t]) \ {m}
      /\ m \in Msgs /\ m \in Range(rcvMbx[t])
      /\ \A w \in Tasks \ {t} : m \notin Range(rcvMbx[w])
  <2>1. Apart(rcvMbx) /\ rcvMbx \in Families /\ rcvMbx[t] # << >>
    BY <1>1 DEF PlaceInv
  <2> QED
    BY <1>3, <2>1, TakeFirst
<1>5. ASSUME NEW w \in Tasks, NEW n
      PROVE  n \in Range(rcvMbx'[w]) <=> n \in Range(rcvMbx[w]) /\ n # m
  BY <1>3, <1>4
<1>6. m # NULL /\ \A w \in Tasks : m \notin Range(ackMbx[w]) /\ m # held[w]
  <2>1. m \in Msgs /\ m \in Range(rcvMbx[t])
    BY <1>4
  <2> HIDE DEF m
  <2> QED
    BY <2>1, NullApart DEF PlaceInv
<1>7. Live' = Live
  BY <1>1 DEF Live
<1> HIDE DEF m
<1>8. TypesInv'
  <2>1. \A w \in Tasks : Len(rcvMbx'[w]) <= QLen
    <3>1. QLen \in Nat /\ Len(rcvMbx[t]) \in Nat /\ Len(rcvMbx'[t]) \in Nat
      BY <1>3, MbxAssumption, LenProperties DEF Families
    <3> QED
      BY <1>3, <1>4, <3>1
  <2>2. at' \in [Tasks -> Spots] /\ held' \in [Tasks -> Msgs \cup {NULL}]
    BY <1>1, <1>4 DEF Spots
  <2> QED
    BY <1>1, <1>3, <2>1, <2>2
<1>9. HandsInv'
  BY <1>2, <1>6, AfterIs DEF HandsInv
<1>10. CallInv'
  <2>1. call[t] = NoCall
    BY DEF CallInv, CallFits
  <2>2. CallFits(place, NoCall)
    BY AfterIs, NoCallIs DEF CallFits
  <2> QED
    BY <1>1, <1>2, <2>1, <2>2 DEF CallInv
<1>11. RoomInv'
  BY <1>1 DEF RoomInv
<1>12. PlaceInv'
  <2>1. Apart(ackMbx)'
    BY <1>1 DEF PlaceInv, Apart
  <2>2. ackMbx' = ackMbx
    BY <1>1
  <2>3. ASSUME NEW w \in Tasks, NEW x \in Tasks
        PROVE  /\ \A n \in Range(rcvMbx'[w]) : n \notin Range(ackMbx[x])
               /\ held'[w] \notin Range(rcvMbx'[x]) /\ held'[w] \notin Range(ackMbx[x])
    <3>1. /\ \A n \in Range(rcvMbx[w]) : n \notin Range(ackMbx[x])
          /\ held[w] \notin Range(rcvMbx[x]) /\ held[w] \notin Range(ackMbx[x])
      BY DEF PlaceInv
    <3> QED
      BY <1>2, <1>5, <1>6, <3>1
  <2>4. ASSUME NEW w \in Tasks, NEW x \in Tasks, held'[w] # NULL, held'[w] = held'[x]
        PROVE  w = x
    <3>1. held[w] # NULL /\ held[w] = held[x] => w = x
      BY DEF PlaceInv
    <3> QED
      BY <1>2, <1>6, <2>4, <3>1
  <2>5. ASSUME NEW n \in Msgs
        PROVE  n \in Live <=> \E w \in Tasks : \/ n \in Range(rcvMbx'[w])
                                             \/ n \in Range(ackMbx[w])
                                             \/ n = held'[w]
    <3>1. n \in Live <=> \E w \in Tasks : \/ n \in Range(rcvMbx[w])
                                         \/ n \in Range(ackMbx[w])
                                         \/ n = held[w]
      BY DEF PlaceInv
    <3>2. CASE n = m
      BY <1>2, <1>4, <3>1, <3>2
    <3>3. CASE n # m
      <4>1. \A w \in Tasks : n \in Range(rcvMbx'[w]) <=> n \in Range(rcvMbx[w])
        BY <1>5, <3>3
      <4>2. \A w \in Tasks : n = held'[w] <=> n = held[w]
        BY <1>2, <3>3, NullApart
      <4> HIDE DEF IInv, TypesInv
      <4> QED
        BY <3>1, <4>1, <4>2
    <3> QED
      BY <3>2, <3>3
  <2> QED
    BY <1>4, <1>7, <2>1, <2>2, <2>3, <2>4, <2>5 DEF PlaceInv
<1>13. WaitInv'
  <2>1. msg' = msg /\ ackMbx' = ackMbx /\ call' = call
    BY <1>1
  <2> QED
    BY <1>7, <2>1 DEF WaitInv
<1>14. PrmInv'
  <2>1. msg' = msg /\ prmLive' = prmLive /\ call' = call
    BY <1>1
  <2> HIDE DEF TypesInv
  <2> QED
    BY <1>7, <2>1 DEF PrmInv
<1> QED
  BY <1>8, <1>9, <1>10, <1>11, <1>12, <1>13, <1>14

\* A step that moves a task and leaves the rest alone.
LEMMA MoveKeeps ==
    ASSUME IInv, NEW t \in Tasks, at[t] \in {"main", "flush"},
           NEW place \in {"main", "cmd", "flush"}, at' = [at EXCEPT ![t] = place],
           UNCHANGED <<sendsTo, rcvMbx, ackMbx, msg, prmLive, held, call>>
    PROVE  IInv'
<1> USE DEF IInv
<1>1. /\ at'[t] = place /\ \A w \in Tasks \ {t} : at'[w] = at[w]
      /\ held' = held /\ call' = call
  BY DEF TypesInv
<1>2. TypesInv'
  BY DEF TypesInv, Spots
<1>3. HandsInv'
  BY <1>1, AfterIs DEF HandsInv
<1>4. CallInv'
  <2>1. call[t] = NoCall
    BY DEF CallInv, CallFits
  <2>2. CallFits(place, NoCall)
    BY NoCallIs DEF CallFits
  <2> QED
    BY <1>1, <2>1, <2>2 DEF CallInv
<1>5. RoomInv'
  BY <1>1 DEF RoomInv
<1>6. Live' = Live
  BY DEF Live
<1>7. PlaceInv'
  <2>1. Apart(rcvMbx)' /\ Apart(ackMbx)'
    BY DEF PlaceInv, Apart
  <2>2. rcvMbx' = rcvMbx /\ ackMbx' = ackMbx /\ held' = held
    OBVIOUS
  <2> QED
    BY <1>6, <2>1, <2>2 DEF PlaceInv
<1>8. WaitInv'
  BY <1>6 DEF WaitInv
<1>9. PrmInv'
  <2>1. msg' = msg /\ prmLive' = prmLive /\ call' = call
    OBVIOUS
  <2> QED
    BY <1>6, <2>1 DEF PrmInv
<1> QED
  BY <1>2, <1>3, <1>4, <1>5, <1>7, <1>8, <1>9

\* No acknowledgement is in the mailbox of a task that sends nothing.
LEMMA FlushAcksKeeps ==
    ASSUME IInv, NEW t \in Tasks, FlushAcks(t)
    PROVE  IInv'
<1>1. ackMbx[t] = << >>
  <2>1. call[t] = NoCall
    BY DEF FlushAcks, IInv, CallInv, CallFits
  <2> QED
    BY <2>1, AckIsMine, NoCallIs
<1>2. DOMAIN ackMbx[t] = {}
  BY <1>1, EmptySeq
<1>3. msg' = msg /\ prmLive' = prmLive /\ ackMbx' = ackMbx
  <2>1. {ackMbx[t][i] : i \in DOMAIN ackMbx[t]} = {}
    BY <1>2
  <2>2. /\ msg' = [m \in Msgs |-> msg[m]] /\ prmLive' = prmLive \ {}
        /\ ackMbx' = [ackMbx EXCEPT ![t] = << >>]
    BY <2>1 DEF FlushAcks
  <2> QED
    BY <1>1, <2>2 DEF IInv, TypesInv, Families
<1>4. /\ at[t] = "flush" /\ at' = [at EXCEPT ![t] = "main"]
      /\ UNCHANGED <<sendsTo, rcvMbx, held, call>>
  BY DEF FlushAcks
<1> QED
  BY <1>3, <1>4, MoveKeeps

\* What a task that puts its message down leaves of every part but the queues.
LEMMA PutDownIs ==
    ASSUME IInv, NEW t \in Tasks, PutDown(t)
    PROVE  /\ held[t] \in Live /\ held[t] \in Msgs /\ msg[held[t]] \in MsgRec
           /\ at' \in [Tasks -> Spots] /\ held' \in [Tasks -> Msgs \cup {NULL}]
           /\ held'[t] = NULL /\ \A w \in Tasks \ {t} : held'[w] = held[w]
           /\ HandsInv' /\ CallInv' /\ RoomInv'
           /\ UNCHANGED <<sendsTo, rcvMbx, call>>
<1> USE DEF IInv, TypesInv
<1>1. /\ at[t] \in DOMAIN After /\ at' = [at EXCEPT ![t] = After[at[t]]]
      /\ held' = [held EXCEPT ![t] = NULL]
      /\ UNCHANGED <<sendsTo, rcvMbx, call>>
  BY DEF PutDown
<1>2. After[at[t]] \in {"main", "cmd", "flush"}
  BY <1>1, AfterIs
<1>3. /\ at'[t] \in {"main", "cmd", "flush"} /\ \A w \in Tasks \ {t} : at'[w] = at[w]
      /\ held'[t] = NULL /\ \A w \in Tasks \ {t} : held'[w] = held[w]
  BY <1>1, <1>2
<1>4. held[t] \in Msgs
  BY <1>1 DEF HandsInv
<1>5. held[t] \in Live
  BY <1>4 DEF PlaceInv
<1>6. msg[held[t]] \in MsgRec
  BY <1>4, <1>5 DEF Live
<1>7. at' \in [Tasks -> Spots] /\ held' \in [Tasks -> Msgs \cup {NULL}]
  BY <1>1, <1>2 DEF Spots
<1>8. HandsInv'
  BY <1>3, AfterIs DEF HandsInv
<1>9. CallInv'
  <2>1. call[t] = NoCall
    BY <1>1, AfterIs DEF CallInv, CallFits
  <2>2. CallFits(at'[t], NoCall)
    BY <1>3, NoCallIs DEF CallFits
  <2> QED
    BY <1>1, <1>3, <2>1, <2>2 DEF CallInv
<1>10. RoomInv'
  BY <1>1 DEF RoomInv
<1> QED
  BY <1>1, <1>3, <1>4, <1>5, <1>6, <1>7, <1>8, <1>9, <1>10

LEMMA AckKeeps ==
    ASSUME IInv, NEW t \in Tasks, Ack(t)
    PROVE  IInv'
<1> DEFINE m == held[t]
           f == msg[m].from
<1> USE DEF IInv, TypesInv
<1>1. /\ PutDown(t) /\ msg[m].wait /\ Len(ackMbx[f]) < QLen
      /\ ackMbx' = [ackMbx EXCEPT ![f] = Append(@, m)]
      /\ msg' = msg /\ prmLive' = prmLive
  BY DEF Ack, memory
<1>2. /\ m \in Live /\ m \in Msgs /\ f \in Tasks
      /\ at' \in [Tasks -> Spots] /\ held' \in [Tasks -> Msgs \cup {NULL}]
      /\ held'[t] = NULL /\ \A w \in Tasks \ {t} : held'[w] = held[w]
      /\ HandsInv' /\ CallInv' /\ RoomInv'
      /\ UNCHANGED <<sendsTo, rcvMbx, call>>
  BY <1>1, PutDownIs DEF MsgRec
<1>3. /\ m # NULL /\ \A w \in Tasks : m \notin Range(rcvMbx[w]) /\ m \notin Range(ackMbx[w])
      /\ \A w \in Tasks \ {t} : m # held[w]
  BY <1>2, NullApart DEF PlaceInv
<1>4. /\ ackMbx' \in Put(ackMbx, f, m) /\ ackMbx' \in Families
      /\ \A w \in Tasks \ {f} : ackMbx'[w] = ackMbx[w]
  BY <1>1, <1>2 DEF Put, Families
<1>5. /\ Apart(ackMbx') /\ Len(ackMbx'[f]) = Len(ackMbx[f]) + 1
      /\ Range(ackMbx'[f]) = Range(ackMbx[f]) \cup {m}
  <2>1. Apart(ackMbx) /\ ackMbx \in Families /\ \A w \in Tasks : m \notin Range(ackMbx[w])
    BY <1>3 DEF PlaceInv
  <2> HIDE DEF m, f
  <2> QED
    BY <1>2, <1>4, <2>1, PutLast
<1>6. ASSUME NEW w \in Tasks, NEW n
      PROVE  n \in Range(ackMbx'[w]) <=> n \in Range(ackMbx[w]) \/ (n = m /\ w = f)
  BY <1>4, <1>5
<1>7. Live' = Live
  BY <1>1 DEF Live
<1>8. msg[m].wait /\ msg[m].from = f
  BY <1>1
<1> HIDE DEF m, f
<1>9. TypesInv'
  <2>1. \A w \in Tasks : Len(ackMbx'[w]) <= QLen
    <3>1. QLen \in Nat /\ Len(ackMbx[f]) \in Nat
      BY <1>2, MbxAssumption, LenProperties DEF Families
    <3> QED
      BY <1>1, <1>4, <1>5, <3>1
  <2> QED
    BY <1>1, <1>2, <1>4, <2>1
<1>10. PlaceInv'
  <2>1. Apart(rcvMbx)'
    BY <1>2 DEF PlaceInv, Apart
  <2>2. rcvMbx' = rcvMbx
    BY <1>2
  <2>3. ASSUME NEW w \in Tasks, NEW x \in Tasks
        PROVE  /\ \A n \in Range(rcvMbx[w]) : n \notin Range(ackMbx'[x])
               /\ held'[w] \notin Range(rcvMbx[x]) /\ held'[w] \notin Range(ackMbx'[x])
    <3>1. /\ \A n \in Range(rcvMbx[w]) : n \notin Range(ackMbx[x])
          /\ held[w] \notin Range(rcvMbx[x]) /\ held[w] \notin Range(ackMbx[x])
      BY DEF PlaceInv
    <3>2. NULL \notin Range(rcvMbx[x]) /\ NULL \notin Range(ackMbx'[x])
      BY <1>4, NullApart DEF Families, Range
    <3>3. m \notin Range(rcvMbx[w])
      BY <1>3
    <3> QED
      BY <1>2, <1>3, <1>6, <3>1, <3>2, <3>3
  <2>4. ASSUME NEW w \in Tasks, NEW x \in Tasks, held'[w] # NULL, held'[w] = held'[x]
        PROVE  w = x
    <3>1. held[w] # NULL /\ held[w] = held[x] => w = x
      BY DEF PlaceInv
    <3> QED
      BY <1>2, <2>4, <3>1
  <2>5. ASSUME NEW n \in Msgs
        PROVE  n \in Live <=> \E w \in Tasks : \/ n \in Range(rcvMbx[w])
                                             \/ n \in Range(ackMbx'[w])
                                             \/ n = held'[w]
    <3>1. n \in Live <=> \E w \in Tasks : \/ n \in Range(rcvMbx[w])
                                         \/ n \in Range(ackMbx[w])
                                         \/ n = held[w]
      BY DEF PlaceInv
    <3>2. CASE n = m
      BY <1>2, <1>6, <3>2
    <3>3. CASE n # m
      <4>1. \A w \in Tasks : n \in Range(ackMbx'[w]) <=> n \in Range(ackMbx[w])
        BY <1>6, <3>3
      <4>2. \A w \in Tasks : n = held'[w] <=> n = held[w]
        BY <1>2, <3>3, NullApart DEF m
      <4> HIDE DEF IInv, TypesInv
      <4> QED
        BY <3>1, <4>1, <4>2
    <3> QED
      BY <3>2, <3>3
  <2> QED
    BY <1>5, <1>7, <2>1, <2>2, <2>3, <2>4, <2>5 DEF PlaceInv
<1>11. WaitInv'
  <2>1. msg' = msg /\ call' = call
    BY <1>1, <1>2
  <2>2. \A w \in Tasks : \A n \in Range(ackMbx'[w]) : msg[n].wait /\ msg[n].from = w
    BY <1>6, <1>8 DEF WaitInv
  <2> QED
    BY <1>7, <2>1, <2>2 DEF WaitInv
<1>12. PrmInv'
  <2>1. msg' = msg /\ prmLive' = prmLive /\ call' = call
    BY <1>1, <1>2
  <2> HIDE DEF TypesInv
  <2> QED
    BY <1>7, <2>1 DEF PrmInv
<1> QED
  BY <1>2, <1>9, <1>10, <1>11, <1>12

LEMMA FreeMsgKeeps ==
    ASSUME IInv, NEW t \in Tasks, FreeMsg(t)
    PROVE  IInv'
<1> DEFINE m == held[t]
           p == msg[m].prm
<1> USE DEF IInv, TypesInv
<1>1. /\ PutDown(t) /\ ~msg[m].wait
      /\ msg' = [msg EXCEPT ![m] = NULL]
      /\ prmLive' = prmLive \ {p} /\ ackMbx' = ackMbx
  BY DEF FreeMsg, FreeMsgHndl
<1>2. /\ m \in Live /\ m \in Msgs /\ msg[m] \in MsgRec
      /\ at' \in [Tasks -> Spots] /\ held' \in [Tasks -> Msgs \cup {NULL}]
      /\ held'[t] = NULL /\ \A w \in Tasks \ {t} : held'[w] = held[w]
      /\ HandsInv' /\ CallInv' /\ RoomInv'
      /\ UNCHANGED <<sendsTo, rcvMbx, call>>
  BY <1>1, PutDownIs
<1>3. /\ m # NULL /\ \A w \in Tasks : m \notin Range(rcvMbx[w]) /\ m \notin Range(ackMbx[w])
      /\ \A w \in Tasks \ {t} : m # held[w]
  BY <1>2, NullApart DEF PlaceInv
<1>4. /\ Live' = Live \ {m}
      /\ \A n \in Live' : msg'[n] = msg[n] /\ n \in Live /\ n # m
  BY <1>1, <1>2 DEF Live
<1>5. p # NULL => /\ \A n \in Live' : msg[n].prm # p
                  /\ \A w \in Tasks : call[w].prm # p
  BY <1>1, <1>2, <1>4 DEF PrmInv
<1>6. TypesInv'
  BY <1>1, <1>2
<1>7. \A n \in Live : n # m <=> n \in Live'
  BY <1>4
<1> HIDE DEF p
<1>8. PlaceInv'
  <2>1. Apart(rcvMbx)' /\ Apart(ackMbx)'
    BY <1>1, <1>2 DEF PlaceInv, Apart
  <2>2. rcvMbx' = rcvMbx /\ ackMbx' = ackMbx
    BY <1>1, <1>2
  <2>3. ASSUME NEW w \in Tasks, NEW x \in Tasks
        PROVE  /\ \A n \in Range(rcvMbx[w]) : n \notin Range(ackMbx[x])
               /\ held'[w] \notin Range(rcvMbx[x]) /\ held'[w] \notin Range(ackMbx[x])
    <3>1. /\ \A n \in Range(rcvMbx[w]) : n \notin Range(ackMbx[x])
          /\ held[w] \notin Range(rcvMbx[x]) /\ held[w] \notin Range(ackMbx[x])
      BY DEF PlaceInv
    <3>2. NULL \notin Range(rcvMbx[x]) /\ NULL \notin Range(ackMbx[x])
      BY NullApart DEF Families, Range
    <3> QED
      BY <1>2, <3>1, <3>2
  <2>4. ASSUME NEW w \in Tasks, NEW x \in Tasks, held'[w] # NULL, held'[w] = held'[x]
        PROVE  w = x
    <3>1. held[w] # NULL /\ held[w] = held[x] => w = x
      BY DEF PlaceInv
    <3> QED
      BY <1>2, <2>4, <3>1
  <2>5. ASSUME NEW n \in Msgs
        PROVE  n \in Live' <=> \E w \in Tasks : \/ n \in Range(rcvMbx[w])
                                              \/ n \in Range(ackMbx[w])
                                              \/ n = held'[w]
    <3>1. n \in Live <=> \E w \in Tasks : \/ n \in Range(rcvMbx[w])
                                         \/ n \in Range(ackMbx[w])
                                         \/ n = held[w]
      BY DEF PlaceInv
    <3>2. n \in Live' <=> n \in Live /\ n # m
      BY <1>4
    <3>3. CASE n = m
      BY <1>2, <1>3, <3>2, <3>3
    <3>4. CASE n # m
      <4>1. \A w \in Tasks : n = held'[w] <=> n = held[w]
        BY <1>2, <3>4, NullApart
      <4> HIDE DEF IInv, TypesInv
      <4> QED
        BY <3>1, <3>2, <3>4, <4>1
    <3> QED
      BY <3>3, <3>4
  <2> QED
    BY <2>1, <2>2, <2>3, <2>4, <2>5 DEF PlaceInv
<1>9. WaitInv'
  <2>1. ackMbx' = ackMbx /\ call' = call
    BY <1>1, <1>2
  <2>2. \A w \in Tasks : \A n \in Range(ackMbx[w]) : n \in Live' /\ msg[n].wait /\ msg[n].from = w
    <3>1. \A w \in Tasks : Range(ackMbx[w]) \subseteq Msgs
      BY DEF Families, Range
    <3> QED
      BY <1>3, <1>4, <3>1 DEF WaitInv, PlaceInv
  <2>3. \A n \in Live' : msg[n].wait =>
            /\ call[msg[n].from].wait /\ n \in call[msg[n].from].sent
            /\ call[msg[n].from].prm = msg[n].prm
    BY <1>4 DEF WaitInv
  <2> HIDE DEF IInv, TypesInv
  <2> QED
    BY <1>4, <2>1, <2>2, <2>3 DEF WaitInv
<1>10. PrmInv'
  <2>1. call' = call /\ prmLive' = prmLive \ {p}
    BY <1>1, <1>2 DEF p
  <2>2. \A n \in Live' : msg'[n].prm # NULL => msg'[n].prm \in prmLive'
    BY <1>4, <1>5, <2>1 DEF PrmInv
  <2>3. \A w \in Tasks : call[w].prm # NULL => call[w].prm \in prmLive'
    BY <1>5, <2>1 DEF PrmInv
  <2>4. ASSUME NEW o \in prmLive'
        PROVE  \/ \E n \in Live' : msg'[n].prm = o
               \/ \E w \in Tasks : call[w].prm = o
    <3>1. o \in prmLive /\ o # p
      BY <2>1
    <3>2. CASE \E n \in Live : msg[n].prm = o
      <4>1. PICK n \in Live : msg[n].prm = o
        BY <3>2
      <4> QED
        BY <1>4, <3>1, <4>1 DEF p
    <3> QED
      BY <3>1, <3>2 DEF PrmInv
  <2>5. \A w, x \in Tasks : call[w].prm # NULL /\ call[w].prm = call[x].prm => w = x
    BY DEF PrmInv
  <2>6. \A n \in Live', w \in Tasks : msg'[n].prm # NULL /\ msg'[n].prm = call[w].prm
            => msg'[n].wait /\ msg'[n].from = w
    BY <1>4 DEF PrmInv
  <2>7. \A n, o \in Live' : msg'[n].prm # NULL /\ msg'[n].prm = msg'[o].prm /\ n # o => msg'[n].wait
    BY <1>4 DEF PrmInv
  <2> HIDE DEF IInv, TypesInv
  <2> QED
    BY <2>1, <2>2, <2>3, <2>4, <2>5, <2>6, <2>7 DEF PrmInv
<1> QED
  BY <1>2, <1>6, <1>8, <1>9, <1>10

LEMMA Steps == IInv /\ [Next]_vars => IInv'
<1> SUFFICES ASSUME IInv, [Next]_vars PROVE IInv'
  OBVIOUS
<1>1. ASSUME NEW t \in Tasks, Run(t)
      PROVE  IInv'
  <2>1. CASE Deliver(t)
    BY <2>1, DeliverKeeps
  <2>2. CASE SendAcked(t)
    BY <2>2, SendAckedKeeps
  <2>3. CASE BroadcastAcked(t)
    BY <2>3, BroadcastAckedKeeps
  <2>4. CASE WaitMsg(t)
    BY <2>4, TakeKeeps, AfterIs DEF WaitMsg
  <2>5. CASE WaitCmd(t)
    BY <2>5, TakeKeeps, AfterIs DEF WaitCmd
  <2>6. CASE FlushMsg(t)
    BY <2>6, TakeKeeps, AfterIs DEF FlushMsg
  <2>7. CASE FlushAcks(t)
    BY <2>7, FlushAcksKeeps
  <2>8. CASE Ack(t)
    BY <2>8, AckKeeps
  <2>9. CASE FreeMsg(t)
    BY <2>9, FreeMsgKeeps
  <2> QED
    BY <1>1, <2>1, <2>2, <2>3, <2>4, <2>5, <2>6, <2>7, <2>8, <2>9 DEF Run
<1>2. ASSUME NEW t \in Tasks, NEW place \in {"cmd", "flush"}, Enter(t, place)
      PROVE  IInv'
  BY <1>2, MoveKeeps DEF Enter, queues, memory
<1>3. CASE UNCHANGED vars
  <2>1. UNCHANGED <<sendsTo, rcvMbx, ackMbx, msg, prmLive, at, held, call>>
    BY <1>3 DEF vars, queues, memory
  <2>2. Live' = Live
    BY <2>1 DEF Live
  <2>3. TypesInv' /\ HandsInv' /\ CallInv' /\ RoomInv'
    BY <2>1 DEF IInv, TypesInv, HandsInv, CallInv, RoomInv
  <2>4. PlaceInv'
    <3>1. Apart(rcvMbx)' /\ Apart(ackMbx)'
      BY <2>1 DEF IInv, PlaceInv, Apart
    <3> QED
      BY <2>1, <2>2, <3>1 DEF IInv, PlaceInv
  <2>5. WaitInv' /\ PrmInv'
    BY <2>1, <2>2 DEF IInv, WaitInv, PrmInv
  <2> QED
    BY <2>3, <2>4, <2>5 DEF IInv
<1> QED
  BY <1>1, <1>2, <1>3, SendKeeps, BroadcastKeeps DEF Next

LEMMA Inductive == Spec => []IInv
<1> QED
  BY Starts, Steps, PTL DEF Spec

-----------------------------------------------------------------------------
(* What follows *)

LEMMA Typed ==
    ASSUME IInv
    PROVE  TypeOK
<1>1. \A t \in Tasks : /\ call[t].to \in Seq(Tasks) /\ call[t].sent \subseteq Msgs
                       /\ call[t].prm \in prmLive \cup {NULL}
  BY DEF IInv, TypesInv, PrmInv, CallRec
<1> QED
  BY <1>1 DEF IInv, TypesInv, TypeOK, Families, MsgRec, Spots

\* Where a message is, read off the queues and the hands.
LEMMA PlacesAre ==
    ASSUME NEW m
    PROVE  \A x : x \in Places(m) <=> \E t \in Tasks :
               \/ \E i \in DOMAIN rcvMbx[t] : rcvMbx[t][i] = m /\ x = <<"rcv", t, i>>
               \/ \E i \in DOMAIN ackMbx[t] : ackMbx[t][i] = m /\ x = <<"ack", t, i>>
               \/ held[t] = m /\ x = <<"held", t, 1>>
BY DEF Places

LEMMA OnePlace ==
    ASSUME IInv, NEW m \in Msgs
    PROVE  Cardinality(Places(m)) = IF m \in Live THEN 1 ELSE 0
<1>1. CASE m \notin Live
  <2>1. Places(m) = {}
    <3> SUFFICES ASSUME NEW x \in Places(m) PROVE FALSE
      OBVIOUS
    <3>1. \A t \in Tasks : m \notin Range(rcvMbx[t]) /\ m \notin Range(ackMbx[t]) /\ m # held[t]
      BY <1>1 DEF IInv, PlaceInv
    <3> QED
      BY <3>1, PlacesAre DEF Range
  <2> QED
    BY <1>1, <2>1, FS_EmptySet
<1>2. CASE m \in Live
  <2>1. \E x : x \in Places(m)
    <3>1. PICK t \in Tasks : m \in Range(rcvMbx[t]) \/ m \in Range(ackMbx[t]) \/ m = held[t]
      BY <1>2 DEF IInv, PlaceInv
    <3>2. CASE m \in Range(rcvMbx[t])
      BY <3>2, PlacesAre DEF Range
    <3>3. CASE m \in Range(ackMbx[t])
      BY <3>3, PlacesAre DEF Range
    <3>4. CASE m = held[t]
      BY <3>4, PlacesAre
    <3> QED
      BY <3>1, <3>2, <3>3, <3>4
  <2>2. ASSUME NEW x \in Places(m), NEW y \in Places(m)
        PROVE  x = y
    <3>1. PICK t \in Tasks :
             \/ \E i \in DOMAIN rcvMbx[t] : rcvMbx[t][i] = m /\ x = <<"rcv", t, i>>
             \/ \E i \in DOMAIN ackMbx[t] : ackMbx[t][i] = m /\ x = <<"ack", t, i>>
             \/ held[t] = m /\ x = <<"held", t, 1>>
      BY PlacesAre
    <3>2. PICK u \in Tasks :
             \/ \E i \in DOMAIN rcvMbx[u] : rcvMbx[u][i] = m /\ y = <<"rcv", u, i>>
             \/ \E i \in DOMAIN ackMbx[u] : ackMbx[u][i] = m /\ y = <<"ack", u, i>>
             \/ held[u] = m /\ y = <<"held", u, 1>>
      BY PlacesAre
    <3>3. /\ \A w, z \in Tasks : /\ ~(m \in Range(rcvMbx[w]) /\ m \in Range(ackMbx[z]))
                                 /\ held[w] = m => m \notin Range(rcvMbx[z]) /\ m \notin Range(ackMbx[z])
                                 /\ held[w] = m /\ held[z] = m => w = z
      BY NullApart DEF IInv, PlaceInv
    <3>4. CASE \E i \in DOMAIN rcvMbx[t] : rcvMbx[t][i] = m /\ x = <<"rcv", t, i>>
      <4>1. \E i \in DOMAIN rcvMbx[u] : rcvMbx[u][i] = m /\ y = <<"rcv", u, i>>
        BY <3>2, <3>3, <3>4 DEF Range
      <4> QED
        BY <3>4, <4>1 DEF IInv, PlaceInv, Apart
    <3>5. CASE \E i \in DOMAIN ackMbx[t] : ackMbx[t][i] = m /\ x = <<"ack", t, i>>
      <4>1. \E i \in DOMAIN ackMbx[u] : ackMbx[u][i] = m /\ y = <<"ack", u, i>>
        BY <3>2, <3>3, <3>5 DEF Range
      <4> QED
        BY <3>5, <4>1 DEF IInv, PlaceInv, Apart
    <3>6. CASE held[t] = m /\ x = <<"held", t, 1>>
      <4>1. held[u] = m /\ y = <<"held", u, 1>>
        BY <3>2, <3>3, <3>6 DEF Range
      <4> QED
        BY <3>3, <3>6, <4>1
    <3> QED
      BY <3>1, <3>4, <3>5, <3>6
  <2>3. \E x : Places(m) = {x}
    BY <2>1, <2>2
  <2> QED
    BY <1>2, <2>3, FS_Singleton
<1> QED
  BY <1>1, <1>2

\* What is in a task's mailbox has been sent by the call it is in, and the message
\* about to come back has not come back yet.
LEMMA RoomForAck ==
    ASSUME IInv, NEW t \in Tasks, held[t] # NULL, msg[held[t]].wait
    PROVE  Len(ackMbx[msg[held[t]].from]) < QLen
<1> DEFINE m == held[t]
           f == msg[m].from
           q == ackMbx[f]
           rest == call[f].sent \ {m}
<1>1. m \in Msgs /\ m \in Live
  BY DEF IInv, TypesInv, PlaceInv
<1>2. f \in Tasks /\ m \in call[f].sent
  BY <1>1 DEF IInv, TypesInv, WaitInv, Live, MsgRec
<1>3. q \in Seq(Msgs) /\ Len(q) \in Nat /\ DOMAIN q = 1 .. Len(q)
  <2>1. q \in Seq(Msgs)
    BY <1>2 DEF IInv, TypesInv, Families
  <2> QED
    BY <2>1, LenProperties
<1>4. call[f].sent \subseteq Msgs
  BY <1>2 DEF IInv, TypesInv, CallRec
<1>5. IsFiniteSet(call[f].sent)
  BY <1>4, MsgsFinite, FS_Subset
<1>6. /\ IsFiniteSet(rest) /\ Cardinality(rest) \in Nat
      /\ Cardinality(call[f].sent) \in Nat
      /\ Cardinality(rest) = Cardinality(call[f].sent) - 1
  BY <1>2, <1>5, FS_RemoveElement, FS_CardinalityType
<1>7. ASSUME NEW i \in DOMAIN q
      PROVE  q[i] \in rest
  <2>1. q[i] \in Range(ackMbx[f])
    BY <1>7 DEF Range
  <2>2. q[i] \in Msgs
    BY <1>3, <1>7
  <2>3. q[i] \in Live /\ q[i] # m
    BY <1>2, <2>1, <2>2 DEF IInv, PlaceInv
  <2>4. msg[q[i]].wait /\ msg[q[i]].from = f
    BY <1>2, <2>1 DEF IInv, WaitInv
  <2>5. q[i] \in call[f].sent
    BY <2>3, <2>4 DEF IInv, WaitInv
  <2> QED
    BY <2>3, <2>5
<1>8. \A i, j \in DOMAIN q : q[i] = q[j] => i = j
  BY <1>2 DEF IInv, PlaceInv, Apart
<1>9. Cardinality(call[f].sent) <= QLen
  BY <1>2 DEF IInv, RoomInv
<1>10. QLen \in Nat
  BY MbxAssumption
<1> HIDE DEF m, f, q, rest
<1>11. Len(q) <= Cardinality(rest)
  <2>1. IsFiniteSet(DOMAIN q) /\ Cardinality(DOMAIN q) = Len(q)
    BY <1>3, FS_Interval
  <2>2. [i \in DOMAIN q |-> q[i]] \in Injection(DOMAIN q, rest)
    BY <1>7, <1>8 DEF Injection, IsInjective
  <2> QED
    BY <1>6, <2>1, <2>2, FS_Injection
<1>12. Len(q) < QLen
  BY <1>3, <1>6, <1>9, <1>10, <1>11
<1> QED
  BY <1>12 DEF m, f, q

LEMMA Expected ==
    ASSUME IInv
    PROVE  AcksExpected
<1>1. \A t \in Tasks : at[t] # "assert"
  BY DEF IInv, HandsInv
<1>2. ASSUME NEW t \in Tasks, NEW i \in DOMAIN ackMbx[t]
      PROVE  ackMbx[t][i] \in call[t].sent
  <2>1. ackMbx[t][i] \in Range(ackMbx[t])
    BY DEF Range
  <2>2. ackMbx[t][i] \in Msgs
    <3>1. ackMbx[t] \in Seq(Msgs)
      BY DEF IInv, TypesInv, Families
    <3> QED
      BY <3>1
  <2>3. ackMbx[t][i] \in Live
    BY <2>1, <2>2 DEF IInv, PlaceInv
  <2> QED
    BY <2>1, <2>3 DEF IInv, WaitInv
<1>3. \A t \in Tasks : held[t] # NULL =>
          LET m == msg[held[t]] IN m.wait => Len(ackMbx[m.from]) < QLen
  BY RoomForAck
<1> QED
  BY <1>1, <1>2, <1>3 DEF AcksExpected

\* MsgInOnePlace holds of every behaviour: a message block is in one queue or one
\* hand from its allocation to its only free (osa_msgq.c:44-53, 148,
\* osa_mbx.c:27-38, 217-234), and every variable keeps its type.
THEOREM BlockInOnePlace == Spec => []MsgInOnePlace
<1>1. IInv => MsgInOnePlace
  BY Typed, OnePlace DEF MsgInOnePlace
<1> QED
  BY <1>1, Inductive, PTL

\* AcksExpected holds of every behaviour: the assertion on messages that come back
\* out of order never fails, and a task that acknowledges is never held up by a
\* full mailbox (osa_mbx.c:68-79, osa_msgq.c:141, osa_mbx.h:11).
THEOREM AcksComeHome == Spec => []AcksExpected
<1>1. IInv => AcksExpected
  BY Expected
<1> QED
  BY <1>1, Inductive, PTL

\* PrmInUse holds of every behaviour: parameters are neither freed under a receiver
\* or sender that still uses them nor left behind (osa_mbx.c:27-38, 176-189).
THEOREM ParametersOutlive == Spec => []PrmInUse
<1>1. IInv => PrmInUse
  BY DEF IInv, PrmInv, PrmInUse
<1> QED
  BY <1>1, Inductive, PTL
=============================================================================
