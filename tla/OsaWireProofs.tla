---------------------------- MODULE OsaWireProofs ---------------------------
(***************************************************************************)
(* What OsaWire guarantees for any threads, any sizes of a body and of the *)
(* socket buffers, and any number of tries: on a connection that is clean, *)
(* what the reader holds and what is on the way continue what it has       *)
(* handed over, and the reader stands at a boundary of a message.          *)
(***************************************************************************)
EXTENDS OsaWire, SequenceTheorems, TLAPS

-----------------------------------------------------------------------------
(* The inductive invariant *)

\* The k-th unit of the messages s, one after the other.
Point(s, k) == <<s[(k - 1) \div Total + 1], ((k - 1) % Total) + 1>>

\* The units u are those of s that follow the first n.
InOrder(s, n, u) == \A k \in 1 .. Len(u) : u[k] = Point(s, n + k)

Whence(c) == Total * Len(handed[c])
Reached(c) == Whence(c) + Len(rcv[c].got) + Len(wire[c])

\* A message the sender has in hand is the last one begun, if it is on a clean
\* connection; otherwise all of it is there.
Flow(c) ==
    /\ InOrder(sent[c], Whence(c), rcv[c].got)
    /\ InOrder(sent[c], Whence(c) + Len(rcv[c].got), wire[c])
    /\ \A t \in Threads : Begun(t, c) =>
          /\ Len(sent[c]) > 0 /\ sent[c][Len(sent[c])] = call[t].msg
          /\ Reached(c) = Total * (Len(sent[c]) - 1) + call[t].put
    /\ (\A t \in Threads : ~Begun(t, c)) => Reached(c) = Total * Len(sent[c])

\* The reader has less than it needs of a head, or of a message whose head it has.
Stands(c) ==
    /\ IF rcv[c].at = "body" THEN rcv[c].need = Total /\ Len(rcv[c].got) >= HeadLen
       ELSE rcv[c].need = HeadLen
    /\ Len(rcv[c].got) < rcv[c].need

StreamInv == \A c \in Conns : clean[c] /\ rcv[c].at # "closed" => Flow(c) /\ Stands(c)

\* A connection to come has not been read.
ConnInv == \A c \in Conns : c > conn => rcv[c].at = "none" /\ rcv[c].got = << >>

\* No two calls send one message, and a message is nowhere before its first unit is.
CallInv ==
    /\ \A t \in Threads : Sending(t) => call[t].msg <= made
    /\ \A t, u \in Threads : Sending(t) /\ Sending(u) /\ call[t].msg = call[u].msg => t = u
    /\ \A c \in Conns : \A i \in DOMAIN sent[c] :
          /\ sent[c][i] <= made
          /\ \A t \in Threads : Sending(t) /\ call[t].put = 0 => sent[c][i] # call[t].msg

IInv == TypeOK /\ ConnInv /\ CallInv /\ StreamInv

-----------------------------------------------------------------------------
(* Units, sequences of them and what is at which place *)

LEMMA Sizes == HeadLen = 2 /\ BodyLen \in Nat /\ BodyLen >= 1 /\ Total \in Nat /\ Total = 2 + BodyLen
  BY WireAssumption DEF HeadLen, Total

\* A larger factor gives a product larger by one Total at least.
LEMMA TotalGrows ==
    ASSUME NEW p \in Int, NEW q \in Int, p < q
    PROVE  Total * p \in Int /\ Total * q \in Int /\ Total * p + Total <= Total * q
<1>1. Total \in Nat /\ Total > 0 /\ q - p >= 1 /\ q - p \in Nat
  BY Sizes
<1>2. \A T \in Nat, d \in Nat : d >= 1 => T * d >= T
  OBVIOUS
<1>3. Total * (q - p) >= Total
  BY <1>1, <1>2
<1>4. Total * (q - p) = Total * q - Total * p
  BY <1>1
<1> QED
  BY <1>1, <1>3, <1>4

\* The r-th unit of message q + 1 is unit Total * q + r of the stream.
LEMMA PointAt ==
    ASSUME NEW s, NEW q \in Nat, NEW r \in 1 .. Total
    PROVE  Point(s, Total * q + r) = <<s[q + 1], r>>
<1> DEFINE k == Total * q + r
           d == (k - 1) \div Total
           e == (k - 1) % Total
<1>1. Total \in Nat /\ Total > 0 /\ k - 1 \in Int /\ r \in Int
  BY Sizes
<1>2. d \in Int /\ e \in Int /\ 0 <= e /\ e < Total /\ k - 1 = Total * d + e
  BY <1>1
<1>3. ~(q < d)
  BY <1>1, <1>2, TotalGrows
<1>4. ~(d < q)
  BY <1>1, <1>2, TotalGrows
<1>5. d = q /\ e = r - 1
  BY <1>1, <1>2, <1>3, <1>4
<1> QED
  BY <1>1, <1>5 DEF Point

\* The units up to Total * n are those of the first n messages.
LEMMA PlaceOf ==
    ASSUME NEW n \in Nat, NEW k \in 1 .. Total * n
    PROVE  \E q \in 0 .. n - 1, r \in 1 .. Total : k = Total * q + r
<1> DEFINE d == (k - 1) \div Total
           e == (k - 1) % Total
<1>1. Total \in Nat /\ Total > 0 /\ k \in Int /\ 1 <= k /\ k <= Total * n
  BY Sizes
<1>2. d \in Int /\ e \in Int /\ 0 <= e /\ e < Total /\ k - 1 = Total * d + e
  BY <1>1
<1> HIDE DEF d, e
<1>3. ~(d >= n)
  <2>1. d = n => FALSE
    BY <1>1, <1>2
  <2>2. n < d => FALSE
    BY <1>1, <1>2, TotalGrows
  <2> QED
    BY <1>2, <2>1, <2>2
<1>4. ~(d < 0)
  BY <1>1, <1>2, TotalGrows
<1>5. d \in 0 .. n - 1 /\ e + 1 \in 1 .. Total /\ k = Total * d + (e + 1)
  BY <1>1, <1>2, <1>3, <1>4
<1> QED
  BY <1>5

LEMMA OrderConcat ==
    ASSUME NEW s, NEW n \in Nat, NEW u \in Seq(Units), NEW v \in Seq(Units),
           InOrder(s, n, u), InOrder(s, n + Len(u), v)
    PROVE  InOrder(s, n, u \o v) /\ u \o v \in Seq(Units) /\ Len(u \o v) = Len(u) + Len(v)
<1>1. /\ u \o v \in Seq(Units) /\ Len(u \o v) = Len(u) + Len(v)
      /\ \A i \in 1 .. Len(u) + Len(v) :
            (u \o v)[i] = IF i <= Len(u) THEN u[i] ELSE v[i - Len(u)]
  BY ConcatProperties
<1>2. Len(u) \in Nat /\ Len(v) \in Nat
  BY LenProperties
<1>3. ASSUME NEW k \in 1 .. Len(u) + Len(v) PROVE (u \o v)[k] = Point(s, n + k)
  <2>1. CASE k <= Len(u)
    BY <1>1, <1>2, <2>1 DEF InOrder
  <2>2. CASE ~(k <= Len(u))
    <3>1. k - Len(u) \in 1 .. Len(v) /\ n + Len(u) + (k - Len(u)) = n + k
      BY <1>2, <2>2
    <3>2. v[k - Len(u)] = Point(s, n + Len(u) + (k - Len(u)))
      BY <3>1 DEF InOrder
    <3>3. (u \o v)[k] = v[k - Len(u)]
      BY <1>1, <2>2
    <3> QED
      BY <3>1, <3>2, <3>3
  <2> QED
    BY <2>1, <2>2
<1> QED
  BY <1>1, <1>3 DEF InOrder

LEMMA OrderSplit ==
    ASSUME NEW s, NEW n \in Nat, NEW w \in Seq(Units), NEW k \in 1 .. Len(w)
    PROVE  LET u == SubSeq(w, 1, k)
               v == SubSeq(w, k + 1, Len(w))
           IN  /\ u \in Seq(Units) /\ v \in Seq(Units) /\ Len(u) = k /\ Len(v) = Len(w) - k
               /\ InOrder(s, n, w) => InOrder(s, n, u) /\ InOrder(s, n + k, v)
<1> DEFINE u == SubSeq(w, 1, k)
           v == SubSeq(w, k + 1, Len(w))
<1>1. Len(w) \in Nat /\ k \in Nat /\ 1 <= k /\ k <= Len(w)
  BY LenProperties
<1>2. \A i \in 1 .. Len(w) : w[i] \in Units
  BY ElementOfSeq
<1>3. u \in Seq(Units) /\ Len(u) = k /\ \A i \in 1 .. k : u[i] = w[i]
  <2>1. /\ u \in Seq(Units)
        /\ Len(u) = IF 1 <= k THEN k - 1 + 1 ELSE 0
        /\ \A i \in 1 .. k - 1 + 1 : u[i] = w[1 + i - 1]
    <3>1. \A i \in 1 .. k : w[i] \in Units
      BY <1>1, <1>2
    <3> QED
      BY <1>1, <3>1, SubSeqProperties
  <2> HIDE DEF u
  <2>2. k - 1 + 1 = k /\ \A i \in 1 .. k : 1 + i - 1 = i
    BY <1>1
  <2> QED
    BY <1>1, <2>1, <2>2
<1>4. v \in Seq(Units) /\ Len(v) = Len(w) - k /\ \A i \in 1 .. Len(w) - k : v[i] = w[k + i]
  <2>1. /\ v \in Seq(Units)
        /\ Len(v) = IF k + 1 <= Len(w) THEN Len(w) - (k + 1) + 1 ELSE 0
        /\ \A i \in 1 .. Len(w) - (k + 1) + 1 : v[i] = w[k + 1 + i - 1]
    <3>1. \A i \in k + 1 .. Len(w) : w[i] \in Units
      BY <1>1, <1>2
    <3>2. k + 1 \in Int /\ Len(w) \in Int
      BY <1>1
    <3> QED
      BY <3>1, <3>2, SubSeqProperties
  <2> HIDE DEF v
  <2>2. /\ Len(w) - (k + 1) + 1 = Len(w) - k
        /\ \A i \in 1 .. Len(w) - k : k + 1 + i - 1 = k + i
        /\ ~(k + 1 <= Len(w)) => Len(w) - k = 0
    BY <1>1
  <2>3. Len(v) = Len(w) - k
    BY <2>1, <2>2
  <2> QED
    BY <2>1, <2>2, <2>3
<1> HIDE DEF u, v
<1>5. ASSUME InOrder(s, n, w) PROVE InOrder(s, n, u) /\ InOrder(s, n + k, v)
  <2>1. ASSUME NEW i \in 1 .. Len(u) PROVE u[i] = Point(s, n + i)
    BY <1>1, <1>3, <1>5 DEF InOrder
  <2>2. ASSUME NEW i \in 1 .. Len(v) PROVE v[i] = Point(s, n + k + i)
    <3>1. k + i \in 1 .. Len(w) /\ n + k + i = n + (k + i) /\ i \in 1 .. Len(w) - k
      BY <1>1, <1>4
    <3>2. w[k + i] = Point(s, n + (k + i))
      BY <1>5, <3>1 DEF InOrder
    <3> QED
      BY <1>4, <3>1, <3>2
  <2> QED
    BY <2>1, <2>2 DEF InOrder
<1> QED
  BY <1>3, <1>4, <1>5 DEF u, v

\* One more message does not change what is before it.
LEMMA OrderGrows ==
    ASSUME NEW s \in Seq(Msgs), NEW m \in Msgs, NEW n \in Nat, NEW u \in Seq(Units),
           InOrder(s, n, u), n + Len(u) <= Total * Len(s)
    PROVE  InOrder(Append(s, m), n, u)
<1>1. Len(s) \in Nat /\ Len(u) \in Nat
  BY LenProperties
<1>2. \A i \in 1 .. Len(s) : Append(s, m)[i] = s[i]
  BY AppendProperties
<1>3. ASSUME NEW k \in 1 .. Len(u) PROVE Point(Append(s, m), n + k) = Point(s, n + k)
  <2>1. n + k \in 1 .. Total * Len(s)
    <3>1. Total * Len(s) \in Int
      BY <1>1, Sizes
    <3> QED
      BY <1>1, <3>1
  <2>2. PICK q \in 0 .. Len(s) - 1, r \in 1 .. Total : n + k = Total * q + r
    BY <1>1, <2>1, PlaceOf
  <2>3. q \in Nat /\ q + 1 \in 1 .. Len(s)
    BY <1>1
  <2>4. Point(Append(s, m), Total * q + r) = <<Append(s, m)[q + 1], r>>
    BY <2>3, PointAt
  <2>5. Point(s, Total * q + r) = <<s[q + 1], r>>
    BY <2>3, PointAt
  <2> QED
    BY <1>2, <2>2, <2>3, <2>4, <2>5
<1> QED
  BY <1>3 DEF InOrder

-----------------------------------------------------------------------------
(* Calls *)

\* What a call that sends is made of.
LEMMA CallIs ==
    ASSUME TypeOK, NEW t \in Threads, Sending(t)
    PROVE  /\ call[t] \in Calls
           /\ call[t].at \in {"select", "send", "sending"} /\ call[t].msg \in Msgs /\ call[t].fd \in Fds
           /\ call[t].put \in Nat /\ call[t].put < Total /\ call[t].via \in Conns \cup {NoConn}
           /\ call[t].set \in BOOLEAN /\ call[t].tries \in 0 .. TryMax + 1
<1>1. call[t] \in Calls \cup {NoCall}
  BY DEF TypeOK
<1>2. call[t] # NoCall
  BY DEF Sending, NoCall
<1>3. call[t] \in Calls
  BY <1>1, <1>2
<1> QED
  BY <1>3, Sizes DEF Calls

LEMMA NoCallOut == ASSUME NEW t, call[t] = NoCall PROVE ~Sending(t)
  BY DEF Sending, NoCall

\* A call the step leaves as it is, ends, or moves on without sending anything.
Moves(t, d) ==
    \/ d = NoCall
    \/ /\ d \in Calls /\ Sending(t) /\ d.msg = call[t].msg /\ d.put = call[t].put

\* A step that only moves a call on, and marks what it spoils.
Moved(t, d) ==
    /\ Moves(t, d)
    /\ call' = [call EXCEPT ![t] = d]
    /\ UNCHANGED <<reader, connVars, wire, rcv, made, sent, handed>>
    /\ clean' \in [Conns -> BOOLEAN]
    /\ \A c \in Conns : clean'[c] =>
          clean[c] /\ (Begun(t, c) <=> (d # NoCall /\ d.put > 0 /\ d.via = c))

LEMMA MovedKeeps == ASSUME IInv, NEW t \in Threads, NEW d, Moved(t, d) PROVE IInv'
<1>0. /\ Moves(t, d) /\ call' = [call EXCEPT ![t] = d]
      /\ UNCHANGED <<reader, connVars, wire, rcv, made, sent, handed>>
      /\ clean' \in [Conns -> BOOLEAN]
      /\ \A c \in Conns : clean'[c] =>
            clean[c] /\ (Begun(t, c) <=> (d # NoCall /\ d.put > 0 /\ d.via = c))
  BY DEF Moved
<1> USE DEF IInv
<1>1. UNCHANGED <<reader, handle_socket, fdConn, conn, gone, wire, rcv, made, sent, handed>>
  BY <1>0 DEF connVars
<1>2. /\ call'[t] = d /\ \A u \in Threads : u # t => call'[u] = call[u]
      /\ call' \in [Threads -> Calls \cup {NoCall}]
  BY <1>0 DEF TypeOK, Moves
<1>3. d # NoCall => Sending(t) /\ d \in Calls /\ d.msg = call[t].msg /\ d.put = call[t].put
  BY <1>0 DEF Moves
<1>4. d = NoCall => ~Sending(t)' /\ call'[t].at = "out"
  BY <1>2 DEF Sending, NoCall
<1>5. d # NoCall => Sending(t)'
  BY <1>2, <1>3 DEF Sending, Calls
<1>6. TypeOK'
  BY <1>0, <1>1, <1>2 DEF TypeOK, Room
<1>7. ConnInv'
  BY <1>1 DEF ConnInv
<1>8. CallInv'
  <2>1. \A u \in Threads : Sending(u)' =>
           Sending(u) /\ call'[u].msg = call[u].msg /\ call'[u].put = call[u].put
    BY <1>2, <1>3, <1>4 DEF Sending
  <2> QED
    BY <1>1, <2>1 DEF CallInv
<1>9. StreamInv'
  <2> SUFFICES ASSUME NEW c \in Conns, clean'[c], rcv[c].at # "closed"
               PROVE  Flow(c)' /\ Stands(c)'
    BY <1>1 DEF StreamInv
  <2>1. Flow(c) /\ Stands(c)
    BY <1>0 DEF StreamInv
  <2>2. \A u \in Threads : Begun(u, c)' <=> Begun(u, c)
    <3>1. Begun(t, c)' <=> Begun(t, c)
      BY <1>0, <1>2, <1>3, <1>4, <1>5 DEF Begun
    <3>2. \A u \in Threads : u # t => (Begun(u, c)' <=> Begun(u, c))
      BY <1>2 DEF Begun, Sending
    <3> QED
      BY <3>1, <3>2
  <2>3. \A u \in Threads : Begun(u, c)' => call'[u].msg = call[u].msg /\ call'[u].put = call[u].put
    BY <1>2, <1>3, <1>4 DEF Begun
  <2>4. Whence(c)' = Whence(c) /\ Reached(c)' = Reached(c)
    BY <1>1 DEF Whence, Reached
  <2>5. /\ InOrder(sent[c], Whence(c), rcv[c].got)'
        /\ InOrder(sent[c], Whence(c) + Len(rcv[c].got), wire[c])'
    BY <1>1, <2>1, <2>4 DEF Flow, InOrder, Point
  <2> QED
    BY <1>1, <2>1, <2>2, <2>3, <2>4, <2>5 DEF Flow, Stands
<1> QED
  BY <1>6, <1>7, <1>8, <1>9

LEMMA GiveUpKeeps ==
    ASSUME IInv, NEW t \in Threads, GiveUp(t)
    PROVE  IInv'
<1>1. /\ call' = [call EXCEPT ![t] = NoCall]
      /\ UNCHANGED <<reader, connVars, wire, rcv, made, sent, handed>>
      /\ clean' = [c \in Conns |-> clean[c] /\ ~Begun(t, c)]
  BY DEF GiveUp
<1>2. clean' \in [Conns -> BOOLEAN] /\ \A c \in Conns : clean'[c] => clean[c] /\ ~Begun(t, c)
  BY <1>1
<1>3. Moves(t, NoCall)
  BY DEF Moves
<1>4. \A c \in Conns : clean'[c] =>
         clean[c] /\ (Begun(t, c) <=> (NoCall # NoCall /\ NoCall.put > 0 /\ NoCall.via = c))
  BY <1>2
<1>5. Moved(t, NoCall)
  BY <1>1, <1>2, <1>3, <1>4 DEF Moved
<1> QED
  BY <1>5, MovedKeeps

LEMMA SelectKeeps ==
    ASSUME IInv, NEW t \in Threads, SelectReady(t) \/ Block(t) \/ SelectTimeout(t)
    PROVE  IInv'
<1> USE DEF IInv
<1>1. Sending(t) /\ (SelectTimeout(t) => Selecting(t))
  BY DEF SelectReady, Block, SelectTimeout, Selecting, Sending
<1>2. /\ call[t] \in Calls /\ call[t].put \in Nat /\ call[t].via \in Conns \cup {NoConn}
      /\ call[t].fd \in Fds /\ call[t].tries \in 0 .. TryMax + 1
  BY <1>1, CallIs
<1>3. CASE Block(t)
  <2> DEFINE c == Target(t)
             d == [call[t] EXCEPT !.at = "sending", !.via = c]
  <2>1. /\ c \in Conns /\ call' = [call EXCEPT ![t] = d]
        /\ clean' = [e \in Conns |-> clean[e] /\ ~(e \in {c, call[t].via} /\ Strays(t, c))]
        /\ UNCHANGED <<reader, connVars, wire, rcv, made, sent, handed>>
    <3>1. [call EXCEPT ![t].at = "sending", ![t].via = c] = [call EXCEPT ![t] = d]
      BY DEF TypeOK
    <3> QED
      BY <1>3, <3>1 DEF Block, Open
  <2> HIDE DEF c
  <2>3. d \in Calls /\ d.msg = call[t].msg /\ d.put = call[t].put /\ d.via = c
    BY <1>2, <2>1 DEF Calls
  <2>4. Moves(t, d)
    BY <1>1, <2>3 DEF Moves
  <2>5. d # NoCall
    BY <2>3 DEF NoCall, Calls
  <2> HIDE DEF d
  <2>6. clean' \in [Conns -> BOOLEAN]
    BY <2>1
  <2>7. ASSUME NEW e \in Conns, clean'[e]
        PROVE  clean[e] /\ (Begun(t, e) <=> (d # NoCall /\ d.put > 0 /\ d.via = e))
    <3>1. clean[e] /\ ~(e \in {c, call[t].via} /\ Strays(t, c))
      BY <2>1, <2>7
    <3> QED
      BY <1>1, <2>3, <2>5, <3>1 DEF Begun, Strays
  <2>8. Moved(t, d)
    BY <2>1, <2>4, <2>6, <2>7 DEF Moved
  <2> QED
    BY <2>8, MovedKeeps
<1>5. CASE SelectReady(t)
  <2> DEFINE d == [call[t] EXCEPT !.at = "send"]
  <2>1. /\ call' = [call EXCEPT ![t] = d]
        /\ UNCHANGED <<reader, connVars, wire, rcv, made, sent, handed, clean>>
    <3>1. [call EXCEPT ![t].at = "send"] = [call EXCEPT ![t] = d]
      BY DEF TypeOK
    <3> QED
      BY <1>5, <3>1 DEF SelectReady
  <2>2. d \in Calls /\ d.msg = call[t].msg /\ d.put = call[t].put /\ d.via = call[t].via
    BY <1>2 DEF Calls
  <2>3. Moves(t, d) /\ d # NoCall
    BY <1>1, <2>2 DEF Moves, NoCall, Calls
  <2> HIDE DEF d
  <2>4. clean' \in [Conns -> BOOLEAN]
    BY <2>1 DEF TypeOK
  <2>5. ASSUME NEW e \in Conns, clean'[e]
        PROVE  clean[e] /\ (Begun(t, e) <=> (d # NoCall /\ d.put > 0 /\ d.via = e))
    BY <1>1, <2>1, <2>2, <2>3, <2>5 DEF Begun
  <2>6. Moved(t, d)
    BY <2>1, <2>3, <2>4, <2>5 DEF Moved
  <2> QED
    BY <2>6, MovedKeeps
<1>4. CASE SelectTimeout(t)
  <2>1. CASE GiveUp(t)
    BY <2>1, GiveUpKeeps
  <2>2. CASE ~GiveUp(t)
    <3> DEFINE d == [call[t] EXCEPT !.set = FALSE, !.tries = @ + 1]
    <3>1. /\ ~(call[t].tries > TryMax) /\ call' = [call EXCEPT ![t] = d]
          /\ UNCHANGED <<reader, connVars, wire, rcv, made, sent, handed, clean>>
      <4>1. /\ ~(call[t].tries > TryMax)
            /\ call' = [call EXCEPT ![t].set = FALSE, ![t].tries = @ + 1]
            /\ UNCHANGED <<reader, connVars, wire, rcv, made, sent, handed, clean>>
        BY <1>4, <2>2 DEF SelectTimeout
      <4>2. [call EXCEPT ![t].set = FALSE, ![t].tries = @ + 1] = [call EXCEPT ![t] = d]
        BY DEF TypeOK
      <4> QED
        BY <4>1, <4>2
    <3>2. call[t].tries + 1 \in 0 .. TryMax + 1
      BY <1>2, <3>1, WireAssumption
    <3>3. /\ d \in Calls /\ d.msg = call[t].msg /\ d.put = call[t].put
          /\ d.via = call[t].via /\ d.at = call[t].at
      BY <1>2, <3>2 DEF Calls
    <3>5. Moves(t, d) /\ d # NoCall
      BY <1>1, <3>3 DEF Moves, NoCall, Calls
    <3> HIDE DEF d
    <3>6. clean' \in [Conns -> BOOLEAN]
      BY <3>1 DEF TypeOK
    <3>7. ASSUME NEW e \in Conns, clean'[e]
          PROVE  clean[e] /\ (Begun(t, e) <=> (d # NoCall /\ d.put > 0 /\ d.via = e))
      BY <1>1, <3>1, <3>3, <3>5, <3>7 DEF Begun
    <3>8. Moved(t, d)
      BY <3>1, <3>5, <3>6, <3>7 DEF Moved
    <3> QED
      BY <3>8, MovedKeeps
  <2> QED
    BY <2>1, <2>2
<1> QED
  BY <1>3, <1>4, <1>5

LEMMA SendMsgKeeps ==
    ASSUME IInv, NEW t \in Threads, SendMsg(t)
    PROVE  IInv'
<1> DEFINE d == [at |-> "select", msg |-> made + 1, fd |-> handle_socket, put |-> 0,
                 via |-> NoConn, set |-> TRUE, tries |-> 0]
<1> USE DEF IInv
<1>1. /\ ~Sending(t) /\ handle_socket # -1 /\ made < MaxMsgs /\ made' = made + 1
      /\ call' = [call EXCEPT ![t] = d]
      /\ UNCHANGED <<reader, handle_socket, fdConn, conn, gone, wire, rcv, sent, handed, clean>>
  BY DEF SendMsg, connVars
<1>2. made \in Nat /\ MaxMsgs \in Nat /\ made + 1 \in Msgs
  BY <1>1, WireAssumption DEF TypeOK, Msgs
<1>3. d \in Calls /\ d.put = 0 /\ d.at = "select" /\ d.msg = made + 1
  <2>1. handle_socket \in Fds /\ 0 \in 0 .. Total - 1 /\ 0 \in 0 .. TryMax + 1
    BY <1>1, Sizes, WireAssumption DEF TypeOK
  <2> QED
    BY <1>2, <2>1 DEF Calls
<1> HIDE DEF d
<1>4. /\ call'[t] = d /\ \A u \in Threads : u # t => call'[u] = call[u]
      /\ call' \in [Threads -> Calls \cup {NoCall}]
  BY <1>1, <1>3 DEF TypeOK
<1>5. TypeOK'
  <2>1. made' \in 0 .. MaxMsgs
    BY <1>1, <1>2
  <2> QED
    BY <1>1, <1>4, <2>1 DEF TypeOK, Room
<1>6. ConnInv'
  BY <1>1 DEF ConnInv
<1>7. CallInv'
  <2>1. \A u \in Threads : u # t => (Sending(u)' <=> Sending(u))
    BY <1>4 DEF Sending
  <2>2. \A u \in Threads : Sending(u) => call[u].msg \in Nat /\ call[u].msg <= made /\ call[u].msg # made + 1
    <3> SUFFICES ASSUME NEW u \in Threads, Sending(u)
                 PROVE  call[u].msg \in Nat /\ call[u].msg <= made /\ call[u].msg # made + 1
      OBVIOUS
    <3>1. call[u].msg \in Nat
      BY CallIs DEF Msgs
    <3>2. call[u].msg <= made
      BY DEF CallInv
    <3> QED
      BY <1>2, <3>1, <3>2
  <2>3. ASSUME NEW c \in Conns, NEW i \in DOMAIN sent[c]
        PROVE  sent[c][i] <= made + 1 /\ sent[c][i] # made + 1
    <3>1. sent[c][i] <= made
      BY DEF CallInv
    <3>2. sent[c] \in Seq(Msgs) /\ i \in 1 .. Len(sent[c])
      BY LenProperties DEF TypeOK
    <3>3. sent[c][i] \in Msgs
      BY ONLY <3>2, ElementOfSeq
    <3>4. sent[c][i] \in Nat
      BY <3>3 DEF Msgs
    <3> QED
      BY <1>2, <3>1, <3>4
  <2>5. \A u \in Threads : Sending(u)' => call'[u].msg <= made'
    BY <1>1, <1>2, <1>3, <1>4, <2>1, <2>2
  <2>6. \A u, w \in Threads : Sending(u)' /\ Sending(w)' /\ call'[u].msg = call'[w].msg => u = w
    BY <1>3, <1>4, <2>1, <2>2 DEF CallInv
  <2>7. \A c \in Conns : \A i \in DOMAIN sent[c] :
           /\ sent[c][i] <= made + 1
           /\ \A u \in Threads : Sending(u)' /\ call'[u].put = 0 => sent[c][i] # call'[u].msg
    BY <1>3, <1>4, <2>1, <2>3 DEF CallInv
  <2> QED
    BY <1>1, <2>5, <2>6, <2>7 DEF CallInv
<1>8. StreamInv'
  <2>1. \A u \in Threads : u # t => (Sending(u)' <=> Sending(u))
    BY <1>4 DEF Sending
  <2> SUFFICES ASSUME NEW c \in Conns, clean[c], rcv[c].at # "closed"
               PROVE  Flow(c)' /\ Stands(c)'
    BY <1>1 DEF StreamInv
  <2>2. Flow(c) /\ Stands(c)
    BY DEF StreamInv
  <2>3. \A u \in Threads : Begun(u, c)' <=> Begun(u, c)
    BY <1>1, <1>3, <1>4, <2>1 DEF Begun
  <2>4. \A u \in Threads : Begun(u, c)' => call'[u] = call[u]
    BY <1>3, <1>4 DEF Begun
  <2>5. Whence(c)' = Whence(c) /\ Reached(c)' = Reached(c)
    BY <1>1 DEF Whence, Reached
  <2>6. /\ InOrder(sent[c], Whence(c), rcv[c].got)'
        /\ InOrder(sent[c], Whence(c) + Len(rcv[c].got), wire[c])'
    BY <1>1, <2>2, <2>5 DEF Flow, InOrder, Point
  <2> QED
    BY <1>1, <2>2, <2>3, <2>4, <2>5, <2>6 DEF Flow, Stands
<1> QED
  BY <1>5, <1>6, <1>7, <1>8

-----------------------------------------------------------------------------
(* Connections and readers *)

\* Nothing moves on a connection a step does not touch.
LEMMA FlowApart ==
    ASSUME NEW c \in Conns, Flow(c),
           sent'[c] = sent[c], handed'[c] = handed[c], wire'[c] = wire[c],
           rcv'[c].got = rcv[c].got,
           \A t \in Threads : (Begun(t, c)' <=> Begun(t, c)) /\ (Begun(t, c) => call'[t] = call[t])
    PROVE  Flow(c)'
<1>1. Whence(c)' = Whence(c) /\ Reached(c)' = Reached(c)
  BY DEF Whence, Reached
<1>2. /\ InOrder(sent[c], Whence(c), rcv[c].got)'
      /\ InOrder(sent[c], Whence(c) + Len(rcv[c].got), wire[c])'
  BY <1>1 DEF Flow, InOrder, Point
<1> QED
  BY <1>1, <1>2 DEF Flow

LEMMA FlowRests ==
    ASSUME NEW c \in Conns, Flow(c), UNCHANGED <<call, sent, handed, wire>>,
           rcv'[c].got = rcv[c].got
    PROVE  Flow(c)'
<1>1. \A t \in Threads : (Begun(t, c)' <=> Begun(t, c)) /\ (Begun(t, c) => call'[t] = call[t])
  BY DEF Begun, Sending
<1> QED
  BY <1>1, FlowApart

\* What a reader is.
Rcv == [at : {"none", "head", "body", "closed"}, got : Seq(Units),
        need : HeadLen .. Total, timeout_cnt : 0 .. RetryMax]

LEMMA AtHeadIs ==
    ASSUME NEW r \in Rcv
    PROVE  /\ AtHead(r) \in Rcv /\ AtHead(r).at = "head" /\ AtHead(r).got = << >>
           /\ AtHead(r).need = HeadLen
<1>1. HeadLen \in HeadLen .. Total /\ 0 \in 0 .. RetryMax
  BY Sizes, WireAssumption
<1>2. << >> \in Seq(Units)
  BY EmptySeq
<1> QED
  BY <1>1, <1>2 DEF AtHead, Rcv

\* A reader that keeps what it has, or drops it where the connection is no longer
\* clean or is given up.
Rests(c, r) ==
    /\ r \in Rcv /\ rcv' = [rcv EXCEPT ![c] = r]
    /\ UNCHANGED <<call, made, sent, handed, wire>>
    /\ clean' \in [Conns -> BOOLEAN] /\ \A e \in Conns : clean'[e] => clean[e]
    /\ clean'[c] /\ r.at # "closed" =>
          /\ rcv[c].at # "closed" /\ r.got = rcv[c].got
          /\ \/ r.at = rcv[c].at /\ r.need = rcv[c].need
             \/ r.at # "body" /\ r.need = HeadLen /\ r.got = << >>

LEMMA RestKeeps ==
    ASSUME IInv, NEW c \in Conns, NEW r, Rests(c, r)
    PROVE  CallInv' /\ StreamInv' /\ rcv' \in [Conns -> Rcv]
<1>1. /\ r \in Rcv /\ rcv' = [rcv EXCEPT ![c] = r] /\ rcv \in [Conns -> Rcv]
      /\ UNCHANGED <<call, made, sent, handed, wire>> /\ TypeOK /\ CallInv /\ StreamInv
      /\ \A e \in Conns : clean'[e] => clean[e]
  BY DEF Rests, IInv, TypeOK, Rcv
<1>2. rcv'[c] = r /\ \A e \in Conns : e # c => rcv'[e] = rcv[e]
  BY <1>1
<1>3. CallInv'
  BY <1>1 DEF CallInv, Sending
<1>4. StreamInv'
  <2> SUFFICES ASSUME NEW e \in Conns, clean'[e], rcv'[e].at # "closed"
               PROVE  Flow(e)' /\ Stands(e)'
    BY DEF StreamInv
  <2>1. CASE e = c
    <3>1. /\ rcv[c].at # "closed" /\ r.got = rcv[c].got /\ clean[c]
          /\ \/ r.at = rcv[c].at /\ r.need = rcv[c].need
             \/ r.at # "body" /\ r.need = HeadLen /\ r.got = << >>
      BY <1>1, <1>2, <2>1 DEF Rests
    <3>2. Flow(c) /\ Stands(c)
      BY <1>1, <3>1 DEF StreamInv
    <3>3. Flow(c)'
      BY <1>1, <1>2, <3>1, <3>2, FlowRests
    <3>4. Stands(c)'
      <4>1. CASE r.at = rcv[c].at /\ r.need = rcv[c].need
        BY <1>2, <3>1, <3>2, <4>1 DEF Stands
      <4>2. CASE r.at # "body" /\ r.need = HeadLen /\ r.got = << >>
        <5>1. Len(r.got) < HeadLen
          BY <4>2, EmptySeq, Sizes
        <5> QED
          BY <1>2, <4>2, <5>1 DEF Stands
      <4> QED
        BY <3>1, <4>1, <4>2
    <3> QED
      BY <2>1, <3>3, <3>4
  <2>2. CASE e # c
    <3>1. rcv'[e] = rcv[e] /\ Flow(e) /\ Stands(e)
      BY <1>1, <1>2, <2>2 DEF StreamInv
    <3>2. Flow(e)'
      BY <1>1, <3>1, FlowRests
    <3> QED
      BY <3>1, <3>2 DEF Stands
  <2> QED
    BY <2>1, <2>2
<1>5. rcv' \in [Conns -> Rcv]
  BY <1>1
<1> QED
  BY <1>3, <1>4, <1>5

\* The type of what the steps of a connection or of its reader leave alone.
LEMMA TypeRests ==
    ASSUME IInv, rcv' \in [Conns -> Rcv],
           UNCHANGED <<reader, wire, call, made, sent, handed>>,
           clean' \in [Conns -> BOOLEAN],
           handle_socket' \in Fds \cup {-1}, fdConn' \in [Fds -> Conns \cup {NoConn}],
           conn' \in Conns, gone' \subseteq Conns
    PROVE  TypeOK'
  BY DEF IInv, TypeOK, Room, Rcv

LEMMA DetachKeeps == ASSUME IInv, Detach \/ Forget PROVE IInv'
<1>1. /\ handle_socket' = -1
      /\ UNCHANGED <<reader, fdConn, conn, gone, wire, rcv, call, made, sent, handed, clean>>
  BY DEF Detach, Forget
<1>2. TypeOK'
  BY <1>1, TypeRests DEF IInv, TypeOK, Rcv
<1>3. ConnInv'
  BY <1>1 DEF IInv, ConnInv
<1>4. CallInv'
  BY <1>1 DEF IInv, CallInv, Sending
<1>5. StreamInv'
  <2> SUFFICES ASSUME NEW c \in Conns, clean[c], rcv[c].at # "closed"
               PROVE  Flow(c)' /\ Stands(c)'
    BY <1>1 DEF StreamInv
  <2>1. Flow(c) /\ Stands(c)
    BY DEF IInv, StreamInv
  <2> QED
    BY <1>1, <2>1, FlowRests DEF Stands
<1> QED
  BY <1>2, <1>3, <1>4, <1>5 DEF IInv

LEMMA CloseKeeps == ASSUME IInv, Close \/ CloseClient PROVE IInv'
<1>1. /\ fdConn' = [f \in Fds |-> NoConn] /\ gone' = gone \cup {conn}
      /\ UNCHANGED <<reader, handle_socket, conn, wire, rcv, call, made, sent, handed, clean>>
  BY DEF Close, CloseClient, Shut
<1>2. TypeOK'
  BY <1>1, TypeRests DEF IInv, TypeOK, Rcv
<1>3. ConnInv'
  BY <1>1 DEF IInv, ConnInv
<1>4. CallInv'
  BY <1>1 DEF IInv, CallInv, Sending
<1>5. StreamInv'
  <2> SUFFICES ASSUME NEW c \in Conns, clean[c], rcv[c].at # "closed"
               PROVE  Flow(c)' /\ Stands(c)'
    BY <1>1 DEF StreamInv
  <2>1. Flow(c) /\ Stands(c)
    BY DEF IInv, StreamInv
  <2> QED
    BY <1>1, <2>1, FlowRests DEF Stands
<1> QED
  BY <1>2, <1>3, <1>4, <1>5 DEF IInv

LEMMA ConnectKeeps == ASSUME IInv, Connect PROVE IInv'
<1> DEFINE n == conn + 1
<1>1. /\ conn < MaxConns /\ conn' = n /\ rcv' = [rcv EXCEPT ![n] = AtHead(rcv[n])]
      /\ UNCHANGED <<reader, gone, wire, call, made, sent, handed, clean>>
  BY DEF Connect
<1>2. PICK f \in Fds : fdConn' = [fdConn EXCEPT ![f] = n] /\ handle_socket' = f
  BY DEF Connect
<1>3. conn \in Nat /\ conn < MaxConns /\ MaxConns \in Nat /\ n \in Conns /\ n > conn
  BY <1>1, WireAssumption DEF IInv, TypeOK, ConnInv, Conns
<1> HIDE DEF n
<1>4. rcv \in [Conns -> Rcv] /\ rcv[n].at = "none" /\ rcv[n].got = << >>
  BY <1>3 DEF IInv, TypeOK, ConnInv, Rcv
<1>5. /\ AtHead(rcv[n]) \in Rcv /\ AtHead(rcv[n]).at = "head" /\ AtHead(rcv[n]).got = << >>
      /\ AtHead(rcv[n]).need = HeadLen
  BY <1>3, <1>4, AtHeadIs
<1>6. clean' \in [Conns -> BOOLEAN]
  BY <1>1 DEF IInv, TypeOK
<1>7. Rests(n, AtHead(rcv[n]))
  BY <1>1, <1>4, <1>5, <1>6 DEF Rests
<1>8. CallInv' /\ StreamInv' /\ rcv' \in [Conns -> Rcv]
  BY <1>3, <1>7, RestKeeps
<1>9. TypeOK'
  <2>1. fdConn' \in [Fds -> Conns \cup {NoConn}] /\ handle_socket' \in Fds \cup {-1}
    BY <1>2, <1>3 DEF IInv, TypeOK
  <2>2. conn' \in Conns /\ gone' \subseteq Conns
    BY <1>1, <1>3 DEF IInv, TypeOK
  <2> QED
    BY <1>1, <1>6, <1>8, <2>1, <2>2, TypeRests
<1>10. ConnInv'
  <2>2. ASSUME NEW c \in Conns, c > n
        PROVE  rcv'[c].at = "none" /\ rcv'[c].got = << >>
    <3>1. c # n /\ c > conn
      BY <1>3, <2>2 DEF n, Conns
    <3>2. rcv'[c] = rcv[c]
      BY <1>1, <1>4, <3>1
    <3> QED
      BY <3>1, <3>2 DEF IInv, ConnInv
  <2> QED
    BY <1>1, <2>2 DEF ConnInv
<1> QED
  BY <1>8, <1>9, <1>10 DEF IInv

\* A reader that waits, or stops.
LEMMA ReaderStops ==
    ASSUME IInv, NEW c \in Conns, Retry(c) \/ LastTimeout(c) \/ Eof(c)
    PROVE  IInv'
<1>1. /\ UNCHANGED <<reader, connVars, wire, call, made, sent, handed>> /\ Reading(c)
      /\ \/ rcv[c].timeout_cnt < RetryMax /\ UNCHANGED clean
            /\ rcv' = [rcv EXCEPT ![c].timeout_cnt = @ + 1]
         \/ Fail(c)
  BY DEF Retry, LastTimeout, Eof, Silent
<1>2. /\ rcv \in [Conns -> Rcv] /\ rcv[c] \in Rcv /\ rcv[c].at \in {"head", "body"}
      /\ clean \in [Conns -> BOOLEAN]
  BY <1>1 DEF IInv, TypeOK, Rcv, Reading
<1>3. ASSUME NEW r, Rests(c, r) PROVE IInv'
  <2>1. CallInv' /\ StreamInv' /\ rcv' \in [Conns -> Rcv] /\ clean' \in [Conns -> BOOLEAN]
    BY <1>3, RestKeeps DEF Rests
  <2>2. TypeOK'
    BY <1>1, <2>1, TypeRests DEF IInv, TypeOK, connVars
  <2>3. ConnInv'
    <3>1. ASSUME NEW e \in Conns, e > conn PROVE rcv'[e] = rcv[e]
      <4>1. rcv[e].at = "none"
        BY <3>1 DEF IInv, ConnInv
      <4>2. e # c
        BY <1>2, <4>1
      <4> QED
        BY <1>2, <1>3, <4>2 DEF Rests
    <3> QED
      BY <1>1, <3>1 DEF IInv, ConnInv, connVars
  <2> QED
    BY <2>1, <2>2, <2>3 DEF IInv
<1>4. CASE rcv[c].timeout_cnt < RetryMax /\ UNCHANGED clean
           /\ rcv' = [rcv EXCEPT ![c].timeout_cnt = @ + 1]
  <2> DEFINE r == [rcv[c] EXCEPT !.timeout_cnt = @ + 1]
  <2>1. rcv' = [rcv EXCEPT ![c] = r]
    BY <1>2, <1>4
  <2>2. rcv[c].timeout_cnt + 1 \in 0 .. RetryMax
    BY <1>2, <1>4, WireAssumption DEF Rcv
  <2>3. r \in Rcv /\ r.at = rcv[c].at /\ r.got = rcv[c].got /\ r.need = rcv[c].need
    BY <1>2, <2>2 DEF Rcv
  <2> HIDE DEF r
  <2>4. Rests(c, r)
    BY <1>1, <1>2, <1>4, <2>1, <2>3 DEF Rests
  <2> QED
    BY <1>3, <2>4
<1>5. CASE Fail(c) /\ reader = "server"
  <2> DEFINE r == [Idle EXCEPT !.at = "closed"]
  <2>1. rcv' = [rcv EXCEPT ![c] = r] /\ UNCHANGED clean
    BY <1>2, <1>5 DEF Fail
  <2>2. r \in Rcv /\ r.at = "closed"
    <3>1. HeadLen \in HeadLen .. Total /\ 0 \in 0 .. RetryMax /\ << >> \in Seq(Units)
      BY Sizes, WireAssumption, EmptySeq
    <3>2. r = [at |-> "closed", got |-> << >>, need |-> HeadLen, timeout_cnt |-> 0]
      BY DEF Idle
    <3> QED
      BY <3>1, <3>2 DEF Rcv
  <2> HIDE DEF r
  <2>3. Rests(c, r)
    BY <1>1, <1>2, <2>1, <2>2 DEF Rests
  <2> QED
    BY <1>3, <2>3
<1>6. CASE Fail(c) /\ reader # "server"
  <2> DEFINE r == AtHead(rcv[c])
  <2>1. /\ rcv' = [rcv EXCEPT ![c] = r]
        /\ clean' = [clean EXCEPT ![c] = @ /\ rcv[c].got = << >>]
    BY <1>6 DEF Fail
  <2>2. r \in Rcv /\ r.at = "head" /\ r.got = << >> /\ r.need = HeadLen
    BY <1>2, AtHeadIs
  <2> HIDE DEF r
  <2>3. /\ clean' \in [Conns -> BOOLEAN] /\ \A e \in Conns : clean'[e] => clean[e]
        /\ clean'[c] => rcv[c].got = << >>
    BY <1>2, <2>1
  <2>4. Rests(c, r)
    BY <1>1, <1>2, <2>1, <2>2, <2>3 DEF Rests
  <2> QED
    BY <1>3, <2>4
<1> QED
  BY <1>1, <1>4, <1>5, <1>6

-----------------------------------------------------------------------------
(* A reader that receives *)

LEMMA WhenceIs == ASSUME NEW h \in Nat PROVE Total * h \in Nat /\ Total * (h + 1) = Total * h + Total
<1>1. \A a, b \in Nat : a * b \in Nat /\ a * (b + 1) = a * b + a
  OBVIOUS
<1> QED
  BY <1>1, Sizes

\* What the reader of c has after n more units, and what stays on the way.
Got(c, n)  == rcv[c].got \o SubSeq(wire[c], 1, n)
Rest(c, n) == SubSeq(wire[c], n + 1, Len(wire[c]))

LEMMA Taking ==
    ASSUME IInv, NEW c \in Conns, NEW n \in 1 .. Len(wire[c])
    PROVE  /\ Got(c, n) \in Seq(Units) /\ Rest(c, n) \in Seq(Units)
           /\ Len(Got(c, n)) = Len(rcv[c].got) + n /\ Len(Rest(c, n)) = Len(wire[c]) - n
           /\ Flow(c) =>
                 /\ InOrder(sent[c], Whence(c), Got(c, n))
                 /\ InOrder(sent[c], Whence(c) + Len(Got(c, n)), Rest(c, n))
                 /\ Reached(c) = Whence(c) + Len(Got(c, n)) + Len(Rest(c, n))
<1> DEFINE g == rcv[c].got
           u == SubSeq(wire[c], 1, n)
           v == SubSeq(wire[c], n + 1, Len(wire[c]))
           w == Whence(c)
<1>1. /\ g \in Seq(Units) /\ wire[c] \in Seq(Units) /\ handed[c] \in Seq(Msgs \cup {Garbled})
  BY DEF IInv, TypeOK
<1>2. Len(g) \in Nat /\ Len(wire[c]) \in Nat /\ Len(handed[c]) \in Nat
  BY <1>1, LenProperties
<1>3. w \in Nat /\ w + Len(g) \in Nat
  <2>1. w \in Nat
    BY <1>2, WhenceIs DEF Whence
  <2> QED
    BY <1>2, <2>1
<1>4. /\ u \in Seq(Units) /\ v \in Seq(Units) /\ Len(u) = n /\ Len(v) = Len(wire[c]) - n
      /\ InOrder(sent[c], w + Len(g), wire[c]) =>
            InOrder(sent[c], w + Len(g), u) /\ InOrder(sent[c], w + Len(g) + n, v)
  <2> HIDE DEF g, w
  <2> QED
    BY <1>1, <1>3, OrderSplit
<1>5. g \o u \in Seq(Units) /\ Len(g \o u) = Len(g) + Len(u)
  <2> HIDE DEF g, u
  <2> QED
    BY <1>1, <1>4, ConcatProperties
<1>6. ASSUME Flow(c)
      PROVE  /\ InOrder(sent[c], w, g \o u) /\ InOrder(sent[c], w + Len(g \o u), v)
             /\ Reached(c) = w + Len(g \o u) + Len(v)
  <2>1. InOrder(sent[c], w, g) /\ InOrder(sent[c], w + Len(g), wire[c])
    BY <1>6 DEF Flow
  <2>2. InOrder(sent[c], w + Len(g), u) /\ InOrder(sent[c], w + Len(g) + n, v)
    BY <1>4, <2>1
  <2>3. Reached(c) = w + Len(g) + Len(wire[c])
    BY DEF Reached
  <2> HIDE DEF g, u, v, w
  <2>4. InOrder(sent[c], w, g \o u)
    BY <1>1, <1>3, <1>4, <2>1, <2>2, OrderConcat
  <2>5. w + Len(g \o u) = w + Len(g) + n /\ w + Len(g \o u) + Len(v) = w + Len(g) + Len(wire[c])
    BY <1>2, <1>3, <1>4, <1>5
  <2> QED
    BY <2>2, <2>3, <2>4, <2>5
<1> QED
  BY <1>4, <1>5, <1>6 DEF Got, Rest

\* A reader that stands at a boundary takes two units of a head for a head, and the
\* length in it for that of the body.
LEMMA HeadMeans ==
    ASSUME NEW s, NEW h \in Nat, NEW g \in Seq(Units), InOrder(s, Total * h, g), Len(g) >= HeadLen
    PROVE  LoadLens(g) = {BodyLen} /\ g[2][2] = 2
<1>1. Total * h + 1 \in Nat /\ 1 \in 1 .. Len(g) /\ 2 \in 1 .. Len(g) /\ 1 \in 1 .. Total /\ 2 \in 1 .. Total
  BY Sizes, LenProperties
<1>2. g[1] = Point(s, Total * h + 1) /\ g[2] = Point(s, Total * h + 2)
  BY <1>1 DEF InOrder
<1>3. Point(s, Total * h + 1) = <<s[h + 1], 1>> /\ Point(s, Total * h + 2) = <<s[h + 1], 2>>
  BY <1>1, PointAt
<1>4. g[1][2] = 1 /\ g[2][2] = 2
  BY <1>2, <1>3
<1> QED
  BY <1>4 DEF LoadLens

LEMMA WholeIs ==
    ASSUME NEW g \in Seq(Units), Len(g) > 0
    PROVE  Whole(g) \in Msgs \cup {Garbled}
<1>1. g[1] \in Units
  BY LenProperties, ElementOfSeq
<1>2. g[1][1] \in Msgs
  BY <1>1 DEF Units
<1> QED
  BY <1>2 DEF Whole

\* After a receive, what the reader of c holds and what it takes to be its place
\* follow what it has handed over.
LEMMA Landed ==
    ASSUME IInv, NEW c \in Conns, NEW n \in 1 .. Len(wire[c]), NEW r,
           r \in Rcv, r.at \in {"head", "body"},
           UNCHANGED <<reader, connVars, call, made, sent, clean>>, Reading(c),
           wire' = [wire EXCEPT ![c] = Rest(c, n)], rcv' = [rcv EXCEPT ![c] = r],
           handed' \in [Conns -> Seq(Msgs \cup {Garbled})],
           \A e \in Conns : e # c => handed'[e] = handed[e],
           clean[c] => \/ /\ handed'[c] = handed[c] /\ r.got = Got(c, n)
                       \/ /\ Len(handed'[c]) = Len(handed[c]) + 1 /\ r.got = << >>
                          /\ Len(Got(c, n)) = Total,
           clean[c] => Stands(c)'
    PROVE  IInv'
<1>1. /\ TypeOK /\ ConnInv /\ CallInv /\ StreamInv
      /\ wire \in [Conns -> Seq(Units)] /\ rcv \in [Conns -> Rcv]
      /\ handed \in [Conns -> Seq(Msgs \cup {Garbled})]
  BY DEF IInv, TypeOK, Rcv
<1>2. /\ wire'[c] = Rest(c, n) /\ rcv'[c] = r
      /\ \A e \in Conns : e # c => wire'[e] = wire[e] /\ rcv'[e] = rcv[e]
  BY <1>1
<1>3. /\ Got(c, n) \in Seq(Units) /\ Rest(c, n) \in Seq(Units)
      /\ Len(Got(c, n)) = Len(rcv[c].got) + n /\ Len(Rest(c, n)) = Len(wire[c]) - n
  BY Taking
<1>4. TypeOK'
  <2>1. wire' \in [Conns -> Seq(Units)] /\ rcv' \in [Conns -> Rcv]
    BY <1>1, <1>3
  <2>2. \A e \in Conns : Room(e)' >= 0
    <3>1. Room(c)' >= 0
      <4>1. Len(wire'[c]) = Len(wire[c]) - n /\ Cap - Len(wire[c]) >= 0
        BY <1>1, <1>2, <1>3 DEF TypeOK, Room
      <4>2. Len(wire[c]) \in Nat /\ n \in Nat /\ Cap \in Nat
        BY <1>1, LenProperties, WireAssumption
      <4> QED
        BY <4>1, <4>2 DEF Room
    <3>2. \A e \in Conns : e # c => Room(e)' >= 0
      BY <1>1, <1>2 DEF TypeOK, Room
    <3> QED
      BY <3>1, <3>2
  <2> QED
    BY <1>1, <2>1, <2>2 DEF TypeOK, connVars, Rcv
<1>5. ConnInv'
  <2>1. ~(c > conn)
    BY <1>1 DEF ConnInv, Reading
  <2>2. ASSUME NEW e \in Conns, e > conn PROVE rcv'[e] = rcv[e]
    BY <1>2, <2>1, <2>2
  <2> QED
    BY <1>1, <2>2 DEF ConnInv, connVars
<1>6. CallInv'
  BY <1>1 DEF CallInv, Sending
<1>7. StreamInv'
  <2> SUFFICES ASSUME NEW e \in Conns, clean'[e], rcv'[e].at # "closed"
               PROVE  Flow(e)' /\ Stands(e)'
    BY DEF StreamInv
  <2>1. \A t \in Threads : (Begun(t, e)' <=> Begun(t, e)) /\ (Begun(t, e) => call'[t] = call[t])
    BY DEF Begun, Sending
  <2>2. CASE e # c
    <3>1. rcv'[e] = rcv[e] /\ Flow(e) /\ Stands(e)
      BY <1>1, <1>2, <2>2 DEF StreamInv
    <3>2. Flow(e)'
      BY <1>2, <2>1, <2>2, <3>1, FlowApart
    <3> QED
      BY <3>1, <3>2 DEF Stands
  <2>3. CASE e = c
    <3>1. clean[c] /\ Flow(c) /\ Stands(c)'
      BY <1>1, <2>3 DEF StreamInv, Reading
    <3>2. /\ InOrder(sent[c], Whence(c), Got(c, n))
          /\ InOrder(sent[c], Whence(c) + Len(Got(c, n)), Rest(c, n))
          /\ Reached(c) = Whence(c) + Len(Got(c, n)) + Len(Rest(c, n))
      BY <3>1, Taking
    <3>3. Len(handed[c]) \in Nat /\ Len(Got(c, n)) \in Nat
      BY <1>1, <1>3, LenProperties
    <3>4. Whence(c) \in Nat
      BY <3>3, WhenceIs DEF Whence
    <3>5. /\ InOrder(sent[c], Whence(c)', r.got)
          /\ Whence(c)' + Len(r.got) = Whence(c) + Len(Got(c, n))
      <4>1. CASE handed'[c] = handed[c] /\ r.got = Got(c, n)
        BY <3>2, <4>1 DEF Whence
      <4>2. CASE /\ Len(handed'[c]) = Len(handed[c]) + 1 /\ r.got = << >>
                 /\ Len(Got(c, n)) = Total
        <5>1. Whence(c)' = Whence(c) + Total
          BY <3>3, <4>2, WhenceIs DEF Whence
        <5>2. Len(r.got) = 0
          BY <4>2, EmptySeq
        <5> QED
          BY <3>4, <4>2, <5>1, <5>2, Sizes DEF InOrder
      <4> QED
        BY <3>1, <4>1, <4>2
    <3>6. Reached(c)' = Reached(c)
      BY <1>2, <3>2, <3>5 DEF Reached
    <3>7. /\ InOrder(sent[c], Whence(c), rcv[c].got)'
          /\ InOrder(sent[c], Whence(c) + Len(rcv[c].got), wire[c])'
      BY <1>2, <3>2, <3>5 DEF InOrder, Point
    <3>8. Flow(c)'
      BY <2>1, <2>3, <3>1, <3>6, <3>7 DEF Flow
    <3> QED
      BY <2>3, <3>1, <3>8
  <2> QED
    BY <2>2, <2>3
<1> QED
  BY <1>4, <1>5, <1>6, <1>7 DEF IInv

LEMMA ReceiveKeeps == ASSUME IInv, NEW c \in Conns, Receive(c) PROVE IInv'
<1>1. /\ Reading(c) /\ UNCHANGED <<reader, connVars, call, made, sent, clean>>
      /\ TypeOK /\ rcv \in [Conns -> Rcv] /\ rcv[c] \in Rcv /\ wire[c] \in Seq(Units)
      /\ handed \in [Conns -> Seq(Msgs \cup {Garbled})]
  BY DEF Receive, IInv, TypeOK, Rcv
<1>2. PICK n \in 1 .. Len(wire[c]) :
         /\ Len(Got(c, n)) <= rcv[c].need
         /\ wire' = [wire EXCEPT ![c] = Rest(c, n)]
         /\ IF Len(Got(c, n)) < rcv[c].need
              THEN rcv' = [rcv EXCEPT ![c].got = Got(c, n)] /\ UNCHANGED handed
              ELSE IF rcv[c].at = "head" THEN HeadIn(c, Got(c, n)) ELSE BodyIn(c, Got(c, n))
  BY DEF Receive, Got, Rest
<1> DEFINE g == Got(c, n)
<1>3. /\ g \in Seq(Units) /\ Len(g) \in Nat /\ rcv[c].need \in Nat /\ rcv[c].need >= HeadLen
      /\ HeadLen \in Nat /\ HeadLen = 2 /\ Total \in Nat /\ Total = HeadLen + BodyLen
      /\ BodyLen \in Nat /\ BodyLen >= 1
  <2>1. g \in Seq(Units)
    BY Taking
  <2>2. rcv[c].need \in HeadLen .. Total
    BY <1>1 DEF Rcv
  <2> HIDE DEF g
  <2>3. Len(g) \in Nat
    BY <2>1, LenProperties
  <2> QED
    BY <2>1, <2>2, <2>3, Sizes DEF Total
<1>4. clean[c] => Flow(c) /\ Stands(c)
  BY <1>1 DEF IInv, StreamInv, Reading
<1>5. clean[c] => InOrder(sent[c], Total * Len(handed[c]), g) /\ Len(handed[c]) \in Nat
  BY <1>1, <1>4, Taking, LenProperties DEF Whence
<1> HIDE DEF g
<1>6. ASSUME NEW r, r \in Rcv, r.at \in {"head", "body"}, rcv' = [rcv EXCEPT ![c] = r],
             handed' = handed, clean[c] => r.got = g,
             clean[c] => IF r.at = "body" THEN r.need = Total /\ Len(r.got) >= HeadLen
                         ELSE r.need = HeadLen,
             clean[c] => Len(r.got) < r.need
      PROVE  IInv'
  <2>1. rcv'[c] = r
    BY <1>1, <1>6
  <2>2. clean[c] => Stands(c)'
    BY <1>6, <2>1 DEF Stands
  <2> QED
    BY <1>1, <1>2, <1>6, <2>2, Landed DEF g
<1>7. CASE Len(g) < rcv[c].need
  <2> DEFINE r == [rcv[c] EXCEPT !.got = g]
  <2>1. rcv' = [rcv EXCEPT ![c] = r] /\ handed' = handed
    BY <1>1, <1>2, <1>7 DEF g
  <2>2. r \in Rcv /\ r.at = rcv[c].at /\ r.need = rcv[c].need /\ r.got = g
    BY <1>1, <1>3 DEF Rcv
  <2> HIDE DEF r
  <2>3. Stands(c) /\ r.at = "body" => r.need = Total /\ Len(r.got) >= HeadLen
    <3>1. Len(g) = Len(rcv[c].got) + n /\ Len(rcv[c].got) \in Nat /\ n \in Nat
      BY <1>1, Taking, LenProperties DEF g, Rcv
    <3> QED
      BY <1>3, <2>2, <3>1 DEF Stands
  <2>4. Stands(c) /\ r.at # "body" => r.need = HeadLen
    BY <2>2 DEF Stands
  <2>5. r.at \in {"head", "body"}
    BY <1>1, <2>2 DEF Reading
  <2> QED
    BY <1>4, <1>6, <1>7, <2>1, <2>2, <2>3, <2>4, <2>5
<1>8. CASE ~(Len(g) < rcv[c].need) /\ rcv[c].at = "head"
  <2>1. Len(g) = rcv[c].need /\ HeadIn(c, g)
    BY <1>2, <1>3, <1>8 DEF g
  <2>2. clean[c] => LoadLens(g) = {BodyLen} /\ g[2][2] = 2
    BY <1>3, <1>5, <2>1, HeadMeans
  <2>3. CASE (LoadLens(g) = {} \/ g[2][2] # 2) /\ rcv' = [rcv EXCEPT ![c] = AtHead(rcv[c])]
    <3>1. ~clean[c]
      BY <2>2, <2>3
    <3>2. AtHead(rcv[c]) \in Rcv /\ AtHead(rcv[c]).at = "head"
      BY <1>1, AtHeadIs
    <3>3. handed' = handed
      BY <2>1 DEF HeadIn
    <3> QED
      BY <1>6, <2>3, <3>1, <3>2, <3>3
  <2>4. ASSUME NEW k \in LoadLens(g),
               rcv' = [rcv EXCEPT ![c] = [at |-> "body", got |-> g, need |-> HeadLen + k,
                                          timeout_cnt |-> 0]]
        PROVE  IInv'
    <3> DEFINE r == [at |-> "body", got |-> g, need |-> HeadLen + k, timeout_cnt |-> 0]
    <3>1. k \in 1 .. BodyLen
      BY <1>3 DEF LoadLens
    <3>2. HeadLen + k \in HeadLen .. Total /\ 0 \in 0 .. RetryMax
      BY <1>3, <3>1, WireAssumption
    <3>3. r \in Rcv /\ r.at = "body" /\ r.got = g /\ r.need = HeadLen + k
      BY <1>3, <3>2 DEF Rcv
    <3>4. rcv' = [rcv EXCEPT ![c] = r] /\ handed' = handed
      BY <2>1, <2>4 DEF HeadIn
    <3> HIDE DEF r
    <3>5. clean[c] => r.need = Total
      BY <1>3, <2>2, <3>3
    <3>6. clean[c] => Len(g) = HeadLen
      BY <1>4, <1>8, <2>1 DEF Stands
    <3>7. clean[c] => Len(r.got) >= HeadLen /\ Len(r.got) < r.need
      <4>1. Len(r.got) = Len(g)
        BY <3>3
      <4>2. HeadLen >= HeadLen /\ HeadLen < Total
        BY Sizes
      <4> QED
        BY ONLY <3>5, <3>6, <4>1, <4>2
    <3> QED
      BY <1>6, <3>3, <3>4, <3>5, <3>7
  <2> QED
    BY <2>1, <2>3, <2>4 DEF HeadIn
<1>9. CASE ~(Len(g) < rcv[c].need) /\ rcv[c].at # "head"
  <2> DEFINE r == AtHead(rcv[c])
  <2>1. Len(g) = rcv[c].need /\ BodyIn(c, g)
    BY <1>2, <1>3, <1>9 DEF g
  <2>2. Whole(g) \in Msgs \cup {Garbled}
    BY <1>3, <2>1, WholeIs
  <2>3. /\ handed' = [handed EXCEPT ![c] = Append(@, Whole(g))]
        /\ rcv' = [rcv EXCEPT ![c] = r]
    BY <2>1 DEF BodyIn
  <2>4. r \in Rcv /\ r.at = "head" /\ r.got = << >> /\ r.need = HeadLen
    BY <1>1, AtHeadIs
  <2> HIDE DEF r
  <2>5. /\ Append(handed[c], Whole(g)) \in Seq(Msgs \cup {Garbled})
        /\ Len(Append(handed[c], Whole(g))) = Len(handed[c]) + 1
    BY <1>1, <2>2, AppendProperties
  <2>6. /\ handed' \in [Conns -> Seq(Msgs \cup {Garbled})]
        /\ Len(handed'[c]) = Len(handed[c]) + 1
        /\ \A e \in Conns : e # c => handed'[e] = handed[e]
    BY <1>1, <2>3, <2>5
  <2>7. clean[c] => Len(g) = Total
    BY <1>1, <1>4, <1>9, <2>1 DEF Stands, Reading
  <2>8. Stands(c)'
    <3>1. rcv'[c] = r /\ Len(r.got) = 0
      BY <1>1, <2>3, <2>4, EmptySeq
    <3> QED
      BY <1>3, <2>4, <3>1 DEF Stands
  <2> QED
    BY <1>1, <1>2, <2>3, <2>4, <2>6, <2>7, <2>8, Landed DEF g
<1> QED
  BY <1>7, <1>8, <1>9

-----------------------------------------------------------------------------
(* A call that puts units on its connection *)

\* A call after n more units: gone with the last of them, or as it was, further on.
LEMMA AfterIs ==
    ASSUME TypeOK, NEW t \in Threads, Sending(t), NEW n \in 1 .. Left(t), NEW c \in Conns,
           NEW s \in After(t, n, c)
    PROVE  /\ n \in Nat /\ n > 0 /\ call[t].put + n \in Nat /\ call[t].put + n <= Total
           /\ \/ s = NoCall /\ call[t].put + n = Total
              \/ /\ s \in Calls /\ s # NoCall /\ s.msg = call[t].msg /\ s.via = c
                 /\ s.put = call[t].put + n /\ s.put < Total
<1> DEFINE k == call[t]
           on == [k EXCEPT !.put = @ + n, !.via = c]
<1>1. /\ k \in Calls /\ k.put \in Nat /\ k.put < Total
  BY CallIs
<1>2. /\ HeadLen = 2 /\ Total \in Nat /\ Total > HeadLen /\ 0 \in 0 .. TryMax + 1
  BY Sizes, WireAssumption
<1>3. Left(t) = (IF k.put < HeadLen THEN HeadLen ELSE Total) - k.put
  BY DEF Left
<1>4. /\ n \in Nat /\ n > 0 /\ k.put + n \in Nat /\ k.put + n <= Total
      /\ n < Left(t) => k.put + n < Total
      /\ ~(n < Left(t)) => k.put + n = HeadLen \/ k.put + n = Total
  BY <1>1, <1>2, <1>3
<1>5. on.put = k.put + n /\ on.msg = k.msg /\ on.via = c
  BY <1>1 DEF Calls
<1>6. ASSUME k.put + n < Total
      PROVE  /\ [on EXCEPT !.at = "sending"] \in Calls /\ [on EXCEPT !.at = "select"] \in Calls
             /\ [on EXCEPT !.at = "select", !.set = TRUE, !.tries = 0] \in Calls
  <2>1. k.put + n \in 0 .. Total - 1
    BY <1>2, <1>4, <1>6
  <2> QED
    BY <1>1, <1>2, <2>1 DEF Calls
<1>7. \A d \in Calls : d # NoCall
  BY DEF Calls, NoCall
<1>8. CASE n < Left(t)
  <2>1. k.put + n < Total
    BY <1>4, <1>8
  <2>2. s = [on EXCEPT !.at = "sending"] \/ s = [on EXCEPT !.at = "select"]
    BY <1>8 DEF After
  <2>3. s \in Calls /\ s.msg = on.msg /\ s.via = on.via /\ s.put = on.put
    BY <1>6, <2>1, <2>2 DEF Calls
  <2> HIDE DEF on, k
  <2> QED
    BY <1>4, <1>5, <1>7, <2>1, <2>3 DEF k
<1>9. CASE ~(n < Left(t)) /\ on.put = HeadLen
  <2>1. k.put + n < Total
    BY <1>2, <1>5, <1>9
  <2>2. s = [on EXCEPT !.at = "select", !.set = TRUE, !.tries = 0]
    BY <1>9 DEF After
  <2>3. s \in Calls /\ s.msg = on.msg /\ s.via = on.via /\ s.put = on.put
    BY <1>6, <2>1, <2>2 DEF Calls
  <2> HIDE DEF on, k
  <2> QED
    BY <1>4, <1>5, <1>7, <2>1, <2>3 DEF k
<1>10. CASE ~(n < Left(t)) /\ on.put # HeadLen
  <2>1. s = NoCall
    BY <1>10 DEF After
  <2>2. k.put + n = Total
    BY <1>4, <1>5, <1>10
  <2> QED
    BY <1>4, <2>1, <2>2
<1> QED
  BY <1>8, <1>9, <1>10

\* The units a send takes are the next ones of its message.
LEMMA TakenUnits ==
    ASSUME TypeOK, NEW t \in Threads, Sending(t), NEW n \in Nat, call[t].put + n <= Total
    PROVE  /\ Taken(t, n) \in Seq(Units) /\ Len(Taken(t, n)) = n
           /\ \A i \in 1 .. n : /\ Taken(t, n)[i] = <<call[t].msg, call[t].put + i>>
                                /\ call[t].put + i \in 1 .. Total
<1> DEFINE u == Taken(t, n)
<1>1. call[t].msg \in Msgs /\ call[t].put \in Nat /\ Total \in Nat
  BY CallIs, Sizes
<1>2. DOMAIN u = 1 .. n /\ \A i \in 1 .. n : u[i] = <<call[t].msg, call[t].put + i>>
  BY DEF Taken
<1>3. \A i \in 1 .. n : call[t].put + i \in 1 .. Total
  BY <1>1
<1>4. u \in [1 .. n -> Units]
  BY <1>1, <1>3 DEF Taken, Units
<1>5. u \in Seq(Units)
  BY <1>4, SeqDef
<1> HIDE DEF u
<1>6. Len(u) = n
  <2>1. DOMAIN u = 1 .. Len(u) /\ Len(u) \in Nat
    BY <1>5, LenProperties
  <2> QED
    BY <1>2, <2>1
<1> QED
  BY <1>2, <1>3, <1>5, <1>6 DEF u

LEMMA TakenIs ==
    ASSUME TypeOK, NEW t \in Threads, Sending(t), NEW n \in Nat, call[t].put + n <= Total,
           NEW s, NEW q \in Nat, s[q + 1] = call[t].msg
    PROVE  /\ Taken(t, n) \in Seq(Units) /\ Len(Taken(t, n)) = n
           /\ InOrder(s, Total * q + call[t].put, Taken(t, n))
<1>1. call[t].put \in Nat /\ Total * q \in Nat
  BY CallIs, WhenceIs
<1>2. /\ Taken(t, n) \in Seq(Units) /\ Len(Taken(t, n)) = n
      /\ \A i \in 1 .. n : /\ Taken(t, n)[i] = <<call[t].msg, call[t].put + i>>
                           /\ call[t].put + i \in 1 .. Total
  BY TakenUnits
<1>3. ASSUME NEW i \in 1 .. n PROVE Taken(t, n)[i] = Point(s, Total * q + call[t].put + i)
  <2>1. Point(s, Total * q + (call[t].put + i)) = <<s[q + 1], call[t].put + i>>
    BY <1>2, PointAt
  <2>2. Total * q + call[t].put + i = Total * q + (call[t].put + i)
    BY <1>1
  <2> QED
    BY <1>2, <2>1, <2>2
<1> QED
  BY <1>2, <1>3 DEF InOrder

\* A step of Put, spelled out: n units of a message go to the connection c, which
\* the message begins on if they are the first.
PutOn(t, c, n, s) ==
    /\ Sending(t) /\ c \in Conns
    /\ rcv[c].at # "closed" /\ n <= Room(c)
    /\ wire' = [wire EXCEPT ![c] = @ \o Taken(t, n)]
    /\ call' = [call EXCEPT ![t] = s]
    /\ sent' = IF call[t].put = 0 THEN [sent EXCEPT ![c] = Append(@, call[t].msg)] ELSE sent
    /\ clean' = [d \in Conns |->
          /\ clean[d]
          /\ d = c => \A u \in Threads \ {t} : ~Begun(u, c)
          /\ ~(d \in {c, call[t].via} /\ Strays(t, c))]
    /\ UNCHANGED <<reader, connVars, rcv, made, handed>>

LEMMA PutIs ==
    ASSUME IInv, NEW t \in Threads, Put(t)
    PROVE  \E c \in Conns : \E n \in 1 .. Left(t) : \E s \in After(t, n, c) : PutOn(t, c, n, s)
<1> DEFINE c == Facing(t)
<1>1. c \in Conns /\ Sending(t) /\ rcv[c].at # "closed"
  BY DEF Put, InSend, Open, Sending
<1>2. PICK n \in 1 .. Left(t) : \E s \in After(t, n, c) :
         /\ n <= Room(c) /\ wire' = [wire EXCEPT ![c] = @ \o Taken(t, n)]
         /\ call' = [call EXCEPT ![t] = s]
  BY DEF Put
<1>3. PICK s \in After(t, n, c) :
         /\ n <= Room(c) /\ wire' = [wire EXCEPT ![c] = @ \o Taken(t, n)]
         /\ call' = [call EXCEPT ![t] = s]
  BY <1>2
<1>4. PutOn(t, c, n, s)
  BY <1>1, <1>3 DEF Put, PutOn
<1> HIDE DEF c
<1> QED
  BY <1>1, <1>4

\* What a step of Put leaves clean was clean, nobody else's message is under way
\* there, and this one is where it was.
LEMMA PutCleans ==
    ASSUME NEW t \in Threads, NEW c \in Conns, NEW n, NEW s, PutOn(t, c, n, s),
           NEW e \in Conns, clean'[e]
    PROVE  /\ clean[e]
           /\ e = c => (\A u \in Threads : u # t => ~Begun(u, c))
           /\ e \in {c, call[t].via} => ~(call[t].put > 0) \/ call[t].via = c
<1>1. /\ clean[e]
      /\ e = c => \A u \in Threads \ {t} : ~Begun(u, c)
      /\ ~(e \in {c, call[t].via} /\ Strays(t, c))
  BY DEF PutOn
<1> QED
  BY <1>1 DEF Strays

\* The flow of the connection a message goes to.
LEMMA PutFlows ==
    ASSUME IInv, NEW t \in Threads, NEW c \in Conns, NEW n \in 1 .. Left(t), NEW s \in After(t, n, c),
           PutOn(t, c, n, s), clean'[c]
    PROVE  Flow(c)'
<1> DEFINE k  == call[t]
           s0 == sent[c]
           s1 == sent'[c]
           w  == Whence(c)
           g  == rcv[c].got
<1>1. /\ TypeOK /\ Sending(t) /\ rcv[c].at # "closed"
      /\ wire'[c] = wire[c] \o Taken(t, n) /\ call'[t] = s
      /\ \A u \in Threads : u # t => call'[u] = call[u]
      /\ rcv' = rcv /\ handed' = handed
      /\ s1 = IF k.put = 0 THEN Append(s0, k.msg) ELSE s0
  BY DEF IInv, TypeOK, PutOn
<1>2. /\ clean[c] /\ \A u \in Threads : u # t => ~Begun(u, c)
      /\ ~(k.put > 0) \/ k.via = c
  BY PutCleans
<1>3. Flow(c)
  BY <1>1, <1>2 DEF IInv, StreamInv
<1>4. /\ k.msg \in Msgs /\ k.put \in Nat
      /\ n \in Nat /\ n > 0 /\ k.put + n \in Nat /\ k.put + n <= Total
      /\ \/ s = NoCall /\ k.put + n = Total
         \/ /\ s \in Calls /\ s # NoCall /\ s.msg = k.msg /\ s.via = c /\ s.put = k.put + n
  BY <1>1, CallIs, AfterIs
<1>5. /\ s0 \in Seq(Msgs) /\ wire[c] \in Seq(Units) /\ g \in Seq(Units)
      /\ Len(s0) \in Nat /\ Len(wire[c]) \in Nat /\ Len(g) \in Nat /\ w \in Nat
  <2>1. /\ s0 \in Seq(Msgs) /\ wire[c] \in Seq(Units) /\ g \in Seq(Units)
        /\ handed[c] \in Seq(Msgs \cup {Garbled})
    BY <1>1 DEF TypeOK
  <2>2. Len(handed[c]) \in Nat
    BY <2>1, LenProperties
  <2>3. w \in Nat
    BY <2>2, WhenceIs DEF Whence
  <2> QED
    BY <2>1, <2>3, LenProperties
<1>6. /\ s1 \in Seq(Msgs) /\ Len(s1) \in Nat /\ Len(s1) > 0 /\ s1[Len(s1)] = k.msg
      /\ Reached(c) = Total * (Len(s1) - 1) + k.put
      /\ InOrder(s1, w, g) /\ InOrder(s1, w + Len(g), wire[c])
  <2>1. InOrder(s0, w, g) /\ InOrder(s0, w + Len(g), wire[c])
    BY <1>3 DEF Flow
  <2>2. CASE k.put = 0
    <3>1. \A u \in Threads : ~Begun(u, c)
      BY <1>2, <2>2 DEF Begun
    <3>2. Reached(c) = Total * Len(s0)
      BY <1>3, <3>1 DEF Flow
    <3>3. s1 = Append(s0, k.msg)
      BY <1>1, <2>2
    <3>4. Reached(c) = w + Len(g) + Len(wire[c])
      BY DEF Reached
    <3> HIDE DEF s0, s1, w, g, k
    <3>5. s1 \in Seq(Msgs) /\ Len(s1) = Len(s0) + 1 /\ s1[Len(s0) + 1] = k.msg
      BY <1>4, <1>5, <3>3, AppendProperties
    <3>6. Len(s1) - 1 = Len(s0)
      BY <1>5, <3>5
    <3>7. /\ w + Len(g) \in Nat /\ w + Len(g) + Len(wire[c]) \in Nat
          /\ w + Len(g) <= w + Len(g) + Len(wire[c])
          /\ w + Len(g) + Len(wire[c]) <= w + Len(g) + Len(wire[c])
      <4> DEFINE i == Len(g)
                 j == Len(wire[c])
      <4>1. w \in Nat /\ i \in Nat /\ j \in Nat
        BY <1>5
      <4> HIDE DEF i, j
      <4>2. w + i \in Nat /\ w + i + j \in Nat /\ w + i <= w + i + j /\ w + i + j <= w + i + j
        BY <4>1
      <4> QED
        BY <4>2 DEF i, j
    <3>8. w + Len(g) <= Total * Len(s0) /\ w + Len(g) + Len(wire[c]) <= Total * Len(s0)
      BY ONLY <3>2, <3>4, <3>7
    <3>9. InOrder(s1, w, g) /\ InOrder(s1, w + Len(g), wire[c])
      BY <1>4, <1>5, <2>1, <3>3, <3>7, <3>8, OrderGrows
    <3>10. Reached(c) = Total * (Len(s1) - 1) + k.put
      <4>1. Total * Len(s0) \in Nat
        BY <1>5, WhenceIs
      <4> QED
        BY <2>2, <3>2, <3>6, <4>1
    <3> QED
      BY <1>5, <3>5, <3>9, <3>10
  <2>3. CASE k.put # 0
    <3>1. Begun(t, c)
      BY <1>1, <1>2, <1>4, <2>3 DEF Begun
    <3>2. Len(s0) > 0 /\ s0[Len(s0)] = k.msg /\ Reached(c) = Total * (Len(s0) - 1) + k.put
      BY <1>3, <3>1 DEF Flow
    <3>3. s1 = s0
      BY <1>1, <2>3
    <3> QED
      BY <1>5, <2>1, <3>2, <3>3
  <2> QED
    BY <2>2, <2>3
<1> DEFINE q == Len(s1) - 1
           x == Taken(t, n)
<1>7. q \in Nat /\ q + 1 = Len(s1) /\ s1[q + 1] = k.msg
  <2> HIDE DEF s1
  <2> QED
    BY <1>6
<1>8. /\ x \in Seq(Units) /\ Len(x) = n /\ InOrder(s1, Total * q + k.put, x)
  <2> HIDE DEF s1, q
  <2> QED
    BY <1>1, <1>4, <1>7, TakenIs
<1>9. Whence(c)' = w /\ rcv'[c].got = g
  BY <1>1 DEF Whence
<1>10. Reached(c) = w + Len(g) + Len(wire[c]) /\ Reached(c) = Total * q + k.put
  BY <1>6 DEF Reached
<1>11. /\ InOrder(s1, w + Len(g), wire[c] \o x) /\ Len(wire[c] \o x) = Len(wire[c]) + n
  <2> HIDE DEF s1, q, x, w, g, k
  <2>1. w + Len(g) \in Nat
    BY <1>5
  <2>2. InOrder(s1, w + Len(g) + Len(wire[c]), x)
    BY <1>8, <1>10
  <2>3. InOrder(s1, w + Len(g), wire[c])
    BY <1>6
  <2>4. wire[c] \in Seq(Units) /\ x \in Seq(Units) /\ Len(x) = n
    BY <1>5, <1>8
  <2>5. InOrder(s1, w + Len(g), wire[c] \o x) /\ Len(wire[c] \o x) = Len(wire[c]) + Len(x)
    BY <2>1, <2>2, <2>3, <2>4, OrderConcat
  <2> QED
    BY <2>4, <2>5
<1>12. Reached(c)' = Total * q + (k.put + n)
  <2>1. Reached(c)' = w + Len(g) + Len(wire'[c])
    BY <1>9 DEF Reached
  <2>2. Len(wire'[c]) = Len(wire[c]) + n
    BY <1>1, <1>11
  <2>3. Total * q \in Nat
    BY <1>7, WhenceIs
  <2>4. w + Len(g) + Len(wire[c]) = Total * q + k.put
    BY <1>10
  <2> HIDE DEF s1, q, x, w, g, k
  <2>5. w + Len(g) + (Len(wire[c]) + n) = w + Len(g) + Len(wire[c]) + n
    <3> DEFINE i == Len(g)
               j == Len(wire[c])
    <3>1. w \in Nat /\ i \in Nat /\ j \in Nat /\ n \in Nat
      BY <1>4, <1>5
    <3> HIDE DEF i, j
    <3>2. w + i + (j + n) = w + i + j + n
      BY <3>1
    <3> QED
      BY <3>2 DEF i, j
  <2>6. Total * q + k.put + n = Total * q + (k.put + n)
    BY ONLY <1>4, <2>3
  <2> QED
    BY ONLY <2>1, <2>2, <2>4, <2>5, <2>6
<1>13. \A u \in Threads : Begun(u, c)' => u = t /\ s # NoCall
  <2>1. \A u \in Threads : u # t => (Begun(u, c)' <=> Begun(u, c))
    BY <1>1 DEF Begun, Sending
  <2>2. s = NoCall => ~Begun(t, c)'
    BY <1>1 DEF Begun, Sending, NoCall
  <2> QED
    BY <1>2, <2>1, <2>2
<1>14. ASSUME NEW u \in Threads, Begun(u, c)'
       PROVE  /\ Len(s1) > 0 /\ s1[Len(s1)] = call'[u].msg
              /\ Reached(c)' = Total * (Len(s1) - 1) + call'[u].put
  <2>1. u = t /\ s # NoCall
    BY <1>13, <1>14
  <2> HIDE DEF s1
  <2> QED
    BY <1>1, <1>4, <1>6, <1>12, <2>1
<1>15. ASSUME \A u \in Threads : ~Begun(u, c)'
       PROVE  Reached(c)' = Total * Len(s1)
  <2>1. s = NoCall
    <3>1. ASSUME s \in Calls, s.via = c, s.put = k.put + n PROVE Begun(t, c)'
      <4>1. s.put > 0
        BY <1>4, <3>1
      <4>2. Sending(t)'
        BY <1>1, <3>1 DEF Sending, Calls
      <4> QED
        BY <1>1, <3>1, <4>1, <4>2 DEF Begun
    <3> QED
      BY <1>4, <1>15, <3>1
  <2>2. k.put + n = Total
    BY <1>4, <2>1
  <2> HIDE DEF s1, k
  <2>3. Total * (q + 1) = Total * q + Total
    BY <1>7, WhenceIs
  <2> QED
    BY <1>7, <1>12, <2>2, <2>3
<1>16. /\ InOrder(sent[c], Whence(c), rcv[c].got)'
       /\ InOrder(sent[c], Whence(c) + Len(rcv[c].got), wire[c])'
  <2>1. InOrder(s1, w, g) /\ InOrder(s1, w + Len(g), wire'[c])
    BY <1>1, <1>6, <1>11
  <2>2. InOrder(s1, Whence(c)', rcv'[c].got) /\ InOrder(s1, Whence(c)' + Len(rcv'[c].got), wire'[c])
    BY <1>9, <2>1
  <2> QED
    BY ONLY <2>2 DEF InOrder, Point
<1> QED
  BY <1>14, <1>15, <1>16 DEF Flow

LEMMA PutKeeps == ASSUME IInv, NEW t \in Threads, Put(t) PROVE IInv'
<1>a. PICK c \in Conns : \E n \in 1 .. Left(t) : \E s \in After(t, n, c) : PutOn(t, c, n, s)
  BY PutIs
<1>b. PICK n \in 1 .. Left(t) : \E s \in After(t, n, c) : PutOn(t, c, n, s)
  BY <1>a
<1>1. PICK s \in After(t, n, c) : PutOn(t, c, n, s)
  BY <1>b
<1>2. /\ TypeOK /\ ConnInv /\ CallInv /\ StreamInv /\ Sending(t)
  BY <1>1 DEF IInv, PutOn
<1>3. /\ n <= Room(c) /\ wire' = [wire EXCEPT ![c] = @ \o Taken(t, n)]
      /\ call' = [call EXCEPT ![t] = s]
      /\ sent' = IF call[t].put = 0 THEN [sent EXCEPT ![c] = Append(@, call[t].msg)] ELSE sent
      /\ clean' \in [Conns -> BOOLEAN]
      /\ UNCHANGED <<reader, handle_socket, fdConn, conn, gone, rcv, made, handed>>
  <2>1. clean' \in [Conns -> BOOLEAN]
    BY <1>1 DEF PutOn
  <2> QED
    BY <1>1, <2>1 DEF PutOn, connVars
<1>4. /\ call[t].msg \in Msgs /\ n \in Nat /\ n > 0 /\ call[t].put \in Nat
      /\ call[t].put + n <= Total
      /\ \/ s = NoCall
         \/ /\ s \in Calls /\ s # NoCall /\ s.msg = call[t].msg /\ s.via = c
            /\ s.put = call[t].put + n
  BY <1>2, CallIs, AfterIs
<1>5. /\ call'[t] = s /\ \A u \in Threads : u # t => call'[u] = call[u]
      /\ call' \in [Threads -> Calls \cup {NoCall}]
  BY <1>2, <1>3, <1>4 DEF TypeOK
<1>6. /\ Append(sent[c], call[t].msg) \in Seq(Msgs)
      /\ Len(Append(sent[c], call[t].msg)) = Len(sent[c]) + 1 /\ Len(sent[c]) \in Nat
      /\ \A i \in 1 .. Len(sent[c]) : Append(sent[c], call[t].msg)[i] = sent[c][i]
      /\ Append(sent[c], call[t].msg)[Len(sent[c]) + 1] = call[t].msg
  <2>1. sent[c] \in Seq(Msgs)
    BY <1>2 DEF TypeOK
  <2> QED
    BY <1>4, <2>1, AppendProperties, LenProperties
<1>7. /\ Taken(t, n) \in Seq(Units) /\ Len(Taken(t, n)) = n
      /\ wire[c] \o Taken(t, n) \in Seq(Units)
      /\ Len(wire[c] \o Taken(t, n)) = Len(wire[c]) + n /\ Len(wire[c]) \in Nat
  <2>1. wire[c] \in Seq(Units)
    BY <1>2 DEF TypeOK
  <2>2. Taken(t, n) \in Seq(Units) /\ Len(Taken(t, n)) = n
    BY <1>2, <1>4, TakenUnits
  <2> QED
    BY <2>1, <2>2, ConcatProperties, LenProperties
<1>8. TypeOK'
  <2>1. wire' \in [Conns -> Seq(Units)]
    BY <1>2, <1>3, <1>7 DEF TypeOK
  <2>2. \A e \in Conns : Room(e)' >= 0
    <3>1. Room(c)' >= 0
      <4>1. Len(wire'[c]) = Len(wire[c]) + n /\ n <= Cap - Len(wire[c]) /\ Cap \in Nat
        BY <1>2, <1>3, <1>7, WireAssumption DEF TypeOK, Room
      <4> DEFINE j == Len(wire[c])
      <4>2. j \in Nat
        BY <1>7
      <4>3. Len(wire'[c]) = j + n /\ n <= Cap - j
        BY <4>1
      <4> HIDE DEF j
      <4>4. Cap - (j + n) >= 0
        BY <1>4, <4>1, <4>2, <4>3
      <4> QED
        BY <4>3, <4>4 DEF Room
    <3>2. \A e \in Conns : e # c => Room(e)' >= 0
      BY <1>2, <1>3 DEF TypeOK, Room
    <3> QED
      BY <3>1, <3>2
  <2>3. sent' \in [Conns -> Seq(Msgs)]
    BY <1>2, <1>3, <1>6 DEF TypeOK
  <2>4. clean' \in [Conns -> BOOLEAN]
    BY <1>2, <1>3 DEF TypeOK
  <2> QED
    BY <1>2, <1>3, <1>5, <2>1, <2>2, <2>3, <2>4 DEF TypeOK
<1>9. ConnInv'
  BY <1>2, <1>3 DEF ConnInv
<1>10. \A u \in Threads : u # t => (Sending(u)' <=> Sending(u))
  BY <1>5 DEF Sending
<1>11. s = NoCall => ~Sending(t)' /\ call'[t].at = "out"
  BY <1>5 DEF Sending, NoCall
<1>12. s # NoCall => Sending(t)' /\ call'[t].msg = call[t].msg /\ call'[t].via = c /\ call'[t].put # 0
  BY <1>4, <1>5 DEF Sending, Calls
<1>13. CallInv'
  <2>1. \A u \in Threads : Sending(u)' => Sending(u) /\ call'[u].msg = call[u].msg
    BY <1>2, <1>5, <1>10, <1>11, <1>12
  <2>3. \A u \in Threads : Sending(u)' => call'[u].msg <= made
    BY <1>2, <2>1 DEF CallInv
  <2>4. \A u, w \in Threads : Sending(u)' /\ Sending(w)' /\ call'[u].msg = call'[w].msg => u = w
    BY <1>2, <2>1 DEF CallInv
  <2>5. \A u \in Threads : Sending(u)' /\ call'[u].put = 0 =>
           Sending(u) /\ call[u].put = 0 /\ u # t /\ call[u].msg # call[t].msg
    BY <1>2, <1>5, <1>10, <1>11, <1>12 DEF CallInv
  <2>6. ASSUME NEW e \in Conns, NEW i \in DOMAIN sent'[e]
        PROVE  \/ i \in DOMAIN sent[e] /\ sent'[e][i] = sent[e][i]
               \/ sent'[e][i] = call[t].msg
    <3>1. CASE sent'[e] = sent[e]
      BY <2>6, <3>1
    <3>2. CASE sent'[e] # sent[e]
      <4>1. e = c /\ sent'[c] = Append(sent[c], call[t].msg)
        BY <1>2, <1>3, <3>2 DEF TypeOK
      <4>2. i \in 1 .. Len(sent[c]) + 1
        BY <1>6, <2>6, <4>1, LenProperties
      <4>3. i \in 1 .. Len(sent[c]) \/ i = Len(sent[c]) + 1
        BY <1>6, <4>2
      <4>4. DOMAIN sent[c] = 1 .. Len(sent[c])
        BY <1>2, LenProperties DEF TypeOK
      <4> QED
        BY <1>6, <4>1, <4>3, <4>4
    <3> QED
      BY <3>1, <3>2
  <2>7. call[t].msg <= made
    BY <1>2 DEF CallInv
  <2>8. ASSUME NEW e \in Conns, NEW i \in DOMAIN sent'[e]
        PROVE  /\ sent'[e][i] <= made
               /\ \A u \in Threads : Sending(u)' /\ call'[u].put = 0 => sent'[e][i] # call'[u].msg
    <3>1. CASE i \in DOMAIN sent[e] /\ sent'[e][i] = sent[e][i]
      BY <1>2, <2>1, <2>5, <3>1 DEF CallInv
    <3>2. CASE sent'[e][i] = call[t].msg
      BY <2>1, <2>5, <2>7, <3>2
    <3> QED
      BY <2>6, <2>8, <3>1, <3>2
  <2> QED
    BY <1>3, <2>3, <2>4, <2>8 DEF CallInv
<1>14. StreamInv'
  <2> SUFFICES ASSUME NEW e \in Conns, clean'[e], rcv'[e].at # "closed"
               PROVE  Flow(e)' /\ Stands(e)'
    BY DEF StreamInv
  <2>1. /\ clean[e]
        /\ e \in {c, call[t].via} => ~(call[t].put > 0) \/ call[t].via = c
    BY <1>1, PutCleans
  <2>2. Flow(e) /\ Stands(e)
    BY <1>2, <1>3, <2>1 DEF StreamInv
  <2>3. Stands(e)'
    BY <1>3, <2>2 DEF Stands
  <2>4. CASE e = c
    BY <1>1, <2>3, <2>4, PutFlows
  <2>5. CASE e # c
    <3>1. /\ sent'[e] = sent[e] /\ handed'[e] = handed[e] /\ wire'[e] = wire[e]
          /\ rcv'[e].got = rcv[e].got
      BY <1>2, <1>3, <2>5 DEF TypeOK
    <3>2. \A u \in Threads : u # t => (Begun(u, e)' <=> Begun(u, e))
      BY <1>5 DEF Begun, Sending
    <3>3. ~Begun(t, e) /\ ~Begun(t, e)'
      BY <1>2, <1>11, <1>12, <2>1, <2>5 DEF Begun
    <3>4. \A u \in Threads : (Begun(u, e)' <=> Begun(u, e)) /\ (Begun(u, e) => call'[u] = call[u])
      BY <1>5, <3>2, <3>3
    <3>5. Flow(e)'
      BY <2>2, <3>1, <3>4, FlowApart
    <3> QED
      BY <2>3, <3>5
  <2> QED
    BY <2>4, <2>5
<1> QED
  BY <1>8, <1>9, <1>13, <1>14 DEF IInv

-----------------------------------------------------------------------------
(* The invariant *)

LEMMA InitIInv == Init => IInv
<1> SUFFICES ASSUME Init PROVE IInv
  OBVIOUS
<1>1. /\ reader \in Readers /\ handle_socket = FirstFd /\ conn = 1 /\ gone = {} /\ made = 0
      /\ fdConn = [f \in Fds |-> IF f = FirstFd THEN 1 ELSE NoConn]
      /\ wire = [c \in Conns |-> << >>]
      /\ rcv = [c \in Conns |-> IF c = 1 THEN AtHead(Idle) ELSE Idle]
      /\ call = [t \in Threads |-> NoCall]
      /\ sent = [c \in Conns |-> << >>] /\ handed = [c \in Conns |-> << >>]
      /\ clean = [c \in Conns |-> TRUE]
  BY DEF Init
<1>2. FirstFd \in Fds /\ FirstFd # -1
  BY WireAssumption DEF FirstFd
<1>3. 1 \in Conns /\ MaxConns \in Nat /\ Cap \in Nat /\ MaxMsgs \in Nat
  BY WireAssumption DEF Conns
<1>4. Idle \in Rcv /\ Idle.at = "none" /\ Idle.got = << >> /\ Idle.need = HeadLen
  <2>1. HeadLen \in HeadLen .. Total /\ 0 \in 0 .. RetryMax
    BY Sizes, WireAssumption
  <2>2. << >> \in Seq(Units)
    BY EmptySeq
  <2> QED
    BY <2>1, <2>2 DEF Idle, Rcv
<1>5. /\ AtHead(Idle) \in Rcv /\ AtHead(Idle).at = "head" /\ AtHead(Idle).got = << >>
      /\ AtHead(Idle).need = HeadLen
  BY <1>4, AtHeadIs
<1>6. \A c \in Conns : /\ rcv[c] \in Rcv /\ rcv[c].got = << >> /\ rcv[c].need = HeadLen
                       /\ rcv[c].at \in {"none", "head"} /\ (c # 1 => rcv[c].at = "none")
  BY <1>1, <1>4, <1>5
<1>7. /\ Len(<< >>) = 0 /\ << >> \in Seq(Units) /\ << >> \in Seq(Msgs)
      /\ << >> \in Seq(Msgs \cup {Garbled}) /\ Total * 0 = 0
  BY EmptySeq, Sizes
<1>8. \A t \in Threads : ~Sending(t) /\ call[t] = NoCall /\ call[t].at = "out"
  BY <1>1 DEF Sending, NoCall
<1>9. TypeOK
  <2>1. rcv \in [Conns -> Rcv]
    BY <1>1, <1>4, <1>5
  <2>2. /\ wire \in [Conns -> Seq(Units)] /\ sent \in [Conns -> Seq(Msgs)]
        /\ handed \in [Conns -> Seq(Msgs \cup {Garbled})] /\ clean \in [Conns -> BOOLEAN]
        /\ call \in [Threads -> Calls \cup {NoCall}]
    BY <1>1, <1>7
  <2>3. \A c \in Conns : Room(c) >= 0
    BY <1>1, <1>3, <1>7 DEF Room
  <2>4. /\ fdConn \in [Fds -> Conns \cup {NoConn}] /\ made \in 0 .. MaxMsgs
        /\ conn \in Conns /\ gone \subseteq Conns /\ handle_socket \in Fds \cup {-1}
    BY <1>1, <1>2, <1>3
  <2> QED
    BY <1>1, <2>1, <2>2, <2>3, <2>4 DEF TypeOK, Rcv
<1>10. ConnInv
  BY <1>1, <1>2, <1>6 DEF ConnInv, Conns
<1>11. CallInv
  <2>1. \A c \in Conns : DOMAIN sent[c] = {}
    BY <1>1
  <2> QED
    BY <1>8, <2>1 DEF CallInv
<1>12. StreamInv
  <2> SUFFICES ASSUME NEW c \in Conns PROVE Flow(c) /\ Stands(c)
    BY DEF StreamInv
  <2>1. Len(rcv[c].got) = 0 /\ Len(wire[c]) = 0 /\ Len(sent[c]) = 0 /\ Whence(c) = 0
    BY <1>1, <1>6, <1>7 DEF Whence
  <2>2. Reached(c) = 0 /\ \A t \in Threads : ~Begun(t, c)
    BY <1>8, <2>1 DEF Reached, Begun
  <2>3. Flow(c)
    BY <1>7, <2>1, <2>2 DEF Flow, InOrder
  <2>4. Stands(c)
    BY <1>6, <2>1, Sizes DEF Stands
  <2> QED
    BY <2>3, <2>4
<1> QED
  BY <1>9, <1>10, <1>11, <1>12 DEF IInv

LEMMA NextIInv == IInv /\ [Next]_vars => IInv'
<1> SUFFICES ASSUME IInv, [Next]_vars PROVE IInv'
  OBVIOUS
<1>1. CASE Detach \/ Forget
  BY <1>1, DetachKeeps
<1>2. CASE Close \/ CloseClient
  BY <1>2, CloseKeeps
<1>3. CASE Connect
  BY <1>3, ConnectKeeps
<1>4. ASSUME NEW t \in Threads, SendMsg(t) \/ SendStep(t) \/ Interrupted(t)
      PROVE  IInv'
  <2>1. CASE SendMsg(t)
    BY <2>1, SendMsgKeeps
  <2>2. CASE SelectBad(t) \/ SendBroken(t) \/ Interrupted(t)
    BY <2>2, GiveUpKeeps DEF SelectBad, SendBroken, Interrupted
  <2>3. CASE SelectReady(t) \/ Block(t) \/ SelectTimeout(t)
    BY <2>3, SelectKeeps
  <2>4. CASE Put(t)
    BY <2>4, PutKeeps
  <2> QED
    BY <1>4, <2>1, <2>2, <2>3, <2>4 DEF SendStep
<1>5. ASSUME NEW c \in Conns, ReadStep(c) PROVE IInv'
  BY <1>5, ReceiveKeeps, ReaderStops DEF ReadStep
<1>6. CASE UNCHANGED vars
  <2>1. UNCHANGED <<reader, handle_socket, fdConn, conn, gone, wire, rcv, call, made, sent,
                    handed, clean>>
    BY <1>6 DEF vars, connVars
  <2>2. TypeOK' /\ ConnInv' /\ CallInv'
    BY <2>1 DEF IInv, TypeOK, Room, ConnInv, CallInv, Sending
  <2>3. StreamInv'
    <3> SUFFICES ASSUME NEW c \in Conns, clean[c], rcv[c].at # "closed"
                 PROVE  Flow(c)' /\ Stands(c)'
      BY <2>1 DEF StreamInv
    <3>1. Flow(c) /\ Stands(c)
      BY DEF IInv, StreamInv
    <3> QED
      BY <2>1, <3>1, FlowRests DEF Stands
  <2> QED
    BY <2>2, <2>3 DEF IInv
<1> QED
  BY <1>1, <1>2, <1>3, <1>4, <1>5, <1>6 DEF Next

LEMMA Invariant == Spec => []IInv
<1>1. Init => IInv
  BY InitIInv
<1>2. IInv /\ [Next]_vars => IInv'
  BY NextIInv
<1> QED
  BY <1>1, <1>2, PTL DEF Spec

\* How far a clean connection has got: to the end of what was sent, or to where the
\* message in hand is.
LEMMA ReachedFits ==
    ASSUME IInv, NEW c \in Conns, clean[c], rcv[c].at # "closed"
    PROVE  LET L == Len(sent[c])
           IN  /\ Reached(c) <= Total * L
               /\ IF {t \in Threads : Begun(t, c)} = {} THEN Reached(c) = Total * L
                  ELSE \E t \in {t \in Threads : Begun(t, c)} :
                          Reached(c) = Total * L - Total + call[t].put
<1> DEFINE L == Len(sent[c])
<1>1. TypeOK /\ Flow(c)
  BY DEF IInv, StreamInv
<1>2. L \in Nat
  BY <1>1, LenProperties DEF TypeOK
<1>3. /\ Total \in Nat /\ Total * L \in Nat
      /\ L > 0 => Total * (L - 1) \in Nat /\ Total * (L - 1) = Total * L - Total
  <2> HIDE DEF L
  <2>1. L > 0 => L - 1 \in Nat /\ L - 1 + 1 = L
    BY <1>2
  <2>2. L > 0 => Total * (L - 1) \in Nat /\ Total * L = Total * (L - 1) + Total
    BY <2>1, WhenceIs
  <2> QED
    BY <1>2, <2>2, WhenceIs, Sizes
<1>4. IF {t \in Threads : Begun(t, c)} = {} THEN Reached(c) = Total * L
      ELSE \E t \in {t \in Threads : Begun(t, c)} : Reached(c) = Total * L - Total + call[t].put
  <2>1. CASE \A t \in Threads : ~Begun(t, c)
    BY <1>1, <2>1 DEF Flow
  <2>2. ASSUME NEW t \in Threads, Begun(t, c) PROVE Reached(c) = Total * L - Total + call[t].put
    <3>1. L > 0 /\ Reached(c) = Total * (L - 1) + call[t].put
      BY <1>1, <2>2 DEF Flow
    <3> QED
      BY <1>3, <3>1
  <2> QED
    BY <2>1, <2>2
<1>5. Reached(c) <= Total * L
  <2>1. ASSUME NEW t \in Threads, Begun(t, c) PROVE Reached(c) <= Total * L
    <3>1. L > 0 /\ Reached(c) = Total * (L - 1) + call[t].put
      BY <1>1, <2>1 DEF Flow
    <3>2. call[t].put \in Nat /\ call[t].put < Total
      BY <1>1, <2>1, CallIs DEF Begun
    <3> HIDE DEF L
    <3> QED
      BY <1>3, <3>1, <3>2
  <2> QED
    BY <1>3, <1>4, <2>1
<1> QED
  BY <1>4, <1>5

\* What the invariant says of places it says of the stream.
LEMMA FlowMeans ==
    ASSUME IInv, NEW c \in Conns, clean[c], rcv[c].at # "closed"
    PROVE  LET from == Total * Len(handed[c])
               held == rcv[c].got \o wire[c]
               cut  == {t \in Threads : Begun(t, c)}
           IN  /\ from + Len(held) <= Len(Stream(c))
               /\ held = SubSeq(Stream(c), from + 1, from + Len(held))
               /\ IF cut = {} THEN from + Len(held) = Len(Stream(c))
                  ELSE \E t \in cut : from + Len(held) = Len(Stream(c)) - Total + call[t].put
<1> DEFINE w == Whence(c)
           g == rcv[c].got
           h == g \o wire[c]
           L == Len(sent[c])
           st == Stream(c)
<1>1. TypeOK /\ Flow(c)
  BY DEF IInv, StreamInv
<1>2. /\ sent[c] \in Seq(Msgs) /\ wire[c] \in Seq(Units) /\ g \in Seq(Units)
      /\ L \in Nat /\ Len(wire[c]) \in Nat /\ Len(g) \in Nat /\ w \in Nat
  <2>1. /\ sent[c] \in Seq(Msgs) /\ wire[c] \in Seq(Units) /\ g \in Seq(Units)
        /\ handed[c] \in Seq(Msgs \cup {Garbled})
    BY <1>1 DEF TypeOK
  <2>2. Len(handed[c]) \in Nat
    BY <2>1, LenProperties
  <2> QED
    BY <2>1, <2>2, LenProperties, WhenceIs DEF Whence
<1>3. InOrder(sent[c], w, h) /\ h \in Seq(Units) /\ Len(h) \in Nat /\ w + Len(h) = Reached(c)
  <2>1. InOrder(sent[c], w, g) /\ InOrder(sent[c], w + Len(g), wire[c])
    BY <1>1 DEF Flow
  <2>2. Reached(c) = w + Len(g) + Len(wire[c])
    BY DEF Reached
  <2> HIDE DEF w, g
  <2>3. InOrder(sent[c], w, h) /\ h \in Seq(Units) /\ Len(h) = Len(g) + Len(wire[c])
    BY <1>2, <2>1, OrderConcat
  <2> HIDE DEF h
  <2> DEFINE i == Len(g)
             j == Len(wire[c])
  <2>4. Len(h) = i + j /\ i \in Nat /\ j \in Nat /\ Reached(c) = w + i + j
    BY <1>2, <2>2, <2>3
  <2> HIDE DEF i, j
  <2>5. Len(h) \in Nat /\ w + Len(h) = Reached(c)
    BY <1>2, <2>4
  <2> QED
    BY <2>3, <2>5
<1>4. Total * L \in Nat
  BY <1>2, WhenceIs
<1>5. /\ Reached(c) <= Total * L
      /\ IF {t \in Threads : Begun(t, c)} = {} THEN Reached(c) = Total * L
         ELSE \E t \in {t \in Threads : Begun(t, c)} : Reached(c) = Total * L - Total + call[t].put
  BY ReachedFits
<1>7. DOMAIN st = 1 .. Total * L /\ \A k \in 1 .. Total * L : st[k] = Point(sent[c], k)
  BY DEF Stream, Point
<1>8. Len(st) = Total * L /\ \A k \in 1 .. Total * L : st[k] \in Units
  <2>1. ASSUME NEW k \in 1 .. Total * L PROVE st[k] \in Units
    <3>1. PICK q \in 0 .. L - 1, r \in 1 .. Total : k = Total * q + r
      BY <1>2, PlaceOf
    <3>2. q \in Nat /\ q + 1 \in 1 .. L
      BY <1>2
    <3>3. st[k] = <<sent[c][q + 1], r>>
      BY <1>7, <3>1, <3>2, PointAt
    <3>4. sent[c][q + 1] \in Msgs
      BY <1>2, <3>2, ElementOfSeq
    <3> QED
      BY <3>3, <3>4 DEF Units
  <2>2. st \in [1 .. Total * L -> Units]
    <3>1. st = [k \in 1 .. Total * L |-> st[k]]
      BY DEF Stream
    <3> HIDE DEF st
    <3> QED
      BY <2>1, <3>1
  <2>3. st \in Seq(Units)
    BY <1>4, <2>2, SeqDef
  <2> HIDE DEF st
  <2>4. DOMAIN st = 1 .. Len(st) /\ Len(st) \in Nat
    BY <2>3, LenProperties
  <2> QED
    BY <1>4, <1>7, <2>1, <2>4
<1> HIDE DEF st, L, w, h
<1>9. h = SubSeq(st, w + 1, w + Len(h))
  <2> DEFINE z == SubSeq(st, w + 1, w + Len(h))
  <2>1. w + 1 \in Int /\ w + Len(h) \in Int /\ w + Len(h) <= Total * L
    BY <1>2, <1>3, <1>5
  <2>2. \A k \in w + 1 .. w + Len(h) : st[k] \in Units
    <3>1. \A k \in w + 1 .. w + Len(h) : k \in 1 .. Total * L
      BY <1>2, <1>3, <1>4, <2>1
    <3> QED
      BY <1>8, <3>1
  <2>3. /\ z \in Seq(Units) /\ Len(z) = IF w + 1 <= w + Len(h) THEN (w + Len(h)) - (w + 1) + 1 ELSE 0
        /\ \A k \in 1 .. (w + Len(h)) - (w + 1) + 1 : z[k] = st[w + 1 + k - 1]
    <3> DEFINE a == w + 1
               b == w + Len(h)
    <3>1. a \in Int /\ b \in Int /\ \A k \in a .. b : st[k] \in Units
      BY <2>1, <2>2
    <3> HIDE DEF a, b
    <3>2. /\ SubSeq(st, a, b) \in Seq(Units)
          /\ Len(SubSeq(st, a, b)) = IF a <= b THEN b - a + 1 ELSE 0
          /\ \A k \in 1 .. b - a + 1 : SubSeq(st, a, b)[k] = st[a + k - 1]
      BY <3>1, SubSeqProperties
    <3> QED
      BY <3>2 DEF a, b
  <2> HIDE DEF z
  <2>4. Len(z) = Len(h)
    BY <1>2, <1>3, <2>3
  <2>5. ASSUME NEW k \in 1 .. Len(h) PROVE h[k] = z[k]
    <3>1. /\ k \in 1 .. (w + Len(h)) - (w + 1) + 1 /\ w + 1 + k - 1 = w + k
          /\ w + k \in 1 .. Total * L
      BY <1>2, <1>3, <1>4, <2>1
    <3>2. z[k] = st[w + k]
      BY <2>3, <3>1
    <3>3. h[k] = Point(sent[c], w + k)
      BY <1>3 DEF InOrder
    <3> QED
      BY <1>7, <3>1, <3>2, <3>3
  <2>6. h = z
    BY <1>3, <2>3, <2>4, <2>5, SeqEqual
  <2> QED
    BY <2>6 DEF z
<1>10. w + Len(h) <= Len(st)
  BY <1>3, <1>5, <1>8
<1>11. IF {t \in Threads : Begun(t, c)} = {} THEN w + Len(h) = Len(st)
       ELSE \E t \in {t \in Threads : Begun(t, c)} : w + Len(h) = Len(st) - Total + call[t].put
  BY <1>3, <1>5, <1>8
<1> QED
  BY <1>9, <1>10, <1>11 DEF st, w, h, Whence

\* While a connection is clean, what its reader has got and what is on the way are
\* the next part of the messages sent, and the reader stands at the boundary it
\* believes to be at (osa_socket.c:156-227, 242-293; osa_communication.c:427-446).
THEOREM StaysInStep == Spec => []InStep
<1>1. IInv => InStep
  <2> SUFFICES ASSUME IInv PROVE InStep
    OBVIOUS
  <2>1. ASSUME NEW c \in Conns, clean[c], rcv[c].at # "closed"
        PROVE  /\ IF rcv[c].at = "body" THEN rcv[c].need = Total /\ Len(rcv[c].got) >= HeadLen
                  ELSE rcv[c].need = HeadLen \/ rcv[c].got = << >>
               /\ Len(rcv[c].got) < rcv[c].need
    BY <2>1 DEF IInv, StreamInv, Stands
  <2>2. TypeOK
    BY DEF IInv
  <2> QED
    BY <2>1, <2>2, FlowMeans DEF InStep
<1> QED
  BY <1>1, Invariant, PTL

-----------------------------------------------------------------------------
(* The steps are those of MsgChannel *)

Closed == [c \in Conns |-> rcv[c].at = "closed"]

LEMMA SameClosed ==
    ASSUME \A c \in Conns : rcv'[c].at = "closed" <=> rcv[c].at = "closed"
    PROVE  Closed' = Closed
  BY DEF Closed

LEMMA Stutters ==
    ASSUME UNCHANGED <<sent, handed, clean>>, Closed' = Closed
    PROVE  UNCHANGED Channel!channelVars
  BY DEF Closed, Channel!channelVars

LEMMA Spoils ==
    ASSUME NEW C \in SUBSET Conns, UNCHANGED <<sent, handed>>, Closed' = Closed,
           clean' = [c \in Conns |-> clean[c] /\ c \notin C]
    PROVE  Channel!ChannelNext
<1>1. Channel!Spoil(C)
  BY DEF Closed, Channel!Spoil
<1> QED
  BY <1>1 DEF Channel!ChannelNext

LEMMA GiveUpSpoils ==
    ASSUME NEW t \in Threads, GiveUp(t)
    PROVE  Channel!ChannelNext
<1> DEFINE C == {c \in Conns : Begun(t, c)}
<1>1. UNCHANGED <<sent, handed, rcv>> /\ clean' = [c \in Conns |-> clean[c] /\ ~Begun(t, c)]
  BY DEF GiveUp
<1>2. Closed' = Closed
  BY <1>1, SameClosed
<1>3. clean' = [c \in Conns |-> clean[c] /\ c \notin C]
  BY <1>1
<1>4. C \in SUBSET Conns
  OBVIOUS
<1> HIDE DEF C
<1> QED
  BY <1>1, <1>2, <1>3, <1>4, Spoils

LEMMA BlockSpoils ==
    ASSUME NEW t \in Threads, Block(t)
    PROVE  Channel!ChannelNext
<1> DEFINE C == {d \in Conns : d \in {Target(t), call[t].via} /\ Strays(t, Target(t))}
<1>1. /\ UNCHANGED <<sent, handed, rcv>>
      /\ clean' = [d \in Conns |-> clean[d] /\ ~(d \in {Target(t), call[t].via} /\ Strays(t, Target(t)))]
  BY DEF Block
<1>2. Closed' = Closed
  BY <1>1, SameClosed
<1>3. clean' = [c \in Conns |-> clean[c] /\ c \notin C]
  BY <1>1
<1>4. C \in SUBSET Conns
  OBVIOUS
<1> HIDE DEF C
<1> QED
  BY <1>1, <1>2, <1>3, <1>4, Spoils

\* The first unit of a message begins it; a later one may spoil the connection.
LEMMA PutCarries ==
    ASSUME IInv, NEW t \in Threads, Put(t)
    PROVE  Channel!ChannelNext
<1>a. PICK c \in Conns : \E n \in 1 .. Left(t) : \E s \in After(t, n, c) : PutOn(t, c, n, s)
  BY PutIs
<1>1. /\ Sending(t) /\ UNCHANGED <<rcv, handed>>
      /\ sent' = IF call[t].put = 0 THEN [sent EXCEPT ![c] = Append(@, call[t].msg)] ELSE sent
      /\ clean' = [d \in Conns |->
            /\ clean[d]
            /\ d = c => \A u \in Threads \ {t} : ~Begun(u, c)
            /\ ~(d \in {c, call[t].via} /\ Strays(t, c))]
  BY <1>a DEF PutOn
<1>2. Closed' = Closed
  BY <1>1, SameClosed
<1>3. clean \in [Conns -> BOOLEAN] /\ sent \in [Conns -> Seq(Msgs)] /\ call[t].msg \in Msgs
  BY <1>1, CallIs DEF IInv, TypeOK
<1> DEFINE mixed == \E u \in Threads \ {t} : Begun(u, c)
<1>4. CASE call[t].put = 0
  <2> DEFINE m == call[t].msg
  <2>1. sent' = [sent EXCEPT ![c] = Append(@, m)]
    BY <1>1, <1>4
  <2>a. clean' = [d \in Conns |-> clean[d] /\ (d = c => \A u \in Threads \ {t} : ~Begun(u, c))]
    <3>1. ~Strays(t, c)
      BY <1>4 DEF Strays
    <3> QED
      BY <1>1, <3>1, Zenon
  <2>2. clean' \in {clean, [clean EXCEPT ![c] = FALSE]}
    <3>1. CASE mixed
      <4>1. clean' = [clean EXCEPT ![c] = FALSE]
        BY <1>3, <2>a, <3>1
      <4> QED
        BY <4>1
    <3>2. CASE ~mixed
      <4>1. clean' = clean
        BY <1>3, <2>a, <3>2
      <4> QED
        BY <4>1
    <3> QED
      BY <3>1, <3>2
  <2>3. \A e \in Conns : \A i \in DOMAIN sent[e] : sent[e][i] # m
    BY <1>1, <1>4 DEF IInv, CallInv
  <2>4. Channel!Isolated(m)
    BY <2>3 DEF Channel!Isolated
  <2>5. Channel!Send(c, m)
    BY <1>1, <1>2, <2>1, <2>2, <2>4 DEF Closed, Channel!Send
  <2> QED
    BY <1>3, <2>5 DEF Channel!ChannelNext
<1>5. CASE call[t].put # 0
  <2> DEFINE C == {e \in Conns : (e = c /\ mixed) \/ (e \in {c, call[t].via} /\ Strays(t, c))}
  <2>1. clean' = [e \in Conns |-> clean[e] /\ e \notin C]
    BY <1>1, <1>3
  <2>2. C \in SUBSET Conns /\ sent' = sent
    BY <1>1, <1>5
  <2> HIDE DEF C
  <2> QED
    BY <1>1, <1>2, <2>1, <2>2, Spoils
<1> QED
  BY <1>4, <1>5

\* A message is handed over whole, and is the next one.
LEMMA WholeNext ==
    ASSUME NEW s \in Seq(Msgs), NEW h \in Nat, h < Len(s), NEW g \in Seq(Units),
           Len(g) = Total, InOrder(s, Total * h, g)
    PROVE  Whole(g) = s[h + 1]
<1> DEFINE m == s[h + 1]
<1>1. h + 1 \in 1 .. Len(s) /\ Total \in Nat /\ Total >= 1
  BY LenProperties, Sizes
<1>2. m \in Msgs
  BY <1>1, ElementOfSeq
<1> HIDE DEF m
<1>3. ASSUME NEW i \in 1 .. Total PROVE g[i] = <<m, i>>
  <2>1. Point(s, Total * h + i) = <<s[h + 1], i>>
    BY PointAt
  <2> QED
    BY <2>1 DEF InOrder, m
<1>4. g = [i \in 1 .. Total |-> <<m, i>>]
  <2>1. g \in [1 .. Total -> Units]
    BY LenProperties
  <2> QED
    BY <1>3, <2>1
<1>5. g[1][1] = m
  <2>1. g[1] = <<m, 1>>
    BY <1>1, <1>3
  <2> QED
    BY <2>1
<1>6. Whole(g) = m
  BY <1>2, <1>4, <1>5 DEF Whole
<1> QED
  BY <1>6 DEF m

\* A whole message the reader has is one that was sent and not handed over.
LEMMA HandedLess ==
    ASSUME IInv, NEW c \in Conns, clean[c], rcv[c].at # "closed",
           Total * Len(handed[c]) + Total <= Reached(c)
    PROVE  Len(handed[c]) < Len(sent[c])
<1> DEFINE h == Len(handed[c])
           l == Len(sent[c])
<1>1. h \in Nat /\ l \in Nat
  BY LenProperties DEF IInv, TypeOK
<1>2. Reached(c) <= Total * l
  BY ReachedFits
<1>3. Reached(c) \in Int
  <2>1. /\ handed[c] \in Seq(Msgs \cup {Garbled}) /\ rcv[c].got \in Seq(Units)
        /\ wire[c] \in Seq(Units)
    BY DEF IInv, TypeOK
  <2>2. Len(rcv[c].got) \in Nat /\ Len(wire[c]) \in Nat /\ Whence(c) \in Nat
    BY <1>1, <2>1, LenProperties, WhenceIs DEF Whence
  <2> QED
    BY <2>2 DEF Reached
<1>4. Total * h + Total <= Reached(c)
  OBVIOUS
<1> HIDE DEF h, l
<1>5. Total \in Nat /\ Total > 0 /\ Total * h \in Nat /\ Total * l \in Nat
  BY <1>1, WhenceIs, Sizes
<1>6. ~(l = h)
  BY <1>2, <1>3, <1>4, <1>5
<1>7. ~(l < h)
  <2> SUFFICES ASSUME l < h PROVE FALSE
    OBVIOUS
  <2>1. Total * l + Total <= Total * h
    BY <1>1, TotalGrows
  <2> QED
    BY <1>2, <1>3, <1>4, <1>5, <2>1
<1> QED
  BY <1>1, <1>6, <1>7 DEF h, l

LEMMA ReceiveCarries ==
    ASSUME IInv, NEW c \in Conns, Receive(c)
    PROVE  [Channel!ChannelNext]_(Channel!channelVars)
<1>1. /\ Reading(c) /\ UNCHANGED <<sent, clean>> /\ rcv[c].at # "closed"
      /\ TypeOK /\ rcv \in [Conns -> Rcv] /\ rcv[c] \in Rcv
      /\ sent[c] \in Seq(Msgs) /\ Len(handed[c]) \in Nat
  <2>1. handed[c] \in Seq(Msgs \cup {Garbled})
    BY DEF IInv, TypeOK
  <2> QED
    BY <2>1, LenProperties DEF Receive, Reading, IInv, TypeOK, Rcv
<1>2. PICK n \in 1 .. Len(wire[c]) :
         /\ Len(Got(c, n)) <= rcv[c].need
         /\ IF Len(Got(c, n)) < rcv[c].need
              THEN rcv' = [rcv EXCEPT ![c].got = Got(c, n)] /\ UNCHANGED handed
              ELSE IF rcv[c].at = "head" THEN HeadIn(c, Got(c, n)) ELSE BodyIn(c, Got(c, n))
  BY DEF Receive, Got
<1> DEFINE g == Got(c, n)
<1>3. \A e \in Conns : rcv'[e].at = "closed" <=> rcv[e].at = "closed"
  <2>1. \E r : rcv' = [rcv EXCEPT ![c] = r] /\ r.at # "closed"
    <3>1. CASE Len(g) < rcv[c].need
      <4>1. rcv' = [rcv EXCEPT ![c] = [rcv[c] EXCEPT !.got = g]]
        BY <1>1, <1>2, <3>1
      <4>2. [rcv[c] EXCEPT !.got = g].at # "closed"
        BY <1>1 DEF Rcv
      <4> QED
        BY <4>1, <4>2
    <3>2. AtHead(rcv[c]).at # "closed"
      BY <1>1, AtHeadIs
    <3>3. CASE HeadIn(c, g) \/ BodyIn(c, g)
      BY <3>2, <3>3 DEF HeadIn, BodyIn
    <3> QED
      BY <1>2, <3>1, <3>3
  <2> QED
    BY <1>1, <2>1
<1>4. Closed' = Closed
  BY <1>3, SameClosed
<1>5. CASE handed' = handed
  BY <1>1, <1>4, <1>5, Stutters
<1>6. CASE handed' # handed
  <2>1. rcv[c].at # "head" /\ ~(Len(g) < rcv[c].need) /\ BodyIn(c, g)
    BY <1>2, <1>6 DEF HeadIn
  <2>2. g \in Seq(Units) /\ Len(g) \in Nat /\ rcv[c].need \in Nat /\ rcv[c].need > 0
    <3>1. g \in Seq(Units)
      BY Taking
    <3>2. rcv[c].need \in HeadLen .. Total
      BY <1>1 DEF Rcv
    <3> HIDE DEF g
    <3> QED
      BY <3>1, <3>2, LenProperties, Sizes
  <2>3. Len(g) = rcv[c].need
    <3>1. Len(g) <= rcv[c].need
      BY <1>2
    <3> HIDE DEF g
    <3> QED
      BY <2>1, <2>2, <3>1
  <2>4. handed' = [handed EXCEPT ![c] = Append(@, Whole(g))]
    BY <2>1 DEF BodyIn
  <2>5. CASE clean[c]
    <3>1. Flow(c) /\ Stands(c)
      BY <1>1, <2>5 DEF IInv, StreamInv
    <3>2. /\ InOrder(sent[c], Total * Len(handed[c]), g)
          /\ Reached(c) = Total * Len(handed[c]) + Len(g) + Len(Rest(c, n))
          /\ Rest(c, n) \in Seq(Units)
      BY <3>1, Taking DEF Whence
    <3>3. Len(g) = Total
      BY <1>1, <2>1, <2>3, <3>1 DEF Stands, Reading
    <3>4. Total * Len(handed[c]) + Total <= Reached(c)
      <4> DEFINE v == Rest(c, n)
                 a == Total * Len(handed[c])
      <4>1. a \in Nat /\ v \in Seq(Units) /\ Total \in Nat /\ Reached(c) = a + Total + Len(v)
        BY <1>1, <3>2, <3>3, WhenceIs, Sizes
      <4> HIDE DEF a, v
      <4>2. Len(v) \in Nat
        BY <4>1, LenProperties
      <4>3. a + Total <= Reached(c)
        BY <4>1, <4>2
      <4> QED
        BY <4>3 DEF a
    <3>5. Len(handed[c]) < Len(sent[c])
      BY <1>1, <2>5, <3>4, HandedLess
    <3> HIDE DEF g
    <3>6. Whole(g) = sent[c][Len(handed[c]) + 1]
      BY <1>1, <2>2, <3>2, <3>3, <3>5, WholeNext
    <3>7. handed' = [handed EXCEPT ![c] = Append(@, sent[c][Len(@) + 1])]
      BY <2>4, <3>6
    <3>8. Channel!Hand(c)
      BY <1>1, <1>4, <2>5, <3>5, <3>7 DEF Closed, Channel!Hand
    <3> QED
      BY <3>8 DEF Channel!ChannelNext
  <2>6. CASE ~clean[c]
    <3> HIDE DEF g
    <3>1. Whole(g) \in Msgs \cup {Garbled}
      BY <2>2, <2>3, WholeIs
    <3>2. \E m \in Msgs \cup {Garbled} : handed' = [handed EXCEPT ![c] = Append(@, m)]
      BY <2>4, <3>1
    <3>3. Channel!HandAny(c)
      BY <1>1, <1>4, <2>6, <3>2 DEF Closed, Channel!HandAny
    <3> QED
      BY <3>3 DEF Channel!ChannelNext
  <2> QED
    BY <2>5, <2>6
<1> QED
  BY <1>5, <1>6

LEMMA StopsCarry ==
    ASSUME IInv, NEW c \in Conns, Retry(c) \/ LastTimeout(c) \/ Eof(c)
    PROVE  [Channel!ChannelNext]_(Channel!channelVars)
<1>1. /\ UNCHANGED <<sent, handed>> /\ rcv[c].at \in {"head", "body"}
      /\ rcv \in [Conns -> Rcv] /\ clean \in [Conns -> BOOLEAN]
      /\ \/ UNCHANGED clean /\ rcv' = [rcv EXCEPT ![c].timeout_cnt = @ + 1]
         \/ Fail(c)
  BY DEF Retry, LastTimeout, Eof, Silent, Reading, IInv, TypeOK, Rcv
<1>2. CASE UNCHANGED clean /\ rcv' = [rcv EXCEPT ![c].timeout_cnt = @ + 1]
  <2>1. \A e \in Conns : rcv'[e].at = "closed" <=> rcv[e].at = "closed"
    BY <1>1, <1>2 DEF Rcv
  <2>2. Closed' = Closed
    BY <2>1, SameClosed
  <2> QED
    BY <1>1, <1>2, <2>2, Stutters
<1>3. CASE Fail(c) /\ reader = "server"
  <2>1. rcv' = [rcv EXCEPT ![c] = [Idle EXCEPT !.at = "closed"]] /\ UNCHANGED clean
    BY <1>3 DEF Fail
  <2>2. \A e \in Conns : rcv'[e].at = "closed" <=> e = c \/ rcv[e].at = "closed"
    BY <1>1, <2>1 DEF Rcv, Idle
  <2>3. Closed' = [Closed EXCEPT ![c] = TRUE]
    BY <2>2 DEF Closed
  <2>4. Channel!Close(c)
    BY <1>1, <2>1, <2>3 DEF Closed, Channel!Close
  <2> QED
    BY <2>4 DEF Channel!ChannelNext
<1>4. CASE Fail(c) /\ reader # "server"
  <2> DEFINE C == {e \in Conns : e = c /\ rcv[c].got # << >>}
  <2>1. /\ rcv' = [rcv EXCEPT ![c] = AtHead(rcv[c])]
        /\ clean' = [clean EXCEPT ![c] = @ /\ rcv[c].got = << >>]
    BY <1>4 DEF Fail
  <2>2. AtHead(rcv[c]).at = "head"
    BY <1>1, AtHeadIs
  <2>3. \A e \in Conns : rcv'[e].at = "closed" <=> rcv[e].at = "closed"
    BY <1>1, <2>1, <2>2
  <2>4. Closed' = Closed
    BY <2>3, SameClosed
  <2>5. clean' = [e \in Conns |-> clean[e] /\ e \notin C]
    BY <1>1, <2>1
  <2>6. C \in SUBSET Conns
    OBVIOUS
  <2> HIDE DEF C
  <2> QED
    BY <1>1, <2>4, <2>5, <2>6, Spoils
<1> QED
  BY <1>1, <1>2, <1>3, <1>4

LEMMA InitCarries == Init => Channel!ChannelInit
<1> SUFFICES ASSUME Init PROVE Channel!ChannelInit
  OBVIOUS
<1>1. /\ rcv = [c \in Conns |-> IF c = 1 THEN AtHead(Idle) ELSE Idle]
      /\ sent = [c \in Conns |-> << >>] /\ handed = [c \in Conns |-> << >>]
      /\ clean = [c \in Conns |-> TRUE]
  BY DEF Init
<1>2. AtHead(Idle).at = "head" /\ Idle.at = "none"
  BY DEF AtHead, Idle
<1>3. \A c \in Conns : ~(rcv[c].at = "closed")
  BY <1>1, <1>2
<1>4. Closed = [c \in Conns |-> FALSE]
  BY <1>3 DEF Closed
<1> QED
  BY <1>1, <1>4 DEF Closed, Channel!ChannelInit

LEMMA NextCarries == IInv /\ [Next]_vars => [Channel!ChannelNext]_(Channel!channelVars)
<1> SUFFICES ASSUME IInv, [Next]_vars PROVE [Channel!ChannelNext]_(Channel!channelVars)
  OBVIOUS
<1>1. ASSUME UNCHANGED <<sent, handed, clean, rcv>> PROVE UNCHANGED Channel!channelVars
  <2>1. Closed' = Closed
    BY <1>1, SameClosed
  <2> QED
    BY <1>1, <2>1, Stutters
<1>2. CASE Detach \/ Forget \/ Close \/ CloseClient
  BY <1>1, <1>2 DEF Detach, Forget, Close, CloseClient, Shut
<1>3. CASE Connect
  <2>1. UNCHANGED <<sent, handed, clean>> /\ rcv' = [rcv EXCEPT ![conn + 1] = AtHead(rcv[conn + 1])]
    BY <1>3 DEF Connect
  <2>2. /\ conn + 1 \in Conns /\ rcv \in [Conns -> Rcv] /\ rcv[conn + 1] \in Rcv
        /\ rcv[conn + 1].at = "none"
    <3>1. conn \in Nat /\ conn < MaxConns /\ MaxConns \in Nat /\ conn + 1 > conn
      BY <1>3, WireAssumption DEF Connect, IInv, TypeOK, ConnInv, Conns
    <3>2. conn + 1 \in Conns
      BY <3>1 DEF Conns
    <3>3. rcv \in [Conns -> Rcv]
      BY DEF IInv, TypeOK, Rcv
    <3> QED
      BY <3>1, <3>2, <3>3 DEF IInv, ConnInv
  <2>3. AtHead(rcv[conn + 1]).at = "head"
    BY <2>2, AtHeadIs
  <2>4. \A e \in Conns : rcv'[e].at = "closed" <=> rcv[e].at = "closed"
    BY <2>1, <2>2, <2>3
  <2>5. Closed' = Closed
    BY <2>4, SameClosed
  <2> QED
    BY <2>1, <2>5, Stutters
<1>4. ASSUME NEW t \in Threads, SendMsg(t) \/ SendStep(t) \/ Interrupted(t)
      PROVE  [Channel!ChannelNext]_(Channel!channelVars)
  <2>1. CASE SendMsg(t)
    BY <1>1, <2>1 DEF SendMsg
  <2>2. CASE GiveUp(t)
    BY <2>2, GiveUpSpoils
  <2>3. CASE Block(t)
    BY <2>3, BlockSpoils
  <2>6. CASE SelectReady(t)
    BY <1>1, <2>6 DEF SelectReady
  <2>4. CASE SelectTimeout(t) /\ ~GiveUp(t)
    BY <1>1, <2>4 DEF SelectTimeout
  <2>5. CASE Put(t)
    BY <2>5, PutCarries
  <2> QED
    BY <1>4, <2>1, <2>2, <2>3, <2>4, <2>5, <2>6 DEF SendStep, SelectBad, SendBroken, Interrupted
<1>5. ASSUME NEW c \in Conns, ReadStep(c) PROVE [Channel!ChannelNext]_(Channel!channelVars)
  BY <1>5, ReceiveCarries, StopsCarry DEF ReadStep
<1>6. CASE UNCHANGED vars
  BY <1>1, <1>6 DEF vars
<1> QED
  BY <1>2, <1>3, <1>4, <1>5, <1>6 DEF Next

\* Whatever the short sends and receives, the timeouts, the calls that cut in and the
\* reconnections, a connection behaves as MsgChannel has it: a message that comes out
\* of a clean connection is the next one sent, whole (osa_communication.c:427-483,
\* 846-861; osa_socket.c:174-227, 254-293).  The progress in Carries is not part of it.
THEOREM StepsCarry == Spec => Channel!ChannelInit /\ [][Channel!ChannelNext]_(Channel!channelVars)
<1>1. Init => Channel!ChannelInit
  BY InitCarries
<1>2. IInv /\ [Next]_vars => [Channel!ChannelNext]_(Channel!channelVars)
  BY NextCarries
<1> QED
  BY <1>1, <1>2, Invariant, PTL DEF Spec
=============================================================================
