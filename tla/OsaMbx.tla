------------------------------- MODULE OsaMbx -------------------------------
(***************************************************************************)
(* osa/src/osa_mbx.c over osa_msgq.c, with the tasks of osa_tsk.c as its   *)
(* users.  A mailbox is two message queues: one for messages, one in which *)
(* the messages its owner has sent come back acknowledged.  osa_msgq.c is  *)
(* the algorithm of osa_que.c with a fixed capacity, so a queue is a       *)
(* sequence here and a call on it one step (OsaQueProofs).                *)
(*                                                                         *)
(* Each task is one thread with a mailbox of its own.  A task to which     *)
(* somebody sends runs OSA_tskThrMain: it sends only while it handles a    *)
(* message.  The others send as they please.                               *)
(***************************************************************************)
EXTENDS Integers, Sequences, FiniteSets, Functions

CONSTANTS
    Tasks,
    Topologies, \* who sends to whom: relations on Tasks
    QLen,       \* OSA_MSGQ_LEN_MAX
    BroadcastMax,   \* OSA_MBX_BROADCAST_MAX
    MaxMsgs,    \* bound: message blocks allocated at once
    MaxPrms,    \* bound: parameters allocated at once
    NULL        \* no message, no parameter

Msgs == 1 .. MaxMsgs
Prms == 1 .. MaxPrms

ASSUME MbxAssumption ==
    /\ Topologies \subseteq SUBSET (Tasks \X Tasks)
    /\ {QLen, MaxMsgs, MaxPrms, BroadcastMax} \subseteq Nat
    /\ 0 < BroadcastMax /\ BroadcastMax - 1 <= QLen
    /\ NULL \notin Msgs \cup Prms
    /\ NULL \notin [from : Tasks, wait : BOOLEAN, prm : Prms \cup {NULL}]

VARIABLES
    sendsTo,    \* the relation in use
    rcvMbx,     \* each task's queue of messages
    ackMbx,     \* each task's queue of acknowledgements
    msg,        \* each message block, NULL when it is not allocated
    prmLive,    \* the parameters that are allocated
    at,         \* where each task is
    held,       \* the message each task has in hand
    call        \* the send or broadcast each task is in

queues == <<rcvMbx, ackMbx>>
memory == <<msg, prmLive>>
vars   == <<sendsTo, queues, memory, at, held, call>>

NoCall == [to |-> << >>, wait |-> FALSE, prm |-> NULL, sent |-> {}, all |-> FALSE]

Targets(t) == {u \in Tasks : <<t, u>> \in sendsTo}
Serves(t)  == \E u \in Tasks : t \in Targets(u)

Live == {m \in Msgs : msg[m] # NULL}
Least(S) == CHOOSE x \in S : \A y \in S : x <= y

Init ==
    /\ sendsTo \in Topologies
    /\ rcvMbx = [t \in Tasks |-> << >>]
    /\ ackMbx = [t \in Tasks |-> << >>]
    /\ msg = [m \in Msgs |-> NULL]
    /\ prmLive = {}
    /\ at = [t \in Tasks |-> "main"]
    /\ held = [t \in Tasks |-> NULL]
    /\ call = [t \in Tasks |-> NoCall]

-----------------------------------------------------------------------------
(* Sending: OSA_mbxSendMsg (all = FALSE) and OSA_mbxBroadcastMsg *)

MaySend(t) == at[t] = "held" \/ (at[t] = "main" /\ ~Serves(t))

\* The blocks allocated and still to be allocated by calls begun.
Wanted == Cardinality(Live)
            + SumFunctionOnSet([t \in Tasks |-> Len(call[t].to)], Tasks)

\* With OSA_MBX_FREE_PRM the caller has allocated the parameter.  A call begins
\* only within the bounds, so that no delivery is held up by them.
Begin(t, to, wait, free, all) ==
    /\ Wanted + Len(to) <= MaxMsgs
    /\ free => prmLive # Prms
    /\ LET prm == IF free THEN Least(Prms \ prmLive) ELSE NULL
       IN  /\ call' = [call EXCEPT ![t] = [to |-> to, wait |-> wait, prm |-> prm,
                                           sent |-> {}, all |-> all]]
           /\ prmLive' = prmLive \cup ({prm} \ {NULL})
    /\ at' = [at EXCEPT ![t] = "send"]
    /\ UNCHANGED <<sendsTo, queues, msg, held>>

Send(t) ==
    /\ MaySend(t)
    /\ \E u \in Targets(t), wait \in BOOLEAN, free \in BOOLEAN :
          Begin(t, <<u>>, wait, free, FALSE)

\* The lists of mailboxes a task can broadcast to.  A broadcast to one mailbox
\* does what a send does.
Lists(t) ==
    {list \in UNION {[1 .. n -> Targets(t)] : n \in 2 .. BroadcastMax - 1} :
        \A i, j \in DOMAIN list : i # j => list[i] # list[j]}

\* Without OSA_MBX_WAIT_ACK each receiver would free the parameters: refused.
Broadcast(t) ==
    /\ MaySend(t)
    /\ \E list \in Lists(t), wait \in BOOLEAN, free \in BOOLEAN :
          /\ free => wait
          /\ Begin(t, list, wait, free, TRUE)

\* Back in the handler, or in the thread that only sends.
Resume(t) == IF held[t] # NULL THEN "answer" ELSE "main"

\* OSA_msgqSendMsg to the next mailbox: allocate, then wait for room.
Deliver(t) ==
    /\ at[t] = "send"
    /\ Live # Msgs
    /\ LET c == call[t]
           u == Head(c.to)
           m == Least(Msgs \ Live)
           rest == [c EXCEPT !.to = Tail(@), !.sent = @ \cup {m}]
       IN  /\ Len(rcvMbx[u]) < QLen
           /\ msg' = [msg EXCEPT ![m] = [from |-> t, wait |-> c.wait, prm |-> c.prm]]
           /\ rcvMbx' = [rcvMbx EXCEPT ![u] = Append(@, m)]
           /\ call' = [call EXCEPT ![t] =
                          IF rest.to = << >> /\ ~c.wait THEN NoCall ELSE rest]
           /\ at' = [at EXCEPT ![t] = IF rest.to # << >> THEN "send"
                                      ELSE IF c.wait THEN "acks" ELSE Resume(t)]
    /\ UNCHANGED <<sendsTo, ackMbx, prmLive, held>>

FreeMsgHndl(m) == msg' = [msg EXCEPT ![m] = NULL]

TakeAck(t) == ackMbx' = [ackMbx EXCEPT ![t] = Tail(@)]

Finish(t) ==
    /\ at' = [at EXCEPT ![t] = Resume(t)]
    /\ call' = [call EXCEPT ![t] = NoCall]

\* The acknowledgement of another message fails an assertion.
SendAcked(t) ==
    /\ at[t] = "acks" /\ ~call[t].all /\ ackMbx[t] # << >>
    /\ TakeAck(t)
    /\ IF Head(ackMbx[t]) \in call[t].sent
         THEN /\ FreeMsgHndl(Head(ackMbx[t]))
              /\ prmLive' = prmLive \ {msg[Head(ackMbx[t])].prm}
              /\ Finish(t)
         ELSE at' = [at EXCEPT ![t] = "assert"] /\ UNCHANGED <<memory, call>>
    /\ UNCHANGED <<sendsTo, rcvMbx, held>>

\* Mutant: an acknowledged message is freed with its parameters.
BroadcastAckedFreeing(t) ==
    /\ at[t] = "acks" /\ call[t].all /\ ackMbx[t] # << >>
    /\ TakeAck(t)
    /\ LET m == Head(ackMbx[t])
           left == call[t].sent \ {m}
       IN  /\ FreeMsgHndl(m)
           /\ prmLive' = prmLive \ {msg[m].prm}
           /\ IF left = {} THEN Finish(t)
              ELSE call' = [call EXCEPT ![t].sent = left] /\ UNCHANGED at
    /\ UNCHANGED <<sendsTo, rcvMbx, held>>

\* Mutant: one acknowledgement is enough.
BroadcastAckedOnce(t) ==
    /\ at[t] = "acks" /\ call[t].all /\ ackMbx[t] # << >>
    /\ TakeAck(t)
    /\ FreeMsgHndl(Head(ackMbx[t]))
    /\ prmLive' = prmLive \ {call[t].prm}
    /\ Finish(t)
    /\ UNCHANGED <<sendsTo, rcvMbx, held>>

\* An acknowledgement nobody waits for is freed with its parameters, one that is
\* expected without: they go when all are in.
BroadcastAcked(t) ==
    /\ at[t] = "acks" /\ call[t].all /\ ackMbx[t] # << >>
    /\ TakeAck(t)
    /\ LET m == Head(ackMbx[t])
           left == call[t].sent \ {m}
           unknown == IF m \in call[t].sent THEN {} ELSE {msg[m].prm}
           last == IF left = {} THEN {call[t].prm} ELSE {}
       IN  /\ FreeMsgHndl(m)
           /\ prmLive' = prmLive \ (unknown \cup last)
           /\ IF left = {} THEN Finish(t)
              ELSE call' = [call EXCEPT ![t].sent = left] /\ UNCHANGED at
    /\ UNCHANGED <<sendsTo, rcvMbx, held>>

-----------------------------------------------------------------------------
(* Receiving: OSA_mbxWaitMsg, OSA_mbxWaitCmd, OSA_mbxFlush and the end of   *)
(* each message, OSA_mbxAckOrFreeMsg                                        *)

Take(t, place) ==
    /\ rcvMbx[t] # << >>
    /\ held' = [held EXCEPT ![t] = Head(rcvMbx[t])]
    /\ rcvMbx' = [rcvMbx EXCEPT ![t] = Tail(@)]
    /\ at' = [at EXCEPT ![t] = place]
    /\ UNCHANGED <<sendsTo, ackMbx, memory, call>>

\* OSA_tskThrMain hands the message to fncMain.
WaitMsg(t) == at[t] = "main" /\ Serves(t) /\ Take(t, "held")

\* With its message answered, fncMain may wait for a command or flush.
Enter(t, place) ==
    /\ at[t] = "main" /\ Serves(t)
    /\ at' = [at EXCEPT ![t] = place]
    /\ UNCHANGED <<sendsTo, queues, memory, held, call>>

\* Commands are not modelled.  A message has the one that is waited for, and is
\* kept for the caller or answered; or it has another, and is answered on the way.
WaitCmd(t) == at[t] = "cmd" /\ \E place \in {"held", "answer", "skip"} : Take(t, place)

\* Mutant: a message is freed without a look at its flags.
FlushMsgFreeing(t) ==
    /\ at[t] = "flush" /\ rcvMbx[t] # << >>
    /\ rcvMbx' = [rcvMbx EXCEPT ![t] = Tail(@)]
    /\ FreeMsgHndl(Head(rcvMbx[t]))
    /\ prmLive' = prmLive \ {msg[Head(rcvMbx[t])].prm}
    /\ UNCHANGED <<sendsTo, ackMbx, at, held, call>>

FlushMsg(t) == at[t] = "flush" /\ Take(t, "drop")

\* With no message left the acknowledgements that are there are freed.
FlushAcks(t) ==
    /\ at[t] = "flush" /\ rcvMbx[t] = << >>
    /\ LET acks == {ackMbx[t][i] : i \in DOMAIN ackMbx[t]}
       IN  /\ msg' = [m \in Msgs |-> IF m \in acks THEN NULL ELSE msg[m]]
           /\ prmLive' = prmLive \ {msg[m].prm : m \in acks}
    /\ ackMbx' = [ackMbx EXCEPT ![t] = << >>]
    /\ at' = [at EXCEPT ![t] = "main"]
    /\ UNCHANGED <<sendsTo, rcvMbx, held, call>>

\* Where a task goes on when the message in its hand is dealt with.
After == [held |-> "main", answer |-> "main", skip |-> "cmd", drop |-> "flush"]

PutDown(t) ==
    /\ at[t] \in DOMAIN After
    /\ at' = [at EXCEPT ![t] = After[at[t]]]
    /\ held' = [held EXCEPT ![t] = NULL]
    /\ UNCHANGED <<sendsTo, rcvMbx, call>>

\* Mutant: an acknowledged message is freed by the receiver as well.
AckFreeing(t) ==
    /\ PutDown(t)
    /\ LET m == held[t]
           from == msg[m].from
       IN  /\ msg[m].wait /\ Len(ackMbx[from]) < QLen
           /\ ackMbx' = [ackMbx EXCEPT ![from] = Append(@, m)]
           /\ FreeMsgHndl(m)
    /\ UNCHANGED prmLive

\* OSA_msgqSendAck waits for room.
Ack(t) ==
    /\ PutDown(t)
    /\ LET m == held[t]
           from == msg[m].from
       IN  /\ msg[m].wait /\ Len(ackMbx[from]) < QLen
           /\ ackMbx' = [ackMbx EXCEPT ![from] = Append(@, m)]
    /\ UNCHANGED memory

FreeMsg(t) ==
    /\ PutDown(t)
    /\ ~msg[held[t]].wait
    /\ FreeMsgHndl(held[t])
    /\ prmLive' = prmLive \ {msg[held[t]].prm}
    /\ UNCHANGED ackMbx

Run(t) ==
    \/ Deliver(t) \/ SendAcked(t) \/ BroadcastAcked(t)
    \/ WaitMsg(t) \/ WaitCmd(t) \/ FlushMsg(t) \/ FlushAcks(t)
    \/ Ack(t) \/ FreeMsg(t)

Next == \E t \in Tasks :
    Run(t) \/ Send(t) \/ Broadcast(t) \/ Enter(t, "cmd") \/ Enter(t, "flush")

\* A thread that can go on does.  Nobody has to send, and when two wait for room
\* in one queue nothing says which of them gets it.
Fairness == \A t \in Tasks : WF_vars(Run(t))

Spec == Init /\ [][Next]_vars /\ Fairness

-----------------------------------------------------------------------------
Sending(t) == at[t] \in {"send", "acks"}

\* Every variable has its type, and no queue is longer than its array.
TypeOK ==
    /\ sendsTo \in Topologies
    /\ \A q \in {rcvMbx, ackMbx} :
          q \in [Tasks -> Seq(Msgs)] /\ \A t \in Tasks : Len(q[t]) <= QLen
    /\ msg \in [Msgs -> [from : Tasks, wait : BOOLEAN, prm : Prms \cup {NULL}] \cup {NULL}]
    /\ prmLive \subseteq Prms
    /\ at \in [Tasks -> {"main", "send", "acks", "assert", "cmd", "flush"}
                            \cup DOMAIN After]
    /\ held \in [Tasks -> Msgs \cup {NULL}]
    /\ \A t \in Tasks :
          /\ call[t].to \in Seq(Tasks) /\ call[t].sent \subseteq Msgs
          /\ call[t].prm \in prmLive \cup {NULL}

\* The places where message m is.
Places(m) ==
    UNION {{<<"rcv", t, i>> : i \in {j \in DOMAIN rcvMbx[t] : rcvMbx[t][j] = m}}
             \cup {<<"ack", t, i>> : i \in {j \in DOMAIN ackMbx[t] : ackMbx[t][j] = m}}
             \cup (IF held[t] = m THEN {<<"held", t, 1>>} ELSE {}) : t \in Tasks}

\* A message block is in one place from its allocation to its only free
\* (osa_msgq.c:44-53, 148, osa_mbx.c:27-38, 217-234).
MsgInOnePlace ==
    /\ TypeOK
    /\ \A m \in Msgs : Cardinality(Places(m)) = IF m \in Live THEN 1 ELSE 0

\* Every acknowledgement in a mailbox is for a message its owner is waiting on,
\* so the assertion on messages out of order holds; and a task that acknowledges
\* finds room for it: its own sends alone can hold it up (osa_mbx.c:68-79,
\* osa_msgq.c:141, osa_mbx.h:11).
AcksExpected ==
    /\ \A t \in Tasks : at[t] # "assert"
    /\ \A t \in Tasks : \A i \in DOMAIN ackMbx[t] : ackMbx[t][i] \in call[t].sent
    /\ \A t \in Tasks : held[t] # NULL =>
          LET m == msg[held[t]] IN m.wait => Len(ackMbx[m.from]) < QLen

\* The parameters of a message are there as long as a receiver may read them or a
\* sender may still free them, and nobody else's (osa_mbx.c:27-38, 176-189).
PrmInUse ==
    /\ \A m \in Live : msg[m].prm # NULL => msg[m].prm \in prmLive
    /\ \A p \in prmLive : \/ \E m \in Live : msg[m].prm = p
                          \/ \E t \in Tasks : call[t].prm = p

\* Nobody has two senders, and sends lead back to nobody.
Tree ==
    /\ \A u \in Tasks : Cardinality({t \in Tasks : u \in Targets(t)}) <= 1
    /\ \A S \in SUBSET Tasks \ {{}} : \E u \in S : \A t \in S : u \notin Targets(t)

\* In such a system every send and broadcast returns, with acknowledgements or
\* without, whatever the receivers do with their messages: handle, flush, skip
\* (osa_mbx.c:62-84, 140-192).
SendsReturn == \A t \in Tasks : (Sending(t) /\ Tree) ~> ~Sending(t)
=============================================================================
