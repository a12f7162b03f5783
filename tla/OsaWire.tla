------------------------------ MODULE OsaWire ------------------------------
(***************************************************************************)
(* How messages travel on a connection: the two sends of                   *)
(* OSA_client_sendMsg and OSA_server_sendMsg, by any number of threads and *)
(* without a lock (osa_communication.c), carried out by                    *)
(* OSA_tcpSndNonblockFd and read by OSA_tcpRcvBlockFd (osa_socket.c), with *)
(* short sends and receives, timeouts, interrupts and reconnections.       *)
(*                                                                         *)
(* A message is a head of two units, the identifier and load_len, and a    *)
(* body.  A socket holds what has been sent and not yet received.          *)
(***************************************************************************)
EXTENDS Integers, Sequences, FiniteSets

CONSTANTS
    Threads,    \* the threads that send on the handle
    Fds,        \* the numbers the handle's socket can have
    Readers,    \* who may be at the other end
    BodyLen,    \* the units of a body
    Cap,        \* the units the two socket buffers hold
    TryMax,     \* 5 in the code
    RetryMax,   \* 2 in the code
    MaxMsgs,    \* bound: calls that send
    MaxConns    \* bound: connections

ASSUME WireAssumption ==
    /\ {BodyLen, Cap, MaxConns} \subseteq Nat \ {0}
    /\ {TryMax, RetryMax, MaxMsgs} \subseteq Nat
    /\ Fds \subseteq Nat /\ Fds # {}
    /\ \A f \in Fds : f >= 3
    /\ Readers \subseteq {"server", "client"}

Msgs    == 1 .. MaxMsgs
Conns   == 1 .. MaxConns
NoConn  == 0
Garbled == 0

HeadLen == 2
Total   == HeadLen + BodyLen
Units   == Msgs \X (1 .. Total)
NoCall  == [at |-> "out"]

VARIABLES
    reader,     \* the server's thread for a client that reconnects, or a client
                \* that does not, reading from its server
    handle_socket,  \* of the sender's handle
    fdConn,     \* the connection each number refers to
    conn,       \* the last connection made
    wire,       \* what each connection holds
    gone,       \* the connections the sender's process has closed
    rcv,        \* the reader of each connection
    call,       \* what each thread is sending
    made,       \* calls so far
    sent, handed, clean     \* history, as MsgChannel has it

connVars == <<handle_socket, fdConn, conn, gone>>
vars == <<reader, connVars, wire, rcv, call, made, sent, handed, clean>>

\* OSA_tcpRcvBlockFd is about to receive a head.
AtHead(r) == [r EXCEPT !.at = "head", !.got = << >>, !.need = HeadLen, !.timeout_cnt = 0]

Idle == [at |-> "none", got |-> << >>, need |-> HeadLen, timeout_cnt |-> 0]

FirstFd == CHOOSE f \in Fds : TRUE

Init ==
    /\ reader \in Readers
    /\ handle_socket = FirstFd
    /\ fdConn = [f \in Fds |-> IF f = FirstFd THEN 1 ELSE NoConn]
    /\ conn = 1
    /\ wire = [c \in Conns |-> << >>]
    /\ gone = {}
    /\ rcv = [c \in Conns |-> IF c = 1 THEN AtHead(Idle) ELSE Idle]
    /\ call = [t \in Threads |-> NoCall]
    /\ made = 0
    /\ sent = [c \in Conns |-> << >>]
    /\ handed = [c \in Conns |-> << >>]
    /\ clean = [c \in Conns |-> TRUE]

-----------------------------------------------------------------------------
(* A connection ends and another comes: the sender is a client that makes    *)
(* another one, as OsaClient has it, or a server that loses this client and  *)
(* accepts the next.                                                         *)

\* A client's socket goes to -1 before anything else happens.
Detach ==
    /\ reader = "server"
    /\ handle_socket # -1 /\ conn < MaxConns
    /\ handle_socket' = -1
    /\ UNCHANGED <<reader, fdConn, conn, gone, wire, rcv, call, made, sent, handed, clean>>

\* The socket is shut down and closed.
Shut ==
    /\ conn \notin gone
    /\ fdConn' = [f \in Fds |-> NoConn]
    /\ gone' = gone \cup {conn}
    /\ UNCHANGED <<reader, handle_socket, conn, wire, rcv, call, made, sent, handed, clean>>

Close == handle_socket = -1 /\ Shut

\* A server closes first: until Forget, those who send still read the number.
CloseClient == reader = "client" /\ handle_socket # -1 /\ conn < MaxConns /\ Shut

Forget ==
    /\ reader = "client"
    /\ handle_socket # -1 /\ conn \in gone
    /\ handle_socket' = -1
    /\ UNCHANGED <<reader, fdConn, conn, gone, wire, rcv, call, made, sent, handed, clean>>

\* socket and accept may return the number that was closed, or another if some
\* other part of the process has taken that one.  The server may accept before
\* Forget: the handle is that of the next client from then on.
Connect ==
    /\ conn \in gone /\ conn < MaxConns
    /\ handle_socket = -1 \/ reader = "client"
    /\ conn' = conn + 1
    /\ \E f \in Fds :
          /\ fdConn' = [fdConn EXCEPT ![f] = conn + 1]
          /\ handle_socket' = f
    /\ rcv' = [rcv EXCEPT ![conn + 1] = AtHead(@)]
    /\ UNCHANGED <<reader, gone, wire, call, made, sent, handed, clean>>

-----------------------------------------------------------------------------
(* OSA_client_sendMsg, OSA_server_sendMsg *)

Sending(t) == call[t].at # "out"

\* The socket is read under the handle's mutex, once.
SendMsg(t) ==
    /\ ~Sending(t)
    /\ handle_socket # -1 /\ made < MaxMsgs
    /\ made' = made + 1
    /\ call' = [call EXCEPT ![t] =
            [at |-> "select", msg |-> made + 1, fd |-> handle_socket, put |-> 0,
             via |-> NoConn, set |-> TRUE, tries |-> 0]]
    /\ UNCHANGED <<reader, connVars, wire, rcv, sent, handed, clean>>

Room(c) == Cap - Len(wire[c])

\* A message that has been begun and not ended is on the connection.
Begun(t, c) == Sending(t) /\ call[t].put > 0 /\ call[t].via = c

\* The call gives up, with what it has put left behind.
GiveUp(t) ==
    /\ call' = [call EXCEPT ![t] = NoCall]
    /\ clean' = [c \in Conns |-> clean[c] /\ ~Begun(t, c)]
    /\ UNCHANGED <<reader, connVars, wire, rcv, made, sent, handed>>

(* OSA_tcpSndNonblockFd *)

Selecting(t) == call[t].at = "select"
Target(t)    == fdConn[call[t].fd]

\* The number is not open any more.
SelectBad(t) == Selecting(t) /\ Target(t) = NoConn /\ GiveUp(t)

Writable(c) == Room(c) > 0 \/ rcv[c].at = "closed"

SelectReady(t) ==
    /\ Selecting(t) /\ Target(t) # NoConn
    /\ call[t].set /\ Writable(Target(t))
    /\ call' = [call EXCEPT ![t].at = "send"]
    /\ UNCHANGED <<reader, connVars, wire, rcv, made, sent, handed, clean>>

\* Mutant: a timeout is not counted.
SelectTimeoutUncounted(t) ==
    /\ Selecting(t) /\ Target(t) # NoConn
    /\ ~call[t].set \/ ~Writable(Target(t))
    /\ call' = [call EXCEPT ![t].set = FALSE]
    /\ UNCHANGED <<reader, connVars, wire, rcv, made, sent, handed, clean>>

\* select leaves the set empty when it times out, and the set is not filled
\* again: all later tries wait for nothing.
SelectTimeout(t) ==
    /\ Selecting(t) /\ Target(t) # NoConn
    /\ ~call[t].set \/ ~Writable(Target(t))
    /\ IF call[t].tries > TryMax THEN GiveUp(t)
       ELSE /\ call' = [call EXCEPT ![t].set = FALSE, ![t].tries = @ + 1]
            /\ UNCHANGED <<reader, connVars, wire, rcv, made, sent, handed, clean>>

\* What the part of the message that is being sent still lacks.
Left(t) == (IF call[t].put < HeadLen THEN HeadLen ELSE Total) - call[t].put

\* Mutant: the buffer does not move on after a short send.
TakenAgain(t, n) ==
    LET from == IF call[t].put < HeadLen THEN 0 ELSE HeadLen
    IN  [i \in 1 .. n |-> <<call[t].msg, from + i>>]

Taken(t, n) == [i \in 1 .. n |-> <<call[t].msg, call[t].put + i>>]

\* The call after n more units on c: it stays in send, which blocks until the part
\* is out, or comes back short; a part that is out is followed by the next one.
After(t, n, c) ==
    LET on == [call[t] EXCEPT !.put = @ + n, !.via = c]
    IN  IF n < Left(t)           THEN {[on EXCEPT !.at = "sending"], [on EXCEPT !.at = "select"]}
        ELSE IF on.put = HeadLen THEN {[on EXCEPT !.at = "select", !.set = TRUE, !.tries = 0]}
        ELSE {NoCall}

\* send looks its number up again, after select has answered for what it referred
\* to then, and keeps to what it finds while it blocks.
Facing(t) == IF call[t].at = "sending" THEN call[t].via ELSE Target(t)

\* The number refers to another connection by now: the rest of the message goes
\* there.
Strays(t, c) == call[t].put > 0 /\ call[t].via # c

Open(c) == c \in Conns \ gone /\ rcv[c].at # "closed"

InSend(t) == call[t].at \in {"send", "sending"}

\* send takes what there is room for.
Put(t) ==
    LET c == Facing(t)
    IN  /\ InSend(t) /\ Open(c)
        /\ \E n \in 1 .. Left(t) :
              /\ n <= Room(c) /\ n \in {Left(t), Room(c)}
              /\ wire' = [wire EXCEPT ![c] = @ \o Taken(t, n)]
              /\ \E s \in After(t, n, c) : call' = [call EXCEPT ![t] = s]
        /\ sent' = IF call[t].put = 0 THEN [sent EXCEPT ![c] = Append(@, call[t].msg)] ELSE sent
        /\ clean' = [d \in Conns |->
              /\ clean[d]
              /\ d = c => \A u \in Threads \ {t} : ~Begun(u, c)
              /\ ~(d \in {c, call[t].via} /\ Strays(t, c))]
        /\ UNCHANGED <<reader, connVars, rcv, made, handed>>

\* Another call has taken the room.
Block(t) ==
    LET c == Target(t)
    IN  /\ call[t].at = "send" /\ Open(c) /\ Room(c) = 0
        /\ call' = [call EXCEPT ![t].at = "sending", ![t].via = c]
        /\ clean' = [d \in Conns |-> clean[d] /\ ~(d \in {c, call[t].via} /\ Strays(t, c))]
        /\ UNCHANGED <<reader, connVars, wire, rcv, made, sent, handed>>

SendBroken(t) == InSend(t) /\ ~Open(Facing(t)) /\ GiveUp(t)

\* A signal ends select, or a send that has not moved anything.
Interrupted(t) == Sending(t) /\ GiveUp(t)

SendStep(t) ==
    \/ SelectBad(t) \/ SelectReady(t) \/ SelectTimeout(t)
    \/ Put(t) \/ Block(t) \/ SendBroken(t)

-----------------------------------------------------------------------------
(* OSA_processClient_thread and OSA_client_processThr, through               *)
(* OSA_tcpRcvBlockFd                                                         *)

Reading(c) == rcv[c].at \in {"head", "body"}

\* client_check_msgHead: the identifier, and a load_len above zero.  load_len is
\* what the sender wrote, unless something else is in its place.
LoadLens(head) ==
    IF head[1][2] # 1       THEN {}
    ELSE IF head[2][2] = 2  THEN {BodyLen}
    ELSE 1 .. BodyLen

\* A head that is refused leaves ret at 0: the reader goes on with what follows.
HeadIn(c, got) ==
    /\ \/ /\ LoadLens(got) = {} \/ got[2][2] # 2
          /\ rcv' = [rcv EXCEPT ![c] = AtHead(@)]
       \/ \E n \in LoadLens(got) :
             rcv' = [rcv EXCEPT ![c] = [at |-> "body", got |-> got, need |-> HeadLen + n,
                                        timeout_cnt |-> 0]]
    /\ UNCHANGED handed

\* The message whose units these are, if they are those of one message.
Whole(got) ==
    IF \E m \in Msgs : got = [i \in 1 .. Total |-> <<m, i>>] THEN got[1][1] ELSE Garbled

BodyIn(c, got) ==
    /\ handed' = [handed EXCEPT ![c] = Append(@, Whole(got))]
    /\ rcv' = [rcv EXCEPT ![c] = AtHead(@)]

Receive(c) ==
    /\ Reading(c)
    /\ \E n \in 1 .. Len(wire[c]) :
          LET got == rcv[c].got \o SubSeq(wire[c], 1, n)
          IN  /\ Len(got) <= rcv[c].need
              /\ wire' = [wire EXCEPT ![c] = SubSeq(@, n + 1, Len(@))]
              /\ IF Len(got) < rcv[c].need
                   THEN rcv' = [rcv EXCEPT ![c].got = got] /\ UNCHANGED handed
                   ELSE IF rcv[c].at = "head" THEN HeadIn(c, got) ELSE BodyIn(c, got)
    /\ UNCHANGED <<reader, connVars, call, made, sent, clean>>

\* The server gives the connection up.  A client that does not reconnect looks
\* for a head where it stopped.
Fail(c) ==
    IF reader = "server"
      THEN rcv' = [rcv EXCEPT ![c] = [Idle EXCEPT !.at = "closed"]] /\ UNCHANGED clean
      ELSE /\ rcv' = [rcv EXCEPT ![c] = AtHead(@)]
           /\ clean' = [clean EXCEPT ![c] = @ /\ rcv[c].got = << >>]

Silent(c) == Reading(c) /\ wire[c] = << >> /\ c \notin gone

\* Mutant: a receive that timed out starts over.
RetryFromStart(c) ==
    /\ Silent(c)
    /\ rcv[c].timeout_cnt < RetryMax
    /\ rcv' = [rcv EXCEPT ![c].timeout_cnt = @ + 1,
                          ![c].got = IF rcv[c].at = "head" THEN << >> ELSE SubSeq(@, 1, HeadLen)]
    /\ UNCHANGED <<reader, connVars, wire, call, made, sent, handed, clean>>

\* A few timeouts are borne, with what has come kept; the next one is not.
Retry(c) ==
    /\ Silent(c)
    /\ rcv[c].timeout_cnt < RetryMax
    /\ rcv' = [rcv EXCEPT ![c].timeout_cnt = @ + 1]
    /\ UNCHANGED <<reader, connVars, wire, call, made, sent, handed, clean>>

LastTimeout(c) ==
    /\ Silent(c)
    /\ rcv[c].timeout_cnt = RetryMax
    /\ Fail(c)
    /\ UNCHANGED <<reader, connVars, wire, call, made, sent, handed>>

Eof(c) ==
    /\ Reading(c) /\ wire[c] = << >> /\ c \in gone
    /\ Fail(c)
    /\ UNCHANGED <<reader, connVars, wire, call, made, sent, handed>>

ReadStep(c) == Receive(c) \/ Retry(c) \/ LastTimeout(c) \/ Eof(c)

-----------------------------------------------------------------------------
Next ==
    \/ Detach \/ Close \/ CloseClient \/ Forget \/ Connect
    \/ \E t \in Threads : SendMsg(t) \/ SendStep(t) \/ Interrupted(t)
    \/ \E c \in Conns : ReadStep(c)

\* The threads run.  Nothing makes the application send or a connection end.
Fairness ==
    /\ \A t \in Threads : WF_vars(SendStep(t))
    /\ \A c \in Conns : WF_vars(ReadStep(c))

Spec == Init /\ [][Next]_vars /\ Fairness

-----------------------------------------------------------------------------
Calls ==
    [at : {"select", "send", "sending"}, msg : Msgs, fd : Fds, put : 0 .. Total - 1,
     via : Conns \cup {NoConn}, set : BOOLEAN, tries : 0 .. TryMax + 1]

\* Every variable has its type.
TypeOK ==
    /\ reader \in Readers
    /\ handle_socket \in Fds \cup {-1}
    /\ fdConn \in [Fds -> Conns \cup {NoConn}]
    /\ conn \in Conns /\ gone \subseteq Conns
    /\ wire \in [Conns -> Seq(Units)] /\ \A c \in Conns : Room(c) >= 0
    /\ rcv \in [Conns -> [at : {"none", "head", "body", "closed"}, got : Seq(Units),
                          need : HeadLen .. Total, timeout_cnt : 0 .. RetryMax]]
    /\ call \in [Threads -> Calls \cup {NoCall}]
    /\ made \in 0 .. MaxMsgs
    /\ sent \in [Conns -> Seq(Msgs)] /\ handed \in [Conns -> Seq(Msgs \cup {Garbled})]
    /\ clean \in [Conns -> BOOLEAN]

\* What is to pass on a connection if nothing spoils it.
Stream(c) ==
    [k \in 1 .. Total * Len(sent[c]) |->
        <<sent[c][(k - 1) \div Total + 1], ((k - 1) % Total) + 1>>]

\* While a connection is clean, what its reader has got and what is on the way are
\* the next part of the messages sent, none lost or repeated at a short send, a
\* short receive or a timeout, and the reader stands at the boundary it believes
\* to be at (osa_socket.c:156-227, 242-293; osa_communication.c:427-446).
InStep ==
    /\ TypeOK
    /\ \A c \in Conns :
          LET from == Total * Len(handed[c])
              held == rcv[c].got \o wire[c]
              cut  == {t \in Threads : Begun(t, c)}
          IN  clean[c] /\ rcv[c].at # "closed" =>
                /\ from + Len(held) <= Len(Stream(c))
                /\ held = SubSeq(Stream(c), from + 1, from + Len(held))
                /\ IF cut = {} THEN from + Len(held) = Len(Stream(c))
                   ELSE \E t \in cut : from + Len(held) = Len(Stream(c)) - Total + call[t].put
                /\ IF rcv[c].at = "body" THEN rcv[c].need = Total /\ Len(rcv[c].got) >= HeadLen
                   ELSE rcv[c].need = HeadLen \/ rcv[c].got = << >>
                /\ Len(rcv[c].got) < rcv[c].need

Channel == INSTANCE MsgChannel WITH closed <- [c \in Conns |-> rcv[c].at = "closed"]

\* A connection hands over what was sent on it, whole, once and in order, through
\* short sends and receives and timeouts, until a call fails midway, another call
\* cuts in, or a reader gives up midway; and nothing else spoils it
\* (osa_communication.c:427-483, 846-861; osa_socket.c:174-227, 254-293).
Carries == Channel!ChannelSpec

\* Every call returns, although its retries cannot succeed and its send blocks
\* (osa_socket.c:174-199).
SendReturns == \A t \in Threads : Sending(t) ~> ~Sending(t)
=============================================================================
