----------------------------- MODULE OsaClient -----------------------------
(***************************************************************************)
(* The client half of communication/osa_communication.c: one handle shared *)
(* by the application's thread (OSA_client_init, OSA_client_destory), the  *)
(* thread that connects and receives (OSA_client_processThr) and, for a    *)
(* message client, the heartbeat (OSA_heart_process).                      *)
(*                                                                         *)
(* A field of the handle is read or written under mutex_handle, one at a   *)
(* time, so an action has at most one such access.                         *)
(***************************************************************************)
EXTENDS Integers, FiniteSets

CONSTANTS
    Kinds,  \* the <<client_type, recon_flag>> that clients are created with
    Fds     \* the descriptors socket can return

ASSUME ClientAssumption ==
    /\ Kinds \subseteq {"MSG_TYPE", "STREAM_TYPE"} \X {0, 1}
    /\ Fds \subseteq Nat
    /\ \A f \in Fds : f >= 3     \* stdin, stdout and stderr are open

VARIABLES
    client_type, recon_flag,    \* of init_param
    handle,         \* "live" or "freed"
    client_status,  \* of the handle
    handle_socket,  \* the handle's client_socket
    client_socket,  \* the variable of the connecting thread
    open,           \* the descriptors the process has open
    up,             \* whether the last socket is connected, as far as is known
    pc,             \* where the connecting thread is
    hpc,            \* where the heartbeat thread is
    app             \* where the application is

initParam == <<client_type, recon_flag>>
sockets   == <<handle_socket, client_socket, open, up>>
vars      == <<initParam, handle, client_status, sockets, pc, hpc, app>>

\* OSA_client_init has cleared the handle and created the connecting thread.
Init ==
    /\ \E kind \in Kinds : client_type = kind[1] /\ recon_flag = kind[2]
    /\ handle = "live"
    /\ client_status = "CLIENT_DISCONNECT"
    /\ handle_socket = 0
    /\ client_socket = -1
    /\ open = {}
    /\ up = FALSE
    /\ pc = "start"
    /\ hpc = "none"
    /\ app = "idle"

-----------------------------------------------------------------------------
(* OSA_client_processThr *)

\* A message client gets a heartbeat.  When that thread cannot be created, or a
\* stream client has no get_emptybuf, the handle is freed and nobody is told.
Start ==
    /\ pc = "start"
    /\ \/ /\ pc' = "repeat"
          /\ hpc' = IF client_type = "MSG_TYPE" THEN "asleep" ELSE "none"
          /\ UNCHANGED handle
       \/ pc' = "done" /\ handle' = "freed" /\ UNCHANGED hpc
    /\ UNCHANGED <<initParam, client_status, sockets, app>>

\* REPEAT_CONNECT
Repeat ==
    /\ pc = "repeat"
    /\ handle_socket' = -1
    /\ pc' = "close"
    /\ UNCHANGED <<initParam, handle, client_status, client_socket, open, up, hpc, app>>

\* Mutant: the connection that failed is not closed.
ForgetOld ==
    /\ pc = "close"
    /\ client_socket' = -1
    /\ pc' = "socket"
    /\ UNCHANGED <<initParam, handle, client_status, handle_socket, open, up, hpc, app>>

CloseOld ==
    /\ pc = "close"
    /\ open' = open \ {client_socket}
    /\ client_socket' = -1
    /\ pc' = "socket"
    /\ UNCHANGED <<initParam, handle, client_status, handle_socket, up, hpc, app>>

\* socket and OSA_connetBlockFd.  Either may fail; only a client that reconnects
\* then tries again, the other goes on with a socket that is of no use.
Connect ==
    /\ pc = "socket"
    /\ \/ /\ \E f \in Fds \ open : client_socket' = f /\ open' = open \cup {f}
          /\ up' \in BOOLEAN
       \/ UNCHANGED <<client_socket, open>> /\ up' = FALSE
    /\ pc' = IF up' \/ recon_flag = 0 THEN "attach" ELSE "repeat"
    /\ UNCHANGED <<initParam, handle, client_status, handle_socket, hpc, app>>

Attach ==
    /\ pc = "attach"
    /\ handle_socket' = client_socket
    /\ pc' = "status"
    /\ UNCHANGED <<initParam, handle, client_status, client_socket, open, up, hpc, app>>

\* Whatever the status was.  set_reClient_socket then stores what Attach stored.
SetConnect ==
    /\ pc = "status"
    /\ client_status' = "CLIENT_CONNECT"
    /\ pc' = "loop"
    /\ UNCHANGED <<initParam, handle, sockets, hpc, app>>

\* Mutant: only a client that has ended its loop is not looping.
LoopUntilAbor ==
    /\ pc = "loop"
    /\ pc' = IF client_status # "CLIENT_ABOR" THEN "recv" ELSE "leave"
    /\ UNCHANGED <<initParam, handle, client_status, sockets, hpc, app>>

Loop ==
    /\ pc = "loop"
    /\ pc' = IF client_status = "CLIENT_CONNECT" THEN "recv" ELSE "leave"
    /\ UNCHANGED <<initParam, handle, client_status, sockets, hpc, app>>

\* A header and a body arrive, or a header that is refused.
Receive ==
    /\ pc = "recv" /\ up
    /\ pc' = "loop"
    /\ UNCHANGED <<initParam, handle, client_status, sockets, hpc, app>>

\* Mutant: with the line that is commented out, the status goes down as well.
ReceiveFailsDisconnect ==
    /\ pc = "recv"
    /\ IF recon_flag = 1
         THEN handle_socket' = -1 /\ pc' = "repeat"
              /\ client_status' = "CLIENT_DISCONNECT"
         ELSE pc' = "loop" /\ UNCHANGED <<handle_socket, client_status>>
    /\ UNCHANGED <<initParam, handle, client_socket, open, up, hpc, app>>

\* The peer is gone, or silent for three receive timeouts.
ReceiveFails ==
    /\ pc = "recv"
    /\ IF recon_flag = 1
         THEN handle_socket' = -1 /\ pc' = "repeat"
         ELSE pc' = "loop" /\ UNCHANGED handle_socket
    /\ up' \in {up, FALSE}
    /\ UNCHANGED <<initParam, handle, client_status, client_socket, open, hpc, app>>

\* Mutant: the socket is closed while the handle still shows it.
LeaveClosing ==
    /\ pc = "leave"
    /\ open' = open \ {client_socket}
    /\ pc' = "shutdown"
    /\ UNCHANGED <<initParam, handle, client_status, handle_socket, client_socket, up, hpc, app>>

Leave ==
    /\ pc = "leave"
    /\ handle_socket' = -1
    /\ pc' = "shutdown"
    /\ UNCHANGED <<initParam, handle, client_status, client_socket, open, up, hpc, app>>

Shutdown ==
    /\ pc = "shutdown"
    /\ open' = open \ {client_socket}
    /\ pc' = "abor"
    /\ UNCHANGED <<initParam, handle, client_status, handle_socket, client_socket, up, hpc, app>>

SetAbor ==
    /\ pc = "abor"
    /\ client_status' = "CLIENT_ABOR"
    /\ pc' = "done"
    /\ UNCHANGED <<initParam, handle, sockets, hpc, app>>

Process ==
    \/ Start \/ Repeat \/ CloseOld \/ Connect \/ Attach \/ SetConnect
    \/ Loop \/ Receive \/ ReceiveFails \/ Leave \/ Shutdown \/ SetAbor

-----------------------------------------------------------------------------
(* OSA_heart_process *)

HeartSteps == {"asleep", "first", "send", "check"}

\* sleep(3), then init_param is copied from the handle.
HeartStart ==
    /\ hpc = "asleep" /\ handle = "live"
    /\ hpc' = "first"
    /\ UNCHANGED <<initParam, handle, client_status, sockets, pc, app>>

HeartCheck ==
    /\ hpc \in {"first", "check"} /\ handle = "live"
    /\ hpc' = IF client_status = "CLIENT_CONNECT" THEN "send" ELSE "done"
    /\ UNCHANGED <<initParam, handle, client_status, sockets, pc, app>>

\* OSA_client_sendMsg sends on the socket it finds in the handle, if there is
\* one; the result is not looked at.
HeartSend ==
    /\ hpc = "send" /\ handle = "live"
    /\ hpc' = "check"
    /\ UNCHANGED <<initParam, handle, client_status, sockets, pc, app>>

\* Nobody waits for the heartbeat before the handle is freed.
HeartAstray ==
    /\ hpc \in HeartSteps /\ handle = "freed"
    /\ hpc' = "astray"
    /\ UNCHANGED <<initParam, handle, client_status, sockets, pc, app>>

Heart == HeartStart \/ HeartCheck \/ HeartSend \/ HeartAstray

-----------------------------------------------------------------------------
(* OSA_client_destory *)

Destory ==
    /\ app = "idle" /\ handle = "live"
    /\ client_status' = "CLIENT_DISCONNECT"
    /\ app' = "wait"
    /\ UNCHANGED <<initParam, handle, sockets, pc, hpc>>

\* Mutant: any status but connected is taken for the end of the thread.
FreeOnceDisconnected ==
    /\ app = "wait" /\ handle = "live"
    /\ client_status # "CLIENT_CONNECT"
    /\ handle' = "freed"
    /\ app' = "done"
    /\ UNCHANGED <<initParam, client_status, sockets, pc, hpc>>

Free ==
    /\ app = "wait" /\ handle = "live"
    /\ client_status = "CLIENT_ABOR"
    /\ handle' = "freed"
    /\ app' = "done"
    /\ UNCHANGED <<initParam, client_status, sockets, pc, hpc>>

\* The connecting thread has freed the handle at its start.
DestoryAstray ==
    /\ app \in {"idle", "wait"} /\ handle = "freed"
    /\ app' = "astray"
    /\ UNCHANGED <<initParam, handle, client_status, sockets, pc, hpc>>

Next == Process \/ Heart \/ Destory \/ Free \/ DestoryAstray

\* Every wait of the two threads ends: the sleeps, connect, and the receive
\* timeout.  Nothing makes the application destroy the client.
Fairness == WF_vars(Process) /\ WF_vars(Heart) /\ WF_vars(Free)

Spec == Init /\ [][Next]_vars /\ Fairness

-----------------------------------------------------------------------------
\* Every variable has its type.
TypeOK ==
    /\ <<client_type, recon_flag>> \in Kinds
    /\ handle \in {"live", "freed"}
    /\ client_status \in {"CLIENT_DISCONNECT", "CLIENT_CONNECT", "CLIENT_ABOR"}
    /\ handle_socket \in Fds \cup {-1, 0}
    /\ client_socket \in Fds \cup {-1}
    /\ open \subseteq Fds
    /\ up \in BOOLEAN
    /\ pc \in {"start", "repeat", "close", "socket", "attach", "status", "loop",
               "recv", "leave", "shutdown", "abor", "done"}
    /\ hpc \in HeartSteps \cup {"none", "done", "astray"}
    /\ app \in {"idle", "wait", "done", "astray"}

\* When the handle has gone the connecting thread has gone too, and has left no
\* connection behind (osa_communication.c:1095-1098, 1156-1166).
ProcessBeforeFree == handle = "freed" => pc = "done" /\ open = {}

\* However often it reconnects, a client has at most one descriptor open
\* (osa_communication.c:940-948).
OneSocket == TypeOK /\ Cardinality(open) <= 1

\* A sender that finds a socket in the handle finds one that is open: the field
\* goes to -1 before each close (osa_communication.c:938, 1087, 1095).
HandleSocketOpen == handle_socket >= 3 => handle_socket \in open

\* Once it beats the heart survives every reconnection; only OSA_client_destory
\* stops it (osa_communication.c:885, 1086).
HeartKeepsBeating ==
    [][hpc = "check" /\ hpc' = "done" => app # "idle"]_vars

\* A client that does not reconnect and is in its receive loop when it is told to
\* stop does stop, and OSA_client_destory returns
\* (osa_communication.c:979, 1154-1164).
StopsOnceConnected ==
    (/\ recon_flag = 0 /\ app = "wait"
     /\ pc \in {"loop", "recv"} /\ client_status = "CLIENT_DISCONNECT")
        ~> app = "done"

\* A message client that is connected sends heartbeats: "it hava beartheart so it
\* can not happend so long time have no msg" (socket/osa_socket.c:276).
ConnectedBeats ==
    (client_type = "MSG_TYPE" /\ client_status = "CLIENT_CONNECT" /\ app = "idle")
        ~> (hpc = "send" \/ app # "idle")
=============================================================================
