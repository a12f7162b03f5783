--------------------------- MODULE OsaClientProofs --------------------------
(***************************************************************************)
(* What OsaClient guarantees for any descriptors and any kind of client:   *)
(* through reconnections, heartbeats and OSA_client_destory, descriptors   *)
(* do not pile up, the handle shows none that is closed and is not freed   *)
(* under the connecting thread.                                            *)
(***************************************************************************)
EXTENDS OsaClient, FiniteSetTheorems, TLAPS

-----------------------------------------------------------------------------
(* The two sockets, the connecting thread and the handle *)

\* The thread has attached its socket to the handle and not yet detached it.
Attached == {"status", "loop", "recv", "leave"}

\* What is open is what client_socket names, until it is shut down; the handle shows
\* that or nothing.
SocketsInv ==
    /\ handle_socket \in Fds \cup {-1, 0} /\ client_socket \in Fds \cup {-1}
    /\ open = IF pc \in {"abor", "done"} THEN {} ELSE {client_socket} \ {-1}
    /\ pc \in {"start", "socket"} => client_socket = -1
    /\ IF pc \in Attached THEN handle_socket = client_socket ELSE handle_socket \in {-1, 0}

\* Only the connecting thread at its start, or OSA_client_destory after that thread's
\* last step, frees the handle.
HandleInv ==
    /\ pc \in {"start", "repeat", "close", "socket", "attach", "status", "loop",
               "recv", "leave", "shutdown", "abor", "done"}
    /\ handle \in {"live", "freed"}
    /\ client_status \in {"CLIENT_DISCONNECT", "CLIENT_CONNECT", "CLIENT_ABOR"}
    /\ handle = "freed" \/ client_status = "CLIENT_ABOR" => pc = "done"

SafeInv == SocketsInv /\ HandleInv

LEMMA SafeInit == Init => SafeInv
  BY DEF Init, SafeInv, SocketsInv, HandleInv, Attached

LEMMA SafeStep == SafeInv /\ [Next]_vars => SafeInv'
<1> SUFFICES ASSUME SafeInv, [Next]_vars
             PROVE  SafeInv'
  OBVIOUS
<1> USE ClientAssumption DEF SafeInv, SocketsInv, HandleInv, Attached, sockets
<1>1. CASE Start
  BY <1>1 DEF Start
<1>2. CASE Repeat
  BY <1>2 DEF Repeat
<1>3. CASE CloseOld
  BY <1>3 DEF CloseOld
<1>4. CASE Connect
  <2>1. pc' \in {"attach", "repeat"}
    BY <1>4, Zenon DEF Connect
  <2>2. CASE UNCHANGED <<client_socket, open>>
    BY <1>4, <2>1, <2>2 DEF Connect
  <2>3. CASE \E f \in Fds \ open : client_socket' = f /\ open' = open \cup {f}
    BY <1>4, <2>1, <2>3 DEF Connect
  <2> QED
    BY <1>4, <2>2, <2>3 DEF Connect
<1>5. CASE Attach
  BY <1>5 DEF Attach
<1>6. CASE SetConnect
  BY <1>6 DEF SetConnect
<1>7. CASE Loop
  BY <1>7 DEF Loop
<1>8. CASE Receive
  BY <1>8 DEF Receive
<1>9. CASE ReceiveFails
  BY <1>9 DEF ReceiveFails
<1>10. CASE Leave
  BY <1>10 DEF Leave
<1>11. CASE Shutdown
  BY <1>11 DEF Shutdown
<1>12. CASE SetAbor
  BY <1>12 DEF SetAbor
<1>13. CASE Heart
  BY <1>13 DEF Heart, HeartStart, HeartCheck, HeartSend, HeartAstray
<1>14. CASE Destory
  BY <1>14 DEF Destory
<1>15. CASE Free
  BY <1>15 DEF Free
<1>16. CASE DestoryAstray
  BY <1>16 DEF DestoryAstray
<1>17. CASE UNCHANGED vars
  BY <1>17 DEF vars
<1> QED
  BY <1>1, <1>2, <1>3, <1>4, <1>5, <1>6, <1>7, <1>8, <1>9, <1>10, <1>11, <1>12, <1>13,
     <1>14, <1>15, <1>16, <1>17, Zenon DEF Next, Process

LEMMA SafeAlways == Spec => []SafeInv
  BY SafeInit, SafeStep, PTL DEF Spec

\* OSA_client_destory does not free the handle under the connecting thread, and a
\* handle that goes leaves no descriptor open (osa_communication.c:1095-1098,
\* 1156-1166).
THEOREM HandleFreedLast == Spec => []ProcessBeforeFree
<1>1. SafeInv => ProcessBeforeFree
  BY DEF SafeInv, SocketsInv, HandleInv, ProcessBeforeFree
<1> QED
  BY <1>1, SafeAlways, PTL

\* A sender that finds a socket in the handle finds one that is open
\* (osa_communication.c:938, 1087, 1095).
THEOREM HandleShowsOpenSocket == Spec => []HandleSocketOpen
<1>1. SafeInv => HandleSocketOpen
  BY ClientAssumption DEF SafeInv, SocketsInv, HandleInv, Attached, HandleSocketOpen
<1> QED
  BY <1>1, SafeAlways, PTL

-----------------------------------------------------------------------------
(* One descriptor, with the types *)

\* The types that SafeInv does not need.
OtherTypes ==
    /\ <<client_type, recon_flag>> \in Kinds
    /\ up \in BOOLEAN
    /\ hpc \in HeartSteps \cup {"none", "done", "astray"}
    /\ app \in {"idle", "wait", "done", "astray"}

LEMMA TypesInit == Init => OtherTypes
<1> SUFFICES ASSUME Init
             PROVE  OtherTypes
  OBVIOUS
<1>1. <<client_type, recon_flag>> \in Kinds
  BY ClientAssumption DEF Init
<1>2. up \in BOOLEAN
  BY Zenon DEF Init
<1> QED
  BY <1>1, <1>2 DEF Init, OtherTypes

LEMMA TypesStep == OtherTypes /\ [Next]_vars => OtherTypes'
<1> SUFFICES ASSUME OtherTypes, [Next]_vars
             PROVE  OtherTypes'
  OBVIOUS
<1>1. <<client_type', recon_flag'>> \in Kinds
  <2>1. UNCHANGED initParam
    BY Zenon DEF Next, Process, Start, Repeat, CloseOld, Connect, Attach, SetConnect, Loop,
          Receive, ReceiveFails, Leave, Shutdown, SetAbor, Heart, HeartStart, HeartCheck,
          HeartSend, HeartAstray, Destory, Free, DestoryAstray, vars
  <2> QED
    BY <2>1 DEF initParam, OtherTypes
<1>2. up' \in BOOLEAN
  <2>1. up \in BOOLEAN
    BY Zenon DEF OtherTypes
  <2>2. CASE Connect
    BY <2>2, Zenon DEF Connect
  <2>3. CASE ReceiveFails
    BY <2>1, <2>3, Zenon DEF ReceiveFails
  <2>4. CASE ~Connect /\ ~ReceiveFails
    BY <2>1, <2>4, Zenon
       DEF Next, Process, Start, Repeat, CloseOld, Attach, SetConnect, Loop,
           Receive, Leave, Shutdown, SetAbor, Heart, HeartStart, HeartCheck,
           HeartSend, HeartAstray, Destory, Free, DestoryAstray, vars, sockets
  <2> QED
    BY <2>2, <2>3, <2>4
<1>3. hpc' \in HeartSteps \cup {"none", "done", "astray"}
  BY DEF OtherTypes, HeartSteps, Next, Process, Start, Repeat, CloseOld, Connect, Attach,
         SetConnect, Loop, Receive, ReceiveFails, Leave, Shutdown, SetAbor, Heart,
         HeartStart, HeartCheck, HeartSend, HeartAstray, Destory, Free, DestoryAstray, vars
<1>4. app' \in {"idle", "wait", "done", "astray"}
  BY DEF OtherTypes, Next, Process, Start, Repeat, CloseOld, Connect, Attach,
         SetConnect, Loop, Receive, ReceiveFails, Leave, Shutdown, SetAbor, Heart,
         HeartStart, HeartCheck, HeartSend, HeartAstray, Destory, Free, DestoryAstray, vars
<1> QED
  BY <1>1, <1>2, <1>3, <1>4, Zenon DEF OtherTypes

\* However often it reconnects, a client has at most one descriptor open
\* (osa_communication.c:940-948).
THEOREM OneSocketAtATime == Spec => []OneSocket
<1>1. Spec => []OtherTypes
  BY TypesInit, TypesStep, PTL DEF Spec
<1>2. SafeInv /\ OtherTypes => OneSocket
  <2> SUFFICES ASSUME SafeInv, OtherTypes
               PROVE  OneSocket
    OBVIOUS
  <2>1. Cardinality(open) <= 1
    <3>1. Cardinality({}) = 0 /\ Cardinality({client_socket}) = 1
      BY FS_EmptySet, FS_Singleton, Zenon
    <3>2. open = {} \/ open = {client_socket}
      BY DEF SafeInv, SocketsInv
    <3> QED
      BY <3>1, <3>2
  <2>2. up \in BOOLEAN
    BY Zenon DEF OtherTypes
  <2>3. open \subseteq Fds
    BY DEF SafeInv, SocketsInv
  <2> QED
    BY <2>1, <2>2, <2>3 DEF SafeInv, SocketsInv, HandleInv, OtherTypes, OneSocket, TypeOK
<1> QED
  BY <1>1, <1>2, SafeAlways, PTL

-----------------------------------------------------------------------------
(* The heartbeat *)

\* Until OSA_client_destory is called, a thread that has been connected finds the
\* status as it has set it, and so does a heartbeat that has once found it so.
BeatInv ==
    app = "idle" =>
        /\ pc \in {"loop", "recv"} \/ hpc \in {"send", "check"} => client_status = "CLIENT_CONNECT"
        /\ pc \notin {"leave", "shutdown", "abor"}

LEMMA BeatInit == Init => BeatInv
  BY DEF Init, BeatInv

LEMMA BeatStep == BeatInv /\ [Next]_vars => BeatInv'
<1> SUFFICES ASSUME BeatInv, [Next]_vars
             PROVE  BeatInv'
  OBVIOUS
<1> USE DEF BeatInv
<1>1. CASE Start \/ Repeat \/ CloseOld \/ Attach \/ SetConnect \/ Loop \/ Receive
           \/ ReceiveFails \/ Leave \/ Shutdown \/ SetAbor
  BY <1>1 DEF Start, Repeat, CloseOld, Attach, SetConnect, Loop, Receive, ReceiveFails,
              Leave, Shutdown, SetAbor
<1>2. CASE Connect
  <2>1. pc' \in {"attach", "repeat"}
    BY <1>2, Zenon DEF Connect
  <2> QED
    BY <1>2, <2>1 DEF Connect
<1>3. CASE Heart
  BY <1>3 DEF Heart, HeartStart, HeartCheck, HeartSend, HeartAstray
<1>4. CASE Destory \/ Free \/ DestoryAstray
  BY <1>4 DEF Destory, Free, DestoryAstray
<1>5. CASE UNCHANGED vars
  BY <1>5 DEF vars
<1> QED
  BY <1>1, <1>2, <1>3, <1>4, <1>5, Zenon DEF Next, Process

\* The heart that has begun to beat goes on until OSA_client_destory is called,
\* through every reconnection (osa_communication.c:885, 1086).
THEOREM HeartGoesOn == Spec => HeartKeepsBeating
<1>1. Spec => []BeatInv
  BY BeatInit, BeatStep, PTL DEF Spec
<1>2. BeatInv /\ [Next]_vars => [hpc = "check" /\ hpc' = "done" => app # "idle"]_vars
  BY DEF BeatInv, Next, Process, Start, Repeat, CloseOld, Connect, Attach,
         SetConnect, Loop, Receive, ReceiveFails, Leave, Shutdown, SetAbor, Heart,
         HeartStart, HeartCheck, HeartSend, HeartAstray, Destory, Free, DestoryAstray, vars
<1> QED
  BY <1>1, <1>2, PTL DEF Spec, HeartKeepsBeating
=============================================================================
