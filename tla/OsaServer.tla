----------------------------- MODULE OsaServer -----------------------------
(***************************************************************************)
(* The server half of communication/osa_communication.c: the application's *)
(* thread (OSA_server_sendBuf, _printfInfo, _destory), the accepting       *)
(* thread (OSA_server_thread) and one detached thread per connection       *)
(* (OSA_processClient_thread), which share the server handle, the list of  *)
(* client handles, each client's buffer pool and the process's fd table.   *)
(*                                                                         *)
(* list_mutex is held across steps only by OSA_server_sendBuf, and         *)
(* mutex_handle only by OSA_server_printfInfo, so each lock is held when   *)
(* the application is at one of that call's steps.                         *)
(***************************************************************************)
EXTENDS BufPool, FiniteSets, SequencesExt

CONSTANTS
    Scenarios,      \* what OSA_server_init may be called with, and two bounds:
                    \* peers that connect, and calls of OSA_server_sendBuf
    MayFail         \* whether OSA_createTcpFd, OSA_mutexCreate, OSA_bufCreate and
                    \* the allocation in list_push_back may fail

ASSUME ServerAssumption ==
    /\ Scenarios \subseteq [server_type : {"STREAM_TYPE", "MSG_TYPE"},
                           buf_num : Nat \ {0}, max_client : Nat \ {0},
                           peers : Nat, frames : Nat]
    /\ IsFiniteSet(Scenarios)
    /\ MayFail \in BOOLEAN

MaxConns  == Max({s.peers : s \in Scenarios})
MaxFrames == Max({s.frames : s \in Scenarios})

Conns  == 1 .. MaxConns     \* a connection, its client handle and its thread
Fds    == 1 .. MaxConns     \* the descriptors accept can return
Frames == 1 .. MaxFrames    \* the n-th frame sent; for one client, also the
                            \* block of memory server_fill_buf copies it into
NULL == 0
NoConn == 0

VARIABLES
    init_param,     \* of the handle, with the bounds
    server_status,
    handle,         \* "live", or "freed" by OSA_server_destory
    clientList,     \* clientList_Hndl: its nodes
    nSize,          \* and the size its head gives
    unlisted,       \* history: the clients that list_push_back had no memory for
    srvPc, srvConn, client_size,    \* the accepting thread
    appPc, appAt, appBuf, frame,    \* the application: the client whose node it is
                                    \* at, the buffer it fills, the frame it sends
    pc,             \* each client thread
    socket,         \* of each client handle, -1 once given up
    client_socket,  \* the thread's local copy
    status,         \* of each client handle
    buf_id,         \* the thread's local
    pool,           \* clientBuf_Hndl's two queues
    data,           \* clientBuf_Hndl.bufInfo[].data
    freed,          \* the blocks of each client that have been freed
    sent,           \* the last frame each client thread has sent
    fdOwner,        \* the connection each descriptor refers to
    struck,         \* history: the connections that another's thread has closed
    broken          \* undefined behaviour or a failed assertion was met

handleVars == <<init_param, server_status, handle, clientList, nSize, unlisted>>
srvVars    == <<srvPc, srvConn, client_size>>
appVars    == <<appPc, appAt, appBuf, frame>>
sockVars   == <<socket, client_socket, fdOwner, struck>>
bufVars    == <<buf_id, pool, data, freed, sent>>
cliVars    == <<pc, status, sockVars, bufVars>>
vars       == <<handleVars, srvVars, appVars, cliVars, broken>>

NumBuf   == init_param.buf_num
IsStream == init_param.server_type = "STREAM_TYPE"

Init ==
    /\ init_param \in Scenarios
    /\ server_status = "SERVER_STAR"        \* memset 0
    /\ handle = "live"
    /\ clientList = << >> /\ nSize = 0 /\ unlisted = {}
    /\ srvPc = "bind" /\ srvConn = NoConn /\ client_size = 0
    /\ appPc = "idle" /\ appAt = NoConn /\ appBuf = OSA_BUF_ID_INVALID /\ frame = 0
    /\ pc = [c \in Conns |-> "none"]
    /\ socket = [c \in Conns |-> -1]
    /\ client_socket = [c \in Conns |-> -1]
    /\ status = [c \in Conns |-> "CLIENT_DISCONNECT"]
    /\ buf_id = [c \in Conns |-> OSA_BUF_ID_INVALID]
    /\ pool = [c \in Conns |-> [empty |-> << >>, full |-> << >>]]
    /\ data = [c \in Conns |-> [b \in Ids(NumBuf) |-> NULL]]
    /\ freed = [c \in Conns |-> {}]
    /\ sent = [c \in Conns |-> 0]
    /\ fdOwner = [f \in Fds |-> NoConn] /\ struck = {}
    /\ broken = "no"

FillSteps == {"fill", "alloc", "assert", "copy", "put"}
list_mutexFree   == appPc \notin FillSteps
mutex_handleFree == appPc # "walk"

\* Nothing is said of what follows a use of freed memory, a store through NULL
\* or an assertion that fails: the model stops there.
Break(why) == broken' = why /\ UNCHANGED <<handleVars, srvVars, appVars, cliVars>>

-----------------------------------------------------------------------------
(* OSA_server_thread *)

SrvBind ==
    /\ srvPc = "bind"
    /\ \/ srvPc' = "start"
       \/ MayFail /\ srvPc' = "dead"    \* returns without SERVER_ABOR
    /\ UNCHANGED <<handleVars, srvConn, client_size, appVars, cliVars, broken>>

SrvStart ==
    /\ srvPc = "start" /\ mutex_handleFree
    /\ server_status' = "SERVER_STAR"
    /\ srvPc' = "check"
    /\ UNCHANGED <<init_param, handle, clientList, nSize, unlisted, srvConn, client_size, appVars,
                   cliVars, broken>>

SrvCheck ==
    /\ srvPc = "check" /\ mutex_handleFree
    /\ srvPc' = IF server_status = "SERVER_STAR" THEN "accept" ELSE "abor"
    /\ UNCHANGED <<handleVars, srvConn, client_size, appVars, cliVars, broken>>

\* accept returns the lowest descriptor that is free.
LowestFree(f) == fdOwner[f] = NoConn /\ \A g \in 1 .. f - 1 : fdOwner[g] # NoConn

\* OSA_acceptNonblockFd gives up after five seconds, or a peer has connected.
SrvAccept ==
    /\ srvPc = "accept"
    /\ \/ /\ srvPc' = "check"
          /\ UNCHANGED <<srvConn, client_socket, fdOwner>>
       \/ /\ srvConn < init_param.peers
          /\ srvConn' = srvConn + 1
          /\ \E f \in Fds : /\ LowestFree(f)
                            /\ fdOwner' = [fdOwner EXCEPT ![f] = srvConn + 1]
                            /\ client_socket' = [client_socket EXCEPT ![srvConn + 1] = f]
          /\ srvPc' = "size"
    /\ UNCHANGED <<handleVars, client_size, appVars, pc, socket, struck, status, bufVars, broken>>

\* The size of the list is read under mutex_handle, not list_mutex.
SrvSize ==
    /\ srvPc = "size" /\ mutex_handleFree
    /\ client_size' = nSize
    /\ srvPc' = "admit"
    /\ UNCHANGED <<handleVars, srvConn, appVars, cliVars, broken>>

\* A client that is not admitted, for lack of room, memory or a thread, keeps
\* its descriptor open.
SrvAdmit ==
    /\ srvPc = "admit" /\ mutex_handleFree
    /\ \/ /\ client_size < init_param.max_client /\ server_status = "SERVER_STAR"
          /\ pc' = [pc EXCEPT ![srvConn] = "init"]
          /\ socket' = [socket EXCEPT ![srvConn] = client_socket[srvConn]]
       \/ UNCHANGED <<pc, socket>>
    /\ srvPc' = "check"
    /\ UNCHANGED <<handleVars, srvConn, client_size, appVars, status, client_socket, fdOwner,
                   struck, bufVars, broken>>

SrvAbor ==
    /\ srvPc = "abor"
    /\ server_status' = "SERVER_ABOR"
    /\ srvPc' = "done"
    /\ UNCHANGED <<init_param, handle, clientList, nSize, unlisted, srvConn, client_size, appVars,
                   cliVars, broken>>

Srv == SrvBind \/ SrvStart \/ SrvCheck \/ SrvAccept \/ SrvSize \/ SrvAdmit \/ SrvAbor

-----------------------------------------------------------------------------
(* OSA_processClient_thread *)

ToPc(c, p) == pc' = [pc EXCEPT ![c] = p]

\* Mutant: the thread does not look at the server's status.
LoopingRegardless(c) == status[c] = "CLIENT_CONNECT"

\* The loop runs while the client is connected and the server not stopped.
Looping(c) == status[c] = "CLIENT_CONNECT" /\ server_status = "SERVER_STAR"

\* Without a mutex the thread ends at once: the connection stays open and the
\* client handle stays allocated.  The result of OSA_bufCreate is lost: the thread
\* goes on without a pool.
CliInit(c) ==
    /\ pc[c] = "init" /\ handle = "live"
    /\ \/ /\ status' = [status EXCEPT ![c] = "CLIENT_CONNECT"]
          /\ \/ IsStream /\ pool' = [pool EXCEPT ![c] = NewPool(NumBuf)]
             \/ (~IsStream \/ MayFail) /\ UNCHANGED pool
          /\ ToPc(c, "push")
       \/ /\ MayFail
          /\ ToPc(c, "gone")
          /\ UNCHANGED <<status, pool>>
    /\ UNCHANGED <<handleVars, srvVars, appVars, sockVars, buf_id, data, freed, sent, broken>>

\* list_push_back.  When there is no memory for a node behind others, it has raised
\* the size already; and it looks for the last node because the size says there is one.
PushBack(c) ==
    IF nSize # 0 /\ clientList = << >> THEN Break("NULL node")
    ELSE /\ \/ /\ clientList' = Append(clientList, c) /\ nSize' = nSize + 1
             /\ UNCHANGED unlisted
          \/ /\ MayFail
             /\ nSize' = IF nSize = 0 THEN 0 ELSE nSize + 1
             /\ unlisted' = unlisted \cup {c}
             /\ UNCHANGED clientList
         /\ ToPc(c, "loop")
         /\ UNCHANGED <<init_param, server_status, handle, srvVars, appVars, status, sockVars,
                        bufVars, broken>>

\* Its result is not looked at.
CliPush(c) ==
    /\ pc[c] = "push" /\ handle = "live" /\ list_mutexFree
    /\ PushBack(c)

CliLoop(c) ==
    /\ pc[c] = "loop"
    /\ status[c] = "CLIENT_CONNECT" => mutex_handleFree
    /\ ToPc(c, IF ~Looping(c) THEN "erase"
               ELSE IF IsStream THEN "get" ELSE "recv")
    /\ UNCHANGED <<handleVars, srvVars, appVars, status, sockVars, bufVars, broken>>

\* OSA_bufGetFull with OSA_TIMEOUT_FOREVER.
CliGet(c) ==
    /\ pc[c] = "get"
    /\ pool[c].full # << >>
    /\ buf_id' = [buf_id EXCEPT ![c] = Head(pool[c].full)]
    /\ pool' = [pool EXCEPT ![c] = LessFull(@)]
    /\ ToPc(c, "send")
    /\ UNCHANGED <<handleVars, srvVars, appVars, status, sockVars, data, freed, sent, broken>>

\* net_send_buf refuses a NULL data; either send may fail, and fails on a
\* descriptor that is closed.
CliSend(c) ==
    /\ pc[c] = "send"
    /\ \/ /\ data[c][buf_id[c]] # NULL
          /\ fdOwner[client_socket[c]] # NoConn
          /\ sent' = [sent EXCEPT ![c] = data[c][buf_id[c]]]
          /\ ToPc(c, "putEmpty")
       \/ ToPc(c, "fail") /\ UNCHANGED sent
    /\ UNCHANGED <<handleVars, srvVars, appVars, status, sockVars, buf_id, pool, data, freed,
                   broken>>

CliPutEmpty(c) ==
    /\ pc[c] = "putEmpty"
    /\ Room(NumBuf, pool[c].empty)
    /\ pool' = [pool EXCEPT ![c] = WithEmpty(@, buf_id[c])]
    /\ ToPc(c, "test")
    /\ UNCHANGED <<handleVars, srvVars, appVars, status, sockVars, buf_id, data, freed, sent,
                   broken>>

\* Only now, with the buffer back in the empty queue, is its data looked at,
CliTest(c) ==
    /\ pc[c] = "test"
    /\ ToPc(c, IF data[c][buf_id[c]] # NULL THEN "free" ELSE "loop")
    /\ UNCHANGED <<handleVars, srvVars, appVars, status, sockVars, bufVars, broken>>

\* freed,
CliFree(c) ==
    /\ pc[c] = "free"
    /\ freed' = [freed EXCEPT ![c] = @ \cup {data[c][buf_id[c]]}]
    /\ ToPc(c, "clear")
    /\ UNCHANGED <<handleVars, srvVars, appVars, status, sockVars, buf_id, pool, data, sent,
                   broken>>

\* Mutant: the pointer stays.
CliClearNot(c) ==
    /\ pc[c] = "clear"
    /\ ToPc(c, "loop")
    /\ UNCHANGED <<handleVars, srvVars, appVars, status, sockVars, bufVars, broken>>

\* and forgotten.
CliClear(c) ==
    /\ pc[c] = "clear"
    /\ data' = [data EXCEPT ![c][buf_id[c]] = NULL]
    /\ ToPc(c, "loop")
    /\ UNCHANGED <<handleVars, srvVars, appVars, status, sockVars, buf_id, pool, freed, sent,
                   broken>>

\* A message that fails to arrive ends the client; one with a bad head is
\* skipped, ret being 0; one that arrives is dealt with.
CliRecv(c) ==
    /\ pc[c] = "recv"
    /\ ToPc(c, "fail") \/ ToPc(c, "loop")
    /\ UNCHANGED <<handleVars, srvVars, appVars, status, sockVars, bufVars, broken>>

\* close, of the number that the thread knows as its own.
Close(c) ==
    LET f == client_socket[c]
    IN  /\ fdOwner' = [fdOwner EXCEPT ![f] = NoConn]
        /\ struck' = struck \cup ({fdOwner[f]} \ {c, NoConn})

\* Mutant: the client stays connected.
CliFailStays(c) ==
    /\ pc[c] = "fail"
    /\ socket' = [socket EXCEPT ![c] = -1]
    /\ Close(c)
    /\ ToPc(c, "loop")
    /\ UNCHANGED <<handleVars, srvVars, appVars, status, client_socket, bufVars, broken>>

\* EXIT with ret # 0.  The stream branch jumps here past the initialisation of
\* tmp_msg and flag: it may free whatever they hold.
CliFail(c) ==
    /\ pc[c] = "fail"
    /\ status' = [status EXCEPT ![c] = "CLIENT_DISCONNECT"]
    /\ socket' = [socket EXCEPT ![c] = -1]
    /\ Close(c)
    /\ ToPc(c, "loop")
    /\ UNCHANGED <<handleVars, srvVars, appVars, client_socket, bufVars, broken>>

CliFreesWild(c) == IsStream /\ pc[c] = "fail" /\ Break("wild free")

\* list_earse_data: a client that is not in the list is not found.
Erase(c) ==
    /\ clientList' = RemoveFirst(clientList, c)
    /\ nSize' = IF Contains(clientList, c) THEN nSize - 1 ELSE nSize

\* Mutant: the list is changed without list_mutex.
CliEraseUnlocked(c) ==
    /\ pc[c] = "erase"
    /\ Erase(c)
    /\ ToPc(c, "close")
    /\ UNCHANGED <<init_param, server_status, handle, unlisted, srvVars, appVars, status, sockVars,
                   bufVars, broken>>

\* Mutant: the descriptor is closed here, and again afterwards.
CliEraseCloses(c) ==
    /\ pc[c] = "erase" /\ list_mutexFree
    /\ Erase(c) /\ Close(c)
    /\ ToPc(c, "close")
    /\ UNCHANGED <<init_param, server_status, handle, unlisted, srvVars, appVars, status, socket,
                   client_socket, bufVars, broken>>

CliErase(c) ==
    /\ pc[c] = "erase" /\ list_mutexFree
    /\ Erase(c)
    /\ ToPc(c, "close")
    /\ UNCHANGED <<init_param, server_status, handle, unlisted, srvVars, appVars, status, sockVars,
                   bufVars, broken>>

\* The descriptor is closed here even if the error path has closed it before;
\* the number may be another connection's by now.
CliClose(c) ==
    /\ pc[c] = "close"
    /\ Close(c)
    /\ ToPc(c, "drain")
    /\ UNCHANGED <<handleVars, srvVars, appVars, status, socket, client_socket, bufVars, broken>>

\* What is still queued is freed, then the pool and the client handle.
CliDrain(c) ==
    /\ pc[c] = "drain" /\ handle = "live"
    /\ freed' = [freed EXCEPT ![c] = @ \cup
                    ({data[c][pool[c].full[i]] : i \in DOMAIN pool[c].full} \ {NULL})]
    /\ pool' = [pool EXCEPT ![c] = [empty |-> << >>, full |-> << >>]]
    /\ data' = [data EXCEPT ![c] = [b \in Ids(NumBuf) |-> NULL]]
    /\ ToPc(c, "gone")
    /\ UNCHANGED <<handleVars, srvVars, appVars, status, sockVars, buf_id, sent, broken>>

\* The thread reads init_param or takes a lock of a handle that is gone.  One that
\* waits for a full buffer does so when it has it.
CliUsesFreed(c) ==
    /\ \/ pc[c] \in {"init", "push", "loop", "recv", "send", "fail", "erase", "drain"}
       \/ pc[c] = "get" /\ pool[c].full # << >>
    /\ handle = "freed"
    /\ Break("freed handle")

Cli(c) ==
    \/ CliInit(c) \/ CliPush(c) \/ CliLoop(c) \/ CliGet(c) \/ CliSend(c) \/ CliPutEmpty(c)
    \/ CliTest(c) \/ CliFree(c) \/ CliClear(c) \/ CliRecv(c) \/ CliFail(c)
    \/ CliFreesWild(c) \/ CliErase(c) \/ CliClose(c) \/ CliDrain(c) \/ CliUsesFreed(c)

-----------------------------------------------------------------------------
(* The application's thread *)

\* The nodes of the client list, in order.
FirstNode == IF clientList = << >> THEN NoConn ELSE Head(clientList)
NextNode(c) ==
    IF c = Last(clientList) THEN NoConn
    ELSE clientList[CHOOSE i \in DOMAIN clientList : i > 1 /\ clientList[i - 1] = c]

Listed(c) == \E i \in DOMAIN clientList : clientList[i] = c

\* The application calls one function after the other.  OSA_server_init sleeps for a
\* second before it returns, but nothing says that its thread has got anywhere by then.
Calls == appPc = "idle"

\* OSA_server_sendBuf takes list_mutex and goes through the clients.
AppSendBuf ==
    /\ Calls /\ frame < init_param.frames
    /\ frame' = frame + 1
    /\ appAt' = FirstNode
    /\ appPc' = "fill"
    /\ UNCHANGED <<handleVars, srvVars, appBuf, cliVars, broken>>

AppUnlock ==
    /\ appPc = "fill" /\ appAt = NoConn
    /\ appPc' = "idle"
    /\ UNCHANGED <<handleVars, srvVars, appAt, appBuf, frame, cliVars, broken>>

\* server_fill_buf skips a client whose socket is gone or that has no empty
\* buffer; it does not wait for one.
AppSkip ==
    /\ appPc = "fill" /\ appAt # NoConn
    /\ socket[appAt] = -1 \/ pool[appAt].empty = << >>
    /\ appAt' = NextNode(appAt)
    /\ UNCHANGED <<handleVars, srvVars, appPc, appBuf, frame, cliVars, broken>>

AppGetEmpty ==
    /\ appPc = "fill" /\ appAt # NoConn
    /\ socket[appAt] # -1 /\ pool[appAt].empty # << >>
    /\ appBuf' = Head(pool[appAt].empty)
    /\ pool' = [pool EXCEPT ![appAt] = LessEmpty(@)]
    /\ appPc' = "alloc"
    /\ UNCHANGED <<handleVars, srvVars, appAt, frame, pc, status, sockVars, buf_id, data, freed,
                   sent, broken>>

\* OSA_memAlloc is taken to succeed: the block is this frame's.
AppAlloc ==
    /\ appPc = "alloc"
    /\ data' = [data EXCEPT ![appAt][appBuf] = frame]
    /\ appPc' = "assert"
    /\ UNCHANGED <<handleVars, srvVars, appAt, appBuf, frame, pc, status, sockVars, buf_id, pool,
                   freed, sent, broken>>

AppAssert ==
    /\ appPc = "assert"
    /\ IF data[appAt][appBuf] # NULL
         THEN /\ appPc' = "copy"
              /\ UNCHANGED <<handleVars, srvVars, appAt, appBuf, frame, cliVars, broken>>
         ELSE Break("assertion")

\* memcpy reads the pointer again.
AppCopy ==
    /\ appPc = "copy"
    /\ CASE data[appAt][appBuf] = NULL             -> Break("NULL store")
         [] data[appAt][appBuf] \in freed[appAt]   -> Break("freed block")
         [] OTHER ->
              /\ appPc' = "put"
              /\ UNCHANGED <<handleVars, srvVars, appAt, appBuf, frame, cliVars, broken>>

AppPutFull ==
    /\ appPc = "put"
    /\ Room(NumBuf, pool[appAt].full)
    /\ pool' = [pool EXCEPT ![appAt] = WithFull(@, appBuf)]
    /\ appBuf' = OSA_BUF_ID_INVALID
    /\ appAt' = NextNode(appAt)
    /\ appPc' = "fill"
    /\ UNCHANGED <<handleVars, srvVars, frame, pc, status, sockVars, buf_id, data, freed, sent,
                   broken>>

\* OSA_server_printfInfo walks the list under mutex_handle; a client thread may
\* free the node it is at, which list_mutex guards.
AppPrintfInfo ==
    /\ Calls
    /\ appAt' = FirstNode
    /\ appPc' = "walk"
    /\ UNCHANGED <<handleVars, srvVars, appBuf, frame, cliVars, broken>>

AppWalk ==
    /\ appPc = "walk"
    /\ IF appAt = NoConn THEN /\ appPc' = "idle"
                              /\ UNCHANGED <<handleVars, srvVars, appAt, appBuf, frame, cliVars,
                                             broken>>
       ELSE IF Listed(appAt) THEN /\ appAt' = NextNode(appAt)
                                  /\ UNCHANGED <<handleVars, srvVars, appPc, appBuf, frame,
                                                 cliVars, broken>>
       ELSE Break("freed node")

\* OSA_server_destory: stop, wait for the clients, wait for the thread, free.
AppDestory ==
    /\ Calls
    /\ server_status' = "SERVER_STOP"
    /\ appPc' = "drainWait"
    /\ UNCHANGED <<init_param, handle, clientList, nSize, unlisted, srvVars, appAt, appBuf, frame,
                   cliVars, broken>>

\* Mutant: the clients are not waited for.
AppDrainedAtOnce ==
    /\ appPc = "drainWait"
    /\ appPc' = "aborWait"
    /\ UNCHANGED <<handleVars, srvVars, appAt, appBuf, frame, cliVars, broken>>

AppDrained ==
    /\ appPc = "drainWait" /\ nSize = 0
    /\ appPc' = "aborWait"
    /\ UNCHANGED <<handleVars, srvVars, appAt, appBuf, frame, cliVars, broken>>

AppFree ==
    /\ appPc = "aborWait" /\ server_status = "SERVER_ABOR"
    /\ handle' = "freed"
    /\ appPc' = "done"
    /\ UNCHANGED <<init_param, server_status, clientList, nSize, unlisted, srvVars, appAt, appBuf,
                   frame, cliVars, broken>>

\* The steps of a call that has begun.
App == \/ AppUnlock \/ AppSkip \/ AppGetEmpty \/ AppAlloc \/ AppAssert \/ AppCopy
       \/ AppPutFull \/ AppWalk \/ AppDrained \/ AppFree

-----------------------------------------------------------------------------
Next ==
    /\ broken = "no"
    /\ \/ Srv
       \/ AppSendBuf \/ AppPrintfInfo \/ AppDestory \/ App
       \/ \E c \in Conns : Cli(c)

\* No thread is starved at a mutex, select and recv time out, and a call that has
\* begun goes on.  Nothing makes the application call or a peer connect.
Fairness ==
    /\ SF_vars(broken = "no" /\ Srv)
    /\ SF_vars(broken = "no" /\ App)
    /\ \A c \in Conns : SF_vars(broken = "no" /\ Cli(c))

Spec == Init /\ [][Next]_vars /\ Fairness

-----------------------------------------------------------------------------
\* Every variable has its type.
TypeOK ==
    /\ init_param \in Scenarios
    /\ server_status \in {"SERVER_STAR", "SERVER_STOP", "SERVER_ABOR"}
    /\ handle \in {"live", "freed"}
    /\ clientList \in Seq(Conns) /\ nSize \in Nat /\ unlisted \in SUBSET Conns
    /\ srvPc \in {"bind", "start", "dead", "check", "accept", "size", "admit", "abor", "done"}
    /\ srvConn \in 0 .. MaxConns /\ client_size \in Nat
    /\ appPc \in {"idle", "walk", "drainWait", "aborWait", "done"} \cup FillSteps
    /\ appAt \in Conns \cup {NoConn} /\ frame \in 0 .. MaxFrames
    /\ appBuf \in Ids(NumBuf) \cup {OSA_BUF_ID_INVALID}
    /\ pc \in [Conns -> {"none", "init", "push", "loop", "get", "recv", "send", "putEmpty",
                         "test", "free", "clear", "fail", "erase", "close", "drain", "gone"}]
    /\ socket \in [Conns -> Fds \cup {-1}] /\ client_socket \in [Conns -> Fds \cup {-1}]
    /\ status \in [Conns -> {"CLIENT_CONNECT", "CLIENT_DISCONNECT"}]
    /\ buf_id \in [Conns -> Ids(NumBuf) \cup {OSA_BUF_ID_INVALID}]
    /\ pool \in [Conns -> Pools(NumBuf)]
    /\ data \in [Conns -> [Ids(NumBuf) -> Frames \cup {NULL}]]
    /\ freed \in [Conns -> SUBSET Frames]
    /\ sent \in [Conns -> 0 .. MaxFrames]
    /\ fdOwner \in [Fds -> Conns \cup {NoConn}] /\ struck \in SUBSET Conns
    /\ broken \in {"no", "assertion", "NULL store", "NULL node", "freed block", "freed node",
                   "freed handle", "wild free"}

\* A client handle is in the list once, from its thread's push to its erase, on
\* every path out of its loop, unless there was no memory for its node; then it is
\* served and not listed.  The size is never below the number of clients listed, and
\* is that number as long as no push has failed.  Every client OSA_server_sendBuf
\* fills a buffer of is listed, so its handle and its pool exist, though its thread
\* may have left its loop (222-246, 381-383, 502-527).
ListCoherent ==
    /\ TypeOK
    /\ IsInjective(clientList)
    /\ \A c \in Conns : Listed(c) <=> /\ c \notin unlisted
                                     /\ pc[c] \in {"loop", "get", "recv", "send", "putEmpty",
                                                   "test", "free", "clear", "fail", "erase"}
    /\ Len(clientList) <= nSize /\ (unlisted = {} => nSize = Len(clientList))
    /\ appPc \in FillSteps /\ appAt # NoConn => Listed(appAt)

\* The server handle outlives the accepting thread and every client that is
\* being served and listed (720-751).  It does not outlive a client thread that
\* reaches the list, or has left it, after OSA_server_destory last looked.
HandleOutlives ==
    handle = "freed" =>
        /\ srvPc = "done"
        /\ \A c \in Conns \ unlisted :
              pc[c] \in {"none", "init", "push", "loop", "erase", "close", "drain", "gone"}

\* The buffer a client's thread is sending, and the one being filled for it, are
\* in neither queue of its pool and are not the same one.
Sending(c) == pc[c] \in {"send", "putEmpty"}
Filling(c) == appAt = c /\ appPc \in FillSteps \ {"fill"}
BuffersApart ==
    \A c \in Conns :
        /\ IsInjective(pool[c].empty \o pool[c].full)
        /\ Sending(c) => ~Contains(pool[c].empty \o pool[c].full, buf_id[c])
        /\ Filling(c) => ~Contains(pool[c].empty \o pool[c].full, appBuf)
        /\ Sending(c) /\ Filling(c) => buf_id[c] # appBuf

\* Although a buffer goes back to the empty queue before its data is freed, a
\* client's thread neither sends from nor frees a block it has freed before.
BlocksLive ==
    \A c \in Conns :
        pc[c] \in {"send", "free"} => data[c][buf_id[c]] \notin freed[c]

\* What a client's thread sends are frames in the order they were given to
\* OSA_server_sendBuf, each once; frames are skipped, never repeated or swapped.
FramesInOrder == [][\A c \in Conns : pc[c] = "send" /\ pc'[c] = "putEmpty"
                                        => sent'[c] > sent[c]]_vars

\* The descriptor of a client that is connected is its own, as long as no other
\* client's thread has closed its number; and it takes the second close of a
\* connection that has failed (496, 506-507) for that to begin.
OwnSocket ==
    /\ \A c \in Conns \ struck :
          /\ pc[c] \in {"loop", "get", "recv", "send", "putEmpty", "test", "free", "clear",
                        "fail", "erase", "close"}
          /\ status[c] = "CLIENT_CONNECT"
          => fdOwner[client_socket[c]] = c
    /\ struck # {} => \E d \in Conns : pc[d] \in {"drain", "gone"} /\ socket[d] = -1

\* A client whose connection has failed is taken off the list and its handle
\* freed, however busy the application is.
FailedIsReaped ==
    \A c \in Conns : pc[c] = "fail" ~> pc[c] = "gone" \/ broken # "no"

\* The server has been told to stop and its thread has begun to accept: it will not set
\* SERVER_STAR (587) over SERVER_STOP, as it does when it is later than the second
\* that OSA_server_init sleeps.
Stopped == srvPc \notin {"bind", "start", "dead"} /\ server_status # "SERVER_STAR"

\* OSA_server_destory of such a server returns.
DestroyReturns == appPc = "drainWait" /\ Stopped ~> appPc = "done"

\* That of a message server does, unless a failed push has left the size of its list
\* above the number of clients in it (712-753).
MsgDestroyReturns ==
    appPc = "drainWait" /\ Stopped /\ ~IsStream
        ~> appPc = "done" \/ nSize # Len(clientList)

\* OSA_assert at line 206: the pointer just stored is not NULL.
FillAsserted == appPc = "assert" => data[appAt][appBuf] # NULL
=============================================================================
