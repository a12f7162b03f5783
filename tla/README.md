# Verification of osa_base

`osa_base` is a small C library in two layers. `osa/` wraps POSIX: threads,
mutexes, semaphores, condition-variable queues, buffer pools, event flags,
mailboxes, tasks, pipes and lists. `communication/` builds a TCP server and
client on it that exchange messages (`MSG_TYPE`) or video frames
(`STREAM_TYPE`). Its difficulty is in its threads: a server has the
application's thread, an accepting thread and a detached thread per connection,
which share one handle, a list of clients and, for each client, a pool of
buffers made of two blocking queues.

This directory holds TLA+ models of that core, the TLC runs that check them and
TLAPS proofs of the main safety properties.

## Inventory

| component | state | operations | interacts through | hard behaviour | what makes it correct |
|---|---|---|---|---|---|
| queue, `osa/src/osa_que.c` | ring, two cursors, counter, mutex, two condition variables | create, delete, put, get, peek, count, isEmpty | called by any number of threads | wakeups overtaken or lost; wrap-around; readers and writers asleep together | it is a bounded FIFO; what can be served is served |
| buffer pool, `osa_buf.c` | two queues of ids, the buffers | get, put and switch, full and empty | queue; a producer and a consumer thread | a switch is two queue operations; puts wait for ever | each buffer in one place; no put ever waits; frames in order |
| event flags, `osa_event.c` | a word of flags, mutex, one condition variable | create, delete, set, retrieve | any number of threads | one signal for sleepers that wait for different things; timeouts racing with a set | a retrieval that succeeds gets what it asked for; nobody sleeps on an event that is up |
| server, `communication/osa_communication.c:95-754` | handle with status and client list, each client's socket, status and pool | init, sendBuf, sendMsg, printfInfo, destory | the list, the pools, two locks, sockets, the callbacks | buffers and memory handed between threads; a failing connection; the end of the server with threads still running | no buffer used by two threads, frames in order, failed clients removed, destruction ends |
| client, `osa_communication.c:757-1170` | handle with status and socket | init, sendMsg, destory, heartbeat | server, callbacks | reconnecting while being destroyed; a heartbeat thread that outlives its handle | threads end before the handle, one descriptor at a time, the heartbeat goes on while connected, destruction ends |
| socket helpers, `socket/osa_socket.c`, and the messages on them | none (the kernel's); a head and a body for each message | create, accept, connect, send, receive | server, client | partial sends and receives, timeouts with retry, two sends for a message without a lock, a connection replaced meanwhile | a connection carries whole messages in order until something spoils it, and every call returns |
| list, `osa_list.c` | nodes, size | push, pop, erase, walk | server, under its locks | dangling tail, size out of step with nodes, failing allocation | the chain is a sequence of the callers' data |
| msgq, mailbox, task, `osa_msgq.c`, `osa_mbx.c`, `osa_tsk.c` | two queues for each mailbox, message blocks | send, acknowledge, broadcast, flush, wait for a command | tasks send to each other | acknowledgements out of order; two tasks waiting for each other; blocks and parameters freed by sender or receiver; cancelled threads | each block and parameter freed once and in time, each acknowledgement expected, every send returns |
| semaphore, `osa_sem.c` | counter, mutex, condition variable | create, wait, signal, delete | threads | lost wakeup; saturation; callers that overtake | a unit for each wait that returns, nobody asleep with a unit to spare |
| pipe, `osa_pipe.c` | pipe, two counters without a lock | create, delete, write, read | two threads; the descriptors of the process | racing counters; transfers of bytes that are counted as messages; reserved descriptor numbers | no reserved descriptor; with messages of one size the count follows them |
| thread, mutex, file, profiling, debug | - | wrappers | - | - | not modelled: they add no state or protocol |
| `json/` | - | cJSON, third-party | not called by the rest | - | not modelled |

`PROJECT.json` lists every component with its status, and under `hazards` each
place where the code can go wrong in a way a test would hardly reach, with the
property that watches it or the reason none does yet.

## Modules

```
OsaQueCalls  <- BlockingFifo           what a queue promises
             <- OsaQue                 how osa_que.c does it
                  <- MCOsaQue            instances for TLC
                  <- OsaQueProofs        invariants; OsaQue implements BlockingFifo
BufPool      <- OsaBuf                 osa_buf.c    <- MCOsaPrims, OsaBufProofs
             <- OsaServer              the server   <- MCOsaServer, OsaServerProofs
OsaEvent                               osa_event.c  <- MCOsaEvent, OsaEventProofs
OsaClient                              the client   <- MCOsaClient, OsaClientProofs
OsaMbx                                 osa_mbx.c, osa_msgq.c, osa_tsk.c
                                                    <- MCOsaMbx, OsaMbxProofs
MsgChannel   <- OsaWire                messages on a connection
                                                    <- MCOsaWire, OsaWireProofs
Semaphore    <- OsaSem                 osa_sem.c
                OsaPipe                osa_pipe.c
DataList     <- OsaList                osa_list.c
OsaSem, OsaPipe, OsaList                            <- OsaPrimsProofs
OsaSem, MCOsaEvent                                  <- MCOsaWaits
OsaBuf, OsaList, OsaPipe                            <- MCOsaPrims
```

The layers meet as they do in the code. `OsaQue` is proved to implement
`BlockingFifo`: a call takes effect at one instant. `BufPool` and the modules
that use it may therefore take a queue as a sequence and a queue call as one
step. `OsaServer` uses the same `BufPool` operators for the pool of each client
that `OsaBuf` checks and proves things about, and it takes the client list as the
sequence that `OsaList` implements, from which `RemoveFirst` takes a handle as
`DataList` says. `OsaWire` takes from `OsaClient` how a client
loses and replaces a connection (the handle's socket goes to -1, the descriptor is
closed, a new one is connected and put in the handle) and from `OsaServer` how a server
does (it closes first), and shows what that does to messages.

### OsaQueCalls, BlockingFifo, OsaQue

`OsaQueCalls` has the calls and the return values as the callers see them.
`call[t]` is what thread `t` is asking and `ret[t]` its last answer.
`BlockingFifo` is the promise: a sequence, and each call answered in one step.
`OsaQue` has the fields of `OSA_QueHndl` under their names; `condRd` and `condWr`
are the sets of threads asleep on the two condition variables. All shared state
is accessed under the one mutex, so an action is a stretch of a thread's run from
getting the mutex to leaving it: `PutItem` and `PutWait` are the two branches of
the loop in `OSA_quePut`. A thread that has been signalled contends for the mutex
with every other one, so it may find its item gone; a thread may also wake
without a signal. Every timeout that is not `OSA_TIMEOUT_NONE` waits for ever, as
in the code. `OSA_queDelete` checks nothing, so the model deletes only when
nobody is inside, which is the callers' part of the contract.

### BufPool, OsaBuf

`bufId[t]` is the variable behind the caller's `int *bufId`, and `newBufId[t]` the
local variable of a Switch call, which is two steps. A buffer's contents are one
of `Frames`. `GetEmpty` and `GetFull` are for callers that hold nothing; a caller
that holds a buffer uses the Switch calls or puts it back, the usage the header
is made for. A Put of an id that is out of range is included and refused.

### OsaEvent

`eFlags` is the set of flags that are up; `Wide` are the flags above bit 31, which
the code loses where `unsigned long` has 64 bits, because it passes through an
`unsigned`. `condition` are the sleepers and `expired` those whose timed wait
has ended but who still have to get the mutex: that gap is where a set races
with a timeout. It is assumed of the implementation (`TimeOut`) that a signal that
comes while a timed wait expires goes to a thread that is still asleep and is not used
up by the one that expires. `ret` is what the last retrieval has returned: `status` is
`bReturnStatus`, and `wrote` is empty when `*pRetrievedEvents` was left as it was.

The loop of a timed wait (`osa_event.c:278-302`) is left with the event there and nothing
written: `RetrieveLate` is the retrieval that gets its flags this way, clears them if it
is to consume, returns `OSA_EFAIL` and tells nothing. One that finds them at once
(`Retrieve`), or waits without a timeout, does as documented, and one that times out
(`GiveUp`) returns `OSA_SOK` and no flags. `bSignaled` is only written by the code and
left out. `askable` is how the object is used, the retrievals each thread makes; it is
chosen at the start from `Profiles` and never changes, so one run covers several ways of
use and properties that hold of some only (`Alike`) say so.

### OsaServer

`appPc` is where the application's thread is in the call it has made, `srvPc` the
accepting thread, and `pc[c]` the thread of connection `c`. Reads and writes that
share no lock are separate steps. In particular the path of a buffer is followed
store by store on both sides: `AppGetEmpty`, `AppAlloc`, `AppAssert`, `AppCopy`,
`AppPutFull` in `server_fill_buf`, and `CliGet`, `CliSend`, `CliPutEmpty`,
`CliTest`, `CliFree`, `CliClear` in the client's thread. Memory blocks are named
by the frame they were allocated for and `freed[c]` remembers which are gone. A
descriptor is a number that `accept` gives out again once it is closed:
`fdOwner` is the connection that a number refers to.

`init_param` is how `OSA_server_init` was called, one of `Scenarios`, with two bounds
for the run; it never changes, so one run covers servers of both types.
`CliInit` may lose the failure of `OSA_bufCreate`, as the code does, and ends the
client's thread when its mutex cannot be made (348-353).

`OSA_server_init` sleeps a second (703) before it returns and takes it that its thread
has set `SERVER_STAR` (587) by then. Nothing makes it so, and the model does not
either: `AppDestory` may come first, its `SERVER_STOP` is then overwritten, and
`OSA_server_destory` never ends. `Stopped` is the state of a server to which this
cannot happen any more.

`clientList` are the nodes of the list and `nSize` the size in its head, which
`list_push_back` raises before it knows whether there is memory for a node
(`osa_list.c:91-93`); its result is not looked at (382). `unlisted` are the clients that
it had none for: they are served, but receive no frames, and nothing waits for them, and
their size is never taken back. When the others have gone, the next push looks for the
last node of an empty list that counts as one (`PushBack`): that takes three clients, so
the proofs cover it and the run, with two, does not.

`Close` closes the number a thread knows as its own. After a failed connection this
happens twice (496, 507), and the second time the number can be another client's:
`struck` remembers which connections were closed by another's thread.

`list_mutex` is held over several steps only by `OSA_server_sendBuf`, and
`mutex_handle` only by `OSA_server_printfInfo`; both are calls of the one
application thread, so a lock is free when that thread is elsewhere.

The code has steps whose outcome C does not define: a store through a pointer
that another thread has cleared, the use of a list node or of the server handle
after it was freed, a `free` of an uninitialised pointer. The model takes such a
step, notes it in `broken` and stops: the properties speak of the behaviour up to
that point, and nothing is claimed of what follows. The bounded run visits these
states; two of them are reported as findings.

### OsaClient

`pc`, `hpc` and `app` are the connecting thread, the heartbeat and the application.
Each access to a field of the handle is a step of its own, as each takes and
releases `mutex_handle`. `client_socket` is the thread's variable and
`handle_socket` the handle's field of the same name; `open` are the descriptors the
process has. `socket`, `connect` and every receive may fail; what arrives is only
success or failure. The kinds of client (type, reconnecting or not) are chosen at
the start. `HeartAstray` and `DestoryAstray` are uses of the handle after it was
freed: the thread concerned stops there.

### OsaMbx

A message block is a number and `msg` its contents: the sender, whether it waits
(`OSA_MBX_WAIT_ACK`) and the parameter to be freed (`OSA_MBX_FREE_PRM`). `call[t]` has
the local variables of `OSA_mbxSendMsg` and `OSA_mbxBroadcastMsg`: the mailboxes
still to be sent to and `sent`, the messages in `pSentMsgList` whose
acknowledgement is still out. `at[t]` is where the task is and `held[t]` the
message in its hand; `After` is where it goes on when that is acknowledged or
freed, in the handler (`held`, `answer`), in `OSA_mbxWaitCmd` (`skip`) or in
`OSA_mbxFlush` (`drop`). A message queue has the code of `OSA_que` with the names
changed, so it is a sequence. `sendsTo` says who sends to whom and is chosen at the
start from `Topologies`. A task to which somebody sends serves its mailbox as
`OSA_tskThrMain` does and sends at most once for each message it handles; the
others send as they please. Each mailbox has one thread, as `OSA_TskHndl` has.

### MsgChannel, OsaWire

A message is a head of two units, the identifier and the length, and a body;
`wire[c]` is what connection `c` holds, from the sender's buffer to the receiver's.
`call[t]` is a thread inside `OSA_client_sendMsg` or `OSA_server_sendMsg`: the number
of the socket, read once, how much of the message it has `put`, whether the
`fd_set` is still `set` and the count of tries. The head and the body are sent by
the same loop, `SelectReady`, `SelectTimeout` and `Put`, one after the other.
`rcv[c]` is the thread that reads, with what it has `got` and `need`s in
`OSA_tcpRcvBlockFd`. `reader` chooses between the two kinds there are: one that
closes the connection when a receive fails (the server, and a client that
reconnects does the same), and one that looks for a head where it stopped (a
client that does not reconnect, `osa_communication.c:1084`).

The sender's end of a connection is lost in two ways. A client that reconnects sets its
handle's socket to -1 and then closes the number (`Detach`, `Close`). A server closes
first and sets the field to -1 afterwards (496-497: `CloseClient`, `Forget`), so that in
between a call still reads a number that is closed, or that `accept` has given to
the next client. `select` and `send` each look the number up when they are called:
between the two it may have come to mean another connection. A `send` that blocks keeps
the connection it has found (`Facing`), and takes what there is room for, all of the
part or as much as fits.

Many things spoil a connection in this code: a second call that cuts in, a call that
gives up midway, a reader that does, a number that refers to another connection by
the time of a later send. `clean[c]` records, where it happens in the model, that
one of these did. `MsgChannel` is what remains promised: an unspoiled, open
connection hands over whole messages, once, in order, and all of them. So
`Carries` says two things: the loops lose and repeat nothing through short
transfers, timeouts and retries, and nothing else than the above mixes messages.
Frames (`net_send_buf` and the stream branch of the client) go through the same
two loops with a head of their own and one sender, and have no model of their own.

### OsaSem, OsaList, OsaPipe

`OsaSem` follows `OsaQue`: an action is what a thread does under the mutex. `awake`
are those that were woken and have still to look at the count.

`OsaList` has the heap: `live` are the nodes that are allocated, and a freed one
keeps its `next`, so that a dangling pointer is followed to where it leads. `malloc`
may fail. `last` is the last call with its result, which the refinement of
`DataList` compares too. `list_pop_back` leaves a dangling pointer and a failed
`list_push_back` a size that is one too high: from there to the next `list_clear`
the list is `spoiled` and nothing is claimed of it. Nothing in the
repository calls `list_pop_back`. `list_destory` and a new `list_create` come to
`list_clear`, and the `list_lockAnd` calls to these calls under a mutex.

`OsaPipe` has two parts. Creation works on the set of descriptor numbers of the
process, of which `pipe` takes the two lowest; the rest of the process opens and
closes at any point between. The process may have been started without some of
the numbers 0 to 2. Use has one writer and one reader, which load and store
`messageCount` in separate steps. What passes through the pipe is bytes: a `write`
of no more than `PIPE_BUF` goes in whole, a longer one bit by bit, and a signal may end it
with some of its bytes in and none counted; a `read` takes what there is up to the size
it asks for, several messages or part of one, and counts for one. So in general
`messageCount` says nothing about the bytes. `CountFollows` speaks of a pipe whose
callers all use one size that goes in whole (`Fixed`), which is what its field
`isFixedMessage` seems to be for; the code sets the field and never looks at it. In the run
callers with two sizes, and with a size that does not go in whole, take part as well,
and for them nothing is claimed of the count. `totalBytesInPipe` is kept with
`messageCount` and read by nobody, and a call with size 0 returns at once: both are left
out.

## Runs

Every property of a passing run has a mutant, a plausible bug in the code it is
about, that violates it (`mutants` in `PROJECT.json`; the mutated operators are
next to the originals and say "Mutant").

| run | question | instance and why it is enough |
|---|---|---|
| `que` | do cursors, counter, sleepers and wakeups fit together, does every call act at one instant on a FIFO, and is what can be served served? | three threads (a sleeper, one that overtakes it and one that signals), two values, capacities 0 to 2, so that the wrap is reached with items on both sides of it; two threads make the waiting and polling puts and gets, the third every call |
| `waits` | does a semaphore lose no wakeup and give each unit once? Is one signal of an event enough for threads that ask alike? What is a retrieval told, and what does it take down? | in each behaviour one of the two. Three threads at a semaphore of up to two. Three threads that retrieve, in two profiles: AND of two flags with CONSUME and all three kinds of timeout; and OR, AND and non-consuming requests with one flag above bit 31 |
| `client` | what do senders find in the handle, what is left when it is freed, when do heartbeat and client end? | one client of each kind; a second descriptor, to see one that is not closed |
| `mbx` | are message blocks and parameters freed once and in time, do acknowledgements reach who waits for them, does every send return? | three tasks: one that broadcasts to two, a chain in which the handler of a message sends, and two that send to each other. Queues of two with three blocks: a full queue, with a sender waiting for room; a broadcast of two fills the acknowledgement queue |
| `server` | who owns which buffer, block, descriptor and node, does a failed client go, does destroying a message server end? | three servers (`Mixed`): a stream server with two connections, of which one can fail while the other is served; a stream server with one connection, two buffers and three frames, so that a buffer is filled again; a message server with two connections, of which one can be struck by the other's second close. `max_client` is 1 in the second, and `OSA_createTcpFd`, `OSA_mutexCreate`, `OSA_bufCreate` and the allocation in `list_push_back` may fail |
| `wire` | what survives on a connection, and does every call return? | two threads with a message each: one can cut in between the other's head and body, or follow it. Two connections and two descriptor numbers: the second connection gets the number of the first or another, and is lost by a client or by a server. A body of one unit and room for two: every transfer can be short, and a message of three never fits at once. `TryMax` and `RetryMax` are 1 (5 and 2 in the code): timeouts that are borne and one that is not |
| `primitives` | do the buffer pool, the list and the pipe keep what their users count on? | in each behaviour one of the three. Three buffers and three threads, which can all be between the halves of a Switch, so that the pool runs dry; a heap of three nodes with equal data among them, so that erasing finds the first of two; a process of seven descriptors, which holds the pipe, its backup, the dummy and one of somebody else; a pipe of four bytes, of which two go in at once, for messages of one size, of two sizes and of a size that does not go in at once |

With two workers the longest runs take about two minutes: `mbx`, `que` and `wire`
(160,000 states), then `server` (100,000) and `waits` (32,000); the others take seconds.

The runs that are expected to find a violation are disagreements between the code
and what its own documentation, assertion or test program says:

| run | what it shows |
|---|---|
| `server_assert` | the client's thread returns a buffer before it clears the buffer's pointer (`osa_communication.c:405-410`): the application's new block is cleared between the store (202) and its use, against the assertion at 206 |
| `server_hang` | a stream client's thread waits for a frame without a timeout (390), so `OSA_server_destory` never ends; the test program prints "end server" after it (`test/server/server.c:110-114`), although a `while(1)` before these lines keeps it from reaching them |
| `client_heart` | the heartbeat ends if the connection is not up three seconds after the start (`osa_communication.c:885`) and is not started again; the receiving side counts on it (`osa_socket.c:276`) |
| `event_each` | the one signal of `OSA_EventSet` can go to a thread that waits for something else (`osa_event.c:145`) |
| `event_late` | a timed retrieval that has to wait and then finds its flags fails, reports nothing and takes the flags down all the same (`osa_event.c:278-310`), where the header promises them "on success" (`osa_event.h:98`) |

When the port cannot be bound the accepting thread leaves without `SERVER_ABOR`
(`osa_communication.c:577-581`), for which `OSA_server_destory` waits for ever:
`MsgDestroyReturns` claims the end of message servers that have got their port only, and
have begun to accept (`Stopped`), unless a failed push has left the size of the list
above the number of its clients, which is then polled for ever (720-731).
In the same way `OSA_client_destory` need not return when the client is connecting
(977 overwrites 1154) and `StopsOnceConnected` says when it does.

More disagreements are in the model and have no run, because a line or two show them:
connections accepted in quick succession pass `max_client`, which is compared with a list
that they join only later (597, 382); sockets that are not admitted stay open (629); the
length of time that `OSA_tcpSndNonblockFd` tries again is spent on an empty `fd_set`
(`osa_socket.c:165-178`); a consuming retrieval clears the whole word of flags
(`osa_event.c:309`), where the header says that the active events in the mask are
consumed, and flags above bit 31 are lost on the way through an `unsigned` (201, 218).

Some properties stop at an outcome that the code does have, and do not claim its absence:
a client thread that uses the freed server handle (`CliUsesFreed`), the second close that
strikes another connection (`struck`), messages torn or mixed on a connection (`clean`),
a list after `list_pop_back` or a failed push (`spoiled`), counts stored over each other
(`skewed`), the freed client handle in the heartbeat (`HeartAstray`), a sender that waits for
another that waits for it. The models reach all of them; `hazards` in `PROJECT.json`
says at each what is claimed and what is not.

Bounds: `Lens` (capacities), `peers` and `frames` of a scenario (connections made, calls
of `OSA_server_sendBuf`), `MaxMsgs` and `MaxConns` of `OsaWire` (calls that send,
connections), `MaxSize` and `MaxCount` (how far the size of a spoiled list and
`messageCount` may drift), `PipeCap` and `PipeBuf` (65536 and 4096 on Linux), `MaxMsgs`
and `MaxPrms` (blocks and parameters allocated at once: a call begins only within them, so
that no call under way is held up), and the sets of threads, values, flags, descriptors,
nodes and profiles. All are constants of the specifications. The primitives' run turns the
deadlock check off because the list may stop for good at an undefined step and the threads
at the pool may all wait for a buffer, the runs of `waits` leave it on, and the wire's
because all messages may have been sent; the server's runs turn the deadlock check off,
because with all peers connected and all frames sent a server with idle clients has
nothing to do, and because the model stops at undefined behaviour; the client's do because
a client that is destroyed is at its end; the mailbox's because two tasks that send to
each other can block each other for good.

## Fairness

* Queue and event: `WF` on each thread's run under the mutex. A POSIX mutex that
  is released again and again is eventually got by every thread that waits for it;
  nothing else is assumed. No thread has to make a call, no sleeper has to wake
  without a signal, and a timed wait may last for ever. What the queue owes in
  return is in `BlockingFifo`: while a put can be served one is served, but not a
  particular one, since a thread that calls later can overtake a signalled one.
* Server: `SF` on the accepting thread, on the steps of a call that the
  application has begun, and on each client's thread. Strong fairness stands for
  the mutexes: a client that wants `list_mutex` gets it although the application
  takes it again and again. `select` in accept and the receive timeout make
  every wait of the two other threads end. Nothing makes the application call,
  or a peer connect.
* Client: `WF` on each thread: sleeps, `connect` and the receive timeout end, and the
  mutex is held for one access. Nothing makes the application destroy the client.
* Mailbox: `WF` on what a task does next. Nobody has to send. Which of two senders
  gets a free place is left open, as the condition variable leaves it: so
  `SendsReturn` speaks of trees, in which a mailbox has one sender.

* Wire: `WF` on each sending and each reading thread. `select` and the receive timeout
  end, and a callback returns. A `send` that blocks is released when the reader goes
  on, or closes; every reader does one or the other. Nobody has to send and no
  connection has to be lost.
* Semaphore: `WF` on a woken thread's turn under the mutex. The promise in `Semaphore` is
  the same for the group: while there is a unit and somebody waits, somebody goes
  on, though not a particular one. The list and the pipe have safety only.

## Proofs

TLC's results are for the instances above. The theorems hold for any sets of
threads, values, flags, tasks, blocks, clients and frames and any capacity, from the
`ASSUME`s of the modules alone, which only say that the special values (no call, no
value, a null parameter) are not ordinary ones, that capacities are natural numbers
and that there are finitely many threads, addresses or scenarios. The assumption on the
buffer pool is its limit of 120 buffers; a process that connects has some descriptor
number to use.

* `OsaQueProofs!RingConsistency`: `Consistent`, which is `TypeOK /\ RingOK /\ SleepersOK`,
  is inductive. The statement that `curWr` is `count` places after `curRd` is what makes
  the wrap-around of one cursor independent of the other.
* `OsaQueProofs!WakeupsSuffice`: the hard one. That a sleeping reader implies an
  empty queue is false, since a signalled reader may not have run yet. The
  inductive statement counts: while a reader sleeps there are at least as many
  awake getters as items. A put adds an item and wakes a getter; a get removes
  both; a getter goes to sleep only when there is no item.
* `OsaQueProofs!NeverAllAsleep`: from the two counts: with sleepers on both sides
  the awake getters and putters are together at least `len`.
* `OsaQueProofs!QueIsFifo`: the ring implements `BlockingFifo`, with the contents
  read off from the ring (`Contents`) as the refinement mapping. The lemmas say
  what a put and a get do to `Contents`.
* `OsaBufProofs!BuffersHaveOneOwner`: each buffer is in one queue or in the hands of
  one thread, through both halves of the Switch calls.
* `OsaBufProofs!PutsNeverWait`: from the former by counting: the queued ids
  are distinct and the holder's is not among them, so fewer than `NumBuf` are
  queued. This is what makes `OSA_TIMEOUT_FOREVER` in the puts harmless.
* `OsaBufProofs!NoBufferLost`: the other half of the former: each id is somewhere. A
  Switch call has two hands, and its id is in one of them between its two steps.
* `OsaBufProofs!FramesKeepOrder`: every step leaves the frames behind the full queue's
  ids as they are, adds one at the end, or takes the first away, and then the taker
  finds it in its buffer: a thread writes only to a buffer in its hands, which by
  `OneOwner` is not queued.
* `OsaServerProofs`: one inductive invariant, `IInv`, in ten parts, each kept by the
  three kinds of steps (accepting thread, application, client threads); of the steps
  of a client's thread, lemma `CliLocal` says that they leave other clients alone.
  - `ListStaysCoherent`: `ListInv`, with `SrvInv`, which says that a connection that
    has not been made has no thread: so a push adds a handle that is not listed.
    `SizeInv` says what the size in the head can be.
  - `HandleOutlivesThreads`: `HandleOutlives` needs `StopInv`: once the application has
    seen an empty list with `SERVER_STOP` set, a thread that reaches its loop later
    leaves it at once, and `SERVER_ABOR` comes from a thread that is done.
  - `BuffersStayApart`: `HandsInv` is the ownership argument of `OsaBuf` for each client,
    with the two threads' local variables as the hands.
  - `BlocksStayLive`: a buffer can be filled again while its old block is being freed,
    so it is not ownership that protects the blocks. `BlockInv`: a block is in one
    buffer, and after its free in none but the one about to be cleared. That a new
    block is not among those of the client is `FreshInv`: a client that the walk of
    `OSA_server_sendBuf` has still to reach has seen only earlier frames. `Ahead` says
    which those are, and needs `ListInv`, for the list does not change under the walk.
  - `SentInOrder`: `OrderInv`: what is queued is in order and later than what is being
    sent, this is later than what was sent, and what is filled in is the latest. The
    late clearing of a pointer can only turn a queued frame into none.
  - `SocketsStayOwn`: the number of a connected client refers to its connection
    (`SockInv`), so `accept` cannot return it, until another thread closes that number;
    and only a thread that has closed its own once already, after a failure, can. Nothing
    is assumed of the other connections: they may fail, be closed twice and strike.
* `OsaClientProofs!HandleFreedLast`, `HandleShowsOpenSocket`, `OneSocketAtATime`: what is
  open is what the connecting thread's `client_socket` names, and the handle's field
  shows that or nothing, by the step the thread is at (`SocketsInv`); `CLIENT_ABOR` and
  the free of the handle come after its last step (`HandleInv`).
* `OsaClientProofs!HeartGoesOn`: until `OSA_client_destory` is called, a heart that has
  once found the client connected finds it so again, because nothing else takes
  `CLIENT_CONNECT` away (`BeatInv`).
* `OsaMbxProofs!BlockInOnePlace`: each live block is in one queue or one hand
  (`PlaceInv`), and a hand is empty wherever the task waits for a message (`HandsInv`).
* `OsaMbxProofs!AcksComeHome`: a live message that asks for an acknowledgement is in
  `sent` of the call its sender is in (`WaitInv`), which is never more than a queue
  holds (`RoomInv`). Those already back are distinct members of `sent`, and the one in
  somebody's hand is another member, so by the pigeonhole principle it has room.
* `OsaMbxProofs!ParametersOutlive`: parameters are shared only by the messages of one
  call, and then all of these ask for an acknowledgement (`PrmInv`): so whoever frees
  them, receiver or sender, is the last to use them.
* `OsaEventProofs!EventTypes` and `AlikeWaitersAreWoken`: under the hypothesis `Alike`,
  which is part of `NoEventMissed`, whoever runs and finds nothing tells that nobody else
  can be ready, whoever finds something consumes it, so an awake thread and a ready
  sleeper always come together. The run `event_each` shows that the hypothesis is needed.
* `OsaEventProofs!RetrievalsTellTruth` and `NoFlagVanishes`: a call ends in one of four
  stretches under the mutex (`WaysOut`). In three of them the flags it looked at are the
  flags it tells and takes; in the fourth, `RetrieveLate`, it fails, and the theorems say
  that this is the only way to fail, and the only way for a flag to vanish. The run
  `event_late` shows that this way is taken.
* `OsaPrimsProofs!SemaphoreWakes`: the argument of `WakeupsSuffice` with one kind of
  sleeper. While somebody sleeps there are at least as many woken threads as units:
  a signal adds a unit and wakes one, a woken thread takes a unit or finds none.
* `OsaPrimsProofs!SemaphoreCounts`: the steps of the semaphore are steps of
  `Semaphore` or stutter. It is the safety part of `SemImplements`.
* `OsaPrimsProofs!PipeCounts`: `CountFollows` is not inductive: a negative count is not
  0 either and would let the reader in. The invariant adds that the count is never
  negative, and at least 1 while the reader is inside. That a read gets exactly one
  message then follows from the bytes being that many whole ones; an interrupted write
  leaves none behind, because it goes in whole or not at all.
* `OsaPrimsProofs!PipeNotReserved`: the invariant says which reserved numbers can still
  be free at each step of the creation. The first pipe leaves at most number 2; a
  backup that gets it is closed again; the dummy, the lowest that is free, takes
  it; so the second backup cannot. That the backup is looked at for number 2 alone is
  right because of the first step.
* `OsaPrimsProofs!ListStaysInOrder`: the invariant names the order of the nodes, a function
  with each node once, the last pointing to null (`Chain`); `Cardinality(live)` is its
  length because it is one to one. What `At` reads is that function, by least
  counterexample (`ChainTrace`), and each call gives the next one (`HoldsPushFront`,
  `HoldsPushBack`, `HoldsErase`). A list that has lost its last node must be followed as
  well, since a `list_clear` makes it good again: its pointers lead into each other
  (`Astray`), so that no walk of it ends, and no call makes them end.
* `OsaPrimsProofs!ListActsAsSequence`: the data along the order are what the abstract call
  leaves: an element in front or behind, the tail, the first equal one taken out.
* `OsaWireProofs!StaysInStep`: `InStep` speaks of a part of the stream of all messages
  sent, `StreamInv` of its units: which unit of which message each place of what has been
  received and of what is on the wire holds (`InOrder`), and that a call that has begun on
  the connection is the one that sends the last message. What breaks this, a second call
  that cuts in, a call that gives up, a number that refers to another connection by then,
  clears `clean` in the same step. `ConnInv` says that a connection has received
  nothing before it is made.
* `OsaWireProofs!StepsCarry`: the steps of the wire are steps of `MsgChannel` or stutter: the
  safety part of `Carries`. For it `CallInv` says that no two calls have one message and that a
  message not begun is nowhere, so a message is sent once.

Only model-checked: everything about liveness (`FifoSpec`, `AlikeWake`,
`FailedIsReaped`, `MsgDestroyReturns`, `StopsOnceConnected`, `SendsReturn`, `SendReturns`, the
progress in `Carries` and `SemImplements`), which TLAPS does not treat.

## What comes next

Every invariant and every action property that a passing run checks is proved for all
values of the constants, and so is the safety part of each refinement. What the proofs
do not reach is the list above: how the fairness of a thread's steps brings a call to
its end. What could be proved towards it are the safety facts those arguments rest on,
as `WakeupsSuffice` is for `FifoSpec`: that whoever waits has somebody on the way to wake it.

## Not modelled

* `OSA_tskDelete` and `OSA_thrDelete` (`osa_tsk.c:39-49`): the task's thread is cancelled
  wherever it is, most often inside `pthread_cond_wait`, and leaves the queue's
  mutex locked, the message in its hand lost and whoever waits for its
  acknowledgement asleep; the mutex is then destroyed while locked. From there on
  every use of the mailbox is undefined, and if nobody uses it there is nothing
  to check. Creating tasks and deleting mailboxes are the owner's first and last calls.
* The status an acknowledgement carries, and a failing `malloc` in
  `OSA_msgqAllocMsgHndl`, which stops the caller at an assertion. A NULL sender
  may only send without waiting and then does what `OsaMbx` does in that case.
* The application's callbacks, apart from their return; two application threads
  that use one server handle at once.
* Socket options, addresses and ports (`osa_socket.c:5-57`, `116-138`, `299-347`): calls of
  the kernel in a row, whose failure is an outcome in `OsaServer` and `OsaClient`.
* `osa_mutex.c` and `osa_thr.c`: the pthread calls under other names. `osa_file.c`,
  `osa_prf.c`, `osa.c`, debug output: no protocol. Of these, two lines read like
  hazards and are not: `OSA_getCurTimeInMsec` (`osa.c:34`) sets its flag before the
  start time, and nothing but the profiler uses the result; `OSA_waitMsecs` (61) returns early
  when a signal leaves less than a second to sleep, and nothing in the repository calls it.
* The contents of messages and frames: no property depends on them. `json/`
  is third-party code that the rest does not call.
