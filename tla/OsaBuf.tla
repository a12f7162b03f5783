------------------------------- MODULE OsaBuf -------------------------------
(***************************************************************************)
(* osa/src/osa_buf.c: a pool of numBuf buffers that threads take empty,    *)
(* fill, hand over full, use and give back.  A thread keeps the id it      *)
(* holds in one int, as the int *bufId arguments do.  The Switch calls are *)
(* two queue operations with nothing held in between: two steps here.      *)
(***************************************************************************)
EXTENDS BufPool, FiniteSets

CONSTANTS
    Threads,    \* the threads that share the pool
    NumBuf,     \* OSA_bufCreate's buf_num
    Frames      \* what a thread may leave in a buffer

ASSUME BufAssumption ==
    /\ NumBuf \in 0 .. 120          \* OSA_BUF_NUM_MAX
    /\ Frames # {}

VARIABLES
    pool,       \* emptyQue and fullQue
    bufInfo,    \* what each buffer holds
    bufId,      \* the caller's variable behind int *bufId
    newBufId,   \* the local of a Switch call
    pc,         \* "out", or the Switch call between its two halves
    status      \* the last call's return value

bufVars == <<pool, bufInfo, bufId, newBufId, pc, status>>

Held(t) == {bufId[t], newBufId[t]} \ {OSA_BUF_ID_INVALID}

BufInit ==
    /\ pool = NewPool(NumBuf)
    /\ bufInfo \in [Ids(NumBuf) -> Frames]
    /\ bufId = [t \in Threads |-> OSA_BUF_ID_INVALID]
    /\ newBufId = [t \in Threads |-> OSA_BUF_ID_INVALID]
    /\ pc = [t \in Threads |-> "out"]
    /\ status = [t \in Threads |-> 0]

Result(t, s) == status' = [status EXCEPT ![t] = s]

\* A caller asks for a buffer when it has none; with a timeout of NONE it may
\* be told there is none, and its variable set to OSA_BUF_ID_INVALID.
Asks(t) == pc[t] = "out" /\ bufId[t] = OSA_BUF_ID_INVALID

GetEmpty(t) ==
    /\ Asks(t)
    /\ pool.empty # << >>
    /\ bufId' = [bufId EXCEPT ![t] = Head(pool.empty)]
    /\ pool' = LessEmpty(pool)
    /\ Result(t, 0)
    /\ UNCHANGED <<bufInfo, newBufId, pc>>

GetFull(t) ==
    /\ Asks(t)
    /\ pool.full # << >>
    /\ bufId' = [bufId EXCEPT ![t] = Head(pool.full)]
    /\ pool' = LessFull(pool)
    /\ Result(t, 0)
    /\ UNCHANGED <<bufInfo, newBufId, pc>>

GetNothing(t) ==
    /\ Asks(t)
    /\ pool.empty = << >> \/ pool.full = << >>
    /\ Result(t, -1)
    /\ UNCHANGED <<pool, bufInfo, bufId, newBufId, pc>>

\* The caller gives up what its variable names; a refused id changes nothing.
PutFull(t) ==
    /\ pc[t] = "out"
    /\ IF ValidId(NumBuf, bufId[t])
         THEN /\ Room(NumBuf, pool.full)
              /\ pool' = WithFull(pool, bufId[t])
              /\ bufId' = [bufId EXCEPT ![t] = OSA_BUF_ID_INVALID]
              /\ Result(t, 0)
         ELSE Result(t, -1) /\ UNCHANGED <<pool, bufId>>
    /\ UNCHANGED <<bufInfo, newBufId, pc>>

PutEmpty(t) ==
    /\ pc[t] = "out"
    /\ IF ValidId(NumBuf, bufId[t])
         THEN /\ Room(NumBuf, pool.empty)
              /\ pool' = WithEmpty(pool, bufId[t])
              /\ bufId' = [bufId EXCEPT ![t] = OSA_BUF_ID_INVALID]
              /\ Result(t, 0)
         ELSE Result(t, -1) /\ UNCHANGED <<pool, bufId>>
    /\ UNCHANGED <<bufInfo, newBufId, pc>>

\* First half of OSA_bufSwitchFull: take an empty buffer without waiting.
SwitchFull(t) ==
    /\ pc[t] = "out"
    /\ IF pool.empty # << >>
         THEN /\ newBufId' = [newBufId EXCEPT ![t] = Head(pool.empty)]
              /\ pool' = LessEmpty(pool)
              /\ pc' = [pc EXCEPT ![t] = "switchFull"]
              /\ UNCHANGED status
         ELSE Result(t, -1) /\ UNCHANGED <<pool, newBufId, pc>>
    /\ UNCHANGED <<bufInfo, bufId>>

\* First half of OSA_bufSwitchEmpty: take a full one.
SwitchEmpty(t) ==
    /\ pc[t] = "out"
    /\ IF pool.full # << >>
         THEN /\ newBufId' = [newBufId EXCEPT ![t] = Head(pool.full)]
              /\ pool' = LessFull(pool)
              /\ pc' = [pc EXCEPT ![t] = "switchEmpty"]
              /\ UNCHANGED status
         ELSE Result(t, -1) /\ UNCHANGED <<pool, newBufId, pc>>
    /\ UNCHANGED <<bufInfo, bufId>>

\* Mutant: the id just taken is the one put back.
GivenUpNew(t) == newBufId[t]

\* What a Switch call puts on the other queue: the old buffer, if there was one.
GivenUp(t) == bufId[t]

\* Second half: the old buffer goes to the other queue, the new one is the caller's.
Switched(t) ==
    /\ pc[t] # "out"
    /\ IF bufId[t] = OSA_BUF_ID_INVALID
         THEN UNCHANGED pool
         ELSE \/ /\ pc[t] = "switchFull"
                 /\ Room(NumBuf, pool.full)
                 /\ pool' = WithFull(pool, GivenUp(t))
              \/ /\ pc[t] = "switchEmpty"
                 /\ Room(NumBuf, pool.empty)
                 /\ pool' = WithEmpty(pool, GivenUp(t))
    /\ bufId' = [bufId EXCEPT ![t] = newBufId[t]]
    /\ newBufId' = [newBufId EXCEPT ![t] = OSA_BUF_ID_INVALID]
    /\ pc' = [pc EXCEPT ![t] = "out"]
    /\ Result(t, 0)
    /\ UNCHANGED bufInfo

\* The holder writes its buffer through OSA_bufGetBufInfo.
Fill(t, f) ==
    /\ pc[t] = "out"
    /\ bufId[t] # OSA_BUF_ID_INVALID
    /\ bufInfo' = [bufInfo EXCEPT ![bufId[t]] = f]
    /\ UNCHANGED <<pool, bufId, newBufId, pc, status>>

BufNext == \E t \in Threads :
    \/ GetEmpty(t) \/ GetFull(t) \/ GetNothing(t)
    \/ PutFull(t) \/ PutEmpty(t)
    \/ SwitchFull(t) \/ SwitchEmpty(t) \/ Switched(t)
    \/ \E f \in Frames : Fill(t, f)

BufSpec == BufInit /\ [][BufNext]_bufVars

-----------------------------------------------------------------------------
\* Every variable has its type; a thread is between the halves of a Switch
\* exactly while it holds a second buffer.
TypeOK ==
    /\ pool \in Pools(NumBuf)
    /\ bufInfo \in [Ids(NumBuf) -> Frames]
    /\ bufId \in [Threads -> Ids(NumBuf) \cup {OSA_BUF_ID_INVALID}]
    /\ newBufId \in [Threads -> Ids(NumBuf) \cup {OSA_BUF_ID_INVALID}]
    /\ pc \in [Threads -> {"out", "switchFull", "switchEmpty"}]
    /\ status \in [Threads -> {0, -1}]
    /\ \A t \in Threads : pc[t] = "out" <=> newBufId[t] = OSA_BUF_ID_INVALID

Queued(ids) == {ids[i] : i \in DOMAIN ids}
Distinct(ids) == \A i, j \in DOMAIN ids : ids[i] = ids[j] => i = j

\* No buffer is in two places: every id is once in one queue or in one thread's
\* hands, through every interleaving of the two halves of the Switch calls.
OneOwner ==
    /\ Distinct(pool.empty) /\ Distinct(pool.full)
    /\ Queued(pool.empty) \cap Queued(pool.full) = {}
    /\ \A t \in Threads :
          /\ Held(t) \cap (Queued(pool.empty) \cup Queued(pool.full)) = {}
          /\ pc[t] # "out" => bufId[t] # newBufId[t]
          /\ \A u \in Threads \ {t} : Held(t) \cap Held(u) = {}

\* No buffer is lost: what is in no queue is in somebody's hands.
NoneLost ==
    /\ TypeOK
    /\ Ids(NumBuf) \subseteq Queued(pool.empty) \cup Queued(pool.full)
                             \cup UNION {Held(t) : t \in Threads}

\* The puts wait for ever for room (osa_buf.c:85, 117) but never have to: while
\* anyone has a buffer to put there is room in both queues.
PutNeverWaits ==
    \A t \in Threads : bufId[t] # OSA_BUF_ID_INVALID =>
        Room(NumBuf, pool.full) /\ Room(NumBuf, pool.empty)

\* The frames handed over, oldest first.
Shown == [i \in DOMAIN pool.full |-> bufInfo[pool.full[i]]]

\* A frame handed over is not written again until it is taken, and frames are
\* taken in the order they were handed over; the taker finds what was put.
FramesInOrder == [][
    \/ Shown' = Shown
    \/ \E t \in Threads : bufId[t] # OSA_BUF_ID_INVALID
                          /\ Shown' = Append(Shown, bufInfo[bufId[t]])
    \/ /\ Shown # << >>
       /\ Shown' = Tail(Shown)
       /\ \E t \in Threads : \E b \in Ids(NumBuf) :
             b \in {bufId'[t], newBufId'[t]} \ Held(t) /\ bufInfo'[b] = Head(Shown)
    ]_bufVars
=============================================================================
