---------------------------- MODULE BlockingFifo ----------------------------
(***************************************************************************)
(* What a queue of osa/inc/osa_que.h promises the threads that share it: a *)
(* bounded first-in first-out queue whose calls each take effect at one    *)
(* instant, and in which no call that could succeed is forgotten.          *)
(***************************************************************************)
EXTENDS OsaQueCalls

VARIABLE items      \* what is queued, oldest first

fifoVars == <<created, len, items, call, ret>>

FifoInit ==
    /\ created = FALSE
    /\ len \in Lens
    /\ items = << >>
    /\ call = [t \in Threads |-> NoCall]
    /\ ret = [t \in Threads |-> NoRet]

\* The owner creates the queue empty; it deletes it when nobody is inside.
FifoCreate(n) ==
    /\ ~created
    /\ created' \in BOOLEAN
    /\ len' = n
    /\ items' = << >>
    /\ UNCHANGED <<call, ret>>

FifoDelete ==
    /\ created
    /\ \A t \in Threads : ~Inside(t)
    /\ created' = FALSE
    /\ UNCHANGED <<len, items, call, ret>>

FifoInvoke(t, c) == Invoke(t, c) /\ UNCHANGED <<created, len, items>>

Put(t) ==
    /\ Asking(t, "put")
    /\ Len(items) < len
    /\ items' = Append(items, call[t].value)
    /\ Return(t, Answer(OSA_SOK))
    /\ UNCHANGED <<created, len>>

Get(t) ==
    /\ Asking(t, "get")
    /\ items # << >>
    /\ items' = Tail(items)
    /\ Return(t, Deliver(Head(items), call[t].keep))
    /\ UNCHANGED <<created, len>>

\* The answers that leave the queue as it is.
PutRefused(t) ==
    /\ Asking(t, "put")
    /\ call[t].timeout = "NONE"
    /\ Len(items) = len
    /\ Return(t, Answer(OSA_EFAIL))

GetRefused(t) ==
    /\ Asking(t, "get")
    /\ call[t].timeout = "NONE"
    /\ items = << >>
    /\ Return(t, Answer(OSA_EFAIL))

Peeked(t) ==
    /\ Asking(t, "peek")
    /\ IF items # << >> /\ call[t].keep
         THEN Return(t, Deliver(Head(items), TRUE))
         ELSE Return(t, Answer(OSA_EFAIL))

Counted(t) == Asking(t, "count") /\ Return(t, Answer(Len(items)))

FoundEmpty(t) ==
    Asking(t, "isEmpty") /\ Return(t, Answer(IF items = << >> THEN 1 ELSE 0))

Ask(t) ==
    /\ PutRefused(t) \/ GetRefused(t) \/ Peeked(t) \/ Counted(t) \/ FoundEmpty(t)
    /\ UNCHANGED <<created, len, items>>

FifoNext ==
    \/ \E n \in Lens : FifoCreate(n)
    \/ FifoDelete
    \/ \E t \in Threads :
          \/ \E c \in Callable[t] : FifoInvoke(t, c)
          \/ Put(t)
          \/ Get(t)
          \/ Ask(t)

\* A call that must not block, answered one way or the other.
Respond(t) ==
    /\ Inside(t)
    /\ NonBlocking(call[t])
    /\ Put(t) \/ Get(t) \/ Ask(t)

\* While a put (get) could be served one is served, though not a particular
\* one: threads that call later may overtake.  A call that must not block
\* always returns.
FifoFairness ==
    /\ WF_fifoVars(\E t \in Threads : Put(t))
    /\ WF_fifoVars(\E t \in Threads : Get(t))
    /\ \A t \in Threads : WF_fifoVars(Respond(t))

FifoSafety == FifoInit /\ [][FifoNext]_fifoVars
FifoSpec   == FifoSafety /\ FifoFairness
=============================================================================
