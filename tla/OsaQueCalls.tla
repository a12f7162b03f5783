---------------------------- MODULE OsaQueCalls ----------------------------
(***************************************************************************)
(* The calls of osa/inc/osa_que.h and what they give back, as the threads  *)
(* that use one queue see them.  BlockingFifo says what the calls promise, *)
(* OsaQue how osa/src/osa_que.c carries them out; both extend this module. *)
(***************************************************************************)
EXTENDS Integers, Sequences, FiniteSets

CONSTANTS
    Threads,    \* the threads that share the queue
    Values,     \* the Int32 values they pass through it
    Lens,       \* the maxLen arguments OSA_queCreate is given
    Callable,   \* the calls each thread makes
    NoValue,    \* nothing written through the value pointer
    NoCall,     \* the thread is outside the module
    NoRet       \* the thread's call has not returned yet

OSA_SOK   == 0
OSA_EFAIL == -1

\* Every timeout that is not OSA_TIMEOUT_NONE waits for ever.
Timeouts == {"NONE", "FOREVER"}

PutCalls  == [op : {"put"}, value : Values, timeout : Timeouts]
\* keep: the caller passed a value pointer, not NULL
GetCalls  == [op : {"get"}, keep : BOOLEAN, timeout : Timeouts]
PeekCalls == [op : {"peek"}, keep : BOOLEAN]
AskCalls  == [op : {"count", "isEmpty"}]
Calls     == PutCalls \cup GetCalls \cup PeekCalls \cup AskCalls

\* A return value and what was written through the value pointer.
Rets == [result : Int, value : Values \cup {NoValue}]

Answer(result)       == [result |-> result, value |-> NoValue]
Deliver(v, keep)     == [result |-> OSA_SOK, value |-> IF keep THEN v ELSE NoValue]
NonBlocking(c)       == c.op \in {"put", "get"} => c.timeout = "NONE"

ASSUME QueAssumption ==
    /\ Lens \subseteq Nat
    /\ IsFiniteSet(Threads)
    /\ Callable \in [Threads -> SUBSET Calls]
    /\ NoCall \notin Calls
    /\ NoValue \notin Values
    /\ NoRet \notin Rets

VARIABLES
    created,    \* the owner's OSA_queCreate succeeded and it has not deleted
    len,        \* the capacity asked for
    call,       \* what each thread is asking, NoCall when it is outside
    ret         \* what each thread's last call gave back

CallTypeOK ==
    /\ created \in BOOLEAN
    /\ len \in Lens
    /\ call \in [Threads -> Calls \cup {NoCall}]
    /\ ret \in [Threads -> Rets \cup {NoRet}]

Inside(t) == call[t] # NoCall

Asking(t, op) == Inside(t) /\ call[t].op = op

Invoke(t, c) ==
    /\ created
    /\ ~Inside(t)
    /\ call' = [call EXCEPT ![t] = c]
    /\ ret' = [ret EXCEPT ![t] = NoRet]

Return(t, r) ==
    /\ call' = [call EXCEPT ![t] = NoCall]
    /\ ret' = [ret EXCEPT ![t] = r]
=============================================================================
