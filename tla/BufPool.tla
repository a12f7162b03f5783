------------------------------ MODULE BufPool ------------------------------
(***************************************************************************)
(* The two queues of buffer ids of osa/src/osa_buf.c, as a value: the ids  *)
(* ready to be filled and the ids ready to be used.  Each queue is the     *)
(* bounded FIFO that OsaQue implements, so a call on one is one step.      *)
(***************************************************************************)
EXTENDS Integers, Sequences

OSA_BUF_ID_INVALID == -1

Ids(numBuf) == 0 .. numBuf - 1

Pools(numBuf) == [empty : Seq(Ids(numBuf)), full : Seq(Ids(numBuf))]

\* Mutants: the ids are numbered from one; the last is left out.
NewPoolShort(numBuf) == [empty |-> [i \in 1 .. numBuf - 1 |-> i - 1], full |-> << >>]

\* OSA_bufCreate queues every id as empty.
NewPool(numBuf) == [empty |-> [i \in 1 .. numBuf |-> i - 1], full |-> << >>]

\* OSA_bufPutFull and OSA_bufPutEmpty refuse an id out of range ...
ValidId(numBuf, id) == id < numBuf /\ id >= 0

\* ... and wait for room otherwise.
Room(numBuf, ids) == Len(ids) < numBuf

WithEmpty(pool, id) == [pool EXCEPT !.empty = Append(@, id)]

\* Mutant: last in, first out.
WithFullFirst(pool, id) == [pool EXCEPT !.full = <<id>> \o @]

WithFull(pool, id)  == [pool EXCEPT !.full = Append(@, id)]

\* Mutants: the id is handed out but stays queued.
PeekEmpty(pool) == pool
PeekFull(pool) == pool

LessEmpty(pool)     == [pool EXCEPT !.empty = Tail(@)]
LessFull(pool)      == [pool EXCEPT !.full = Tail(@)]
=============================================================================
