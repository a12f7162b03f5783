------------------------------ MODULE OsaPipe ------------------------------
(***************************************************************************)
(* The message pipe of osa_pipe.c.  Creation works with the numbers of the *)
(* process's descriptors, which other parts of the process open and close  *)
(* too: the pipe is not to have one of the reserved numbers 0 to 2, which  *)
(* are free when the process was started without them.  The pipe has one   *)
(* writer and one reader.  They share messageCount without a lock: to      *)
(* change it is to load it and, later, to store it.  What passes through   *)
(* it is bytes: where a message ends is for the callers to know.           *)
(***************************************************************************)
EXTENDS Integers, FiniteSets

CONSTANTS
    MaxFd,      \* the last descriptor a process may have
    PipeCap,    \* the bytes that a pipe holds
    PipeBuf,    \* PIPE_BUF: a write of no more bytes goes in whole
    Usages,     \* the sizes its callers may use: sets of sizes
    MaxCount    \* bound: how far messageCount may drift

ASSUME PipeAssumption ==
    /\ MaxFd \in Nat /\ MaxFd >= 2
    /\ PipeCap \in Nat \ {0} /\ MaxCount \in Nat
    /\ PipeBuf \in 1 .. PipeCap
    /\ Usages \subseteq SUBSET (Nat \ {0})

VARIABLES
    fds,        \* the descriptors in use
    others,     \* those that other parts of the process have opened
    creating,   \* where OSA_CreatePipe is
    pHandle, pHandleBackup, pfdDummy,   \* the descriptors of each
    pPipe,      \* those of the pipe that is in use
    disturbed,  \* history: a reserved number was freed during a creation
    lengths,    \* the sizes its callers use
    bytes,      \* how many are in the pipe
    messageCount,
    writer, reader,     \* where each is in its call, the size it asks for, what of
                        \* it is done, and the count it has loaded
    skewed      \* history: a store of messageCount was lost or a read interrupted

createVars == <<fds, creating, pHandle, pHandleBackup, pfdDummy, pPipe>>
useVars    == <<lengths, bytes, messageCount, writer, reader, skewed>>
pipeVars   == <<createVars, others, disturbed, useVars>>

Descriptors == 0 .. MaxFd
Reserved    == 0 .. 2
Out         == [at |-> "out", size |-> 0, done |-> 0, loaded |-> 0]

PipeInit ==
    /\ fds \in SUBSET Reserved
    /\ others = {}
    /\ creating = "no"
    /\ pHandle = {} /\ pHandleBackup = {} /\ pfdDummy = {}
    /\ pPipe = {}
    /\ disturbed = FALSE
    /\ lengths \in Usages
    /\ bytes = 0 /\ messageCount = 0
    /\ writer = Out /\ reader = Out
    /\ skewed = FALSE

-----------------------------------------------------------------------------
(* The rest of the process *)

Lowest(S) == CHOOSE f \in S : \A g \in S : f <= g

OtherOpens ==
    /\ Descriptors \ fds # {}
    /\ LET f == Lowest(Descriptors \ fds)
       IN  fds' = fds \cup {f} /\ others' = others \cup {f}
    /\ UNCHANGED <<creating, pHandle, pHandleBackup, pfdDummy, pPipe, disturbed, useVars>>

OtherCloses ==
    /\ \E f \in others :
          /\ fds' = fds \ {f} /\ others' = others \ {f}
          /\ disturbed' = (disturbed \/ (creating # "no" /\ f \in Reserved))
    /\ UNCHANGED <<creating, pHandle, pHandleBackup, pfdDummy, pPipe, useVars>>

-----------------------------------------------------------------------------
(* OSA_CreatePipe *)

\* pipe returns the two lowest numbers that are free, when there are two.
Pairs(used) ==
    LET free == Descriptors \ used
        f    == Lowest(free)
    IN  IF Cardinality(free) < 2 THEN {} ELSE {{f, Lowest(free \ {f})}}

\* There is no memory or no pipe: what has been opened stays open.
CreateFails ==
    /\ creating' = "no"
    /\ pHandle' = {} /\ pHandleBackup' = {} /\ pfdDummy' = {}
    /\ UNCHANGED <<fds, pPipe>>

\* The pipe is handed out, and the descriptors in unused are closed.
Created(pair, unused) ==
    /\ pPipe' = pair
    /\ fds' = (fds \cup pair) \ unused
    /\ creating' = "no"
    /\ pHandle' = {} /\ pHandleBackup' = {} /\ pfdDummy' = {}

FirstPipe ==
    /\ creating = "no" /\ pPipe = {}
    /\ \E pair \in Pairs(fds) :
          IF pair \cap Reserved = {} THEN Created(pair, {})
          ELSE /\ pHandle' = pair
               /\ fds' = fds \cup pair
               /\ creating' = "backup"
               /\ UNCHANGED <<pHandleBackup, pfdDummy, pPipe>>
    /\ disturbed' = FALSE
    /\ UNCHANGED <<others, useVars>>

\* Mutant: the backup is taken as it comes.
BackupPipeUnchecked ==
    /\ creating = "backup"
    /\ \/ CreateFails
       \/ \E pair \in Pairs(fds) : Created(pair, pHandle)
    /\ UNCHANGED <<others, disturbed, useVars>>

\* The backup is looked at for descriptor 2 alone.  When it has that, it is closed,
\* a dummy takes its place, and it is opened again.
BackupPipe ==
    /\ creating = "backup"
    /\ \/ CreateFails
       \/ \E pair \in Pairs(fds) :
             IF 2 \notin pair THEN Created(pair, pHandle)
             ELSE /\ pHandleBackup' = pair
                  /\ fds' = fds \cup pair
                  /\ creating' = "close"
                  /\ UNCHANGED <<pHandle, pfdDummy, pPipe>>
    /\ UNCHANGED <<others, disturbed, useVars>>

CloseBackup ==
    /\ creating = "close"
    /\ fds' = fds \ pHandleBackup
    /\ creating' = "dummy"
    /\ UNCHANGED <<others, pHandle, pHandleBackup, pfdDummy, pPipe, disturbed, useVars>>

DummyPipe ==
    /\ creating = "dummy"
    /\ \/ CreateFails
       \/ \E pair \in Pairs(fds) :
             /\ pfdDummy' = pair
             /\ fds' = fds \cup pair
             /\ creating' = "second"
             /\ UNCHANGED <<pHandle, pHandleBackup, pPipe>>
    /\ UNCHANGED <<others, disturbed, useVars>>

SecondBackup ==
    /\ creating = "second"
    /\ \/ CreateFails
       \/ \E pair \in Pairs(fds) : Created(pair, pfdDummy \cup pHandle)
    /\ UNCHANGED <<others, disturbed, useVars>>

\* OSA_DeletePipe, when nobody uses the pipe.
DeletePipe ==
    /\ pPipe # {} /\ writer = Out /\ reader = Out
    /\ fds' = fds \ pPipe
    /\ pPipe' = {}
    /\ bytes' = 0 /\ messageCount' = 0 /\ skewed' = FALSE
    /\ UNCHANGED <<others, disturbed, creating, pHandle, pHandleBackup, pfdDummy, lengths,
                   writer, reader>>

-----------------------------------------------------------------------------
(* OSA_WriteToPipe, OSA_ReadFromPipe *)

UseUnchanged == UNCHANGED <<createVars, others, disturbed, lengths>>

Begin(n) == [Out EXCEPT !.at = "io", !.size = n]
Counting == [Out EXCEPT !.at = "load"]

Write ==
    /\ pPipe # {} /\ writer = Out
    /\ messageCount < MaxCount
    /\ \E n \in lengths : writer' = Begin(n)
    /\ UseUnchanged /\ UNCHANGED <<bytes, messageCount, reader, skewed>>

\* write waits for room; up to PIPE_BUF bytes go in at once, more bit by bit.
WritePuts ==
    /\ writer.at = "io"
    /\ \E n \in 1 .. writer.size - writer.done :
          /\ bytes + n <= PipeCap
          /\ writer.size <= PipeBuf => n = writer.size
          /\ bytes' = bytes + n
          /\ writer' = IF writer.done + n = writer.size THEN Counting
                       ELSE [writer EXCEPT !.done = @ + n]
    /\ UseUnchanged /\ UNCHANGED <<messageCount, reader, skewed>>

\* A signal ends it: the call fails and counts nothing, whatever is in the pipe
\* already.
WriteInterrupted ==
    /\ writer.at = "io"
    /\ writer' = Out
    /\ UseUnchanged /\ UNCHANGED <<bytes, messageCount, reader, skewed>>

WriterLoads ==
    /\ writer.at = "load"
    /\ writer' = [writer EXCEPT !.at = "store", !.loaded = messageCount]
    /\ UseUnchanged /\ UNCHANGED <<bytes, messageCount, reader, skewed>>

WriterStores ==
    /\ writer.at = "store"
    /\ messageCount' = writer.loaded + 1
    /\ skewed' = (skewed \/ messageCount # writer.loaded)
    /\ writer' = Out
    /\ UseUnchanged /\ UNCHANGED <<bytes, reader>>

\* Mutant: the count is not looked at.
ReadUnchecked ==
    /\ pPipe # {} /\ reader = Out
    /\ \E n \in lengths : reader' = Begin(n)
    /\ UseUnchanged /\ UNCHANGED <<bytes, messageCount, writer, skewed>>

\* A reader that finds the count at 0 is refused.
Read ==
    /\ pPipe # {} /\ reader = Out
    /\ messageCount # 0 /\ messageCount > -MaxCount
    /\ \E n \in lengths : reader' = Begin(n)
    /\ UseUnchanged /\ UNCHANGED <<bytes, messageCount, writer, skewed>>

\* read waits for a byte and takes what there is, up to the size asked for.  It
\* counts as one message, whether it was several or part of one.
ReadReturns ==
    /\ reader.at = "io"
    /\ bytes > 0
    /\ LET n == IF bytes < reader.size THEN bytes ELSE reader.size
       IN  /\ bytes' = bytes - n
           /\ reader' = Counting
    /\ UseUnchanged /\ UNCHANGED <<messageCount, writer, skewed>>

\* The -1 of a read that a signal ends is taken for a length.
ReadInterrupted ==
    /\ reader.at = "io"
    /\ skewed' = TRUE
    /\ reader' = Counting
    /\ UseUnchanged /\ UNCHANGED <<bytes, messageCount, writer>>

ReaderLoads ==
    /\ reader.at = "load"
    /\ reader' = [reader EXCEPT !.at = "store", !.loaded = messageCount]
    /\ UseUnchanged /\ UNCHANGED <<bytes, messageCount, writer, skewed>>

ReaderStores ==
    /\ reader.at = "store"
    /\ messageCount' = reader.loaded - 1
    /\ skewed' = (skewed \/ messageCount # reader.loaded)
    /\ reader' = Out
    /\ UseUnchanged /\ UNCHANGED <<bytes, writer>>

Creating ==
    \/ OtherOpens \/ OtherCloses
    \/ FirstPipe \/ BackupPipe \/ CloseBackup \/ DummyPipe \/ SecondBackup \/ DeletePipe

Transferring ==
    \/ Write \/ WritePuts \/ WriteInterrupted \/ WriterLoads \/ WriterStores
    \/ Read \/ ReadReturns \/ ReadInterrupted \/ ReaderLoads \/ ReaderStores

PipeNext == Creating \/ Transferring

PipeSpec == PipeInit /\ [][PipeNext]_pipeVars

-----------------------------------------------------------------------------
PipeTypeOK ==
    /\ {fds, others, pHandle, pHandleBackup, pfdDummy, pPipe} \subseteq SUBSET Descriptors
    /\ creating \in {"no", "backup", "close", "dummy", "second"}
    /\ lengths \in Usages
    /\ bytes \in 0 .. PipeCap /\ messageCount \in Int
    /\ writer.at \in {"out", "io", "load", "store"}
    /\ reader.at \in {"out", "io", "load", "store"}
    /\ {disturbed, skewed} \subseteq BOOLEAN

\* A pipe that is handed out has two descriptors that are open and nobody else's,
\* and neither is a reserved one, whichever of those were free and whatever other
\* threads open meanwhile, unless they free a reserved one while the pipe is made
\* (osa_pipe.c:35-91).
NotReserved ==
    /\ PipeTypeOK
    /\ pPipe # {} => /\ Cardinality(pPipe) = 2
                     /\ pPipe \subseteq fds \ others
                     /\ ~disturbed => pPipe \cap Reserved = {}

\* All calls ask for the same size, and it goes in whole: what a pipe with
\* isFixedMessage is meant for, which the code does not look at.
Fixed == \E s \in 1 .. PipeBuf : lengths = {s}

\* Out of the call's bytes and not yet in, or out of, the count.
Uncounted(end) == IF end.at \in {"load", "store"} THEN 1 ELSE 0

\* With messages of one size, as long as writer and reader have not stored over
\* each other's count and no read has been interrupted, messageCount accounts for
\* every message, and a reader that it has let in gets a whole one without waiting,
\* however many writes were interrupted (osa_pipe.c:152-182, 186-211).
CountFollows ==
    ~skewed /\ Fixed =>
        \A s \in lengths :
            /\ bytes = s * ((messageCount + Uncounted(writer)) - Uncounted(reader))
            /\ reader.at = "io" => bytes >= s
=============================================================================
