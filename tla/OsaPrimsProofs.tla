--------------------------- MODULE OsaPrimsProofs ---------------------------
(***************************************************************************)
(* What OsaSem guarantees for any finite set of threads and any arguments  *)
(* of OSA_semCreate, OsaPipe for any number of descriptors, any room in    *)
(* the pipe and any bound on the count, and OsaList for any finite set of  *)
(* addresses and any data.                                                 *)
(***************************************************************************)
EXTENDS OsaSem, OsaPipe, OsaList, FiniteSetTheorems, SequenceTheorems, WellFoundedInduction, TLAPS

-----------------------------------------------------------------------------
\* A set of naturals with something in it has a least element.
LEMMA LowestIsLeast ==
    ASSUME NEW S \in SUBSET Nat, S # {}
    PROVE  Lowest(S) \in S /\ \A g \in S : Lowest(S) <= g
<1>1. PICK f \in S : \A g \in S : <<g, f>> \notin OpToRel(<, Nat)
  BY NatLessThanWellFounded, WFMin
<1>2. \A g \in S : ~(g < f)
  BY <1>1, Zenon DEF OpToRel
<1>3. \A g \in S : f <= g
  BY <1>2
<1> QED
  BY <1>3 DEF Lowest

-----------------------------------------------------------------------------
(* The semaphore *)

\* A thread that joins a set of threads raises its number by one, and one that
\* leaves lowers it.
LEMMA CountSemThreads ==
    ASSUME NEW S \in SUBSET SemThreads, NEW t \in SemThreads
    PROVE  /\ Cardinality(S) \in Nat
           /\ t \notin S => Cardinality(S \cup {t}) = Cardinality(S) + 1
           /\ t \in S => Cardinality(S \ {t}) = Cardinality(S) - 1
<1>1. IsFiniteSet(S)
  BY SemAssumption, FS_Subset
<1> QED
  BY <1>1, FS_AddElement, FS_RemoveElement, FS_CardinalityType

LEMMA SemInitOK == SemInit => NoLostWakeup
<1> SUFFICES ASSUME SemInit PROVE NoLostWakeup
  OBVIOUS
<1>1. semLive \in BOOLEAN
  BY Zenon DEF SemInit
<1> QED
  BY <1>1 DEF SemInit, NoLostWakeup, SemTypeOK, Waiters

LEMMA SemStepOK == NoLostWakeup /\ [SemNext]_semVars => NoLostWakeup'
<1> SUFFICES ASSUME NoLostWakeup, [SemNext]_semVars
             PROVE  NoLostWakeup'
  OBVIOUS
<1> USE SemAssumption DEF NoLostWakeup, SemTypeOK, Waiters
<1>1. CASE SemCreate
  <2>1. PICK m \in MaxCounts, v \in InitVals :
            /\ maxCount' = IF m = 0 THEN 1 ELSE m
            /\ count' = IF v > maxCount' THEN maxCount' ELSE v
    BY <1>1 DEF SemCreate
  <2>2. maxCount' \in Nat \ {0} /\ count' \in 0 .. maxCount'
    BY <2>1
  <2>3. semLive' \in BOOLEAN /\ semLive'
    BY <1>1, Zenon DEF SemCreate
  <2> QED
    BY <1>1, <2>2, <2>3 DEF SemCreate
<1>2. CASE SemDelete
  <2>1. semLive' \in BOOLEAN
    BY <1>2, Zenon DEF SemDelete
  <2> QED
    BY <1>2, <2>1 DEF SemDelete
<1>3. CASE SemSignal
  <2>1. CASE asleep = {}
    BY <1>3, <2>1 DEF SemSignal, WakeOne
  <2>2. CASE asleep # {}
    <3>1. PICK t \in asleep : asleep' = asleep \ {t} /\ awake' = awake \cup {t}
      BY <1>3, <2>2 DEF SemSignal, WakeOne
    <3>2. Cardinality(awake') = Cardinality(awake) + 1 /\ Cardinality(awake) \in Nat
      BY <3>1, CountSemThreads
    <3> QED
      BY <1>3, <2>2, <3>1, <3>2 DEF SemSignal
  <2> QED
    BY <2>1, <2>2
<1>4. ASSUME NEW t \in SemThreads, SemTake(t)
      PROVE  NoLostWakeup'
  <2>1. Cardinality(awake) \in Nat
    BY <1>4, CountSemThreads
  <2> QED
    BY <1>4, <2>1 DEF SemTake
<1>5. ASSUME NEW t \in SemThreads, SemWait(t)
      PROVE  NoLostWakeup'
  <2>1. Cardinality(awake) \in Nat
    BY <1>5, CountSemThreads
  <2> QED
    BY <1>5, <2>1 DEF SemWait
<1>6. ASSUME NEW t \in SemThreads, SemWake(t)
      PROVE  NoLostWakeup'
  <2>1. Cardinality(awake') = Cardinality(awake) + 1 /\ Cardinality(awake) \in Nat
    BY <1>6, CountSemThreads DEF SemWake
  <2> QED
    BY <1>6, <2>1 DEF SemWake
<1>7. ASSUME NEW t \in SemThreads, SemRetry(t)
      PROVE  NoLostWakeup'
  <2>1. /\ Cardinality(awake') = Cardinality(awake) - 1
        /\ Cardinality(awake) \in Nat /\ Cardinality(awake') \in Nat
    BY <1>7, CountSemThreads DEF SemRetry
  <2>2. CASE count > 0
    <3>1. /\ count' = count - 1 /\ asleep' = asleep /\ awake' = awake \ {t}
          /\ semLive' = semLive /\ maxCount' = maxCount
      BY <1>7, <2>2 DEF SemRetry
    <3>2. count' \in 0 .. maxCount /\ (asleep' # {} => count' <= Cardinality(awake'))
      BY <2>1, <2>2, <3>1
    <3> QED
      BY <3>1, <3>2
  <2>3. CASE count = 0
    BY <1>7, <2>1, <2>3 DEF SemRetry
  <2> QED
    BY <2>2, <2>3
<1>8. CASE UNCHANGED semVars
  BY <1>8 DEF semVars
<1> QED
  BY <1>1, <1>2, <1>3, <1>4, <1>5, <1>6, <1>7, <1>8 DEF SemNext

\* No wakeup of OSA_semSignal is lost, for any number of threads: one
\* pthread_cond_signal for each unit is enough (osa_sem.c:42-69).
THEOREM SemaphoreWakes == SemSpec => []NoLostWakeup
BY SemInitOK, SemStepOK, PTL DEF SemSpec

-----------------------------------------------------------------------------
LEMMA SemInitRefines == SemInit => Counter!SemaphoreInit
BY DEF SemInit, Counter!SemaphoreInit, Waiters

LEMMA SemStepRefines ==
    NoLostWakeup /\ [SemNext]_semVars => [Counter!SemaphoreNext]_Counter!semaphoreVars
<1> SUFFICES ASSUME NoLostWakeup, [SemNext]_semVars
             PROVE  Counter!SemaphoreNext \/ UNCHANGED Counter!semaphoreVars
  BY DEF Counter!semaphoreVars
<1> USE SemAssumption DEF NoLostWakeup, SemTypeOK, Waiters, Counter!SemaphoreNext,
        Counter!semaphoreVars
<1>1. CASE SemCreate
  <2>1. PICK m \in MaxCounts, v \in InitVals :
            /\ maxCount' = IF m = 0 THEN 1 ELSE m
            /\ count' = IF v > maxCount' THEN maxCount' ELSE v
    BY <1>1 DEF SemCreate
  <2>2. maxCount' \in Nat \ {0} /\ count' \in 0 .. maxCount'
    BY <2>1
  <2> QED
    BY <1>1, <2>2 DEF SemCreate, Counter!Open
<1>2. CASE SemDelete
  BY <1>2 DEF SemDelete, Counter!Discard
<1>3. CASE SemSignal
  BY <1>3 DEF SemSignal, WakeOne, Counter!Release
<1>4. ASSUME NEW t \in SemThreads, SemTake(t)
      PROVE  Counter!SemaphoreNext
  BY <1>4 DEF SemTake, Counter!Take
<1>5. ASSUME NEW t \in SemThreads, SemWait(t)
      PROVE  Counter!SemaphoreNext
  BY <1>5 DEF SemWait, Counter!Join
<1>6. ASSUME NEW t \in SemThreads, SemWake(t)
      PROVE  UNCHANGED Counter!semaphoreVars
  BY <1>6 DEF SemWake
<1>7. ASSUME NEW t \in SemThreads, SemRetry(t)
      PROVE  Counter!SemaphoreNext \/ UNCHANGED Counter!semaphoreVars
  <2>1. CASE count > 0
    <3>1. asleep' \cup awake' = (asleep \cup awake) \ {t}
      BY <1>7, <2>1 DEF SemRetry
    <3> QED
      BY <1>7, <2>1, <3>1 DEF SemRetry, Counter!Acquire
  <2>2. CASE ~(count > 0)
    BY <1>7, <2>2 DEF SemRetry
  <2> QED
    BY <2>1, <2>2
<1>8. CASE UNCHANGED semVars
  BY <1>8 DEF semVars
<1> QED
  BY <1>1, <1>2, <1>3, <1>4, <1>5, <1>6, <1>7, <1>8 DEF SemNext

\* Every step of osa_sem.c is a step of the counting semaphore or none: it never
\* gives a unit to two callers nor loses one below its maximum (osa_sem.c:24-69).
THEOREM SemaphoreCounts ==
    SemSpec => Counter!SemaphoreInit /\ [][Counter!SemaphoreNext]_Counter!semaphoreVars
<1>1. SemSpec => []NoLostWakeup
  BY SemaphoreWakes
<1> QED
  BY <1>1, SemInitRefines, SemStepRefines, PTL DEF SemSpec

-----------------------------------------------------------------------------
(* The pipe: the count of messages *)

\* What is in the pipe by the count: written and counted or about to be, less what is
\* read and about to be.
Whole == (messageCount + Uncounted(writer)) - Uncounted(reader)

\* A write that goes in at once has put nothing while it is under way.
CountTyped ==
    /\ lengths \in Usages
    /\ bytes \in 0 .. PipeCap /\ messageCount \in Int
    /\ writer \in [at : {"out", "io", "load", "store"}, size : Nat, done : Nat, loaded : Int]
    /\ reader \in [at : {"out", "io", "load", "store"}, size : Nat, done : Nat, loaded : Int]
    /\ writer.at = "io" => /\ writer.size \in lengths
                           /\ writer.size <= PipeBuf => writer.done = 0
    /\ reader.at = "io" => reader.size \in lengths

\* A reader that is inside has been let in by a message that is still counted.  This is
\* what CountFollows lacks: with it the count is never negative, so that a count other
\* than 0 stands for a message.
CountCovers == messageCount >= 0 /\ (reader.at # "out" => messageCount >= 1)

BytesFollow == \A s \in 1 .. PipeBuf : lengths = {s} => bytes = s * Whole

CountInv == CountTyped /\ (~skewed => CountCovers /\ BytesFollow)

\* The two facts about products that the steps need.
LEMMA OneMore == ASSUME NEW s \in Nat, NEW k \in Int PROVE s * (k + 1) = s * k + s
  OBVIOUS
LEMMA OneLess == ASSUME NEW s \in Nat, NEW k \in Int PROVE s * (k - 1) = s * k - s
  OBVIOUS
LEMMA AtLeastOne == ASSUME NEW s \in Nat, NEW k \in Int, k >= 1 PROVE s * k >= s
<1> DEFINE n == k - 1
<1>1. n \in Nat /\ k = n + 1
  OBVIOUS
<1>2. s * n \in Nat
  BY <1>1
<1>3. s * (n + 1) = s * n + s
  BY <1>1, OneMore
<1> HIDE DEF n
<1> QED
  BY <1>1, <1>2, <1>3

LEMMA CountInit == PipeInit => CountInv
<1> SUFFICES ASSUME PipeInit
             PROVE  CountInv
  OBVIOUS
<1>1. bytes = 0 /\ Whole = 0
  BY DEF PipeInit, Whole, Uncounted, Out
<1>2. BytesFollow
  BY <1>1, PipeAssumption DEF BytesFollow
<1>3. CountTyped /\ CountCovers
  BY PipeAssumption DEF PipeInit, CountTyped, CountCovers, Out
<1> QED
  BY <1>2, <1>3 DEF CountInv

\* Who uses the pipe with which sizes does not change.
LEMMA SameLengths == [PipeNext]_pipeVars => lengths' = lengths
BY Zenon
   DEF PipeNext, Creating, Transferring, pipeVars, createVars, useVars, UseUnchanged,
       OtherOpens, OtherCloses, FirstPipe, BackupPipe, CloseBackup, DummyPipe,
       SecondBackup, DeletePipe, Write, WritePuts, WriteInterrupted, WriterLoads,
       WriterStores, Read, ReadReturns, ReadInterrupted, ReaderLoads, ReaderStores

\* A step that leaves both the bytes and what the count makes of them alone.
LEMMA SameBytes ==
    ASSUME lengths' = lengths, bytes' = bytes, Whole' = Whole, BytesFollow
    PROVE  BytesFollow'
  BY DEF BytesFollow

\* What a write puts: all of a message that goes in at once.
LEMMA WritePutsHow ==
    ASSUME CountTyped, WritePuts
    PROVE  \E n \in Nat : /\ bytes + n <= PipeCap /\ bytes' = bytes + n
                          /\ n >= 1
                          /\ writer.size <= PipeBuf => n = writer.size /\ writer' = Counting
                          /\ writer' \in {Counting, [writer EXCEPT !.done = @ + n]}
<1>1. PICK n \in 1 .. writer.size - writer.done :
        /\ bytes + n <= PipeCap
        /\ writer.size <= PipeBuf => n = writer.size
        /\ bytes' = bytes + n
        /\ writer' = IF writer.done + n = writer.size THEN Counting
                     ELSE [writer EXCEPT !.done = @ + n]
  BY DEF WritePuts
<1>2. writer.at = "io" /\ n \in Nat /\ n >= 1 /\ writer.size \in Nat /\ writer.done \in Nat
  BY <1>1 DEF CountTyped, WritePuts
<1>3. ASSUME writer.size <= PipeBuf
      PROVE  n = writer.size /\ writer' = Counting
  BY <1>1, <1>2, <1>3 DEF CountTyped
<1> QED
  BY <1>1, <1>2, <1>3

LEMMA WritePutsTyped ==
    ASSUME CountTyped, WritePuts, lengths' = lengths
    PROVE  CountTyped'
<1> USE PipeAssumption
<1>1. PICK n \in Nat : /\ bytes + n <= PipeCap /\ bytes' = bytes + n
                       /\ writer.size <= PipeBuf => n = writer.size /\ writer' = Counting
                       /\ writer' \in {Counting, [writer EXCEPT !.done = @ + n]}
  BY WritePutsHow
<1>2. reader' = reader /\ messageCount' = messageCount
  BY DEF WritePuts
<1>3. CASE writer' = Counting
  BY <1>1, <1>2, <1>3 DEF CountTyped, Counting, Out
<1>4. CASE writer' = [writer EXCEPT !.done = @ + n] /\ ~(writer.size <= PipeBuf)
  BY <1>1, <1>2, <1>4 DEF CountTyped
<1> QED
  BY <1>1, <1>3, <1>4

LEMMA WritePutsOK ==
    ASSUME CountTyped, BytesFollow, WritePuts, lengths' = lengths
    PROVE  BytesFollow'
<1>1. PICK n \in Nat : /\ bytes' = bytes + n
                       /\ writer.size <= PipeBuf => n = writer.size /\ writer' = Counting
  BY WritePutsHow
<1>2. writer.at = "io" /\ reader' = reader /\ messageCount' = messageCount
  BY DEF WritePuts
<1>5. ASSUME NEW s \in 1 .. PipeBuf, lengths = {s}
      PROVE  bytes' = s * Whole'
  <2>1. writer.size = s /\ s \in Nat /\ s <= PipeBuf
    BY <1>2, <1>5, PipeAssumption DEF CountTyped
  <2>2. n = s /\ writer' = Counting /\ bytes' = bytes + s
    BY <1>1, <2>1
  <2>3. Whole' = Whole + 1 /\ Whole \in Int
    BY <1>2, <2>2 DEF Whole, Uncounted, Counting, Out, CountTyped
  <2>4. bytes = s * Whole
    BY <1>5 DEF BytesFollow
  <2>5. s * (Whole + 1) = s * Whole + s
    BY <2>1, <2>3, OneMore
  <2> HIDE DEF Whole
  <2> QED
    BY <2>2, <2>3, <2>4, <2>5
<1> QED
  BY <1>5 DEF BytesFollow

LEMMA ReadReturnsOK ==
    ASSUME CountTyped, CountCovers, BytesFollow, ReadReturns, lengths' = lengths
    PROVE  CountTyped' /\ CountCovers' /\ BytesFollow'
<1> USE PipeAssumption
<1> DEFINE n == IF bytes < reader.size THEN bytes ELSE reader.size
<1>1. /\ reader.at = "io" /\ bytes > 0 /\ bytes' = bytes - n /\ reader' = Counting
      /\ writer' = writer /\ messageCount' = messageCount
  BY DEF ReadReturns
<1>2. n \in Nat /\ n <= bytes
  BY DEF CountTyped
<1>3. CountTyped' /\ CountCovers'
  BY <1>1, <1>2 DEF CountTyped, CountCovers, Counting, Out
<1>4. ASSUME NEW s \in 1 .. PipeBuf, lengths = {s}
      PROVE  bytes' = s * Whole'
  <2>1. reader.size = s /\ s \in Nat
    BY <1>1, <1>4 DEF CountTyped
  <2>2. Whole' = Whole - 1 /\ Whole \in Int /\ Whole >= 1
    BY <1>1 DEF Whole, Uncounted, Counting, Out, CountTyped, CountCovers
  <2>3. bytes = s * Whole
    BY <1>4 DEF BytesFollow
  <2>4. s * Whole >= s /\ s * (Whole - 1) = s * Whole - s
    BY <2>1, <2>2, OneLess, AtLeastOne
  <2> HIDE DEF Whole
  <2>5. n = s
    BY <2>1, <2>3, <2>4 DEF CountTyped
  <2> QED
    BY <1>1, <2>2, <2>3, <2>4, <2>5
<1> QED
  BY <1>3, <1>4 DEF BytesFollow

LEMMA CountStep == CountInv /\ [PipeNext]_pipeVars => CountInv'
<1> SUFFICES ASSUME CountInv, [PipeNext]_pipeVars
             PROVE  CountInv'
  OBVIOUS
<1> USE PipeAssumption
<1>0. lengths' = lengths /\ CountTyped
  BY SameLengths DEF CountInv
<1>1. CASE UNCHANGED useVars
  BY <1>1 DEF useVars, CountInv, CountTyped, CountCovers, BytesFollow, Whole, Uncounted
<1>2. CASE DeletePipe
  <2>1. bytes' = 0 /\ Whole' = 0
    BY <1>2 DEF DeletePipe, Whole, Uncounted, Out
  <2>2. BytesFollow'
    BY <2>1 DEF BytesFollow
  <2> QED
    BY <1>0, <1>2, <2>2 DEF DeletePipe, CountInv, CountTyped, CountCovers, Out
<1>3. ASSUME CountTyped', bytes' = bytes, Whole' = Whole,
             ~skewed' => ~skewed /\ (CountCovers => CountCovers')
      PROVE  CountInv'
  BY <1>0, <1>3, SameBytes DEF CountInv
<1>4. CASE Write
  <2>0. PICK n \in lengths : writer' = Begin(n)
    BY <1>4 DEF Write
  <2>1. n \in Nat /\ writer.at = "out" /\ UNCHANGED <<bytes, messageCount, reader, skewed>>
    BY <1>0, <1>4 DEF Write, CountTyped, Out
  <2>2. CountTyped'
    <3>1. writer' = [at |-> "io", size |-> n, done |-> 0, loaded |-> 0]
      BY <2>0 DEF Begin, Out
    <3> QED
      BY <1>0, <2>1, <3>1 DEF CountTyped
  <2>3. Whole' = Whole
    BY <2>0, <2>1 DEF Begin, Out, Whole, Uncounted
  <2> QED
    BY <1>3, <2>1, <2>2, <2>3 DEF CountCovers
<1>5. CASE WritePuts
  <2>1. skewed' = skewed /\ (CountCovers => CountCovers')
    BY <1>5 DEF WritePuts, CountCovers
  <2>2. CountTyped'
    BY <1>0, <1>5, WritePutsTyped
  <2> QED
    BY <1>0, <1>5, <2>1, <2>2, WritePutsOK DEF CountInv
<1>6. CASE WriteInterrupted
  <2>1. CountTyped' /\ Whole' = Whole
    BY <1>0, <1>6 DEF WriteInterrupted, CountTyped, Out, Whole, Uncounted
  <2> QED
    BY <1>3, <1>6, <2>1 DEF WriteInterrupted, CountCovers
<1>7. CASE WriterLoads
  <2>1. CountTyped' /\ Whole' = Whole
    BY <1>0, <1>7 DEF WriterLoads, CountTyped, Whole, Uncounted
  <2> QED
    BY <1>3, <1>7, <2>1 DEF WriterLoads, CountCovers
<1>8. CASE WriterStores
  <2>1. ~skewed' => ~skewed /\ messageCount = writer.loaded
    BY <1>8, Zenon DEF WriterStores
  <2>2. CountTyped' /\ bytes' = bytes
    BY <1>0, <1>8 DEF WriterStores, CountTyped, Out
  <2>3. ASSUME messageCount = writer.loaded, CountCovers
        PROVE  CountCovers' /\ Whole' = Whole
    BY <1>0, <1>8, <2>3 DEF WriterStores, CountTyped, CountCovers, Whole, Uncounted, Out
  <2> QED
    BY <1>0, <2>1, <2>2, <2>3, SameBytes DEF CountInv
<1>9. CASE Read
  <2>0. PICK n \in lengths : reader' = Begin(n)
    BY <1>9 DEF Read
  <2>1. n \in Nat /\ reader.at = "out" /\ UNCHANGED <<bytes, messageCount, writer, skewed>>
    BY <1>0, <1>9 DEF Read, CountTyped, Out
  <2>2. CountTyped'
    <3>1. reader' = [at |-> "io", size |-> n, done |-> 0, loaded |-> 0]
      BY <2>0 DEF Begin, Out
    <3> QED
      BY <1>0, <2>1, <3>1 DEF CountTyped
  <2>3. Whole' = Whole
    BY <2>0, <2>1 DEF Begin, Out, Whole, Uncounted
  <2>4. CountCovers => CountCovers'
    BY <1>0, <1>9 DEF Read, CountTyped, CountCovers
  <2> QED
    BY <1>3, <2>1, <2>2, <2>3, <2>4
<1>10. CASE ReadReturns
  <2>1. skewed' = skewed
    BY <1>10 DEF ReadReturns
  <2>2. CountTyped'
    BY <1>0, <1>10 DEF ReadReturns, CountTyped, Counting, Out
  <2> QED
    BY <1>0, <1>10, <2>1, <2>2, ReadReturnsOK DEF CountInv
<1>11. CASE ReadInterrupted
  <2>1. skewed' = TRUE
    BY <1>11, Zenon DEF ReadInterrupted
  <2>2. CountTyped'
    BY <1>0, <1>11 DEF ReadInterrupted, CountTyped, Counting, Out
  <2> QED
    BY <2>1, <2>2, Zenon DEF CountInv
<1>12. CASE ReaderLoads
  <2>1. CountTyped' /\ Whole' = Whole
    BY <1>0, <1>12 DEF ReaderLoads, CountTyped, Whole, Uncounted
  <2>2. CountCovers => CountCovers'
    BY <1>0, <1>12 DEF ReaderLoads, CountTyped, CountCovers
  <2> QED
    BY <1>3, <1>12, <2>1, <2>2 DEF ReaderLoads
<1>13. CASE ReaderStores
  <2>1. ~skewed' => ~skewed /\ messageCount = reader.loaded
    BY <1>13, Zenon DEF ReaderStores
  <2>2. CountTyped' /\ bytes' = bytes
    BY <1>0, <1>13 DEF ReaderStores, CountTyped, Out
  <2>3. ASSUME messageCount = reader.loaded, CountCovers
        PROVE  CountCovers' /\ Whole' = Whole
    BY <1>0, <1>13, <2>3 DEF ReaderStores, CountTyped, CountCovers, Whole, Uncounted, Out
  <2> QED
    BY <1>0, <2>1, <2>2, <2>3, SameBytes DEF CountInv
<1>14. CASE OtherOpens \/ OtherCloses \/ FirstPipe \/ BackupPipe \/ CloseBackup
            \/ DummyPipe \/ SecondBackup
  BY <1>1, <1>14, Zenon
     DEF OtherOpens, OtherCloses, FirstPipe, BackupPipe, CloseBackup, DummyPipe, SecondBackup
<1>15. CASE UNCHANGED pipeVars
  BY <1>1, <1>15, Zenon DEF pipeVars
<1> QED
  BY <1>2, <1>4, <1>5, <1>6, <1>7, <1>8, <1>9, <1>10, <1>11, <1>12, <1>13, <1>14, <1>15, Zenon
     DEF PipeNext, Creating, Transferring

LEMMA CountInvSuffices == CountInv => CountFollows
<1> SUFFICES ASSUME CountInv, ~skewed, NEW s \in 1 .. PipeBuf, lengths = {s}
             PROVE  bytes = s * Whole /\ (reader.at = "io" => bytes >= s)
  BY DEF CountFollows, Fixed, Whole
<1>1. CountTyped /\ CountCovers /\ bytes = s * Whole
  BY DEF CountInv, BytesFollow
<1>2. ASSUME reader.at = "io"
      PROVE  bytes >= s
  <2>1. Whole \in Int /\ Whole >= 1 /\ s \in Nat
    BY <1>1, <1>2 DEF CountTyped, CountCovers, Whole, Uncounted
  <2>2. s * Whole >= s
    BY <2>1, AtLeastOne
  <2> HIDE DEF Whole
  <2> QED
    BY <1>1, <2>2
<1> QED
  BY <1>1, <1>2

\* However much the pipe holds, and for any one size of message that goes in at once,
\* the count accounts for every message and each reader it lets in gets a whole one
\* without waiting, as long as the two ends have not stored over each other and no read
\* has been interrupted (osa_pipe.c:152-182, 186-211).
THEOREM PipeCounts == PipeSpec => []CountFollows
<1>1. PipeSpec => []CountInv
  BY CountInit, CountStep, PTL DEF PipeSpec
<1> QED
  BY <1>1, CountInvSuffices, PTL
-----------------------------------------------------------------------------
(* The descriptors *)

\* What pipe returns are two numbers that were free, one of them as low as any, and of
\* the reserved numbers it leaves at most number 2 free.
LEMMA PairsAreLowest ==
    ASSUME NEW used \in SUBSET Descriptors, NEW pair \in Pairs(used)
    PROVE  /\ pair \subseteq Descriptors \ used
           /\ Cardinality(pair) = 2
           /\ \A x \in Reserved \ used : \E y \in pair : y <= x
           /\ Reserved \ (used \cup pair) \subseteq {2}
<1> DEFINE free == Descriptors \ used
           f    == Lowest(free)
           g    == Lowest(free \ {f})
<1>1. IsFiniteSet(free) /\ free \in SUBSET Nat
  <2>1. IsFiniteSet(Descriptors)
    BY PipeAssumption, FS_Interval DEF Descriptors
  <2> QED
    BY <2>1, PipeAssumption, FS_Subset DEF Descriptors
<1>2. pair = {f, g} /\ ~(Cardinality(free) < 2)
  BY DEF Pairs
<1>3. f \in free /\ \A x \in free : f <= x
  <2>1. free # {}
    BY <1>2, FS_EmptySet
  <2> QED
    BY <1>1, <2>1, LowestIsLeast
<1>4. free \ {f} # {}
  <2>1. Cardinality(free \ {f}) = Cardinality(free) - 1 /\ Cardinality(free) \in Nat
    BY <1>1, <1>3, FS_RemoveElement, FS_CardinalityType
  <2>2. Cardinality({}) = 0
    BY FS_EmptySet
  <2> HIDE DEF f, free
  <2> QED
    BY <1>2, <2>1, <2>2
<1>5. g \in free \ {f} /\ \A x \in free \ {f} : g <= x
  <2> HIDE DEF f, free
  <2> QED
    BY <1>1, <1>4, LowestIsLeast
<1>6. Reserved \subseteq Descriptors
  BY PipeAssumption DEF Reserved, Descriptors
<1> HIDE DEF f, g
<1>7. Cardinality(pair) = 2
  <2>1. IsFiniteSet({f}) /\ Cardinality({f}) = 1
    BY FS_Singleton, Zenon
  <2>2. Cardinality({f} \cup {g}) = Cardinality({f}) + 1
    BY <1>5, <2>1, FS_AddElement
  <2> QED
    BY <1>2, <2>1, <2>2
<1>8. ASSUME NEW x \in Reserved, x \notin used, x \notin pair
      PROVE  x = 2
  <2>1. f < x /\ g < x /\ f # g /\ f \in Nat /\ g \in Nat
    BY <1>1, <1>2, <1>3, <1>5, <1>6, <1>8
  <2> QED
    BY <2>1 DEF Reserved
<1> QED
  BY <1>2, <1>3, <1>5, <1>6, <1>7, <1>8

\* Which descriptors each step of OSA_CreatePipe owns, and which reserved numbers can
\* still be free there.  The last part is why there is a dummy: the first pipe leaves
\* at most number 2, a backup that gets it is closed, and the dummy takes it.
FdInv ==
    /\ fds \subseteq Descriptors /\ others \subseteq fds
    /\ creating \in {"no", "backup", "close", "dummy", "second"}
    /\ {pHandle, pfdDummy, pPipe} \subseteq SUBSET (fds \ others)
    /\ pHandleBackup \subseteq Descriptors
    /\ creating \in {"no", "backup", "close"} => pfdDummy = {}
    /\ creating = "no" => pHandle = {}
    /\ creating = "close" => pHandleBackup \subseteq fds \ (others \cup pHandle)
    /\ creating # "no" => pPipe = {}
    /\ pPipe # {} => Cardinality(pPipe) = 2
    /\ ~disturbed =>
          /\ pPipe \cap Reserved = {}
          /\ creating \in {"backup", "dummy"} => Reserved \ fds \subseteq {2}
          /\ creating = "close" => Reserved \subseteq fds /\ pHandleBackup \cap Reserved \subseteq {2}
          /\ creating = "second" => Reserved \subseteq fds

LEMMA FdInit == PipeInit => FdInv
  BY PipeAssumption DEF PipeInit, FdInv, Descriptors, Reserved

\* A pipe that is handed out is the caller's own, and what is closed with it is not
\* part of it.
LEMMA CreatedOK ==
    ASSUME FdInv, NEW pair \in Pairs(fds), NEW unused \in SUBSET (fds \ others),
           Created(pair, unused), others' = others,
           ~disturbed' => pair \cap Reserved = {}
    PROVE  FdInv'
<1>1. pair \subseteq Descriptors \ fds /\ Cardinality(pair) = 2
  BY PairsAreLowest DEF FdInv
<1> QED
  BY <1>1 DEF FdInv, Created

LEMMA FdStep == FdInv /\ [PipeNext]_pipeVars => FdInv'
<1> SUFFICES ASSUME FdInv, [PipeNext]_pipeVars
             PROVE  FdInv'
  OBVIOUS
<1> DEFINE fdVars == <<createVars, others, disturbed>>
<1>1. ASSUME NEW pair \in Pairs(fds)
      PROVE  /\ pair \subseteq Descriptors \ fds
             /\ \A x \in Reserved \ fds : \E y \in pair : y <= x
             /\ Reserved \ (fds \cup pair) \subseteq {2}
  BY PairsAreLowest DEF FdInv
<1>2. CASE UNCHANGED fdVars
  BY <1>2 DEF createVars, FdInv
<1>3. ASSUME CreateFails, UNCHANGED <<others, disturbed>>
      PROVE  FdInv'
  BY <1>3 DEF CreateFails, FdInv
<1>4. CASE OtherOpens
  <2>1. PICK f \in Descriptors \ fds : fds' = fds \cup {f} /\ others' = others \cup {f}
    <3>1. Descriptors \ fds \in SUBSET Nat /\ Descriptors \ fds # {}
      BY <1>4, PipeAssumption DEF OtherOpens, Descriptors
    <3>2. Lowest(Descriptors \ fds) \in Descriptors \ fds
      BY <3>1, LowestIsLeast
    <3> QED
      BY <1>4, <3>2, Zenon DEF OtherOpens
  <2> QED
    BY <1>4, <2>1 DEF OtherOpens, FdInv
<1>5. CASE OtherCloses
  <2>1. PICK f \in others :
            /\ fds' = fds \ {f} /\ others' = others \ {f}
            /\ ~disturbed' => ~disturbed /\ (creating = "no" \/ f \notin Reserved)
    BY <1>5, Zenon DEF OtherCloses
  <2> QED
    BY <1>5, <2>1 DEF OtherCloses, FdInv
<1>6. CASE FirstPipe
  <2>1. PICK pair \in Pairs(fds) :
            IF pair \cap Reserved = {} THEN Created(pair, {})
            ELSE /\ pHandle' = pair
                 /\ fds' = fds \cup pair
                 /\ creating' = "backup"
                 /\ UNCHANGED <<pHandleBackup, pfdDummy, pPipe>>
    BY <1>6 DEF FirstPipe
  <2>2. CASE pair \cap Reserved = {}
    BY <1>6, <2>1, <2>2, CreatedOK DEF FirstPipe
  <2>3. CASE pair \cap Reserved # {}
    BY <1>1, <1>6, <2>1, <2>3 DEF FirstPipe, FdInv
  <2> QED
    BY <2>2, <2>3
<1>7. CASE BackupPipe
  <2>1. CASE CreateFails
    BY <1>3, <1>7, <2>1 DEF BackupPipe
  <2>2. ASSUME NEW pair \in Pairs(fds), 2 \notin pair, Created(pair, pHandle)
        PROVE  FdInv'
    <3>1. ~disturbed' => pair \cap Reserved = {}
      BY <1>1, <1>7, <2>2 DEF BackupPipe, FdInv
    <3> QED
      BY <1>7, <2>2, <3>1, CreatedOK DEF BackupPipe, FdInv
  <2>3. ASSUME NEW pair \in Pairs(fds), 2 \in pair,
               pHandleBackup' = pair, fds' = fds \cup pair, creating' = "close",
               UNCHANGED <<pHandle, pfdDummy, pPipe>>
        PROVE  FdInv'
    BY <1>1, <1>7, <2>3 DEF BackupPipe, FdInv
  <2> QED
    BY <1>7, <2>1, <2>2, <2>3 DEF BackupPipe
<1>8. CASE CloseBackup
  BY <1>8 DEF CloseBackup, FdInv
<1>9. CASE DummyPipe
  <2>1. CASE CreateFails
    BY <1>3, <1>9, <2>1 DEF DummyPipe
  <2>2. ASSUME NEW pair \in Pairs(fds),
               pfdDummy' = pair, fds' = fds \cup pair, creating' = "second",
               UNCHANGED <<pHandle, pHandleBackup, pPipe>>
        PROVE  FdInv'
    <3>1. ~disturbed => Reserved \subseteq fds \cup pair
      <4>1. ASSUME ~disturbed, 2 \notin fds
            PROVE  2 \in pair
        <5>1. PICK y \in pair : y <= 2 /\ y \in Descriptors \ fds
          BY <1>1, <4>1 DEF Reserved
        <5> QED
          BY <1>9, <4>1, <5>1, PipeAssumption DEF DummyPipe, FdInv, Reserved, Descriptors
      <4> QED
        BY <1>9, <4>1 DEF DummyPipe, FdInv
    <3> QED
      BY <1>1, <1>9, <2>2, <3>1 DEF DummyPipe, FdInv
  <2> QED
    BY <1>9, <2>1, <2>2 DEF DummyPipe
<1>10. CASE SecondBackup
  <2>1. CASE CreateFails
    BY <1>3, <1>10, <2>1 DEF SecondBackup
  <2>2. ASSUME NEW pair \in Pairs(fds), Created(pair, pfdDummy \cup pHandle)
        PROVE  FdInv'
    <3>1. ~disturbed' => pair \cap Reserved = {}
      BY <1>1, <1>10 DEF SecondBackup, FdInv
    <3> QED
      BY <1>10, <2>2, <3>1, CreatedOK DEF SecondBackup, FdInv
  <2> QED
    BY <1>10, <2>1, <2>2 DEF SecondBackup
<1>11. CASE DeletePipe
  BY <1>11 DEF DeletePipe, FdInv
<1>12. CASE Transferring
  BY <1>2, <1>12, Zenon
     DEF Transferring, Write, WritePuts, WriteInterrupted, WriterLoads, WriterStores, Read, ReadReturns, ReadInterrupted,
         ReaderLoads, ReaderStores, UseUnchanged
<1>13. CASE UNCHANGED pipeVars
  BY <1>2, <1>13, Zenon DEF pipeVars
<1> QED
  BY <1>4, <1>5, <1>6, <1>7, <1>8, <1>9, <1>10, <1>11, <1>12, <1>13, Zenon
     DEF PipeNext, Creating

-----------------------------------------------------------------------------
(* Both together *)

PipeFlagsOK == {disturbed, skewed} \subseteq BOOLEAN

LEMMA FlagsOK == PipeSpec => []PipeFlagsOK
<1>1. PipeInit => PipeFlagsOK
  BY Zenon DEF PipeInit, PipeFlagsOK
<1>2. PipeFlagsOK /\ [PipeNext]_pipeVars => PipeFlagsOK'
  <2> SUFFICES ASSUME PipeFlagsOK, [PipeNext]_pipeVars
               PROVE  disturbed' \in BOOLEAN /\ skewed' \in BOOLEAN
    BY Zenon DEF PipeFlagsOK
  <2>1. disturbed \in BOOLEAN /\ skewed \in BOOLEAN
    BY Zenon DEF PipeFlagsOK
  <2> QED
    BY <2>1, Zenon
       DEF PipeNext, Creating, Transferring, pipeVars, createVars, useVars, UseUnchanged,
           OtherOpens, OtherCloses, FirstPipe, BackupPipe, CloseBackup, DummyPipe,
           SecondBackup, DeletePipe, Write, WritePuts, WriteInterrupted, WriterLoads,
           WriterStores, Read, ReadReturns,
           ReadInterrupted, ReaderLoads, ReaderStores
<1> QED
  BY <1>1, <1>2, PTL DEF PipeSpec

\* Whatever descriptors the process was started with and whatever its other threads
\* open meanwhile, a pipe that is handed out is the caller's own and has none of the
\* reserved numbers, unless one of those was freed during the creation
\* (osa_pipe.c:35-91).
THEOREM PipeNotReserved == PipeSpec => []NotReserved
<1>1. PipeSpec => []FdInv
  BY FdInit, FdStep, PTL DEF PipeSpec
<1>2. PipeSpec => []CountInv
  BY CountInit, CountStep, PTL DEF PipeSpec
<1>3. FdInv /\ CountInv /\ PipeFlagsOK => NotReserved
  <2> SUFFICES ASSUME FdInv, CountInv, PipeFlagsOK
               PROVE  NotReserved
    OBVIOUS
  <2>1. {disturbed, skewed} \subseteq BOOLEAN
    BY Zenon DEF PipeFlagsOK
  <2>2. PipeTypeOK
    BY <2>1 DEF FdInv, CountInv, CountTyped, PipeTypeOK
  <2> QED
    BY <2>2 DEF FdInv, NotReserved
<1> QED
  BY <1>1, <1>2, <1>3, FlagsOK, PTL
-----------------------------------------------------------------------------
(* The list: following the pointers *)

Cells == Nodes \cup {Null}

Heap == [Nodes -> [pData : Data \cup {NoData}, next : Cells]]

\* At up to the node N, for any first node and any contents of the nodes.
IsTrace(t, h, nd, N) ==
    t = [i \in 0 .. N |->
            IF i = 0 THEN h ELSE IF t[i - 1] = Null THEN Null ELSE nd[t[i - 1]].next]

Trace(h, nd) == CHOOSE t : IsTrace(t, h, nd, Cardinality(Nodes))

LEMMA AtIsTrace == At = Trace(head, node) /\ At' = Trace(head', node')
  BY DEF At, Trace, IsTrace

LEMMA NodesCounted == Cardinality(Nodes) \in Nat
  BY ListAssumption, FS_CardinalityType

\* A function that is given by its value at 0 and by each value from the one before
\* exists: a shortest range on which it does not could be cut by one.
LEMMA TraceExists ==
    ASSUME NEW h, NEW nd, NEW N \in Nat
    PROVE  \E t : IsTrace(t, h, nd, N)
<1> DEFINE Step(x) == IF x = Null THEN Null ELSE nd[x].next
           Good(n) == \E t : t = [i \in 0 .. n |-> IF i = 0 THEN h ELSE Step(t[i - 1])]
           Bad == {n \in Nat : ~Good(n)}
<1>1. SUFFICES ASSUME Bad # {} PROVE FALSE
  BY DEF IsTrace
<1>2. PICK n \in Bad : \A m \in Bad : n <= m
  BY <1>1, LowestIsLeast
<1>3. CASE n = 0
  <2>1. [i \in 0 .. 0 |-> h]
          = [i \in 0 .. 0 |-> IF i = 0 THEN h ELSE Step([j \in 0 .. 0 |-> h][i - 1])]
    OBVIOUS
  <2>2. Good(0)
    BY <2>1
  <2> QED
    BY <1>2, <1>3, <2>2
<1>4. CASE n # 0
  <2>1. n - 1 \in Nat /\ n \in Nat /\ n - 1 \notin Bad
    <3>1. n \in Nat
      OBVIOUS
    <3> HIDE DEF Bad
    <3> QED
      BY <1>2, <1>4, <3>1
  <2>2. PICK t : t = [i \in 0 .. n - 1 |-> IF i = 0 THEN h ELSE Step(t[i - 1])]
    BY <2>1
  <2> DEFINE u == [i \in 0 .. n |-> IF i < n THEN t[i] ELSE Step(t[n - 1])]
  <2>3. \A i \in 0 .. n - 1 : u[i] = t[i]
    BY <2>1
  <2>4. \A i \in 0 .. n - 1 : t[i] = IF i = 0 THEN h ELSE Step(t[i - 1])
    <3> HIDE DEF Step
    <3> QED
      BY <2>2
  <2>5. \A i \in 0 .. n : u[i] = IF i = 0 THEN h ELSE Step(u[i - 1])
    <3> HIDE DEF Step
    <3>1. u[n] = Step(t[n - 1])
      BY <2>1
    <3>2. u[n - 1] = t[n - 1]
      BY <2>1, <2>3
    <3> HIDE DEF u
    <3>3. ASSUME NEW i \in 0 .. n PROVE u[i] = IF i = 0 THEN h ELSE Step(u[i - 1])
      <4>1. CASE i = n
        BY <1>4, <3>1, <3>2, <4>1
      <4>2. CASE i = 0
        BY <1>4, <2>1, <2>3, <2>4, <4>2
      <4>3. CASE i # n /\ i # 0
        <5>1. i \in 0 .. n - 1 /\ i - 1 \in 0 .. n - 1
          BY <2>1, <4>3
        <5> QED
          BY <2>3, <2>4, <4>3, <5>1
      <4> QED
        BY <4>1, <4>2, <4>3
    <3> QED
      BY <3>3
  <2>6. u = [i \in 0 .. n |-> IF i = 0 THEN h ELSE Step(u[i - 1])]
    <3>1. u = [i \in 0 .. n |-> u[i]]
      OBVIOUS
    <3> HIDE DEF u, Step
    <3> QED
      BY <2>5, <3>1
  <2>7. Good(n)
    <3> HIDE DEF u, Step
    <3> QED
      BY <2>6
  <2> QED
    BY <1>2, <2>7
<1> QED
  BY <1>3, <1>4

LEMMA TraceStep ==
    ASSUME NEW h, NEW nd
    PROVE  /\ Trace(h, nd)[0] = h
           /\ \A i \in 1 .. Cardinality(Nodes) :
                 Trace(h, nd)[i] = IF Trace(h, nd)[i - 1] = Null THEN Null
                                   ELSE nd[Trace(h, nd)[i - 1]].next
<1> DEFINE N == Cardinality(Nodes)
           t == Trace(h, nd)
<1>1. N \in Nat
  BY NodesCounted
<1>2. t = [i \in 0 .. N |->
              IF i = 0 THEN h ELSE IF t[i - 1] = Null THEN Null ELSE nd[t[i - 1]].next]
  <2> HIDE DEF N
  <2>1. \E u : IsTrace(u, h, nd, N)
    BY <1>1, TraceExists
  <2>2. IsTrace(t, h, nd, N)
    BY <2>1, Zenon DEF Trace, N
  <2> HIDE DEF t
  <2> QED
    BY <2>2 DEF IsTrace
<1> HIDE DEF t
<1>3. 0 \in 0 .. N /\ \A i \in 1 .. N : i \in 0 .. N /\ i # 0
  BY <1>1
<1> HIDE DEF N
<1>4. t[0] = h
  BY <1>2, <1>3
<1>5. \A i \in 1 .. N : t[i] = IF t[i - 1] = Null THEN Null ELSE nd[t[i - 1]].next
  BY <1>2, <1>3
<1> QED
  BY <1>4, <1>5 DEF t, N

\* While the pointers stay in a set of nodes that points only into itself, so does
\* what they lead to.
LEMMA TraceStays ==
    ASSUME NEW h, NEW nd, NEW L, NEW X \in SUBSET Nodes,
           h \in X, \A n \in X \cap L : nd[n].next \in X,
           NEW k \in 0 .. Cardinality(Nodes), \A j \in 0 .. k - 1 : Trace(h, nd)[j] \in L
    PROVE  Trace(h, nd)[k] \in X
<1> DEFINE t == Trace(h, nd)
           Bad == {i \in 0 .. k : t[i] \notin X}
<1>1. SUFFICES ASSUME Bad # {} PROVE FALSE
  BY NodesCounted
<1>2. Bad \in SUBSET Nat
  OBVIOUS
<1>3. PICK i \in Bad : \A j \in Bad : i <= j
  BY <1>1, <1>2, LowestIsLeast
<1>4. i # 0
  BY <1>3, TraceStep
<1>5. i \in 1 .. Cardinality(Nodes) /\ i - 1 \in 0 .. k - 1 /\ i - 1 \in 0 .. k /\ i \in Nat
  BY <1>2, <1>3, <1>4, NodesCounted
<1>6. t[i - 1] \in X /\ t[i - 1] \in L
  BY <1>3, <1>5
<1>7. t[i] = nd[t[i - 1]].next
  BY <1>5, <1>6, TraceStep, ListAssumption
<1> QED
  BY <1>3, <1>6, <1>7

-----------------------------------------------------------------------------
(* The list: the nodes in their order *)

\* From the first node h, the nodes L are linked in the order f[0], ..., f[k - 1], each
\* of them once, and the last points to nothing.
Chain(f, k, h, nd, L) ==
    /\ k \in Nat /\ f \in [0 .. k -> Cells] /\ L \in SUBSET Nodes
    /\ f[0] = h /\ f[k] = Null
    /\ \A i \in 0 .. k - 1 : f[i] \in L /\ f[i + 1] = nd[f[i]].next
    /\ \A i, j \in 0 .. k - 1 : f[i] = f[j] => i = j
    /\ \A n \in L : \E i \in 0 .. k - 1 : f[i] = n

\* The data along it.
Content(f, k, nd) == [i \in 1 .. k |-> nd[f[i - 1]].pData]

LEMMA ChainSize ==
    ASSUME NEW f, NEW k, NEW h, NEW nd, NEW L, Chain(f, k, h, nd, L)
    PROVE  Cardinality(L) = k /\ k \in 0 .. Cardinality(Nodes)
<1> DEFINE g == [i \in 1 .. k |-> f[i - 1]]
<1>1. k \in Nat /\ L \in SUBSET Nodes
  BY DEF Chain
<1>2. g \in [1 .. k -> L]
  BY DEF Chain
<1>3. \A i, j \in 1 .. k : g[i] = g[j] => i = j
  <2> SUFFICES ASSUME NEW i \in 1 .. k, NEW j \in 1 .. k, g[i] = g[j]
               PROVE  i = j
    OBVIOUS
  <2>1. i - 1 \in 0 .. k - 1 /\ j - 1 \in 0 .. k - 1 /\ f[i - 1] = f[j - 1]
    BY <1>1
  <2>2. i - 1 = j - 1
    BY <2>1 DEF Chain
  <2> QED
    BY <1>1, <2>2
<1>4. \A n \in L : \E i \in 1 .. k : g[i] = n
  <2> SUFFICES ASSUME NEW n \in L PROVE \E i \in 1 .. k : g[i] = n
    OBVIOUS
  <2>1. PICK j \in 0 .. k - 1 : f[j] = n
    BY DEF Chain
  <2>2. j + 1 \in 1 .. k /\ (j + 1) - 1 = j
    BY <1>1
  <2> QED
    BY <2>1, <2>2
<1> HIDE DEF g
<1>5. g \in Bijection(1 .. k, L)
  BY <1>2, <1>3, <1>4 DEF Bijection, Injection, Surjection, IsInjective
<1>6. Cardinality(L) = k
  BY <1>1, <1>5, FS_CountingElements DEF ExistsBijection
<1>7. Cardinality(L) <= Cardinality(Nodes)
  BY <1>1, ListAssumption, FS_Subset
<1> QED
  BY <1>1, <1>6, <1>7, NodesCounted

LEMMA ChainNodes ==
    ASSUME NEW f, NEW k, NEW h, NEW nd, NEW L, Chain(f, k, h, nd, L)
    PROVE  \A i \in 0 .. k - 1 : f[i] \in Nodes /\ f[i] # Null
  BY ListAssumption DEF Chain

LEMMA ChainTrace ==
    ASSUME NEW f, NEW k, NEW h, NEW nd, NEW L, Chain(f, k, h, nd, L)
    PROVE  \A i \in 0 .. k : Trace(h, nd)[i] = f[i]
<1> DEFINE t == Trace(h, nd)
           Bad == {i \in 0 .. k : t[i] # f[i]}
<1>1. SUFFICES ASSUME Bad # {} PROVE FALSE
  OBVIOUS
<1>2. k \in Nat /\ k <= Cardinality(Nodes)
  BY ChainSize, NodesCounted
<1>3. Bad \in SUBSET Nat
  BY <1>2
<1>4. PICK i \in Bad : \A j \in Bad : i <= j
  BY <1>1, <1>3, LowestIsLeast
<1>5. i # 0
  BY <1>4, TraceStep DEF Chain
<1>6. i \in Nat /\ i \in 1 .. Cardinality(Nodes) /\ i - 1 \in 0 .. k - 1 /\ i - 1 \in 0 .. k /\ (i - 1) + 1 = i
  BY <1>2, <1>3, <1>4, <1>5, NodesCounted
<1>7. t[i - 1] = f[i - 1]
  BY <1>4, <1>6
<1>8. t[i] = nd[f[i - 1]].next
  BY <1>6, <1>7, ChainNodes, TraceStep
<1>9. f[i] = nd[f[i - 1]].next
  BY <1>6 DEF Chain
<1> QED
  BY <1>4, <1>8, <1>9

\* Lengths and Walked, for any trace, nodes and contents.
LengthsOf(t, L) == {i \in 0 .. Cardinality(Nodes) : (\A j \in 0 .. i - 1 : t[j] \in L) /\ t[i] = Null}

LengthOf(t, L) == CHOOSE i \in LengthsOf(t, L) : TRUE

WalkedOf(t, L, nd) == [i \in 1 .. LengthOf(t, L) |-> nd[t[i - 1]].pData]

LEMMA LengthsAre ==
    /\ Lengths = LengthsOf(At, live) /\ Lengths' = LengthsOf(At', live')
    /\ Length = LengthOf(At, live) /\ Length' = LengthOf(At', live')
    /\ Walked = WalkedOf(At, live, node) /\ Walked' = WalkedOf(At', live', node')
  BY DEF Lengths, Ends, Readable, LengthsOf, Length, LengthOf, Walked, WalkedOf

LEMMA ChainLength ==
    ASSUME NEW f, NEW k, NEW h, NEW nd, NEW L, Chain(f, k, h, nd, L)
    PROVE  /\ LengthsOf(Trace(h, nd), L) = {k}
           /\ LengthOf(Trace(h, nd), L) = k
           /\ WalkedOf(Trace(h, nd), L, nd) = Content(f, k, nd)
<1> DEFINE t == Trace(h, nd)
<1>1. \A i \in 0 .. k : t[i] = f[i]
  BY ChainTrace
<1>2. k \in Nat /\ k \in 0 .. Cardinality(Nodes) /\ k \in 0 .. k
  BY ChainSize
<1> HIDE DEF t
<1>3. \A j \in 0 .. k - 1 : t[j] \in L /\ t[j] # Null
  <2>1. \A j \in 0 .. k - 1 : f[j] \in L
    BY DEF Chain
  <2>2. \A j \in 0 .. k - 1 : f[j] # Null
    BY ChainNodes
  <2>3. \A j \in 0 .. k - 1 : j \in 0 .. k
    BY <1>2
  <2> QED
    BY <1>1, <2>1, <2>2, <2>3
<1>4. t[k] = Null /\ Null \notin L
  BY <1>1, <1>2, ListAssumption DEF Chain
<1>5. ASSUME NEW i \in LengthsOf(t, L) PROVE i = k
  <2>1. i \in 0 .. Cardinality(Nodes) /\ t[i] = Null /\ \A j \in 0 .. i - 1 : t[j] \in L
    BY <1>5 DEF LengthsOf
  <2>2. ~(i < k)
    BY <1>2, <1>3, <2>1, NodesCounted
  <2>3. ~(k < i)
    BY <1>2, <1>4, <2>1, NodesCounted
  <2> QED
    BY <1>2, <2>1, <2>2, <2>3, NodesCounted
<1>6. k \in LengthsOf(t, L)
  BY <1>2, <1>3, <1>4 DEF LengthsOf
<1>7. LengthsOf(t, L) = {k}
  BY <1>5, <1>6
<1>8. LengthOf(t, L) = k
  BY <1>7 DEF LengthOf
<1>9. WalkedOf(t, L, nd) = Content(f, k, nd)
  <2>1. \A i \in 1 .. k : t[i - 1] = f[i - 1]
    BY <1>1, <1>2
  <2> QED
    BY <1>8, <2>1 DEF WalkedOf, Content
<1> QED
  BY <1>7, <1>8, <1>9 DEF t
-----------------------------------------------------------------------------
(* The list: what the calls do to the chain *)

\* A chain of k nodes with the data s.
Holds(k, s, h, nd, L) == \E f : Chain(f, k, h, nd, L) /\ s = Content(f, k, nd)

LEMMA ContentSeq ==
    ASSUME NEW f, NEW k, NEW h, NEW nd, NEW L, nd \in Heap, Chain(f, k, h, nd, L)
    PROVE  /\ Content(f, k, nd) \in Seq(Data \cup {NoData})
           /\ Len(Content(f, k, nd)) = k
           /\ \A i \in 1 .. k : Content(f, k, nd)[i] = nd[f[i - 1]].pData
<1>1. k \in Nat
  BY DEF Chain
<1>2. ASSUME NEW i \in 1 .. k PROVE nd[f[i - 1]].pData \in Data \cup {NoData}
  <2>1. i - 1 \in 0 .. k - 1
    BY <1>1
  <2> QED
    BY <2>1, ChainNodes DEF Heap
<1>3. Content(f, k, nd) \in [1 .. k -> Data \cup {NoData}]
  BY <1>2 DEF Content
<1>4. Content(f, k, nd) \in Seq(Data \cup {NoData}) /\ Len(Content(f, k, nd)) = k
  BY <1>1, <1>3, SeqDef
<1> QED
  BY <1>4 DEF Content

\* list_push_front
LEMMA HoldsPushFront ==
    ASSUME NEW k, NEW s, NEW h, NEW nd, NEW L, nd \in Heap, Holds(k, s, h, nd, L),
           NEW n \in Nodes \ L, NEW nd2, nd2 \in Heap, NEW v \in Data \cup {NoData},
           nd2[n] = [pData |-> v, next |-> h],
           \A x \in L : nd2[x] = nd[x]
    PROVE  Holds(k + 1, <<v>> \o s, n, nd2, L \cup {n})
<1>1. PICK f : Chain(f, k, h, nd, L) /\ s = Content(f, k, nd)
  BY DEF Holds
<1> DEFINE g == [i \in 0 .. k + 1 |-> IF i = 0 THEN n ELSE f[i - 1]]
<1>2. k \in Nat
  BY <1>1 DEF Chain
<1>3. g[0] = n /\ \A i \in 0 .. k : i + 1 \in 0 .. k + 1 /\ g[i + 1] = f[i]
  BY <1>2
<1>4. \A i \in 1 .. k + 1 : i - 1 \in 0 .. k /\ g[i] = f[i - 1]
  BY <1>2
<1>5. g \in [0 .. k + 1 -> Cells]
  BY <1>1, <1>2 DEF Chain, Cells
<1> HIDE DEF g
<1>6. Chain(g, k + 1, n, nd2, L \cup {n})
  <2>1. f[0] = h /\ f[k] = Null /\ g[1] = h /\ g[k + 1] = Null
    BY <1>1, <1>2, <1>3 DEF Chain
  <2>2. ASSUME NEW i \in 0 .. k + 1 - 1
        PROVE  g[i] \in L \cup {n} /\ g[i + 1] = nd2[g[i]].next
    <3>1. CASE i = 0
      BY <1>3, <2>1, <3>1
    <3>2. CASE i # 0
      <4>1. i \in 1 .. k + 1 /\ i - 1 \in 0 .. k - 1 /\ i \in 0 .. k /\ (i - 1) + 1 = i
        BY <1>2, <3>2
      <4>2. g[i] = f[i - 1] /\ g[i + 1] = f[i]
        BY <1>3, <1>4, <4>1
      <4>3. f[i - 1] \in L /\ f[i] = nd[f[i - 1]].next
        BY <1>1, <4>1 DEF Chain
      <4> QED
        BY <4>2, <4>3
    <3> QED
      BY <3>1, <3>2
  <2>3. ASSUME NEW i \in 0 .. k + 1 - 1, NEW j \in 0 .. k + 1 - 1, g[i] = g[j]
        PROVE  i = j
    <3>1. \A m \in 1 .. k : m - 1 \in 0 .. k - 1 /\ g[m] = f[m - 1] /\ g[m] \in L
      BY <1>1, <1>2, <1>4 DEF Chain
    <3>2. CASE i = 0 \/ j = 0
      BY <1>2, <1>3, <2>3, <3>1, <3>2
    <3>3. CASE i # 0 /\ j # 0
      <4>1. i \in 1 .. k /\ j \in 1 .. k
        BY <1>2, <3>3
      <4>2. i - 1 = j - 1
        BY <1>1, <2>3, <3>1, <4>1 DEF Chain
      <4> QED
        BY <4>1, <4>2, <1>2
    <3> QED
      BY <3>2, <3>3
  <2>4. ASSUME NEW x \in L \cup {n} PROVE \E i \in 0 .. k + 1 - 1 : g[i] = x
    <3>1. CASE x = n
      BY <1>2, <1>3, <3>1
    <3>2. CASE x \in L
      <4>1. PICK i \in 0 .. k - 1 : f[i] = x
        BY <1>1, <3>2 DEF Chain
      <4>2. i + 1 \in 0 .. k + 1 - 1 /\ g[i + 1] = x
        BY <1>2, <1>3, <4>1
      <4> QED
        BY <4>2
    <3> QED
      BY <3>1, <3>2
  <2> QED
    BY <1>1, <1>2, <1>3, <1>5, <2>1, <2>2, <2>3, <2>4 DEF Chain
<1>7. <<v>> \o s = Content(g, k + 1, nd2)
  <2>1. /\ s \in Seq(Data \cup {NoData}) /\ Len(s) = k
        /\ \A i \in 1 .. k : s[i] = nd[f[i - 1]].pData
    BY <1>1, ContentSeq
  <2>2. /\ Content(g, k + 1, nd2) \in Seq(Data \cup {NoData})
        /\ Len(Content(g, k + 1, nd2)) = k + 1
        /\ \A i \in 1 .. k + 1 : Content(g, k + 1, nd2)[i] = nd2[g[i - 1]].pData
    BY <1>6, ContentSeq
  <2>3. /\ <<v>> \o s \in Seq(Data \cup {NoData}) /\ Len(<<v>> \o s) = k + 1
        /\ (<<v>> \o s)[1] = v
        /\ \A i \in 2 .. k + 1 : (<<v>> \o s)[i] = s[i - 1]
    BY <1>2, <2>1
  <2>4. Content(g, k + 1, nd2)[1] = v
    BY <1>2, <1>3, <2>2
  <2>5. ASSUME NEW i \in 2 .. k + 1 PROVE Content(g, k + 1, nd2)[i] = s[i - 1]
    <3>1. i - 1 \in 1 .. k /\ i \in 1 .. k + 1 /\ (i - 1) - 1 \in 0 .. k - 1 /\ i - 1 \in 1 .. k + 1
      BY <1>2
    <3>2. g[i - 1] = f[(i - 1) - 1] /\ f[(i - 1) - 1] \in L
      BY <1>1, <1>4, <3>1 DEF Chain
    <3> QED
      BY <2>1, <2>2, <3>1, <3>2
  <2> DEFINE c == Content(g, k + 1, nd2)
             d == <<v>> \o s
  <2>6. \A i \in 1 .. k + 1 : c[i] = d[i]
    <3> HIDE DEF c, d
    <3>1. c[1] = d[1] /\ \A i \in 2 .. k + 1 : c[i] = d[i]
      BY <2>3, <2>4, <2>5 DEF c, d
    <3> QED
      BY <1>2, <3>1
  <2> HIDE DEF c, d
  <2>7. c \in Seq(Data \cup {NoData}) /\ d \in Seq(Data \cup {NoData}) /\ Len(c) = Len(d) /\ Len(c) = k + 1
    BY <2>2, <2>3 DEF c, d
  <2>8. c = d
    BY <2>6, <2>7, SeqEqual
  <2> QED
    BY <2>8 DEF c, d
<1> QED
  BY <1>6, <1>7 DEF Holds
\* The node n with v comes behind the node a.
Appended(nd, nd2, L, a, n, v) ==
    /\ nd2[n] = [pData |-> v, next |-> Null]
    /\ nd2[a].next = n /\ nd2[a].pData = nd[a].pData
    /\ \A x \in L \ {a} : nd2[x] = nd[x]

\* list_push_back on a list with something in it
LEMMA HoldsPushBack ==
    ASSUME NEW k, NEW s, NEW h, NEW nd, NEW L, nd \in Heap, Holds(k, s, h, nd, L), k # 0,
           NEW n \in Nodes \ L, NEW nd2, nd2 \in Heap, NEW v \in Data \cup {NoData},
           Appended(nd, nd2, L, Trace(h, nd)[k - 1], n, v)
    PROVE  Holds(k + 1, Append(s, v), h, nd2, L \cup {n})
<1> DEFINE a == Trace(h, nd)[k - 1]
<1>0. /\ nd2[n] = [pData |-> v, next |-> Null]
      /\ nd2[a].next = n /\ nd2[a].pData = nd[a].pData
      /\ \A x \in L \ {a} : nd2[x] = nd[x]
  BY DEF Appended
<1> HIDE DEF a
<1>1. PICK f : Chain(f, k, h, nd, L) /\ s = Content(f, k, nd)
  BY DEF Holds
<1>2. k \in Nat /\ k - 1 \in 0 .. k - 1 /\ k - 1 \in 0 .. k
  BY <1>1 DEF Chain
<1>3. a = f[k - 1] /\ a \in L
  <2>1. \A i \in 0 .. k : Trace(h, nd)[i] = f[i]
    BY <1>1, ChainTrace
  <2> QED
    BY <1>1, <1>2, <2>1 DEF Chain, a
<1> DEFINE g == [i \in 0 .. k + 1 |-> IF i < k THEN f[i] ELSE IF i = k THEN n ELSE Null]
<1>4. g[k] = n /\ g[k + 1] = Null /\ \A i \in 0 .. k - 1 : g[i] = f[i]
  BY <1>2
<1>5. g \in [0 .. k + 1 -> Cells]
  BY <1>1, <1>2 DEF Chain, Cells
<1> HIDE DEF g
<1>6. \A i \in 0 .. k - 1 : nd2[f[i]].pData = nd[f[i]].pData
  BY <1>0, <1>1 DEF Chain
<1>7. \A i \in 0 .. k - 2 : nd2[f[i]] = nd[f[i]]
  <2> SUFFICES ASSUME NEW i \in 0 .. k - 2 PROVE nd2[f[i]] = nd[f[i]]
    OBVIOUS
  <2>1. i \in 0 .. k - 1 /\ i # k - 1
    BY <1>2
  <2>2. f[i] \in L /\ f[i] # f[k - 1]
    BY <1>1, <1>2, <2>1 DEF Chain
  <2> QED
    BY <1>0, <1>3, <2>2
<1>8. Chain(g, k + 1, h, nd2, L \cup {n})
  <2>1. \A i \in 0 .. k + 1 - 1 : i = k \/ i \in 0 .. k - 1
    BY <1>2
  <2>2. ASSUME NEW i \in 0 .. k + 1 - 1
        PROVE  g[i] \in L \cup {n} /\ g[i + 1] = nd2[g[i]].next
    <3>1. CASE i = k
      BY <1>0, <1>4, <3>1
    <3>2. CASE i = k - 1
      BY <1>0, <1>2, <1>3, <1>4, <3>2
    <3>3. CASE i \in 0 .. k - 2
      <4>1. i \in 0 .. k - 1 /\ i + 1 \in 0 .. k - 1
        BY <1>2, <3>3
      <4>2. f[i] \in L /\ f[i + 1] = nd[f[i]].next
        BY <1>1, <4>1 DEF Chain
      <4> QED
        BY <1>4, <1>7, <3>3, <4>1, <4>2
    <3> QED
      BY <1>2, <3>1, <3>2, <3>3
  <2>3. ASSUME NEW i \in 0 .. k + 1 - 1, NEW j \in 0 .. k + 1 - 1, g[i] = g[j]
        PROVE  i = j
    <3>1. \A m \in 0 .. k - 1 : g[m] = f[m] /\ f[m] \in L
      BY <1>1, <1>4 DEF Chain
    <3>2. CASE i = k \/ j = k
      BY <1>4, <2>1, <2>3, <3>1, <3>2
    <3>3. CASE i \in 0 .. k - 1 /\ j \in 0 .. k - 1
      BY <1>1, <2>3, <3>1, <3>3 DEF Chain
    <3> QED
      BY <2>1, <3>2, <3>3
  <2>4. ASSUME NEW x \in L \cup {n} PROVE \E i \in 0 .. k + 1 - 1 : g[i] = x
    <3>1. CASE x = n
      BY <1>2, <1>4, <3>1
    <3>2. CASE x \in L
      <4>1. PICK i \in 0 .. k - 1 : f[i] = x
        BY <1>1, <3>2 DEF Chain
      <4>2. i \in 0 .. k + 1 - 1 /\ g[i] = x
        BY <1>2, <1>4, <4>1
      <4> QED
        BY <4>2
    <3> QED
      BY <3>1, <3>2
  <2>5. g[0] = h
    BY <1>1, <1>2, <1>4 DEF Chain
  <2> QED
    BY <1>1, <1>2, <1>4, <1>5, <2>2, <2>3, <2>4, <2>5 DEF Chain
<1>9. Append(s, v) = Content(g, k + 1, nd2)
  <2> DEFINE c == Content(g, k + 1, nd2)
             d == Append(s, v)
  <2>1. /\ s \in Seq(Data \cup {NoData}) /\ Len(s) = k
        /\ \A i \in 1 .. k : s[i] = nd[f[i - 1]].pData
    BY <1>1, ContentSeq
  <2>2. /\ c \in Seq(Data \cup {NoData}) /\ Len(c) = k + 1
        /\ \A i \in 1 .. k + 1 : c[i] = nd2[g[i - 1]].pData
    BY <1>8, ContentSeq
  <2>3. /\ d \in Seq(Data \cup {NoData}) /\ Len(d) = k + 1
        /\ d[k + 1] = v
        /\ \A i \in 1 .. k : d[i] = s[i]
    BY <1>2, <2>1
  <2> HIDE DEF c, d
  <2>4. c[k + 1] = v
    BY <1>0, <1>2, <1>4, <2>2
  <2>5. ASSUME NEW i \in 1 .. k PROVE c[i] = s[i]
    <3>1. i - 1 \in 0 .. k - 1 /\ i \in 1 .. k + 1
      BY <1>2
    <3>2. c[i] = nd2[g[i - 1]].pData
      BY <2>2, <3>1
    <3>3. g[i - 1] = f[i - 1] /\ nd2[f[i - 1]].pData = nd[f[i - 1]].pData
      BY <1>4, <1>6, <3>1
    <3> QED
      BY <2>1, <3>2, <3>3
  <2>6. \A i \in 1 .. k + 1 : i = k + 1 \/ i \in 1 .. k
    BY <1>2
  <2>7. \A i \in 1 .. k + 1 : c[i] = d[i]
    BY <2>3, <2>4, <2>5, <2>6
  <2>8. c = d
    BY <2>2, <2>3, <2>7, SeqEqual
  <2> QED
    BY <2>8 DEF c, d
<1> QED
  BY <1>8, <1>9 DEF Holds
\* A sequence without its ith element.
Without(s, i) == [j \in 1 .. Len(s) - 1 |-> IF j < i THEN s[j] ELSE s[j + 1]]

\* The (i + 1)st of the nodes L, in the order t, is linked out.
Unlinked(i, t, h, nd, L, h2, nd2) ==
    /\ i = 0 => h2 = t[1] /\ nd2 = nd
    /\ i # 0 => /\ h2 = h
                /\ nd2[t[i - 1]].next = t[i + 1]
                /\ nd2[t[i - 1]].pData = nd[t[i - 1]].pData
                /\ \A x \in L \ {t[i - 1]} : nd2[x] = nd[x]

\* It is freed, and its element is gone.
LEMMA HoldsErase ==
    ASSUME NEW k, NEW s, NEW h, NEW nd, NEW L, nd \in Heap, Holds(k, s, h, nd, L),
           NEW i \in 0 .. k - 1, NEW h2, NEW nd2, nd2 \in Heap,
           Unlinked(i, Trace(h, nd), h, nd, L, h2, nd2)
    PROVE  Holds(k - 1, Without(s, i + 1), h2, nd2, L \ {Trace(h, nd)[i]})
<1> DEFINE t == Trace(h, nd)
<1>0. /\ i = 0 => h2 = t[1] /\ nd2 = nd
      /\ i # 0 => /\ h2 = h
                  /\ nd2[t[i - 1]].next = t[i + 1]
                  /\ nd2[t[i - 1]].pData = nd[t[i - 1]].pData
                  /\ \A x \in L \ {t[i - 1]} : nd2[x] = nd[x]
  BY DEF Unlinked
<1>1. PICK f : Chain(f, k, h, nd, L) /\ s = Content(f, k, nd)
  BY DEF Holds
<1>2. k \in Nat /\ k # 0 /\ k - 1 \in Nat /\ i \in Nat
  BY <1>1 DEF Chain
<1>3. \A j \in 0 .. k : t[j] = f[j]
  BY <1>1, ChainTrace
<1> HIDE DEF t
<1>4. t[i] = f[i] /\ t[i + 1] = f[i + 1] /\ (i # 0 => t[i - 1] = f[i - 1])
  <2>1. i \in 0 .. k /\ i + 1 \in 0 .. k /\ (i # 0 => i - 1 \in 0 .. k)
    BY <1>2
  <2> QED
    BY <1>3, <2>1
<1> DEFINE g == [j \in 0 .. k - 1 |-> IF j < i THEN f[j] ELSE f[j + 1]]
<1>5. /\ \A j \in 0 .. k - 1 : j < i => g[j] = f[j]
      /\ \A j \in 0 .. k - 1 : ~(j < i) => g[j] = f[j + 1]
  BY <1>2
<1>6. g \in [0 .. k - 1 -> Cells]
  BY <1>1, <1>2 DEF Chain
<1> HIDE DEF g
<1>7. \A j \in 0 .. k - 1 : nd2[f[j]].pData = nd[f[j]].pData
  <2>1. \A j \in 0 .. k - 1 : f[j] \in L
    BY <1>1 DEF Chain
  <2> QED
    BY <1>0, <1>2, <2>1
<1>8. \A j \in 0 .. k - 1 : j + 1 # i => nd2[f[j]].next = f[j + 1]
  <2> SUFFICES ASSUME NEW j \in 0 .. k - 1, j + 1 # i PROVE nd2[f[j]].next = f[j + 1]
    OBVIOUS
  <2>1. f[j] \in L /\ f[j + 1] = nd[f[j]].next
    BY <1>1 DEF Chain
  <2>2. CASE i = 0
    BY <1>0, <2>1, <2>2
  <2>3. CASE i # 0
    <3>1. i - 1 \in 0 .. k - 1 /\ j # i - 1
      BY <1>2, <2>3
    <3>2. f[j] # f[i - 1]
      BY <1>1, <3>1 DEF Chain
    <3> QED
      BY <1>0, <1>4, <2>1, <2>3, <3>2
  <2> QED
    BY <2>2, <2>3
<1>9. \A j \in 0 .. k - 1 : j + 1 = i => nd2[f[j]].next = f[i + 1]
  <2> SUFFICES ASSUME NEW j \in 0 .. k - 1, j + 1 = i PROVE nd2[f[j]].next = f[i + 1]
    OBVIOUS
  <2>1. i # 0 /\ j = i - 1
    BY <1>2
  <2> QED
    BY <1>0, <1>4, <2>1
<1>10. Chain(g, k - 1, h2, nd2, L \ {t[i]})
  <2>1. ASSUME NEW j \in 0 .. k - 1 - 1
        PROVE  g[j] \in L \ {f[i]} /\ g[j + 1] = nd2[g[j]].next
    <3>1. j \in 0 .. k - 1 /\ j + 1 \in 0 .. k - 1
      BY <1>2
    <3>2. CASE j + 1 < i
      <4>1. j < i /\ j # i
        BY <1>2, <3>1, <3>2
      <4>2. g[j] = f[j] /\ g[j + 1] = f[j + 1]
        BY <1>5, <3>1, <3>2, <4>1
      <4>3. f[j] \in L /\ f[j] # f[i]
        BY <1>1, <3>1, <4>1 DEF Chain
      <4> QED
        BY <1>8, <3>1, <3>2, <4>2, <4>3
    <3>3. CASE j + 1 = i
      <4>1. j < i /\ j # i /\ ~(j + 1 < i)
        BY <1>2, <3>1, <3>3
      <4>2. g[j] = f[j] /\ g[j + 1] = f[i + 1]
        BY <1>5, <3>1, <3>3, <4>1
      <4>3. f[j] \in L /\ f[j] # f[i]
        BY <1>1, <3>1, <4>1 DEF Chain
      <4> QED
        BY <1>9, <3>1, <3>3, <4>2, <4>3
    <3>4. CASE j + 1 > i
      <4>1. ~(j < i) /\ ~(j + 1 < i) /\ j + 1 # i /\ j + 1 + 1 # i
        BY <1>2, <3>1, <3>4
      <4>2. g[j] = f[j + 1] /\ g[j + 1] = f[j + 1 + 1]
        BY <1>5, <3>1, <4>1
      <4>3. f[j + 1] \in L /\ f[j + 1] # f[i]
        BY <1>1, <3>1, <4>1 DEF Chain
      <4>4. nd2[f[j + 1]].next = f[j + 1 + 1]
        BY <1>8, <3>1, <4>1
      <4> QED
        BY <4>2, <4>3, <4>4
    <3> QED
      BY <1>2, <3>1, <3>2, <3>3, <3>4
  <2>2. ASSUME NEW j \in 0 .. k - 1 - 1, NEW m \in 0 .. k - 1 - 1, g[j] = g[m]
        PROVE  j = m
    <3> DEFINE p == IF j < i THEN j ELSE j + 1
               q == IF m < i THEN m ELSE m + 1
    <3>1. j \in 0 .. k - 1 /\ m \in 0 .. k - 1 /\ p \in 0 .. k - 1 /\ q \in 0 .. k - 1
      BY <1>2
    <3>2. g[j] = f[p] /\ g[m] = f[q]
      BY <1>5, <3>1
    <3>3. p = q
      <4> HIDE DEF p, q
      <4>1. \A x, y \in 0 .. k - 1 : f[x] = f[y] => x = y
        BY <1>1 DEF Chain
      <4>2. f[p] = f[q]
        BY <2>2, <3>2
      <4> QED
        BY <3>1, <4>1, <4>2, Zenon
    <3> QED
      BY <1>2, <3>1, <3>3
  <2>3. ASSUME NEW x \in L \ {f[i]} PROVE \E j \in 0 .. k - 1 - 1 : g[j] = x
    <3>1. PICK m \in 0 .. k - 1 : f[m] = x
      BY <1>1 DEF Chain
    <3>2. m # i
      BY <3>1
    <3>3. CASE m < i
      <4>1. m \in 0 .. k - 1 - 1 /\ g[m] = f[m]
        BY <1>2, <1>5, <3>3
      <4> QED
        BY <3>1, <4>1
    <3>4. CASE ~(m < i)
      <4>1. m - 1 \in 0 .. k - 1 - 1 /\ m - 1 \in 0 .. k - 1 /\ ~(m - 1 < i) /\ (m - 1) + 1 = m
        BY <1>2, <3>2, <3>4
      <4>2. g[m - 1] = f[m]
        BY <1>5, <4>1
      <4> QED
        BY <3>1, <4>1, <4>2
    <3> QED
      BY <3>3, <3>4
  <2>4. g[0] = h2
    <3>1. 0 \in 0 .. k - 1
      BY <1>2
    <3>2. CASE i = 0
      <4>1. ~(0 < i) /\ 0 + 1 = 1 /\ i + 1 = 1
        BY <3>2
      <4>2. g[0] = f[1] /\ h2 = f[1]
        BY <1>0, <1>4, <1>5, <3>1, <3>2, <4>1
      <4> QED
        BY <4>2
    <3>3. CASE i # 0
      <4>1. 0 < i
        BY <1>2, <3>3
      <4> QED
        BY <1>0, <1>1, <1>5, <3>1, <3>3, <4>1 DEF Chain
    <3> QED
      BY <3>2, <3>3
  <2>5. g[k - 1] = Null
    <3>1. k - 1 \in 0 .. k - 1 /\ ~(k - 1 < i) /\ (k - 1) + 1 = k
      BY <1>2
    <3> QED
      BY <1>1, <1>5, <3>1 DEF Chain
  <2>6. L \ {f[i]} \in SUBSET Nodes
    BY <1>1 DEF Chain
  <2> QED
    BY <1>2, <1>4, <1>6, <2>1, <2>2, <2>3, <2>4, <2>5, <2>6, Zenon DEF Chain
<1>11. Without(s, i + 1) = Content(g, k - 1, nd2)
  <2>1. /\ s \in Seq(Data \cup {NoData}) /\ Len(s) = k
        /\ \A j \in 1 .. k : s[j] = nd[f[j - 1]].pData
    BY <1>1, ContentSeq
  <2>2. ASSUME NEW j \in 1 .. k - 1
        PROVE  nd2[g[j - 1]].pData = IF j < i + 1 THEN s[j] ELSE s[j + 1]
    <3>1. j - 1 \in 0 .. k - 1 /\ j \in 0 .. k - 1 /\ j \in 1 .. k /\ j + 1 \in 1 .. k
          /\ (j - 1) + 1 = j /\ (j + 1) - 1 = j
      BY <1>2
    <3>2. CASE j < i + 1
      <4>1. j - 1 < i
        BY <1>2, <3>1, <3>2
      <4>2. g[j - 1] = f[j - 1] /\ s[j] = nd[f[j - 1]].pData
        BY <1>5, <2>1, <3>1, <4>1
      <4> QED
        BY <1>7, <3>1, <3>2, <4>2
    <3>3. CASE ~(j < i + 1)
      <4>1. ~(j - 1 < i)
        BY <1>2, <3>1, <3>3
      <4>2. g[j - 1] = f[j]
        BY <1>5, <3>1, <4>1
      <4>3. s[j + 1] = nd[f[j]].pData
        BY <2>1, <3>1
      <4> QED
        BY <1>7, <3>1, <3>3, <4>2, <4>3
    <3> QED
      BY <3>2, <3>3
  <2> QED
    BY <2>1, <2>2 DEF Without, Content
<1> QED
  BY <1>10, <1>11 DEF Holds, t
-----------------------------------------------------------------------------
(* The list: what is left of the data *)

LEMMA WithoutSeq ==
    ASSUME NEW S, NEW s, s \in Seq(S), NEW i \in 1 .. Len(s)
    PROVE  /\ Without(s, i) \in Seq(S) /\ Len(Without(s, i)) = Len(s) - 1
           /\ \A j \in 1 .. Len(s) - 1 : Without(s, i)[j] = IF j < i THEN s[j] ELSE s[j + 1]
<1>1. Len(s) \in Nat /\ Len(s) - 1 \in Nat /\ \A j \in 1 .. Len(s) : s[j] \in S
  BY LenProperties, ElementOfSeq
<1>2. Without(s, i) \in [1 .. Len(s) - 1 -> S]
  BY <1>1 DEF Without
<1>3. Without(s, i) \in Seq(S) /\ Len(Without(s, i)) = Len(s) - 1
  BY <1>1, <1>2, SeqDef
<1> QED
  BY <1>3 DEF Without

LEMMA TailIsWithout ==
    ASSUME NEW S, NEW s, s \in Seq(S), s # << >>
    PROVE  Tail(s) = Without(s, 1)
<1> DEFINE t == Tail(s)
           w == Without(s, 1)
<1>1. Len(s) \in Nat /\ Len(s) # 0 /\ 1 \in 1 .. Len(s)
  BY EmptySeq, LenProperties
<1>2. t \in Seq(S) /\ Len(t) = Len(s) - 1 /\ \A j \in 1 .. Len(t) : t[j] = s[j + 1]
  BY HeadTailProperties
<1>3. /\ w \in Seq(S) /\ Len(w) = Len(s) - 1
      /\ \A j \in 1 .. Len(s) - 1 : w[j] = IF j < 1 THEN s[j] ELSE s[j + 1]
  BY <1>1, WithoutSeq
<1> HIDE DEF t, w
<1>4. \A j \in 1 .. Len(s) - 1 : ~(j < 1)
  BY <1>1
<1>5. \A j \in 1 .. Len(s) - 1 : w[j] = s[j + 1]
  BY <1>3, <1>4
<1>6. t = w
  BY <1>2, <1>3, <1>5, SeqEqual
<1> QED
  BY <1>6 DEF t, w

\* RemoveFirst takes out the first element that is x.
LEMMA RemoveFirstIs ==
    ASSUME NEW S, NEW s, s \in Seq(S), NEW x, NEW i \in 1 .. Len(s),
           s[i] = x, \A j \in 1 .. i - 1 : s[j] # x
    PROVE  Sequence!RemoveFirst(s, x) = Without(s, i)
<1> DEFINE I == {j \in 1 .. Len(s) : s[j] = x}
           a == SubSeq(s, 1, i - 1)
           b == SubSeq(s, i + 1, Len(s))
           w == Without(s, i)
<1>1. Len(s) \in Nat /\ \A j \in 1 .. Len(s) : s[j] \in S
  BY LenProperties, ElementOfSeq
<1>2. i \in I /\ \A j \in I : i <= j
  BY <1>1
<1>3. Sequence!Min(I) = i
  <2>1. \A m \in I : (\A j \in I : m <= j) => m = i
    BY <1>1, <1>2
  <2> HIDE DEF I
  <2> QED
    BY <1>2, <2>1 DEF Sequence!Min
<1>4. Sequence!SelectInSeq(s, LAMBDA v : v = x) = i
  BY <1>2, <1>3 DEF Sequence!SelectInSeq
<1>5. Sequence!RemoveFirst(s, x) = a \o b
  BY <1>4 DEF Sequence!RemoveFirst, Sequence!RemoveAt
<1>6. a \in Seq(S) /\ Len(a) = i - 1 /\ \A j \in 1 .. i - 1 : a[j] = s[j]
  <2>1. \A j \in 1 .. i - 1 : s[j] \in S
    BY <1>1
  <2> QED
    BY <1>1, <2>1, SubSeqProperties
<1>7. b \in Seq(S) /\ Len(b) = Len(s) - i /\ \A j \in 1 .. Len(s) - i : b[j] = s[i + j]
  <2>1. \A j \in i + 1 .. Len(s) : s[j] \in S
    BY <1>1
  <2>2. i + 1 \in Int /\ Len(s) \in Int
    BY <1>1
  <2>3. /\ b \in Seq(S)
        /\ Len(b) = IF i + 1 <= Len(s) THEN Len(s) - (i + 1) + 1 ELSE 0
        /\ \A j \in 1 .. Len(s) - (i + 1) + 1 : b[j] = s[i + 1 + j - 1]
    BY <2>1, <2>2, SubSeqProperties
  <2>4. Len(s) - (i + 1) + 1 = Len(s) - i
    BY <1>1
  <2> HIDE DEF b
  <2>5. \A j \in 1 .. Len(s) - i : i + 1 + j - 1 = i + j
    BY <1>1
  <2>6. i + 1 <= Len(s) \/ Len(s) - i = 0
    BY <1>1
  <2>7. Len(b) = Len(s) - i
    BY <2>3, <2>4, <2>6
  <2>8. \A j \in 1 .. Len(s) - i : b[j] = s[i + 1 + j - 1]
    BY <2>3, <2>4
  <2> QED
    BY <2>3, <2>5, <2>7, <2>8
<1>8. /\ w \in Seq(S) /\ Len(w) = Len(s) - 1
      /\ \A j \in 1 .. Len(s) - 1 : w[j] = IF j < i THEN s[j] ELSE s[j + 1]
  BY WithoutSeq
<1> HIDE DEF a, b, w
<1>9. /\ a \o b \in Seq(S) /\ Len(a \o b) = Len(s) - 1
      /\ \A j \in 1 .. Len(s) - 1 : (a \o b)[j] = IF j < i THEN s[j] ELSE s[j + 1]
  <2> DEFINE l == Len(s)
             la == Len(a)
             lb == Len(b)
             c == a \o b
  <2>1. /\ c \in Seq(S) /\ Len(c) = la + lb
        /\ \A j \in 1 .. la + lb : c[j] = IF j <= la THEN a[j] ELSE b[j - la]
    BY <1>6, <1>7, ConcatProperties
  <2>2. la = i - 1 /\ lb = l - i /\ l \in Nat /\ i \in 1 .. l
    BY <1>1, <1>6, <1>7
  <2>3. /\ \A j \in 1 .. i - 1 : a[j] = s[j]
        /\ \A j \in 1 .. l - i : b[j] = s[i + j]
    BY <1>6, <1>7
  <2> HIDE DEF l, la, lb, c
  <2>4. la + lb = l - 1
    BY <2>2
  <2>5. ASSUME NEW j \in 1 .. l - 1 PROVE c[j] = IF j < i THEN s[j] ELSE s[j + 1]
    <3>1. j \in 1 .. la + lb /\ (j <= la <=> j < i)
      BY <2>2, <2>4
    <3>2. CASE j < i
      <4>1. j \in 1 .. i - 1
        BY <2>2, <3>2
      <4> QED
        BY <2>1, <2>3, <3>1, <3>2, <4>1
    <3>3. CASE ~(j < i)
      <4>1. j - la \in 1 .. l - i /\ i + (j - la) = j + 1
        BY <2>2, <3>3
      <4> QED
        BY <2>1, <2>3, <3>1, <3>3, <4>1
    <3> QED
      BY <3>2, <3>3
  <2> QED
    BY <2>1, <2>4, <2>5 DEF l, c
<1>10. a \o b = w
  <2> DEFINE c == a \o b
  <2>1. Len(c) = Len(w) /\ \A j \in 1 .. Len(c) : c[j] = w[j]
    BY <1>8, <1>9
  <2>2. c \in Seq(S) /\ w \in Seq(S)
    BY <1>8, <1>9
  <2> HIDE DEF c
  <2>3. c = w
    BY <2>1, <2>2, SeqEqual
  <2> QED
    BY <2>3 DEF c
<1> QED
  BY <1>5, <1>10 DEF w

LEMMA RemoveNone ==
    ASSUME NEW s, NEW x, \A j \in 1 .. Len(s) : s[j] # x
    PROVE  Sequence!RemoveFirst(s, x) = s
  BY DEF Sequence!RemoveFirst
-----------------------------------------------------------------------------
(* The list: its steps *)

LEMMA HeapIs == ListTypeOK => node \in Heap /\ head \in Cells /\ nSize \in Int /\ live \in SUBSET Nodes
  BY DEF ListTypeOK, Heap, Cells

\* A node that is read has a next one that is a node or null.
LEMMA AtTyped ==
    ASSUME ListTypeOK, NEW i \in 0 .. Cardinality(Nodes) - 1, At[i] \in live
    PROVE  At[i + 1] \in Cells /\ At[i + 1] = node[At[i]].next
<1>1. i + 1 \in 1 .. Cardinality(Nodes) /\ (i + 1) - 1 = i
  BY NodesCounted
<1>2. At[i] \in Nodes /\ At[i] # Null
  BY ListAssumption, HeapIs
<1>3. At[i + 1] = node[At[i]].next
  BY <1>1, <1>2, AtIsTrace, TraceStep
<1>4. node[At[i]].next \in Cells
  BY <1>2, HeapIs DEF Heap
<1> QED
  BY <1>3, <1>4

LEMMA AtStarts == At[0] = head
  BY AtIsTrace, TraceStep

ListFlagsOK == broken \in BOOLEAN /\ spoiled \in BOOLEAN

LEMMA ListFlags == ListFlagsOK /\ [ListNext]_listVars => ListFlagsOK'
<1> SUFFICES ASSUME ListFlagsOK, [ListNext]_listVars
             PROVE  broken' \in BOOLEAN /\ spoiled' \in BOOLEAN
  BY Zenon DEF ListFlagsOK
<1>1. broken \in BOOLEAN /\ spoiled \in BOOLEAN
  BY Zenon DEF ListFlagsOK
<1> QED
  BY <1>1, Zenon
     DEF ListNext, listVars, PushFront, PushBack, EraseData, PopFront, PopBack, Clear, Size,
         Walk, AtFront, Nothing, Missing, Return, Breaks

LEMMA ListTypeSplit ==
    /\ ListTypeOK => ListFlagsOK
    /\ ListFlagsOK' /\ head' \in Cells /\ nSize' \in Int /\ live' \in SUBSET Nodes /\ node' \in Heap
         => ListTypeOK'
<1>1. ListTypeOK => {broken, spoiled} \subseteq BOOLEAN
  BY DEF ListTypeOK
<1>2. {broken, spoiled} \subseteq BOOLEAN => broken \in BOOLEAN /\ spoiled \in BOOLEAN
  BY Zenon
<1>3. ListFlagsOK' => {broken', spoiled'} \subseteq BOOLEAN
  BY Zenon DEF ListFlagsOK
<1>4. {broken', spoiled'} \subseteq BOOLEAN
        /\ head' \in Cells /\ nSize' \in Int /\ live' \in SUBSET Nodes /\ node' \in Heap
        => ListTypeOK'
  BY DEF ListTypeOK, Heap, Cells
<1> QED
  BY <1>1, <1>2, <1>3, <1>4, Zenon DEF ListFlagsOK

LEMMA ListTypeStep == ListTypeOK /\ [ListNext]_listVars => ListTypeOK'
<1> SUFFICES ASSUME ListTypeOK, [ListNext]_listVars PROVE ListTypeOK'
  OBVIOUS
<1> DEFINE Goal == head' \in Cells /\ nSize' \in Int /\ live' \in SUBSET Nodes /\ node' \in Heap
<1> SUFFICES Goal
  BY ListTypeSplit, ListFlags
<1>1. node \in Heap /\ head \in Cells /\ nSize \in Int /\ live \in SUBSET Nodes
  BY HeapIs
<1>2. UNCHANGED <<head, nSize, live, node>> => Goal
  BY <1>1
<1>3. ASSUME NEW op, NEW v \in Data, AtFront(op, v) PROVE Goal
  <2>1. CASE Nothing(op)
    BY <1>2, <2>1, Zenon DEF Nothing
  <2>2. ASSUME NEW n \in Nodes \ live,
               live' = live \cup {n},
               node' = [node EXCEPT ![n] = [pData |-> v, next |-> head]],
               head' = n, nSize' = nSize + 1
        PROVE  Goal
    BY <1>1, <2>2 DEF Heap, Cells
  <2> QED
    BY <1>3, <2>1, <2>2 DEF AtFront
<1>4. ASSUME NEW v \in Data, PushBack(v) PROVE Goal
  <2>1. CASE Breaks
    BY <1>2, <2>1, Zenon DEF Breaks
  <2>2. CASE nSize' = nSize + 1 /\ UNCHANGED <<head, live, node>>
    BY <1>1, <2>2
  <2>3. ASSUME NEW n \in Nodes \ live,
               live' = live \cup {n}, nSize' = nSize + 1, head' = head,
               node' = [node EXCEPT ![At[Length - 1]].next = n,
                                    ![n] = [pData |-> v, next |-> Null]]
        PROVE  Goal
    <3>1. node' \in Heap
      <4> DEFINE a == At[Length - 1]
                 mid == [node EXCEPT ![a].next = n]
      <4>1. n \in Cells /\ Null \in Cells /\ [pData |-> v, next |-> Null] \in [pData : Data \cup {NoData}, next : Cells]
        BY DEF Cells
      <4> HIDE DEF a
      <4>2. mid \in Heap
        BY <1>1, <4>1 DEF Heap
      <4>3. node' = [mid EXCEPT ![n] = [pData |-> v, next |-> Null]]
        BY <2>3 DEF a
      <4> HIDE DEF mid
      <4> QED
        BY <4>1, <4>2, <4>3 DEF Heap
    <3> QED
      BY <1>1, <2>3, <3>1
  <2> QED
    BY <1>3, <1>4, <2>1, <2>2, <2>3 DEF PushBack, Return
<1>5. CASE PopFront
  <2>1. CASE UNCHANGED <<head, nSize, live, node>>
    BY <1>2, <2>1
  <2>2. CASE /\ head \in live /\ head' = node[head].next /\ live' = live \ {head}
             /\ nSize' = nSize - 1 /\ node' = node
    BY <1>1, <2>2 DEF Heap
  <2> QED
    BY <1>5, <2>1, <2>2, Zenon DEF PopFront, Nothing, Breaks
<1>6. CASE PopBack
  <2>1. CASE UNCHANGED <<head, nSize, live, node>>
    BY <1>2, <2>1
  <2>2. CASE live' = live \ {At[Length - 1]} /\ nSize' = nSize - 1 /\ UNCHANGED <<head, node>>
    BY <1>1, <2>2
  <2> QED
    BY <1>6, <2>1, <2>2, Zenon DEF PopBack, Nothing, Breaks
<1>7. ASSUME NEW v \in Data, EraseData(v) PROVE Goal
  <2>1. CASE UNCHANGED <<head, nSize, live, node>>
    BY <1>2, <2>1
  <2>2. ASSUME NEW i \in Before(v),
               Link(i, At[i + 1]), live' = live \ {At[i]}, nSize' = nSize - 1
        PROVE  Goal
    <3>1. i \in 0 .. Cardinality(Nodes) - 1 /\ \A j \in 0 .. i + 1 - 1 : At[j] \in live
      BY DEF Before, Readable
    <3>2. i \in 0 .. i + 1 - 1
      BY <3>1, NodesCounted
    <3>3. At[i + 1] \in Cells
      BY <3>1, <3>2, AtTyped
    <3>4. CASE i = 0
      BY <1>1, <2>2, <3>3, <3>4 DEF Link
    <3>5. CASE i # 0
      <4>1. node' = [node EXCEPT ![At[i - 1]].next = At[i + 1]] /\ head' = head
        BY <2>2, <3>5 DEF Link
      <4>2. node' \in Heap
        <5> DEFINE a == At[i - 1]
                   b == At[i + 1]
        <5> HIDE DEF a, b
        <5>1. node' = [node EXCEPT ![a].next = b] /\ b \in Cells
          BY <3>3, <4>1 DEF a, b
        <5> QED
          BY <1>1, <5>1 DEF Heap
      <4> QED
        BY <1>1, <2>2, <4>1, <4>2
    <3> QED
      BY <3>4, <3>5
  <2>3. CASE Before(v) = {}
    BY <1>7, <2>1, <2>3, Zenon DEF EraseData, Missing, Breaks
  <2>4. CASE Before(v) # {}
    BY <1>7, <2>2, <2>4 DEF EraseData
  <2> QED
    BY <2>3, <2>4
<1>8. CASE Clear
  <2>1. CASE UNCHANGED <<head, nSize, live, node>>
    BY <1>2, <2>1
  <2>2. CASE /\ live' = live \ {At[i] : i \in 0 .. Length - 1}
             /\ head' = Null /\ nSize' = 0 /\ node' = node
    BY <1>1, <2>2 DEF Cells
  <2> QED
    BY <1>8, <2>1, <2>2, Zenon DEF Clear, Breaks
<1>9. CASE Size \/ Walk
  BY <1>2, <1>9, Zenon DEF Size, Walk, Breaks
<1>10. CASE UNCHANGED listVars
  BY <1>2, <1>10, Zenon DEF listVars
<1>11. ASSUME NEW v \in Data, PushFront(v) PROVE Goal
  BY <1>3, <1>11 DEF PushFront
<1> HIDE DEF Goal
<1> QED
  BY <1>4, <1>5, <1>6, <1>7, <1>8, <1>9, <1>10, <1>11, Zenon DEF ListNext
-----------------------------------------------------------------------------
(* The list: a call on a list in order *)

\* What a call that succeeds may make of the data s, and what it returns.
Takes(s, s2) ==
    \/ \E v \in Data : \/ last' = <<"push_front", v>> /\ s2 = <<v>> \o s
                       \/ last' = <<"push_back", v>> /\ s2 = Append(s, v)
                       \/ last' = <<"earse_data", v>> /\ s2 = Sequence!RemoveFirst(s, v)
    \/ s = << >> /\ last' = <<"pop_front">> /\ s2 = s
    \/ s # << >> /\ last' = <<"pop_front", Head(s)>> /\ s2 = Tail(s)
    \/ last' = <<"size", Len(s)>> /\ s2 = s
    \/ last' = <<"walk", s>> /\ s2 = s
    \/ last' \in {<<"push_front">>, <<"push_back">>, <<"pop_back">>} /\ s2 = s

\* The pointers do not leave a set of nodes.
Astray == \E X \in SUBSET Nodes : head \in X /\ \A n \in X \cap live : node[n].next \in X

\* A list in order is one still.
Follows(s, k2, s2) ==
    /\ Holds(k2, s2, head', node', live')
    /\ ~spoiled' => ~broken' /\ nSize' = k2
    /\ \/ spoiled'
       \/ last' = <<"clear">> /\ s2 = << >>
       \/ ~spoiled /\ ~spoiled' /\ Takes(s, s2)

\* A chain of k nodes with the data s, and nothing has gone wrong unless it is known.
Sane(k, s) ==
    /\ ListTypeOK
    /\ Holds(k, s, head, node, live)
    /\ spoiled \/ (~spoiled /\ ~broken /\ nSize = k)

LEMMA SaneFacts ==
    ASSUME NEW k, NEW s, Sane(k, s)
    PROVE  /\ k \in 0 .. Cardinality(Nodes) /\ k \in Nat
           /\ Length = k /\ Terminates /\ Walked = s
           /\ s \in Seq(Data \cup {NoData}) /\ Len(s) = k
           /\ \A i \in 1 .. k : s[i] = node[At[i - 1]].pData
           /\ \A i \in 0 .. k - 1 : At[i] \in live
           /\ At[k] = Null
           /\ live = {At[i] : i \in 0 .. k - 1}
           /\ Cardinality(live) = k
           /\ k = 0 <=> s = << >>
           /\ k = 0 <=> head = Null
           /\ k # 0 => At[k - 1] \in live
<1>1. PICK f : Chain(f, k, head, node, live) /\ s = Content(f, k, node)
  BY DEF Sane, Holds
<1>2. k \in 0 .. Cardinality(Nodes) /\ k \in Nat /\ Cardinality(live) = k
  BY <1>1, ChainSize, NodesCounted
<1>3. Length = k /\ Terminates /\ Walked = s
  <2>1. /\ LengthsOf(Trace(head, node), live) = {k}
        /\ LengthOf(Trace(head, node), live) = k
        /\ WalkedOf(Trace(head, node), live, node) = Content(f, k, node)
    BY <1>1, ChainLength
  <2> QED
    BY <1>1, <2>1, AtIsTrace, LengthsAre DEF Terminates
<1>4. \A i \in 0 .. k : At[i] = f[i]
  BY <1>1, ChainTrace, AtIsTrace
<1>5. /\ s \in Seq(Data \cup {NoData}) /\ Len(s) = k
      /\ \A i \in 1 .. k : s[i] = node[f[i - 1]].pData
  <2>1. node \in Heap
    BY HeapIs DEF Sane
  <2> QED
    BY <1>1, <2>1, ContentSeq
<1>6. \A i \in 1 .. k : i - 1 \in 0 .. k /\ At[i - 1] = f[i - 1]
  BY <1>2, <1>4
<1>7. \A i \in 0 .. k - 1 : i \in 0 .. k /\ At[i] = f[i]
  BY <1>2, <1>4
<1>8. \A i \in 0 .. k - 1 : At[i] \in live
  BY <1>1, <1>7 DEF Chain
<1>9. At[k] = Null /\ At[0] = head
  BY <1>1, <1>2, <1>4, AtStarts DEF Chain
<1>10. \A n \in live : \E i \in 0 .. k - 1 : At[i] = n
  BY <1>1, <1>7 DEF Chain
<1>11. live = {At[i] : i \in 0 .. k - 1}
  BY <1>8, <1>10
<1>12. k = 0 <=> s = << >>
  BY <1>5, EmptySeq
<1>13. k # 0 => At[k - 1] \in live /\ At[0] \in live
  BY <1>2, <1>8
<1>14. k = 0 <=> head = Null
  <2>1. Null \notin live
    BY ListAssumption, HeapIs DEF Sane
  <2> QED
    BY <1>9, <1>13, <2>1
<1>15. \A i \in 1 .. k : s[i] = node[At[i - 1]].pData
  BY <1>5, <1>6
<1> QED
  BY <1>2, <1>3, <1>5, <1>8, <1>9, <1>11, <1>12, <1>13, <1>14, <1>15

\* A call that leaves the nodes alone.
LEMMA FollowsIdle ==
    ASSUME NEW k, NEW s, Sane(k, s), UNCHANGED <<head, nSize, live, node, broken, spoiled>>,
           spoiled \/ Takes(s, s)
    PROVE  Follows(s, k, s)
  BY Zenon DEF Sane, Follows

\* The lines of AtFront with a node.
LEMMA FollowsAtFront ==
    ASSUME NEW k, NEW s, Sane(k, s), NEW op, NEW v \in Data, AtFront(op, v),
           node' \in Heap,
           \/ op = "push_front"
           \/ op = "push_back" /\ nSize = 0
    PROVE  \E k2, s2 : Follows(s, k2, s2)
<1>1. CASE Nothing(op)
  <2>1. UNCHANGED <<head, nSize, live, node, broken, spoiled>> /\ last' = <<op>>
    BY <1>1, Zenon DEF Nothing, Return
  <2>2. Takes(s, s)
    BY <2>1 DEF Takes
  <2> QED
    BY <2>1, <2>2, FollowsIdle
<1>2. ASSUME NEW n \in Nodes \ live,
             live' = live \cup {n},
             node' = [node EXCEPT ![n] = [pData |-> v, next |-> head]],
             head' = n, nSize' = nSize + 1, Return(<<op, v>>)
      PROVE  Follows(s, k + 1, <<v>> \o s)
  <2>1. node \in Heap /\ live \in SUBSET Nodes /\ nSize \in Int
    BY HeapIs DEF Sane
  <2>2. Holds(k + 1, <<v>> \o s, n, node', live \cup {n})
    <3>1. node'[n] = [pData |-> v, next |-> head] /\ \A x \in live : node'[x] = node[x]
      BY <1>2, <2>1 DEF Heap
    <3>2. Holds(k, s, head, node, live)
      BY DEF Sane
    <3>3. v \in Data \cup {NoData}
      OBVIOUS
    <3> QED
      BY <2>1, <3>1, <3>2, <3>3, HoldsPushFront
  <2>3. last' = <<op, v>> /\ broken' = broken /\ spoiled' = spoiled
    BY <1>2, Zenon DEF Return
  <2>4. ~spoiled => ~broken /\ nSize = k
    BY Zenon DEF Sane
  <2>5. ~spoiled => Takes(s, <<v>> \o s)
    <3>1. CASE op = "push_front"
      BY <2>3, <3>1 DEF Takes
    <3>2. CASE op = "push_back" /\ nSize = 0
      <4>1. ~spoiled => s = << >>
        BY <2>4, <3>2, SaneFacts
      <4>2. s = << >> => <<v>> \o s = Append(s, v)
        OBVIOUS
      <4>3. last' = <<"push_back", v>>
        BY <2>3, <3>2
      <4> QED
        BY <4>1, <4>2, <4>3, Zenon DEF Takes
    <3> QED
      BY <3>1, <3>2
  <2>6. ~spoiled => nSize' = k + 1
    BY <1>2, <2>4
  <2>7. Holds(k + 1, <<v>> \o s, head', node', live')
    BY <1>2, <2>2
  <2> QED
    BY <2>3, <2>4, <2>5, <2>6, <2>7, Zenon DEF Follows
<1> QED
  BY <1>1, <1>2, Zenon DEF AtFront

LEMMA FollowsPushBack ==
    ASSUME NEW k, NEW s, Sane(k, s), NEW v \in Data, PushBack(v), node' \in Heap
    PROVE  \E k2, s2 : Follows(s, k2, s2)
<1>0. /\ node \in Heap /\ live \in SUBSET Nodes /\ nSize \in Int
      /\ Holds(k, s, head, node, live)
      /\ ~spoiled => ~broken /\ nSize = k
  BY HeapIs, Zenon DEF Sane
<1>1. CASE nSize = 0
  <2>1. AtFront("push_back", v)
    BY <1>1, Zenon DEF PushBack
  <2> QED
    BY <1>1, <2>1, FollowsAtFront
<1>2. CASE nSize # 0 /\ Breaks
  <2>1. UNCHANGED <<head, nSize, live, node, spoiled>>
    BY <1>2, Zenon DEF Breaks
  <2>2. spoiled
    <3>1. CASE head = Null
      BY <1>0, <1>2, <3>1, SaneFacts
    <3>2. CASE head # Null
      <4>1. Terminates /\ k # 0
        BY <3>2, SaneFacts
      <4>2. ~spoiled => nSize' = nSize + 1 /\ nSize \in Int
        BY <1>0, <1>2, <3>2, <4>1, Zenon DEF PushBack
      <4> QED
        BY <2>1, <4>2
    <3> QED
      BY <3>1, <3>2
  <2>3. Follows(s, k, s)
    BY <1>0, <2>1, <2>2, Zenon DEF Follows
  <2> QED
    BY <2>3
<1>3. CASE spoiled' = TRUE /\ UNCHANGED <<head, live, node>>
  <2>1. Follows(s, k, s)
    BY <1>0, <1>3, Zenon DEF Follows
  <2> QED
    BY <2>1
<1>4. ASSUME nSize # 0, head # Null, nSize' = nSize + 1,
             NEW n \in Nodes \ live,
             live' = live \cup {n},
             node' = [node EXCEPT ![At[Length - 1]].next = n,
                                  ![n] = [pData |-> v, next |-> Null]],
             Return(<<"push_back", v>>), head' = head
      PROVE  Follows(s, k + 1, Append(s, v))
  <2>1. k # 0 /\ Length = k /\ At[k - 1] \in live
    BY <1>4, SaneFacts
  <2> DEFINE a == At[k - 1]
  <2>2. a \in live /\ a \in Nodes /\ a # n
    BY <1>0, <2>1
  <2> HIDE DEF a
  <2>3. node' = [node EXCEPT ![a].next = n, ![n] = [pData |-> v, next |-> Null]]
    BY <1>4, <2>1 DEF a
  <2>4. Appended(node, node', live, a, n, v)
    BY <1>0, <2>2, <2>3 DEF Heap, Appended
  <2>5. Holds(k + 1, Append(s, v), head, node', live \cup {n})
    <3>1. a = Trace(head, node)[k - 1]
      BY AtIsTrace DEF a
    <3>2. v \in Data \cup {NoData}
      OBVIOUS
    <3> QED
      BY <1>0, <2>1, <2>4, <3>1, <3>2, HoldsPushBack
  <2>6. last' = <<"push_back", v>> /\ broken' = broken /\ spoiled' = spoiled
    BY <1>4, Zenon DEF Return
  <2>7. ~spoiled => nSize' = k + 1
    BY <1>0, <1>4
  <2>8. Takes(s, Append(s, v))
    BY <2>6 DEF Takes
  <2>9. Holds(k + 1, Append(s, v), head', node', live')
    BY <1>4, <2>5
  <2> QED
    BY <1>0, <2>6, <2>7, <2>8, <2>9, Zenon DEF Follows
<1>5. CASE nSize # 0 /\ ~(head = Null \/ ~Terminates)
  <2>1. /\ nSize' = nSize + 1
        /\ \/ spoiled' = TRUE /\ UNCHANGED <<head, live, node>>
           \/ \E n \in Nodes \ live :
                 /\ live' = live \cup {n}
                 /\ node' = [node EXCEPT ![At[Length - 1]].next = n,
                                         ![n] = [pData |-> v, next |-> Null]]
                 /\ Return(<<"push_back", v>>)
                 /\ UNCHANGED head
    BY <1>5, Zenon DEF PushBack
  <2>2. head # Null
    BY <1>5
  <2> QED
    BY <1>3, <1>4, <1>5, <2>1, <2>2
<1> QED
  BY <1>1, <1>2, <1>5, Zenon DEF PushBack
LEMMA FollowsPopFront ==
    ASSUME NEW k, NEW s, Sane(k, s), PopFront, node' \in Heap
    PROVE  \E k2, s2 : Follows(s, k2, s2)
<1>0. /\ node \in Heap /\ live \in SUBSET Nodes /\ nSize \in Int
      /\ Holds(k, s, head, node, live)
      /\ ~spoiled => ~broken /\ nSize = k
  BY HeapIs, Zenon DEF Sane
<1>1. CASE nSize = 0
  <2>1. UNCHANGED <<head, nSize, live, node, broken, spoiled>> /\ last' = <<"pop_front">>
    BY <1>1, Zenon DEF PopFront, Nothing, Return
  <2>2. ~spoiled => s = << >>
    BY <1>0, <1>1, SaneFacts
  <2>3. spoiled \/ Takes(s, s)
    BY <2>1, <2>2, Zenon DEF Takes
  <2> QED
    BY <2>1, <2>3, FollowsIdle
<1>2. CASE nSize # 0 /\ head \notin live
  <2>1. UNCHANGED <<head, nSize, live, node, spoiled>>
    BY <1>2, Zenon DEF PopFront, Breaks
  <2>2. spoiled
    <3>1. k # 0 => At[0] \in live
      BY SaneFacts
    <3>2. k = 0
      BY <1>2, <3>1, AtStarts
    <3> QED
      BY <1>0, <1>2, <3>2, Zenon
  <2>3. Follows(s, k, s)
    BY <1>0, <2>1, <2>2, Zenon DEF Follows
  <2> QED
    BY <2>3
<1>3. CASE nSize # 0 /\ head \in live
  <2>1. /\ head' = node[head].next /\ live' = live \ {head} /\ nSize' = nSize - 1
        /\ last' = <<"pop_front", node[head].pData>>
        /\ broken' = broken /\ spoiled' = spoiled /\ node' = node
    BY <1>3, Zenon DEF PopFront, Return
  <2>2. k # 0 /\ k \in Nat /\ 0 \in 0 .. k - 1 /\ s # << >>
    <3>1. k # 0
      BY <1>0, <1>3, ListAssumption, SaneFacts
    <3>2. k \in Nat /\ s # << >>
      BY <3>1, SaneFacts
    <3> QED
      BY <3>1, <3>2
  <2>3. At[0] = head /\ At[1] = node[head].next
    <3>1. 0 \in 0 .. Cardinality(Nodes) - 1
      BY <2>2, SaneFacts, NodesCounted
    <3>2. ListTypeOK
      BY DEF Sane
    <3> QED
      BY <1>3, <3>1, <3>2, AtStarts, AtTyped
  <2>4. Holds(k - 1, Without(s, 1), head', node', live')
    <3>1. Unlinked(0, Trace(head, node), head, node, live, head', node')
      BY <2>1, <2>3, AtIsTrace DEF Unlinked
    <3>2. Holds(k - 1, Without(s, 0 + 1), head', node', live \ {Trace(head, node)[0]})
      BY <1>0, <2>2, <3>1, HoldsErase
    <3> QED
      BY <2>1, <2>3, <3>2, AtIsTrace
  <2>5. s \in Seq(Data \cup {NoData}) /\ Len(s) = k /\ s[1] = node[head].pData
    BY <2>2, <2>3, SaneFacts
  <2>6. Head(s) = node[head].pData /\ Tail(s) = Without(s, 1)
    <3>1. Head(s) = s[1]
      BY <2>2, <2>5
    <3>2. Tail(s) = Without(s, 1)
      BY <2>2, <2>5, TailIsWithout
    <3> QED
      BY <2>5, <3>1, <3>2
  <2>7. Takes(s, Without(s, 1))
    BY <2>1, <2>2, <2>6, Zenon DEF Takes
  <2>8. ~spoiled => nSize' = k - 1
    BY <1>0, <2>1
  <2>9. Follows(s, k - 1, Without(s, 1))
    BY <1>0, <2>1, <2>4, <2>7, <2>8, Zenon DEF Follows
  <2> QED
    BY <2>9
<1> QED
  BY <1>1, <1>2, <1>3

\* What list_pop_back leaves is the first of a chain that runs into a node that is
\* gone.
LEMMA PopBackStrays ==
    ASSUME NEW k, NEW s, Sane(k, s), PopBack
    PROVE  (\E k2, s2 : Follows(s, k2, s2)) \/ (spoiled' = TRUE /\ Astray')
<1>0. /\ node \in Heap /\ live \in SUBSET Nodes /\ nSize \in Int
      /\ Holds(k, s, head, node, live)
      /\ ~spoiled => ~broken /\ nSize = k
  BY HeapIs, Zenon DEF Sane
<1>1. CASE nSize = 0
  <2>1. UNCHANGED <<head, nSize, live, node, broken, spoiled>> /\ last' = <<"pop_back">>
    BY <1>1, Zenon DEF PopBack, Nothing, Return
  <2>2. Takes(s, s)
    BY <2>1 DEF Takes
  <2> QED
    BY <2>1, <2>2, FollowsIdle
<1>2. CASE nSize # 0 /\ (head = Null \/ ~Terminates)
  <2>1. UNCHANGED <<head, nSize, live, node, spoiled>>
    BY <1>2, Zenon DEF PopBack, Breaks
  <2>2. spoiled
    <3>1. head = Null
      BY <1>2, SaneFacts
    <3>2. k = 0
      BY <3>1, SaneFacts
    <3> QED
      BY <1>0, <1>2, <3>2, Zenon
  <2>3. Follows(s, k, s)
    BY <1>0, <2>1, <2>2, Zenon DEF Follows
  <2> QED
    BY <2>3
<1>3. CASE nSize # 0 /\ ~(head = Null \/ ~Terminates)
  <2>1. /\ live' = live \ {At[Length - 1]} /\ spoiled' = TRUE /\ head' = head /\ node' = node
    BY <1>3, Zenon DEF PopBack
  <2>2. k # 0 /\ Length = k
    BY <1>3, SaneFacts
  <2>3. PICK f : Chain(f, k, head, node, live)
    BY <1>0 DEF Holds
  <2>4. k \in Nat /\ 0 \in 0 .. k - 1 /\ k - 1 \in 0 .. k
    BY <2>2, <2>3 DEF Chain
  <2>5. At[k - 1] = f[k - 1]
    BY <2>3, <2>4, ChainTrace, AtIsTrace
  <2>6. head \in live
    BY <2>3, <2>4 DEF Chain
  <2>7. ASSUME NEW n \in live \ {f[k - 1]} PROVE node[n].next \in live
    <3>1. PICK i \in 0 .. k - 1 : f[i] = n
      BY <2>3 DEF Chain
    <3>2. i + 1 \in 0 .. k - 1
      BY <2>4, <2>7, <3>1
    <3> QED
      BY <2>3, <3>1, <3>2 DEF Chain
  <2>8. live' = live \ {f[k - 1]}
    BY <2>1, <2>2, <2>5
  <2>9. live \in SUBSET Nodes /\ head' \in live /\ \A n \in live \cap live' : node'[n].next \in live
    BY <1>0, <2>1, <2>6, <2>7, <2>8
  <2>10. Astray'
    BY <2>9 DEF Astray
  <2> QED
    BY <2>1, <2>10
<1> QED
  BY <1>1, <1>2, <1>3

LEMMA FollowsErase ==
    ASSUME NEW k, NEW s, Sane(k, s), NEW v \in Data, EraseData(v), node' \in Heap
    PROVE  \E k2, s2 : Follows(s, k2, s2)
<1>0. /\ ListTypeOK /\ node \in Heap /\ live \in SUBSET Nodes /\ nSize \in Int
      /\ Holds(k, s, head, node, live)
      /\ ~spoiled => ~broken /\ nSize = k
  BY HeapIs, Zenon DEF Sane
<1>1. /\ k \in Nat /\ k \in 0 .. Cardinality(Nodes)
      /\ s \in Seq(Data \cup {NoData}) /\ Len(s) = k
      /\ \A i \in 1 .. k : s[i] = node[At[i - 1]].pData
      /\ \A i \in 0 .. k - 1 : At[i] \in live
      /\ At[k] = Null /\ Null \notin live
  BY <1>0, SaneFacts, ListAssumption
<1>2. CASE Before(v) = {}
  <2>1. UNCHANGED <<head, nSize, live, node, broken, spoiled>> /\ last' = <<"earse_data", v>>
    <3>1. Terminates
      BY SaneFacts
    <3> QED
      BY <1>2, <3>1, Zenon DEF EraseData, Missing, Return
  <2>2. \A j \in 1 .. Len(s) : s[j] # v
    <3> DEFINE Has == {j \in 0 .. k - 1 : node[At[j]].pData = v}
    <3>1. SUFFICES ASSUME Has # {} PROVE FALSE
      <4>1. \A j \in 1 .. k : j - 1 \in 0 .. k - 1
        BY <1>1
      <4> QED
        BY <1>1, <4>1
    <3>2. Has \in SUBSET Nat
      OBVIOUS
    <3>3. PICK i \in Has : \A j \in Has : i <= j
      BY <3>1, <3>2, LowestIsLeast
    <3>4. i \in 0 .. k - 1 /\ i \in 0 .. Cardinality(Nodes) - 1 /\ i + 1 - 1 = i
      BY <1>1, <3>3, NodesCounted
    <3>5. \A j \in 0 .. i - 1 : node[At[j]].pData # v
      <4>1. \A j \in 0 .. i - 1 : j \in 0 .. k - 1 /\ ~(i <= j)
        BY <1>1, <3>4
      <4> QED
        BY <3>3, <4>1
    <3>6. Readable(i + 1)
      <4>1. \A j \in 0 .. i + 1 - 1 : j \in 0 .. k - 1
        BY <1>1, <3>4
      <4> QED
        BY <1>1, <4>1 DEF Readable
    <3>7. i \in Before(v)
      BY <3>3, <3>4, <3>5, <3>6 DEF Before
    <3> QED
      BY <1>2, <3>7
  <2>3. Sequence!RemoveFirst(s, v) = s
    BY <2>2, RemoveNone
  <2>4. Takes(s, s)
    BY <2>1, <2>3, Zenon DEF Takes
  <2> QED
    BY <2>1, <2>4, FollowsIdle
<1>3. CASE Before(v) # {}
  <2>1. PICK i \in Before(v) :
            /\ Link(i, At[i + 1])
            /\ live' = live \ {At[i]}
            /\ nSize' = nSize - 1
            /\ Return(<<"earse_data", v>>)
    BY <1>3 DEF EraseData
  <2>2. /\ i \in 0 .. Cardinality(Nodes) - 1
        /\ Readable(i + 1)
        /\ node[At[i]].pData = v
        /\ \A j \in 0 .. i - 1 : node[At[j]].pData # v
    BY DEF Before
  <2>3. i \in 0 .. k - 1 /\ i \in Nat
    <3>1. i \in Nat
      BY <2>2, NodesCounted
    <3>2. \A j \in 0 .. i : At[j] \in live
      BY <2>2, <3>1 DEF Readable
    <3>3. ~(k <= i)
      BY <1>1, <3>1, <3>2
    <3> QED
      BY <1>1, <3>1, <3>3
  <2>4. Holds(k - 1, Without(s, i + 1), head', node', live')
    <3>1. Unlinked(i, At, head, node, live, head', node')
      <4>1. CASE i = 0
        BY <2>1, <4>1 DEF Link, Unlinked
      <4>2. CASE i # 0
        <5> DEFINE a == At[i - 1]
                   b == At[i + 1]
        <5>1. a \in Nodes
          BY <1>0, <1>1, <2>3, <4>2
        <5>2. head' = head /\ node' = [node EXCEPT ![a].next = b]
          BY <2>1, <4>2 DEF Link
        <5> HIDE DEF a, b
        <5>3. /\ node'[a].next = b /\ node'[a].pData = node[a].pData
              /\ \A x \in live \ {a} : node'[x] = node[x]
          BY <1>0, <5>1, <5>2 DEF Heap
        <5> QED
          BY <4>2, <5>2, <5>3 DEF Unlinked, a, b
      <4> QED
        BY <4>1, <4>2
    <3>2. Unlinked(i, Trace(head, node), head, node, live, head', node')
      BY <3>1, AtIsTrace
    <3>3. Holds(k - 1, Without(s, i + 1), head', node', live \ {Trace(head, node)[i]})
      BY <1>0, <2>3, <3>2, HoldsErase
    <3> QED
      BY <2>1, <3>3, AtIsTrace
  <2>5. Sequence!RemoveFirst(s, v) = Without(s, i + 1)
    <3>1. i + 1 \in 1 .. Len(s) /\ (i + 1) - 1 = i
      BY <1>1, <2>3
    <3>2. s[i + 1] = v
      BY <1>1, <2>2, <3>1
    <3>3. ASSUME NEW j \in 1 .. (i + 1) - 1 PROVE s[j] # v
      <4>1. j \in 1 .. k /\ j - 1 \in 0 .. i - 1
        BY <1>1, <2>3
      <4> QED
        BY <1>1, <2>2, <4>1
    <3> QED
      BY <1>1, <3>1, <3>2, <3>3, RemoveFirstIs
  <2>6. last' = <<"earse_data", v>> /\ broken' = broken /\ spoiled' = spoiled
    BY <2>1, Zenon DEF Return
  <2>7. Takes(s, Without(s, i + 1))
    BY <2>5, <2>6, Zenon DEF Takes
  <2>8. ~spoiled => nSize' = k - 1
    BY <1>0, <2>1
  <2>9. Follows(s, k - 1, Without(s, i + 1))
    BY <1>0, <2>4, <2>6, <2>7, <2>8, Zenon DEF Follows
  <2> QED
    BY <2>9
<1> QED
  BY <1>2, <1>3

LEMMA FollowsClear ==
    ASSUME NEW k, NEW s, Sane(k, s), Clear
    PROVE  Follows(s, 0, << >>)
<1>1. /\ live' = live \ {At[i] : i \in 0 .. Length - 1}
      /\ head' = Null /\ nSize' = 0 /\ last' = <<"clear">> /\ broken' = broken /\ ~broken
  <2>1. Terminates
    BY SaneFacts
  <2> QED
    BY <2>1, Zenon DEF Clear
<1>2. live' = {}
  BY <1>1, SaneFacts
<1>3. Holds(0, << >>, head', node', live')
  <2> DEFINE f == [i \in 0 .. 0 |-> Null]
  <2>1. f \in [0 .. 0 -> Cells] /\ f[0] = Null
    BY DEF Cells
  <2>2. Chain(f, 0, Null, node', {})
    <3> HIDE DEF f
    <3> QED
      BY <2>1 DEF Chain
  <2>3. << >> = Content(f, 0, node')
    BY DEF Content
  <2> QED
    BY <1>1, <1>2, <2>2, <2>3 DEF Holds
<1> QED
  BY <1>1, <1>3, Zenon DEF Follows

LEMMA ListMoves ==
    ASSUME NEW k, NEW s, Sane(k, s), ListNext, node' \in Heap
    PROVE  (\E k2, s2 : Follows(s, k2, s2)) \/ (spoiled' = TRUE /\ Astray')
<1>1. ASSUME NEW v \in Data, PushFront(v)
      PROVE  \E k2, s2 : Follows(s, k2, s2)
  BY <1>1, FollowsAtFront DEF PushFront
<1>2. ASSUME NEW v \in Data, PushBack(v)
      PROVE  \E k2, s2 : Follows(s, k2, s2)
  BY <1>2, FollowsPushBack
<1>3. ASSUME NEW v \in Data, EraseData(v)
      PROVE  \E k2, s2 : Follows(s, k2, s2)
  BY <1>3, FollowsErase
<1>4. CASE PopFront
  BY <1>4, FollowsPopFront
<1>5. CASE PopBack
  BY <1>5, PopBackStrays
<1>6. CASE Clear
  BY <1>6, FollowsClear
<1>7. CASE Size
  <2>1. UNCHANGED <<head, nSize, live, node, broken, spoiled>> /\ last' = <<"size", nSize>>
    BY <1>7, Zenon DEF Size, Return
  <2>2. Len(s) = k
    BY SaneFacts
  <2>3. spoiled \/ Takes(s, s)
    BY <2>1, <2>2, Zenon DEF Sane, Takes
  <2> QED
    BY <2>1, <2>3, FollowsIdle
<1>8. CASE Walk
  <2>1. Terminates /\ Walked = s
    BY SaneFacts
  <2>2. UNCHANGED <<head, nSize, live, node, broken, spoiled>> /\ last' = <<"walk", s>>
    BY <1>8, <2>1, Zenon DEF Walk, Return
  <2>3. Takes(s, s)
    BY <2>2, Zenon DEF Takes
  <2> QED
    BY <2>2, <2>3, FollowsIdle
<1> QED
  BY <1>1, <1>2, <1>3, <1>4, <1>5, <1>6, <1>7, <1>8, Zenon DEF ListNext
-----------------------------------------------------------------------------
(* The list: a call when the pointers have gone astray *)

\* No walk ends, so no call but Breaks gets past one, and what the others link stays
\* among the nodes that point to each other.
LEMMA AstrayStays ==
    ASSUME ListTypeOK, spoiled, Astray, ListNext, node' \in Heap
    PROVE  spoiled' /\ Astray'
<1>0. node \in Heap /\ head \in Cells /\ live \in SUBSET Nodes
  BY HeapIs
<1>1. PICK X \in SUBSET Nodes : head \in X /\ \A n \in X \cap live : node[n].next \in X
  BY DEF Astray
<1>2. ASSUME NEW i \in 0 .. Cardinality(Nodes), \A j \in 0 .. i - 1 : At[j] \in live
      PROVE  At[i] \in X
  <2>1. \A j \in 0 .. i - 1 : Trace(head, node)[j] \in live
    BY <1>2, AtIsTrace
  <2> QED
    BY <1>1, <2>1, AtIsTrace, TraceStays
<1>3. ~Terminates
  <2>1. ASSUME NEW i \in 0 .. Cardinality(Nodes), \A j \in 0 .. i - 1 : At[j] \in live, At[i] = Null
        PROVE  FALSE
    BY <1>2, <2>1, ListAssumption
  <2> QED
    BY <2>1 DEF Terminates, Lengths, Ends, Readable
<1> DEFINE Goal == spoiled' /\ Astray'
<1>4. UNCHANGED <<head, live, node, spoiled>> => Goal
  <2> SUFFICES ASSUME UNCHANGED <<head, live, node, spoiled>> PROVE Goal
    OBVIOUS
  <2>1. head' \in X /\ \A n \in X \cap live' : node'[n].next \in X
    BY <1>1
  <2>2. spoiled'
    BY Zenon
  <2> QED
    BY <2>1, <2>2 DEF Astray
<1>5. ASSUME NEW op, NEW v, AtFront(op, v) PROVE Goal
  <2>1. CASE Nothing(op)
    BY <1>4, <2>1, Zenon DEF Nothing, Return
  <2>2. ASSUME NEW n \in Nodes \ live,
               live' = live \cup {n},
               node' = [node EXCEPT ![n] = [pData |-> v, next |-> head]],
               head' = n, spoiled' = spoiled
        PROVE  Goal
    <3> DEFINE Y == X \cup {n}
    <3>1. node'[n].next = head /\ \A x \in Nodes \ {n} : node'[x] = node[x]
      BY <1>0, <2>2 DEF Heap
    <3>2. Y \in SUBSET Nodes /\ head' \in Y /\ \A x \in Y \cap live' : node'[x].next \in Y
      BY <1>0, <1>1, <2>2, <3>1
    <3>3. spoiled'
      BY <2>2, Zenon
    <3> HIDE DEF Y
    <3> QED
      BY <3>2, <3>3 DEF Astray
  <2> QED
    BY <1>5, <2>1, <2>2, Zenon DEF AtFront, Return
<1>6. CASE Breaks
  BY <1>4, <1>6, Zenon DEF Breaks
<1>7. ASSUME NEW v \in Data, PushFront(v) \/ PushBack(v) PROVE Goal
  BY <1>3, <1>5, <1>6, <1>7, Zenon DEF PushFront, PushBack
<1>8. CASE PopFront
  <2>1. CASE /\ head \in live /\ head' = node[head].next /\ live' = live \ {head}
             /\ node' = node /\ spoiled' = spoiled
    <3>1. head' \in X /\ \A n \in X \cap live' : node'[n].next \in X
      BY <1>1, <2>1
    <3>2. spoiled'
      BY <2>1, Zenon
    <3> QED
      BY <3>1, <3>2 DEF Astray
  <2> QED
    BY <1>4, <1>6, <1>8, <2>1, Zenon DEF PopFront, Nothing, Return
<1>9. CASE PopBack
  BY <1>3, <1>4, <1>6, <1>9, Zenon DEF PopBack, Nothing, Return
<1>10. ASSUME NEW v \in Data, EraseData(v) PROVE Goal
  <2>1. ASSUME NEW i \in Before(v),
               Link(i, At[i + 1]), live' = live \ {At[i]}, spoiled' = spoiled
        PROVE  Goal
    <3>1. i \in 0 .. Cardinality(Nodes) - 1 /\ \A j \in 0 .. i + 1 - 1 : At[j] \in live
      BY DEF Before, Readable
    <3>2. i \in Nat /\ i \in 0 .. Cardinality(Nodes) /\ i + 1 \in 0 .. Cardinality(Nodes) /\ i + 1 - 1 = i
      BY <3>1, NodesCounted
    <3>3. At[i + 1] \in X
      BY <1>2, <3>1, <3>2
    <3>4. spoiled'
      BY <2>1, Zenon
    <3>5. CASE i = 0
      <4>1. head' \in X /\ \A n \in X \cap live' : node'[n].next \in X
        BY <1>1, <2>1, <3>3, <3>5 DEF Link
      <4> QED
        BY <3>4, <4>1 DEF Astray
    <3>6. CASE i # 0
      <4> DEFINE a == At[i - 1]
                 b == At[i + 1]
      <4>1. node' = [node EXCEPT ![a].next = b] /\ head' = head
        BY <2>1, <3>6 DEF Link
      <4>2. a \in Nodes
        <5>1. i - 1 \in 0 .. i + 1 - 1
          BY <3>2, <3>6
        <5> QED
          BY <1>0, <3>1, <5>1
      <4>3. b \in X
        BY <3>3
      <4> HIDE DEF a, b
      <4>4. \A n \in X \cap live' : node'[n].next \in X
        BY <1>0, <1>1, <2>1, <4>1, <4>2, <4>3 DEF Heap
      <4> QED
        BY <1>1, <3>4, <4>1, <4>4 DEF Astray
    <3> QED
      BY <3>5, <3>6
  <2>2. CASE Before(v) = {}
    BY <1>3, <1>6, <1>10, <2>2, Zenon DEF EraseData
  <2>3. CASE Before(v) # {}
    BY <1>10, <2>1, <2>3 DEF EraseData, Return
  <2> QED
    BY <2>2, <2>3
<1>11. CASE Clear
  BY <1>3, <1>6, <1>11, Zenon DEF Clear
<1>12. CASE Size
  BY <1>4, <1>12, Zenon DEF Size, Return
<1>13. CASE Walk
  BY <1>3, <1>6, <1>13, Zenon DEF Walk
<1>14. ASSUME NEW v \in Data, PushFront(v) \/ PushBack(v) \/ EraseData(v)
       PROVE  spoiled' /\ Astray'
  BY <1>7, <1>10, <1>14
<1> QED
  BY <1>8, <1>9, <1>11, <1>12, <1>13, <1>14, Zenon DEF ListNext

-----------------------------------------------------------------------------
(* The list: what always holds *)

\* The list is a chain, or it has been spoiled and its pointers never end.
ListInv ==
    /\ ListTypeOK
    /\ (\E k, s : Sane(k, s)) \/ (spoiled /\ Astray)

LEMMA ListInitOK == ListInit => ListInv
<1> SUFFICES ASSUME ListInit PROVE ListInv
  OBVIOUS
<1>1. ListTypeOK
  <2>1. {broken, spoiled} \subseteq BOOLEAN
    BY Zenon DEF ListInit
  <2> QED
    BY <2>1 DEF ListInit, ListTypeOK, Empty
<1>2. Holds(0, << >>, head, node, live)
  <2> DEFINE f == [i \in 0 .. 0 |-> Null]
  <2>1. f \in [0 .. 0 -> Cells] /\ f[0] = Null
    BY DEF Cells
  <2>2. Chain(f, 0, Null, node, {})
    <3> HIDE DEF f
    <3> QED
      BY <2>1 DEF Chain
  <2>3. << >> = Content(f, 0, node)
    BY DEF Content
  <2> QED
    BY <2>2, <2>3 DEF Holds, ListInit
<1>3. Sane(0, << >>)
  BY <1>1, <1>2, Zenon DEF Sane, ListInit
<1> QED
  BY <1>1, <1>3 DEF ListInv

LEMMA FollowsSane ==
    ASSUME NEW s, NEW k2, NEW s2, Follows(s, k2, s2), ListTypeOK'
    PROVE  Sane(k2, s2)'
  BY Zenon DEF Follows, Sane

LEMMA ListStepOK == ListInv /\ [ListNext]_listVars => ListInv'
<1> SUFFICES ASSUME ListInv, [ListNext]_listVars PROVE ListInv'
  OBVIOUS
<1>1. ListTypeOK' /\ node' \in Heap
  <2>1. ListTypeOK'
    BY ListTypeStep DEF ListInv
  <2> QED
    BY <2>1 DEF ListTypeOK, Heap, Cells
<1>2. CASE UNCHANGED listVars
  BY <1>1, <1>2, Zenon DEF listVars, ListInv, Sane, Astray
<1>3. ASSUME NEW k, NEW s, Sane(k, s), ListNext
      PROVE  ListInv'
  <2>1. ASSUME NEW k2, NEW s2, Follows(s, k2, s2) PROVE ListInv'
    BY <1>1, <2>1, FollowsSane DEF ListInv
  <2>2. CASE spoiled' = TRUE /\ Astray'
    BY <1>1, <2>2, Zenon DEF ListInv
  <2> QED
    BY <1>1, <1>3, <2>1, <2>2, ListMoves
<1>4. CASE spoiled /\ Astray /\ ListNext
  <2>1. spoiled' /\ Astray'
    BY <1>1, <1>4, AstrayStays DEF ListInv
  <2> QED
    BY <1>1, <2>1, Zenon DEF ListInv
<1> QED
  BY <1>2, <1>3, <1>4, Zenon DEF ListInv

LEMMA ListInvSuffices == ListInv => ListShape
<1> SUFFICES ASSUME ListInv PROVE ListShape
  OBVIOUS
<1>1. ListTypeOK
  BY DEF ListInv
<1>2. ASSUME ~spoiled
      PROVE  /\ ~broken /\ Ends(nSize) /\ live = {At[i] : i \in 0 .. nSize - 1}
             /\ Cardinality(live) = nSize
  <2>1. PICK k, s : Sane(k, s)
    BY <1>2, Zenon DEF ListInv
  <2>2. ~broken /\ nSize = k
    BY <1>2, <2>1, Zenon DEF Sane
  <2>3. /\ \A i \in 0 .. k - 1 : At[i] \in live
        /\ At[k] = Null /\ live = {At[i] : i \in 0 .. k - 1} /\ Cardinality(live) = k
    BY <2>1, SaneFacts
  <2>4. Ends(nSize)
    BY <2>2, <2>3 DEF Ends, Readable
  <2> QED
    BY <2>2, <2>3, <2>4
<1> QED
  BY <1>1, <1>2, Zenon DEF ListShape

\* For any finite set of addresses and any data, and whichever allocations fail, the
\* list is a chain of as many nodes as it counts that ends, with no node lost and none
\* read after it was freed, until list_pop_back takes the last node or
\* list_push_back finds no memory (osa_list.c:63-141, 176-214).
THEOREM ListStaysInOrder == ListSpec => []ListShape
<1>1. ListSpec => []ListInv
  BY ListInitOK, ListStepOK, PTL DEF ListSpec
<1> QED
  BY <1>1, ListInvSuffices, PTL

-----------------------------------------------------------------------------
(* The list as a sequence *)

\* The data along the chain, in a state and in the next.
LEMMA WalkedIs ==
    /\ \A k, s : Sane(k, s) => Walked = s
    /\ \A s, k2, s2 : Follows(s, k2, s2) => Walked' = s2
<1>1. ASSUME NEW k, NEW s, Sane(k, s) PROVE Walked = s
  BY <1>1, SaneFacts
<1>2. ASSUME NEW s, NEW k2, NEW s2, Follows(s, k2, s2) PROVE Walked' = s2
  <2>1. PICK f : Chain(f, k2, head', node', live') /\ s2 = Content(f, k2, node')
    BY <1>2 DEF Follows, Holds
  <2>2. WalkedOf(Trace(head', node'), live', node') = Content(f, k2, node')
    BY <2>1, ChainLength
  <2> QED
    BY <2>1, <2>2, AtIsTrace, LengthsAre
<1> QED
  BY <1>1, <1>2

LEMMA ListInitRefines == ListInit => Sequence!ListInit
<1> SUFFICES ASSUME ListInit PROVE Sequence!ListInit
  OBVIOUS
<1>1. PICK k, s : Sane(k, s)
  BY ListInitOK, Zenon DEF ListInv, ListInit
<1>2. k = 0
  BY <1>1, Zenon DEF Sane, ListInit
<1>3. Walked = << >>
  BY <1>1, <1>2, SaneFacts
<1> QED
  BY <1>3, Zenon DEF ListInit, Sequence!ListInit

LEMMA TakesIsSound ==
    ASSUME NEW s, NEW s2, Takes(s, s2), Walked = s, Walked' = s2, ~spoiled, ~spoiled'
    PROVE  Sequence!Sound
<1>1. (IF spoiled THEN << >> ELSE Walked) = s /\ (IF spoiled' THEN << >> ELSE Walked') = s2
  BY Zenon
<1> QED
  BY <1>1, Zenon
     DEF Takes, Sequence!Sound, Sequence!PushFront, Sequence!PushBack, Sequence!Erase,
         Sequence!PopFront, Sequence!Size, Sequence!Walk, Sequence!Nothing

LEMMA ListStepRefines ==
    ListInv /\ [ListNext]_listVars => [Sequence!ListNext]_Sequence!listVars
<1> SUFFICES ASSUME ListInv, [ListNext]_listVars
             PROVE  Sequence!ListNext \/ UNCHANGED Sequence!listVars
  BY DEF Sequence!listVars
<1>1. ListTypeOK' /\ node' \in Heap
  <2>1. ListTypeOK'
    BY ListTypeStep DEF ListInv
  <2> QED
    BY <2>1 DEF ListTypeOK, Heap, Cells
<1>2. spoiled' => Sequence!ListNext
  BY Zenon DEF Sequence!ListNext
<1>3. CASE UNCHANGED listVars
  <2>1. Walked' = Walked
    <3>1. head' = head /\ node' = node /\ live' = live
      BY <1>3, Zenon DEF listVars
    <3>2. At' = At
      BY <3>1, AtIsTrace
    <3> QED
      BY <3>1, <3>2, LengthsAre
  <2> QED
    BY <1>3, <2>1, Zenon DEF listVars, Sequence!listVars
<1>4. ASSUME NEW k, NEW s, Sane(k, s), ListNext
      PROVE  Sequence!ListNext
  <2>1. ASSUME NEW k2, NEW s2, Follows(s, k2, s2) PROVE Sequence!ListNext
    <3>1. Walked = s /\ Walked' = s2
      BY <1>4, <2>1, WalkedIs
    <3>2. CASE last' = <<"clear">> /\ s2 = << >> /\ ~spoiled'
      BY <3>1, <3>2, Zenon DEF Sequence!ListNext, Sequence!Clear
    <3>3. CASE ~spoiled /\ ~spoiled' /\ Takes(s, s2)
      <4>1. Sequence!Sound
        BY <3>1, <3>3, TakesIsSound
      <4>2. spoiled' = spoiled
        <5>1. ListFlagsOK /\ ListFlagsOK'
          BY ListTypeSplit, ListFlags DEF ListInv
        <5> QED
          BY <3>3, <5>1, Zenon DEF ListFlagsOK
      <4> QED
        BY <3>3, <4>1, <4>2, Zenon DEF Sequence!ListNext
    <3> QED
      BY <1>2, <2>1, <3>2, <3>3, Zenon DEF Follows
  <2> QED
    BY <1>1, <1>2, <1>4, <2>1, ListMoves
<1>5. CASE spoiled /\ Astray /\ ListNext
  <2>1. spoiled'
    BY <1>1, <1>5, AstrayStays DEF ListInv
  <2> QED
    BY <1>2, <2>1
<1> QED
  BY <1>3, <1>4, <1>5, Zenon DEF ListInv

\* Whatever the calls and whatever the memory, the chain behaves as the sequence of
\* its data and every result is the one the sequence gives, until it is spoiled, and
\* again once it is cleared (osa_list.c:63-238).
THEOREM ListActsAsSequence == ListSpec => ListIsSequence
<1>1. ListSpec => []ListInv
  BY ListInitOK, ListStepOK, PTL DEF ListSpec
<1> QED
  BY <1>1, ListInitRefines, ListStepRefines, PTL DEF ListSpec, ListIsSequence, Sequence!ListSpec
=============================================================================
