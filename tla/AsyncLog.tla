------------------------------ MODULE AsyncLog ------------------------------
(***************************************************************************)
(* class AsyncLogFile (src/Lib/log/AsyncLogFile.cpp): any thread appends   *)
(* messages to the current buffer under mCCSecCK, and one worker thread    *)
(* takes the buffers over, writes them and gives two of them back.         *)
(*                                                                         *)
(* Buffers are handed round by moving pointers, so most of the pointers    *)
(* are null at some time.  A null one is Null here, and the code would     *)
(* follow it.  A step is one critical section, one return of               *)
(* WaitForSingleObject, or a stretch of the worker's own work.             *)
(***************************************************************************)
EXTENDS Naturals, Sequences

CONSTANTS
  Sizes,    \* lengths of messages
  Cap,      \* bytes of a Buffer, 4096 * 1024: a message must be shorter
  DropAbove,\* 25: a batch of more buffers is cut down to two
  MaxMsgs,  \* bound: messages appended
  Null      \* a null BufferPtr

Msgs    == [id : Nat, size : Sizes]
Buffers == Seq(Msgs)

ASSUME SizesAssumption == Sizes \subseteq Nat \ {0}
ASSUME CapAssumption   == Cap \in Nat \ {0} /\ MaxMsgs \in Nat
ASSUME DropAssumption  == DropAbove \in Nat /\ DropAbove >= 2
ASSUME NullAssumption  == Null \notin Buffers

VARIABLES
  kBufferCurrent, kBufferNext, vectorbuffers,  \* guarded by mCCSecCK
  mEvent,                                      \* the auto-reset event
  newBuffer1, newBuffer2, buffersToWrite,      \* the worker's own
  written,  \* the loop's i: buffers of the batch already written
  at,       \* where the worker is: off, wait, swap, trim, write
  file,     \* the messages given to output.append
  flushed,  \* those of them, from the first, that output.flush followed
  offered,  \* calls of append so far: they number the messages
  \* history, for the properties
  dropped,  \* the buffers erased from a batch that was too long
  big,      \* the messages that found no buffer
  taken,    \* "offered" when the worker last took the buffers
  settled,  \* "taken" when the worker last ended a round
  asked     \* "offered" when flush was last called

shared  == <<kBufferCurrent, kBufferNext, vectorbuffers>>
own     == <<newBuffer1, newBuffer2, buffersToWrite, written>>
output  == <<file, flushed>>
history == <<dropped, big, taken, settled, asked>>
vars    == <<shared, mEvent, own, at, output, offered, history>>

-----------------------------------------------------------------------------
(* FixedBuffer                                                              *)

\* len(): the sum of the lengths of b's messages
Used(b) ==
  LET upto[i \in 0..Len(b)] == IF i = 0 THEN 0 ELSE upto[i - 1] + b[i].size
  IN  upto[Len(b)]

Fits(b, n) == Cap - Used(b) > n

-----------------------------------------------------------------------------
(* append and flush, of any thread                                          *)

AppendFits(n) ==
  /\ offered < MaxMsgs
  /\ Fits(kBufferCurrent, n)
  /\ kBufferCurrent' = Append(kBufferCurrent, [id |-> offered + 1, size |-> n])
  /\ offered' = offered + 1
  /\ UNCHANGED <<kBufferNext, vectorbuffers, mEvent, own, at, output, history>>

\* The spare buffer, or a new one
Fresh == IF kBufferNext # Null THEN kBufferNext ELSE <<>>

\* The current buffer is handed over.  FixedBuffer::append takes no message
\* that does not fit into the fresh one either, and nobody looks at its result.
AppendHandsOver(n) ==
  /\ offered < MaxMsgs
  /\ ~ Fits(kBufferCurrent, n)
  /\ vectorbuffers' = Append(vectorbuffers, kBufferCurrent)
  /\ kBufferNext' = Null
  /\ \/ /\ Fits(Fresh, n)
        /\ kBufferCurrent' = Append(Fresh, [id |-> offered + 1, size |-> n])
        /\ UNCHANGED big
     \/ /\ ~ Fits(Fresh, n)
        /\ kBufferCurrent' = Fresh
        /\ big' = big \cup {offered + 1}
  /\ offered' = offered + 1
  /\ mEvent' = TRUE
  /\ UNCHANGED <<own, at, output, dropped, taken, settled, asked>>

\* Not under the lock
Flush ==
  /\ mEvent' = TRUE /\ asked' = offered
  /\ UNCHANGED <<shared, own, at, output, offered, dropped, big, taken, settled>>

-----------------------------------------------------------------------------
(* start and WorkerThreadProc.  mRun is set once and never reset.           *)

Start ==
  /\ at = "off" /\ at' = "wait"
  /\ UNCHANGED <<shared, mEvent, own, output, offered, history>>

Wake ==
  /\ at = "wait" /\ mEvent
  /\ mEvent' = FALSE /\ at' = "swap"
  /\ UNCHANGED <<shared, own, output, offered, history>>

\* 5 s without a signal
Timeout ==
  /\ at = "wait" /\ ~ mEvent
  /\ at' = "swap"
  /\ UNCHANGED <<shared, mEvent, own, output, offered, history>>

\* Mutant: the current buffer is replaced and not pushed to the batch.
SwapWithoutCurrent ==
  /\ at = "swap" /\ at' = "trim" /\ written' = 0
  /\ mEvent' = FALSE
  /\ buffersToWrite' = vectorbuffers
  /\ vectorbuffers' = buffersToWrite
  /\ kBufferCurrent' = newBuffer1 /\ newBuffer1' = Null
  /\ IF kBufferNext = Null
     THEN kBufferNext' = newBuffer2 /\ newBuffer2' = Null
     ELSE UNCHANGED <<kBufferNext, newBuffer2>>
  /\ taken' = offered
  /\ UNCHANGED <<output, offered, dropped, big, settled, asked>>

\* The critical section.  The batch holds the current buffer at least, so that
\* the test for an empty batch after it always fails.
Swap ==
  /\ at = "swap" /\ at' = "trim" /\ written' = 0
  /\ mEvent' = FALSE
  /\ buffersToWrite' = Append(vectorbuffers, kBufferCurrent)
  /\ vectorbuffers' = buffersToWrite
  /\ kBufferCurrent' = newBuffer1 /\ newBuffer1' = Null
  /\ IF kBufferNext = Null
     THEN kBufferNext' = newBuffer2 /\ newBuffer2' = Null
     ELSE UNCHANGED <<kBufferNext, newBuffer2>>
  /\ taken' = offered
  /\ UNCHANGED <<output, offered, dropped, big, settled, asked>>

\* Mutant: a long batch is cut down to one buffer.
TrimToOne ==
  /\ at = "trim" /\ at' = "write"
  /\ IF Len(buffersToWrite) > DropAbove
     THEN /\ buffersToWrite' = SubSeq(buffersToWrite, 1, 1)
          /\ dropped' = dropped \o SubSeq(buffersToWrite, 2, Len(buffersToWrite))
     ELSE UNCHANGED <<buffersToWrite, dropped>>
  /\ UNCHANGED <<shared, mEvent, newBuffer1, newBuffer2, written, output, offered, big,
                 taken, settled, asked>>

\* A batch that is too long is cut down to two buffers, with a notice of it in
\* the file.
Trim ==
  /\ at = "trim" /\ at' = "write"
  /\ IF Len(buffersToWrite) > DropAbove
     THEN /\ buffersToWrite' = SubSeq(buffersToWrite, 1, 2)
          /\ dropped' = dropped \o SubSeq(buffersToWrite, 3, Len(buffersToWrite))
     ELSE UNCHANGED <<buffersToWrite, dropped>>
  /\ UNCHANGED <<shared, mEvent, newBuffer1, newBuffer2, written, output, offered, big,
                 taken, settled, asked>>

\* output.append gets a buffer; what fwrite may not take of it is LogFile's
WriteOne ==
  /\ at = "write" /\ written < Len(buffersToWrite)
  /\ file' = file \o buffersToWrite[written + 1]
  /\ written' = written + 1
  /\ UNCHANGED <<shared, mEvent, newBuffer1, newBuffer2, buffersToWrite, at, flushed,
                 offered, history>>

\* Buffers to be had back: resize keeps two of the batch
OnHand == IF Len(buffersToWrite) > 2 THEN 2 ELSE Len(buffersToWrite)

\* Buffers the worker needs for the next round
Wanted == (IF newBuffer1 = Null THEN 1 ELSE 0) + (IF newBuffer2 = Null THEN 1 ELSE 0)

\* Mutants: the buffers are not reset; newBuffer2 is served first, and
\* newBuffer1 only if there is another; the event is reset at the end; the
\* flush is left out.
RecycleNoReset ==
  LET n == OnHand IN
  /\ at = "write" /\ written = Len(buffersToWrite)
  /\ Wanted <= n
  /\ newBuffer1' = IF newBuffer1 = Null THEN buffersToWrite[n] ELSE newBuffer1
  /\ newBuffer2' = IF newBuffer2 = Null THEN buffersToWrite[n - 1] ELSE newBuffer2
  /\ buffersToWrite' = <<>> /\ written' = 0
  /\ flushed' = Len(file) /\ settled' = taken
  /\ at' = "wait"
  /\ UNCHANGED <<shared, mEvent, file, offered, dropped, big, taken, asked>>

RecycleSecondFirst ==
  /\ at = "write" /\ written = Len(buffersToWrite)
  /\ IF newBuffer2 = Null
     THEN newBuffer2' = <<>> /\ UNCHANGED newBuffer1
     ELSE newBuffer1' = <<>> /\ UNCHANGED newBuffer2
  /\ buffersToWrite' = <<>> /\ written' = 0
  /\ flushed' = Len(file) /\ settled' = taken
  /\ at' = "wait"
  /\ UNCHANGED <<shared, mEvent, file, offered, dropped, big, taken, asked>>

RecycleResetsEvent ==
  /\ at = "write" /\ written = Len(buffersToWrite)
  /\ Wanted <= OnHand
  /\ newBuffer1' = IF newBuffer1 = Null THEN <<>> ELSE newBuffer1
  /\ newBuffer2' = IF newBuffer2 = Null THEN <<>> ELSE newBuffer2
  /\ buffersToWrite' = <<>> /\ written' = 0
  /\ flushed' = Len(file) /\ settled' = taken
  /\ at' = "wait" /\ mEvent' = FALSE
  /\ UNCHANGED <<shared, file, offered, dropped, big, taken, asked>>

RecycleNoFlush ==
  /\ at = "write" /\ written = Len(buffersToWrite)
  /\ Wanted <= OnHand
  /\ newBuffer1' = IF newBuffer1 = Null THEN <<>> ELSE newBuffer1
  /\ newBuffer2' = IF newBuffer2 = Null THEN <<>> ELSE newBuffer2
  /\ buffersToWrite' = <<>> /\ written' = 0
  /\ settled' = taken
  /\ at' = "wait"
  /\ UNCHANGED <<shared, mEvent, output, offered, dropped, big, taken, asked>>

\* back(), pop_back() and reset() for each buffer that is wanted (undefined if
\* there are fewer), then clear() and the flush
Recycle ==
  /\ at = "write" /\ written = Len(buffersToWrite)
  /\ Wanted <= OnHand
  /\ newBuffer1' = IF newBuffer1 = Null THEN <<>> ELSE newBuffer1
  /\ newBuffer2' = IF newBuffer2 = Null THEN <<>> ELSE newBuffer2
  /\ buffersToWrite' = <<>> /\ written' = 0
  /\ flushed' = Len(file) /\ settled' = taken
  /\ at' = "wait"
  /\ UNCHANGED <<shared, mEvent, file, offered, dropped, big, taken, asked>>

-----------------------------------------------------------------------------
Init ==
  /\ kBufferCurrent = <<>> /\ kBufferNext = <<>> /\ vectorbuffers = <<>>
  /\ mEvent = FALSE
  /\ newBuffer1 = <<>> /\ newBuffer2 = <<>> /\ buffersToWrite = <<>>
  /\ at = "off" /\ written = 0 /\ file = <<>> /\ flushed = 0 /\ offered = 0
  /\ dropped = <<>> /\ big = {} /\ taken = 0 /\ settled = 0 /\ asked = 0

Worker == Start \/ Wake \/ Timeout \/ Swap \/ Trim \/ WriteOne \/ Recycle

Next ==
  \/ \E n \in Sizes : AppendFits(n) \/ AppendHandsOver(n)
  \/ Flush
  \/ Worker

\* initLog starts the worker, which goes on running: its wait times out.
Spec == Init /\ [][Next]_vars /\ WF_vars(Worker)

-----------------------------------------------------------------------------
(* Properties                                                               *)

TypeOK ==
  /\ kBufferCurrent \in Buffers
  /\ kBufferNext \in {Null} \cup Buffers
  /\ vectorbuffers \in Seq(Buffers) /\ buffersToWrite \in Seq(Buffers)
  /\ newBuffer1 \in {Null} \cup Buffers /\ newBuffer2 \in {Null} \cup Buffers
  /\ mEvent \in BOOLEAN
  /\ at \in {"off", "wait", "swap", "trim", "write"}
  /\ file \in Seq(Msgs) /\ dropped \in Seq(Buffers)
  /\ big \in SUBSET Nat
  /\ {written, flushed, offered, taken, settled, asked} \subseteq Nat

\* The worker never takes a buffer from an empty batch, however many buffers
\* append handed over in between and even if the batch was cut down.
BuffersSuffice == at \in {"trim", "write"} => Wanted <= OnHand

\* A buffer that was handed over, or a flush that was asked for, never waits
\* for the 5 s of the worker's timeout: the event is set or the worker is on
\* its way to the buffers, although it resets the event once more.
NoLostWakeup == vectorbuffers # <<>> \/ asked > taken => mEvent \/ at = "swap"

\* The buffers on their way, in the order in which they are written
Pipeline ==
  <<file>> \o SubSeq(buffersToWrite, written + 1, Len(buffersToWrite))
           \o vectorbuffers \o <<kBufferCurrent>>

Ordered(P) ==
  \A i, j \in 1..Len(P) : \A p \in 1..Len(P[i]), q \in 1..Len(P[j]) :
    i < j \/ (i = j /\ p < q) => P[i][p].id < P[j][q].id

\* From the file back to the current buffer, messages stand in the order of
\* their append, and none stands there twice.
InOrder == Ordered(Pipeline)

IdsIn(q) == UNION {{q[i][p].id : p \in 1..Len(q[i])} : i \in 1..Len(q)}

\* No message is forgotten: it is on its way or written, or it is one of the
\* two kinds that are lost.
Accounted == 1..offered = IdsIn(Pipeline) \cup IdsIn(dropped) \cup big

\* A fatal line asks for a flush and aborts the process at once, which leaves
\* in the file what was flushed, and of the rest no one knows how much.  The
\* messages of the rounds the worker has ended survive that, wherever it
\* stands: each is in the flushed part, or one of the two kinds that are lost.
SettledSurvive ==
  1..settled \subseteq IdsIn(<<SubSeq(file, 1, flushed)>>) \cup IdsIn(dropped) \cup big

Pipe == INSTANCE LogPipe WITH
          Burst <- DropAbove,
          log   <- [i \in 1..flushed |-> file[i].id]

\* All of this amounts to LogPipe: the file gets the messages in order, none
\* twice, each in the end; and only a message that no buffer holds is lost,
\* unless DropAbove messages came in one round of the worker.
LogsInOrder == Pipe!Spec
=============================================================================
