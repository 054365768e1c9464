------------------------------ MODULE LogFile ------------------------------
(***************************************************************************)
(* class LogFile (src/Lib/log/NetFile.cpp): when the worker's output goes  *)
(* to a new file, and when it is flushed.  Both depend on time(), which    *)
(* counts seconds and which an administrator may set back.  A step is one  *)
(* call, under _kCCSecCK, or a change of the clock.                        *)
(*                                                                         *)
(* A file's name is the local time without the year: it may come again,   *)
(* and a file that is there is opened for appending.                       *)
(***************************************************************************)
EXTENDS Naturals

CONSTANTS
  Times,          \* what time() may return
  Names,          \* names of files
  NameOf,         \* localtime_s and strftime: the name for a time
  Lens, MaxLen,   \* lengths of what is appended, and the largest: a buffer
  RollSize,       \* _cszRollSize
  FlushInterval,  \* _ciFlushInterval
  CheckRollTimes, \* _siCheckRollTimes, 1024
  SecondsPerRoll  \* _siSecondsPerRoll, a day

ASSUME TimesAssumption == Times \subseteq Nat \ {0}
ASSUME NamesAssumption == NameOf \in [Times -> Names]
ASSUME LensAssumption  == MaxLen \in Nat /\ Lens \subseteq 0..MaxLen
ASSUME FileAssumption  == /\ {RollSize, FlushInterval, CheckRollTimes} \subseteq Nat
                          /\ SecondsPerRoll \in Nat \ {0}

VARIABLES
  now,             \* the clock
  disk,            \* bytes in the file of each name
  szWrittenBytes,  \* of the open FileBase
  unflushed,       \* bytes the C library may still hold back
  iAppendCnt, llStartOfPeriod, llLastRollTime, llLastFlushTime,
  \* observed, for the properties
  born,            \* the second in which the open file was opened
  allowed,         \* bytes the file of each name may have
  overdue,         \* lines in the open file since its day was over
  overdueBefore,   \* the same of the file before it, when it was closed
  unsaved          \* lines not flushed since a flush was due

filevars == <<disk, szWrittenBytes, unflushed, iAppendCnt,
              llStartOfPeriod, llLastRollTime, llLastFlushTime>>
observed == <<born, allowed, overdue, overdueBefore, unsaved>>
vars     == <<now, filevars, observed>>

\* The day t is in
Period(t) == (t \div SecondsPerRoll) * SecondsPerRoll

Due(t) == t > llLastFlushTime + FlushInterval

\* Mutant: a flush that is due is done instead of looking at the day.
OtherDayIfNotDue(t) == Period(t) # llStartOfPeriod /\ ~ Due(t)

OtherDay(t) == Period(t) # llStartOfPeriod

-----------------------------------------------------------------------------
(* Observation: what a line does that goes to the open file                 *)

LaterDay(t) == t > born /\ Period(t) # Period(born)

\* The file is closed with n bytes more, and one is opened in second t.
SeesRoll(t) ==
  /\ born' = t
  /\ allowed' = [allowed EXCEPT ![NameOf[t]] = @ + RollSize + MaxLen]
  /\ overdueBefore' = IF LaterDay(t) THEN overdue + 1 ELSE 0
  /\ overdue' = 0 /\ unsaved' = 0

\* The file stays open; excess bytes came while its roll was refused.
SeesLine(excess) ==
  /\ allowed' = [allowed EXCEPT ![NameOf[born]] = @ + excess]
  /\ overdue' = IF LaterDay(now') THEN overdue + 1 ELSE 0
  /\ unsaved' = IF unflushed' > 0 /\ Due(now') THEN unsaved + 1 ELSE 0
  /\ UNCHANGED <<born, overdueBefore>>

-----------------------------------------------------------------------------
(* FileBase::append and rollFile, which reads the clock again               *)

Write(n) == disk' = [disk EXCEPT ![NameOf[born]] = @ + n]

StaysOpen(n) ==
  /\ szWrittenBytes' = szWrittenBytes + n /\ unflushed' = unflushed + n
  /\ UNCHANGED <<llStartOfPeriod, llLastRollTime>>

\* Not twice in a second, nor before the clock is past the last roll
Rolls(t) == t > llLastRollTime

\* The old file is closed, and so flushed, with n bytes more.  What the new one
\* has already, if its name came before, is not counted.
RollFile(t, n) ==
  /\ now' = t
  /\ \/ /\ Rolls(t)
        /\ llLastRollTime' = t /\ llLastFlushTime' = t /\ llStartOfPeriod' = Period(t)
        /\ szWrittenBytes' = 0 /\ unflushed' = 0
        /\ SeesRoll(t)
     \/ /\ ~ Rolls(t)
        /\ StaysOpen(n) /\ UNCHANGED llLastFlushTime
        /\ SeesLine(n)

-----------------------------------------------------------------------------
(* append: fwrite takes n of the bytes, fewer than asked if the disk is full *)

\* Mutant: the size is tested before the line is written.
TooLongBefore(n) == szWrittenBytes > RollSize

TooLong(n) == szWrittenBytes + n > RollSize

\* Over the limit: a new file
AppendRolls(n, t) ==
  /\ TooLong(n)
  /\ RollFile(t, n)
  /\ UNCHANGED iAppendCnt

\* Mutant: the count goes on where it should start again.
ChecksCounts(n) ==
  ~ TooLong(n) /\ iAppendCnt > CheckRollTimes /\ iAppendCnt' = iAppendCnt + 1

Checks(n) == ~ TooLong(n) /\ iAppendCnt > CheckRollTimes /\ iAppendCnt' = 0

\* Every so many appends, the clock is looked at: another day gets a new file
AppendChecksDay(n, t) ==
  /\ Checks(n) /\ OtherDay(now)
  /\ RollFile(t, n)

\* Mutant: the time is stored, and the flush forgotten.
AppendChecksFlushForgets(n) ==
  /\ Checks(n) /\ ~ OtherDay(now) /\ Due(now)
  /\ llLastFlushTime' = now
  /\ StaysOpen(n)
  /\ UNCHANGED now
  /\ SeesLine(0)

\* ... the same day, a flush if the last one is long past
AppendChecksFlush(n) ==
  /\ Checks(n) /\ ~ OtherDay(now) /\ Due(now)
  /\ llLastFlushTime' = now
  /\ szWrittenBytes' = szWrittenBytes + n /\ unflushed' = 0
  /\ UNCHANGED <<now, llStartOfPeriod, llLastRollTime>>
  /\ SeesLine(0)

\* The line is written, and nothing follows.
NothingFollows(n) ==
  /\ StaysOpen(n)
  /\ UNCHANGED <<now, llLastFlushTime>>
  /\ SeesLine(0)

AppendChecksNothing(n) ==
  /\ Checks(n) /\ ~ OtherDay(now) /\ ~ Due(now)
  /\ NothingFollows(n)

AppendCounts(n) ==
  /\ ~ TooLong(n) /\ iAppendCnt <= CheckRollTimes
  /\ iAppendCnt' = iAppendCnt + 1
  /\ NothingFollows(n)

AppendLine(len) ==
  \E n \in 0..len :
    /\ Write(n)
    /\ \/ \E t \in Times : AppendRolls(n, t) \/ AppendChecksDay(n, t)
       \/ AppendChecksFlush(n) \/ AppendChecksNothing(n) \/ AppendCounts(n)

\* LogFile::flush, at the end of the worker's round: llLastFlushTime stays
Flush ==
  /\ unflushed' = 0 /\ unsaved' = 0
  /\ UNCHANGED <<now, disk, szWrittenBytes, iAppendCnt, llStartOfPeriod, llLastRollTime,
                 llLastFlushTime, born, allowed, overdue, overdueBefore>>

SetClock(t) == now' = t /\ UNCHANGED <<filevars, observed>>

-----------------------------------------------------------------------------
\* The constructor: rollFile, with 0 for every time
Init ==
  /\ now \in Times
  /\ disk = [f \in Names |-> 0]
  /\ szWrittenBytes = 0 /\ unflushed = 0 /\ iAppendCnt = 0
  /\ llStartOfPeriod = Period(now) /\ llLastRollTime = now /\ llLastFlushTime = now
  /\ born = now
  /\ allowed = [f \in Names |-> IF f = NameOf[now] THEN RollSize + MaxLen ELSE 0]
  /\ overdue = 0 /\ overdueBefore = 0 /\ unsaved = 0

Next ==
  \/ \E len \in Lens : AppendLine(len)
  \/ Flush
  \/ \E t \in Times : SetClock(t)

Spec == Init /\ [][Next]_vars

-----------------------------------------------------------------------------
(* Properties                                                               *)

TypeOK ==
  /\ {now, llLastRollTime, llLastFlushTime, born} \subseteq Times
  /\ {szWrittenBytes, unflushed, llStartOfPeriod} \subseteq Nat
  /\ {overdue, overdueBefore, unsaved} \subseteq Nat
  /\ iAppendCnt \in 0..(CheckRollTimes + 1)
  /\ disk \in [Names -> Nat] /\ allowed \in [Names -> Nat]

\* Each time a file is opened it gets rollSize bytes at most and one append
\* more, since the size is looked at after the write; and besides only what
\* came while no roll was possible: within the second of the last one, or with
\* the clock set back.  A name that comes again starts a new count, so that a
\* file may have that much several times over.
SizeBounded == \A f \in Names : disk[f] <= allowed[f]

\* Once midnight is past, the old file gets CheckRollTimes + 1 lines before the
\* clock is looked at, and the line after which it is looked at is in the old
\* file too, since it is written first.  The check counts the lines whatever else
\* the appends do.  A roll that is refused starts the count again: by the
\* clock it has read, the day is not a later one.
DayBounded == overdue <= CheckRollTimes + 1 /\ overdueBefore <= CheckRollTimes + 2

\* Nor do more than CheckRollTimes + 1 lines wait for a flush that is due, although
\* an append looks at the clock only now and then, and once a flush was due a
\* change of day, with or without a new file, comes first.
FlushBounded == unsaved <= CheckRollTimes + 1
=============================================================================
