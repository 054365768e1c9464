--------------------------- MODULE LogFile_proofs ---------------------------
(***************************************************************************)
(* Proofs about LogFile, for every clock, way of naming, size limit and    *)
(* interval.  The counts of late lines are bounded because the code's own  *)
(* counter goes up with them, and is set back only where they are.         *)
(***************************************************************************)
EXTENDS LogFile, TLAPS

\* The counter of the checks keeps up with the lines that came late.
CountsKeepUp ==
  /\ overdue <= iAppendCnt /\ unsaved <= iAppendCnt
  /\ overdueBefore <= CheckRollTimes + 2

\* The times stored are those of the open file.
Stamped ==
  /\ born = llLastRollTime /\ llStartOfPeriod = Period(born)
  /\ llLastRollTime <= llLastFlushTime

\* The open file may still have what szWrittenBytes says there is room for, and
\* one append.
Room == IF szWrittenBytes <= RollSize THEN RollSize - szWrittenBytes ELSE 0

RoomLeft == disk[NameOf[born]] + Room + MaxLen <= allowed[NameOf[born]]

IInv == TypeOK /\ SizeBounded /\ RoomLeft /\ CountsKeepUp /\ Stamped

-----------------------------------------------------------------------------
\* The day a second is in begins at a natural number.
LEMMA PeriodType == ASSUME NEW t \in Nat PROVE Period(t) \in Nat
  BY FileAssumption DEF Period

LEMMA ConstantTypes ==
  /\ Times \subseteq Nat
  /\ RollSize \in Nat /\ FlushInterval \in Nat /\ CheckRollTimes \in Nat /\ MaxLen \in Nat
  /\ \A t \in Times : NameOf[t] \in Names
  /\ \A len \in Lens : \A n \in 0..len : n \in Nat /\ n <= MaxLen
  BY TimesAssumption, NamesAssumption, LensAssumption, FileAssumption

\* What TypeOK says of each variable
LEMMA StateTypes ==
  ASSUME IInv
  PROVE  /\ now \in Times /\ llLastRollTime \in Times /\ llLastFlushTime \in Times
         /\ born \in Times /\ NameOf[born] \in Names
         /\ now \in Nat /\ llLastRollTime \in Nat /\ llLastFlushTime \in Nat /\ born \in Nat
         /\ szWrittenBytes \in Nat /\ unflushed \in Nat /\ llStartOfPeriod \in Nat
         /\ overdue \in Nat /\ overdueBefore \in Nat /\ unsaved \in Nat
         /\ iAppendCnt \in Nat /\ iAppendCnt <= CheckRollTimes + 1
         /\ disk \in [Names -> Nat] /\ allowed \in [Names -> Nat]
  <1>1. TypeOK
    BY DEF IInv
  <1>2. /\ now \in Times /\ llLastRollTime \in Times /\ llLastFlushTime \in Times
        /\ born \in Times
    BY <1>1 DEF TypeOK
  <1>3. /\ now \in Nat /\ llLastRollTime \in Nat /\ llLastFlushTime \in Nat /\ born \in Nat
        /\ NameOf[born] \in Names
    BY <1>2, ConstantTypes
  <1>4. iAppendCnt \in Nat /\ iAppendCnt <= CheckRollTimes + 1
    BY <1>1, FileAssumption DEF TypeOK
  <1> QED
    BY <1>1, <1>2, <1>3, <1>4 DEF TypeOK

LEMMA InitIInv == Init => IInv
  <1> SUFFICES ASSUME Init PROVE IInv
    OBVIOUS
  <1>1. now \in Times /\ now \in Nat /\ Period(now) \in Nat /\ NameOf[now] \in Names
    BY ConstantTypes, PeriodType DEF Init
  <1>2. TypeOK
    BY <1>1, ConstantTypes DEF Init, TypeOK
  <1>3. SizeBounded
    BY ConstantTypes DEF Init, SizeBounded
  <1>4. RoomLeft
    BY <1>1, ConstantTypes DEF Init, RoomLeft, Room
  <1>5. CountsKeepUp /\ Stamped
    BY <1>1, ConstantTypes DEF Init, CountsKeepUp, Stamped
  <1> QED
    BY <1>2, <1>3, <1>4, <1>5 DEF IInv

-----------------------------------------------------------------------------
(* A line that the open file keeps, and one that is its last                *)

\* While the times stored are those of the file, a day that is not the one
\* stored is not a later day, and a roll is refused only when nothing is late.
LEMMA RefusedIsNotLate ==
  ASSUME IInv, NEW t \in Times, ~ Rolls(t)
  PROVE  ~ LaterDay(t) /\ ~ Due(t)
  <1>1. /\ t \in Nat /\ born \in Nat /\ llLastRollTime \in Nat /\ llLastFlushTime \in Nat
        /\ FlushInterval \in Nat
    BY ConstantTypes, StateTypes
  <1>2. t <= born /\ t <= llLastFlushTime
    BY <1>1 DEF IInv, Stamped, Rolls
  <1> QED
    BY <1>1, <1>2 DEF LaterDay, Due

LEMMA SameDayIsNotLate == IInv /\ ~ OtherDay(now) => ~ LaterDay(now)
  BY DEF IInv, Stamped, OtherDay, LaterDay

\* Sizes: a line within the limit, or with its excess counted, leaves room.
LEMMA LineKeepsRoom ==
  ASSUME IInv, NEW n \in Nat, NEW excess \in Nat, Write(n), SeesLine(excess),
         szWrittenBytes' = szWrittenBytes + n,
         szWrittenBytes + n > RollSize => excess = n
  PROVE  /\ SizeBounded' /\ RoomLeft'
         /\ disk' \in [Names -> Nat] /\ allowed' \in [Names -> Nat]
  <1>0. /\ born \in Times /\ NameOf[born] \in Names /\ szWrittenBytes \in Nat
        /\ disk \in [Names -> Nat] /\ allowed \in [Names -> Nat]
        /\ RollSize \in Nat /\ MaxLen \in Nat
    BY FileAssumption, LensAssumption, StateTypes
  <1> DEFINE c == NameOf[born]
  <1>1. /\ disk' \in [Names -> Nat] /\ allowed' \in [Names -> Nat]
        /\ disk'[c] = disk[c] + n /\ allowed'[c] = allowed[c] + excess
        /\ \A f \in Names \ {c} : disk'[f] = disk[f] /\ allowed'[f] = allowed[f]
    BY <1>0 DEF Write, SeesLine
  <1>2. disk[c] \in Nat /\ allowed[c] \in Nat /\ disk[c] + Room + MaxLen <= allowed[c]
    BY <1>0 DEF IInv, RoomLeft
  <1>3. Room' = IF szWrittenBytes + n <= RollSize THEN RollSize - (szWrittenBytes + n) ELSE 0
    BY DEF Room
  <1>4. disk'[c] + Room' + MaxLen <= allowed'[c]
    <2>1. CASE szWrittenBytes + n <= RollSize
      <3>1. Room = RollSize - szWrittenBytes /\ Room' = RollSize - (szWrittenBytes + n)
        BY <1>0, <1>3, <2>1 DEF Room
      <3> QED
        BY <1>0, <1>1, <1>2, <2>1, <3>1
    <2>2. CASE szWrittenBytes + n > RollSize
      <3>1. Room' = 0 /\ excess = n /\ Room \in Nat
        BY <1>0, <1>3, <2>2 DEF Room
      <3> QED
        BY <1>0, <1>1, <1>2, <2>2, <3>1
    <2> QED
      BY <1>0, <2>1, <2>2
  <1>5. RoomLeft'
    <2>1. born' = born
      BY DEF SeesLine
    <2> QED
      BY <1>4, <2>1 DEF RoomLeft
  <1>6. SizeBounded'
    <2>1. disk'[c] <= allowed'[c]
      <3>1. Room' \in Nat
        BY <1>0, <1>3
      <3>2. disk'[c] \in Nat /\ allowed'[c] \in Nat
        BY <1>0, <1>1
      <3> QED
        BY <1>0, <1>4, <3>1, <3>2
    <2>2. \A f \in Names \ {c} : disk'[f] <= allowed'[f]
      BY <1>1 DEF IInv, SizeBounded
    <2> QED
      BY <2>1, <2>2 DEF SizeBounded
  <1> QED
    BY <1>1, <1>5, <1>6

\* The last line of a file may be beyond the limit, by MaxLen at most.
LEMMA RollKeepsRoom ==
  ASSUME IInv, NEW n \in Nat, n <= MaxLen, NEW t \in Times, Write(n), SeesRoll(t),
         szWrittenBytes' = 0
  PROVE  /\ SizeBounded' /\ RoomLeft'
         /\ disk' \in [Names -> Nat] /\ allowed' \in [Names -> Nat]
  <1>0. /\ born \in Times /\ NameOf[born] \in Names /\ NameOf[t] \in Names
        /\ disk \in [Names -> Nat] /\ allowed \in [Names -> Nat]
        /\ RollSize \in Nat /\ MaxLen \in Nat /\ Room \in Nat
    <2>1. NameOf[t] \in Names /\ RollSize \in Nat /\ MaxLen \in Nat
      BY ConstantTypes
    <2>2. Room \in Nat
      BY <2>1, StateTypes DEF Room
    <2> QED
      BY <2>1, <2>2, StateTypes
  <1> DEFINE c == NameOf[born]
             d == NameOf[t]
  <1>1. disk' \in [Names -> Nat] /\ allowed' \in [Names -> Nat]
    BY <1>0 DEF Write, SeesRoll
  <1>2. disk[c] + n <= allowed[c]
    <2>1. disk[c] \in Nat /\ allowed[c] \in Nat /\ disk[c] + Room + MaxLen <= allowed[c]
      BY <1>0 DEF IInv, RoomLeft
    <2> QED
      BY <1>0, <2>1
  <1>3. \A f \in Names : disk'[f] <= allowed[f]
    <2>1. disk'[c] = disk[c] + n /\ \A f \in Names \ {c} : disk'[f] = disk[f]
      BY <1>0 DEF Write
    <2> QED
      BY <1>2, <2>1 DEF IInv, SizeBounded
  <1>4. /\ allowed'[d] = allowed[d] + RollSize + MaxLen
        /\ \A f \in Names \ {d} : allowed'[f] = allowed[f]
    BY <1>0 DEF SeesRoll
  <1>5. SizeBounded'
    <2> SUFFICES ASSUME NEW f \in Names PROVE disk'[f] <= allowed'[f]
      BY DEF SizeBounded
    <2>1. disk'[f] \in Nat /\ allowed[f] \in Nat /\ disk'[f] <= allowed[f]
      BY <1>0, <1>1, <1>3
    <2> QED
      BY <1>0, <1>4, <2>1
  <1>6. RoomLeft'
    <2>1. Room' = RollSize /\ born' = t
      BY <1>0 DEF Room, SeesRoll
    <2>2. disk'[d] \in Nat /\ allowed[d] \in Nat /\ disk'[d] <= allowed[d]
      BY <1>0, <1>1, <1>3
    <2> QED
      BY <1>0, <1>4, <2>1, <2>2 DEF RoomLeft
  <1> QED
    BY <1>1, <1>5, <1>6

\* The file stays open: the counts stay behind iAppendCnt if it goes up by one,
\* or if the line is not late.
LEMMA LineKeepsCounts ==
  ASSUME IInv, NEW excess \in Nat, SeesLine(excess), now' \in Times,
         iAppendCnt' \in Nat,
         \/ iAppendCnt' = iAppendCnt + 1
         \/ ~ LaterDay(now') /\ (unflushed' > 0 => ~ Due(now'))
  PROVE  /\ CountsKeepUp' /\ born' \in Times
         /\ {overdue', overdueBefore', unsaved'} \subseteq Nat
  <1>0. /\ iAppendCnt \in Nat /\ overdue \in Nat /\ overdueBefore \in Nat /\ unsaved \in Nat
        /\ overdue <= iAppendCnt /\ unsaved <= iAppendCnt
    BY StateTypes DEF IInv, CountsKeepUp
  <1>1. overdueBefore' <= CheckRollTimes + 2 /\ overdueBefore' = overdueBefore /\ born' = born
    BY DEF SeesLine, IInv, CountsKeepUp
  <1>2. overdue' = (IF LaterDay(now') THEN overdue + 1 ELSE 0)
    BY DEF SeesLine
  <1>3. unsaved' = (IF unflushed' > 0 /\ Due(now') THEN unsaved + 1 ELSE 0)
    BY DEF SeesLine
  <1>4. overdue' \in Nat /\ overdue' <= iAppendCnt'
    BY <1>0, <1>2
  <1>5. unsaved' \in Nat /\ unsaved' <= iAppendCnt'
    BY <1>0, <1>3
  <1>6. born' \in Times
    BY <1>1 DEF IInv, TypeOK
  <1> QED
    BY <1>0, <1>1, <1>4, <1>5, <1>6 DEF CountsKeepUp

-----------------------------------------------------------------------------
\* A roll, done or refused, after n bytes were written: refused at the end of a
\* file that is too long, or where the clock was set back after the check.
LEMMA RollFileKeeps ==
  ASSUME IInv, NEW n \in Nat, n <= MaxLen, NEW t \in Times, Write(n), RollFile(t, n),
         iAppendCnt' \in 0..(CheckRollTimes + 1)
  PROVE  IInv'
  <1>0. /\ t \in Nat /\ Period(t) \in Nat /\ CheckRollTimes \in Nat
        /\ iAppendCnt' \in Nat /\ now' = t
        /\ szWrittenBytes \in Nat /\ unflushed \in Nat /\ overdue \in Nat
        /\ overdue <= CheckRollTimes + 1
    <2>1. t \in Nat /\ Period(t) \in Nat /\ CheckRollTimes \in Nat
      BY ConstantTypes, PeriodType
    <2>2. overdue \in Nat /\ iAppendCnt \in Nat /\ overdue <= iAppendCnt
      BY StateTypes DEF IInv, CountsKeepUp
    <2>3. overdue <= CheckRollTimes + 1
      BY <2>1, <2>2, StateTypes
    <2> QED
      BY <2>1, <2>2, <2>3, StateTypes DEF RollFile
  <1>1. CASE Rolls(t)
    <2>1. /\ llLastRollTime' = t /\ llLastFlushTime' = t /\ llStartOfPeriod' = Period(t)
          /\ szWrittenBytes' = 0 /\ unflushed' = 0 /\ SeesRoll(t)
      BY <1>1 DEF RollFile
    <2>2. /\ born' = t /\ overdue' = 0 /\ unsaved' = 0
          /\ overdueBefore' = (IF LaterDay(t) THEN overdue + 1 ELSE 0)
      BY <2>1 DEF SeesRoll
    <2>3. /\ SizeBounded' /\ RoomLeft'
          /\ disk' \in [Names -> Nat] /\ allowed' \in [Names -> Nat]
      BY <2>1, RollKeepsRoom
    <2>4. overdueBefore' \in Nat /\ overdueBefore' <= CheckRollTimes + 2
      BY <1>0, <2>2
    <2>5. TypeOK'
      BY <1>0, <2>1, <2>2, <2>3, <2>4 DEF TypeOK
    <2>6. CountsKeepUp'
      BY <1>0, <2>2, <2>4 DEF CountsKeepUp
    <2>7. Stamped'
      <3>1. Period(born)' = Period(t)
        BY <2>2 DEF Period
      <3> QED
        BY <1>0, <2>1, <2>2, <3>1 DEF Stamped
    <2> QED
      BY <2>3, <2>5, <2>6, <2>7 DEF IInv
  <1>2. CASE ~ Rolls(t)
    <2>1. /\ StaysOpen(n) /\ llLastFlushTime' = llLastFlushTime /\ SeesLine(n)
      BY <1>2 DEF RollFile
    <2>2. /\ szWrittenBytes' = szWrittenBytes + n /\ unflushed' = unflushed + n
          /\ llStartOfPeriod' = llStartOfPeriod /\ llLastRollTime' = llLastRollTime
          /\ born' = born
      BY <2>1 DEF StaysOpen, SeesLine
    <2>3. /\ SizeBounded' /\ RoomLeft'
          /\ disk' \in [Names -> Nat] /\ allowed' \in [Names -> Nat]
      BY <2>1, <2>2, LineKeepsRoom
    <2>4. ~ LaterDay(now') /\ ~ Due(now')
      BY <1>0, <1>2, RefusedIsNotLate
    <2>5. CountsKeepUp' /\ {overdue', overdueBefore', unsaved'} \subseteq Nat
      BY <1>0, <2>1, <2>4, LineKeepsCounts
    <2>6. TypeOK'
      BY <1>0, <2>1, <2>2, <2>3, <2>5 DEF IInv, TypeOK
    <2>7. Stamped'
      BY <2>1, <2>2 DEF IInv, Stamped, Period
    <2> QED
      BY <2>3, <2>5, <2>6, <2>7 DEF IInv
  <1> QED
    BY <1>1, <1>2

\* A line within the limit, whatever the check finds, but for a change of day
LEMMA PlainLineKeeps ==
  ASSUME IInv, NEW n \in Nat, Write(n), SeesLine(0), now' = now,
         szWrittenBytes' = szWrittenBytes + n, unflushed' \in Nat, ~ TooLong(n),
         UNCHANGED <<llStartOfPeriod, llLastRollTime>>,
         llLastFlushTime' \in Times, llLastFlushTime' >= llLastFlushTime,
         iAppendCnt' \in 0..(CheckRollTimes + 1),
         \/ iAppendCnt' = iAppendCnt + 1
         \/ ~ LaterDay(now') /\ (unflushed' > 0 => ~ Due(now'))
  PROVE  IInv'
  <1>0. /\ now \in Times /\ szWrittenBytes \in Nat /\ iAppendCnt' \in Nat
        /\ RollSize \in Nat /\ llLastRollTime \in Nat /\ llLastFlushTime \in Nat
        /\ llLastFlushTime' \in Nat /\ born' = born
    <2>1. RollSize \in Nat /\ CheckRollTimes \in Nat /\ Times \subseteq Nat
      BY FileAssumption, ConstantTypes
    <2> QED
      BY <2>1, StateTypes DEF SeesLine
  <1>1. ~ (szWrittenBytes + n > RollSize)
    BY DEF TooLong
  <1>2. /\ SizeBounded' /\ RoomLeft'
        /\ disk' \in [Names -> Nat] /\ allowed' \in [Names -> Nat]
    BY <1>1, LineKeepsRoom
  <1>3. /\ CountsKeepUp' /\ born' \in Times
        /\ {overdue', overdueBefore', unsaved'} \subseteq Nat
    BY <1>0, LineKeepsCounts
  <1>4. TypeOK'
    BY <1>0, <1>2, <1>3 DEF IInv, TypeOK
  <1>5. Stamped'
    BY <1>0 DEF IInv, Stamped, Period
  <1> QED
    BY <1>2, <1>3, <1>4, <1>5 DEF IInv

LEMMA NextIInv == IInv /\ [Next]_vars => IInv'
  <1> SUFFICES ASSUME IInv, [Next]_vars PROVE IInv'
    OBVIOUS
  <1>0. /\ iAppendCnt \in Nat /\ iAppendCnt <= CheckRollTimes + 1 /\ CheckRollTimes \in Nat
        /\ unflushed \in Nat /\ now \in Times /\ now \in Nat
        /\ llLastFlushTime \in Times /\ llLastFlushTime \in Nat /\ FlushInterval \in Nat
    BY FileAssumption, StateTypes
  <1>1. ASSUME NEW len \in Lens, NEW n \in 0..len, Write(n), NEW t \in Times,
               AppendRolls(n, t) \/ AppendChecksDay(n, t)
        PROVE  IInv'
    <2>1. n \in Nat /\ n <= MaxLen
      BY ConstantTypes
    <2>2. RollFile(t, n) /\ iAppendCnt' \in 0..(CheckRollTimes + 1)
      BY <1>0, <1>1 DEF AppendRolls, AppendChecksDay, Checks
    <2> QED
      BY <1>1, <2>1, <2>2, RollFileKeeps
  <1>2. ASSUME NEW len \in Lens, NEW n \in 0..len, Write(n), AppendChecksFlush(n)
        PROVE  IInv'
    <2>1. n \in Nat
      BY ConstantTypes
    <2>2. /\ ~ TooLong(n) /\ ~ OtherDay(now) /\ Due(now) /\ iAppendCnt' = 0
          /\ llLastFlushTime' = now /\ szWrittenBytes' = szWrittenBytes + n
          /\ unflushed' = 0 /\ now' = now /\ SeesLine(0)
          /\ UNCHANGED <<llStartOfPeriod, llLastRollTime>>
      BY <1>2 DEF AppendChecksFlush, Checks
    <2>3. now >= llLastFlushTime
      BY <1>0, <2>2 DEF Due
    <2>4. ~ LaterDay(now') /\ ~ (unflushed' > 0)
      BY <2>2, SameDayIsNotLate
    <2>5. iAppendCnt' \in 0..(CheckRollTimes + 1) /\ unflushed' \in Nat
      BY <1>0, <2>2
    <2> QED
      BY <1>0, <1>2, <2>1, <2>2, <2>3, <2>4, <2>5, PlainLineKeeps
  <1>3. ASSUME NEW len \in Lens, NEW n \in 0..len, Write(n),
               AppendChecksNothing(n) \/ AppendCounts(n)
        PROVE  IInv'
    <2>1. n \in Nat
      BY ConstantTypes
    <2>2. /\ ~ TooLong(n) /\ SeesLine(0) /\ now' = now
          /\ szWrittenBytes' = szWrittenBytes + n /\ unflushed' = unflushed + n
          /\ llLastFlushTime' = llLastFlushTime
          /\ UNCHANGED <<llStartOfPeriod, llLastRollTime>>
      BY <1>3 DEF AppendChecksNothing, AppendCounts, Checks, NothingFollows, StaysOpen
    <2>3. iAppendCnt' \in 0..(CheckRollTimes + 1)
      BY <1>0, <1>3 DEF AppendChecksNothing, AppendCounts, Checks
    <2>4. \/ iAppendCnt' = iAppendCnt + 1
          \/ ~ LaterDay(now') /\ ~ Due(now')
      BY <1>3, <2>2, SameDayIsNotLate DEF AppendChecksNothing, AppendCounts
    <2>5. unflushed' \in Nat /\ llLastFlushTime' >= llLastFlushTime
      BY <1>0, <2>1, <2>2
    <2> QED
      BY <1>0, <1>3, <2>1, <2>2, <2>3, <2>4, <2>5, PlainLineKeeps
  <1>4. CASE Flush
    BY <1>0, <1>4
    DEF IInv, TypeOK, Flush, SizeBounded, RoomLeft, Room, CountsKeepUp, Stamped, Period
  <1>5. ASSUME NEW t \in Times, SetClock(t)
        PROVE  IInv'
    BY <1>5
    DEF IInv, TypeOK, SetClock, filevars, observed, SizeBounded, RoomLeft, Room,
        CountsKeepUp, Stamped, Period
  <1>6. CASE UNCHANGED vars
    BY <1>6
    DEF IInv, TypeOK, vars, filevars, observed, SizeBounded, RoomLeft, Room,
        CountsKeepUp, Stamped, Period
  <1> QED
    BY <1>1, <1>2, <1>3, <1>4, <1>5, <1>6 DEF Next, AppendLine

LEMMA IInvHolds == Spec => []IInv
  BY InitIInv, NextIInv, PTL DEF Spec

-----------------------------------------------------------------------------
\* The times stay times, and iAppendCnt within its bound.
THEOREM FileTypeCorrect == Spec => []TypeOK
  <1>1. IInv => TypeOK
    BY DEF IInv
  <1> QED
    BY <1>1, IInvHolds, PTL

\* What is in the files on the disk, also in those whose name came more than once:
\* for each opening rollSize and one append, and the bytes for which rollFile
\* refused to roll.
THEOREM FileSizeBounded == Spec => []SizeBounded
  <1>1. IInv => SizeBounded
    BY DEF IInv
  <1> QED
    BY <1>1, IInvHolds, PTL

\* On a later day at most _siCheckRollTimes + 2 lines go to a file, the last of them
\* before the roll is tried, whatever resets the counter of appends.
THEOREM DayChangeSeen == Spec => []DayBounded
  <1>1. IInv => DayBounded
    BY ConstantTypes DEF IInv, TypeOK, CountsKeepUp, DayBounded
  <1> QED
    BY <1>1, IInvHolds, PTL

\* At most _siCheckRollTimes + 1 lines wait for a flush that is due.
THEOREM FlushSeen == Spec => []FlushBounded
  <1>1. IInv => FlushBounded
    BY ConstantTypes DEF IInv, TypeOK, CountsKeepUp, FlushBounded
  <1> QED
    BY <1>1, IInvHolds, PTL
=============================================================================
