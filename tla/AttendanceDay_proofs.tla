------------------------ MODULE AttendanceDay_proofs ------------------------
(***************************************************************************)
(* The arithmetic of shifts and the attendance of one employee.            *)
(***************************************************************************)
EXTENDS AttendanceDay, SumLemmas, TLAPS

-----------------------------------------------------------------------------
(***************************************************************************)
(* 1. What the shift arithmetic guarantees for every shift and every       *)
(* moment.                                                                 *)
(***************************************************************************)

\* A shift lasts at most a day, whether it crosses midnight or not, and its
\* end is its start plus its span (resolveShiftEndOnDate, computeShiftSpan).
LEMMA SpanIsAtMostADay ==
  ASSUME NEW s \in Shift, NEW d \in Int
  PROVE  /\ EndOn(s, d) = StartOn(s, d) + ShiftSpan(s)
         /\ ShiftSpan(s) \in 1..DayLength
         /\ StartOn(s, d + 1) = StartOn(s, d) + DayLength
         /\ StartOn(s, d) \in Int /\ EndOn(s, d) \in Int
<1> USE ShiftMathAssumption
<1> DEFINE m == d * DayLength
<1>1. m \in Int /\ (d + 1) * DayLength = m + DayLength
  OBVIOUS
<1>2. s.start \in 0..(DayLength - 1) /\ s.end \in 0..(DayLength - 1)
  BY DEF Shift
<1> HIDE DEF m
<1>3. StartOn(s, d) = m + s.start /\ StartOn(s, d + 1) = m + DayLength + s.start
  BY <1>1 DEF StartOn, m
<1>4. EndOn(s, d) = m + s.end + (IF CrossesMidnight(s) THEN DayLength ELSE 0)
  BY DEF EndOn, m
<1> QED BY <1>1, <1>2, <1>3, <1>4 DEF ShiftSpan, CrossesMidnight

\* The shift of a day is over when the next day's begins, so that no moment
\* belongs to two shifts (isOnShiftAt, hasShiftEnded).
THEOREM ShiftsNeverOverlap ==
  ASSUME NEW s \in Shift, NEW d \in Int, NEW now \in Int,
         StartOn(s, d + 1) <= now
  PROVE  HasShiftEnded(s, d, now)
<1> USE ShiftMathAssumption
<1>1. StartOn(s, d + 1) >= EndOn(s, d)
  BY SpanIsAtMostADay
<1> QED BY <1>1, SpanIsAtMostADay, d + 1 \in Int DEF HasShiftEnded

\* An open record of an overnight shift takes every punch made while that
\* shift runs and none made from the start of the next one on
\* (canContinueOvernightRecord).
THEOREM OvernightRecordHasItsShift ==
  ASSUME NEW s \in Shift, NEW d \in Int, NEW now \in Int, CrossesMidnight(s)
  PROVE  /\ now < EndOn(s, d) => CanContinueOvernight(s, d, now)
         /\ CanContinueOvernight(s, d, now) => now < StartOn(s, d + 1)
<1> USE ShiftMathAssumption
<1>1. /\ EndOn(s, d) = StartOn(s, d) + ShiftSpan(s)
      /\ ShiftSpan(s) \in 1..DayLength
      /\ StartOn(s, d + 1) = StartOn(s, d) + DayLength
      /\ StartOn(s, d) \in Int /\ EndOn(s, d) \in Int
  BY SpanIsAtMostADay
<1> QED BY <1>1 DEF CanContinueOvernight

\* Nobody is charged undertime and credited overtime for the same Time Out
\* (computeMinutesUndertime, computeMinutesOvertime).
THEOREM NoUndertimeWithOvertime ==
  ASSUME NEW s \in Shift, NEW d \in Int, NEW t \in Int
  PROVE  MinutesUndertime(s, t, d) = 0 \/ MinutesOvertime(s, t, d) = 0
<1> USE ShiftMathAssumption
<1>1. EndOn(s, d) \in Int /\ s.leaveEarly \in Nat
  BY SpanIsAtMostADay DEF Shift
<1> QED BY <1>1 DEF MinutesUndertime, MinutesOvertime, AtLeastZero

\* The arrival that counts is never before the shift's start nor before the
\* real arrival, and less than one mark after the later of the two
\* (computeRenderTimeIn).
THEOREM RenderNeverFavoursTheLate ==
  ASSUME NEW s \in Shift, NEW d \in Int, NEW t \in Int
  PROVE  /\ RenderTimeIn(s, t, d) >= StartOn(s, d)
         /\ RenderTimeIn(s, t, d) >= t
         /\ RenderTimeIn(s, t, d) < Later(StartOn(s, d), t) + RenderInterval
<1> USE ShiftMathAssumption
<1> DEFINE a == StartOn(s, d)
           late == t - a
           marks == (late + RenderInterval - 1) \div RenderInterval
<1>1. a \in Int
  BY SpanIsAtMostADay
<1>2. CASE late <= 0
  BY <1>1, <1>2 DEF RenderTimeIn, Later
<1>3. CASE late > 0
  <2> HIDE DEF a
  <2>1. late \in Nat
    BY <1>1, <1>3
  <2> HIDE DEF late
  <2>2. /\ marks \in Int
        /\ marks * RenderInterval <= late + RenderInterval - 1
        /\ late + RenderInterval - 1 < (marks + 1) * RenderInterval
    BY <2>1
  <2>3. (marks + 1) * RenderInterval = marks * RenderInterval + RenderInterval
    BY <2>2
  <2>4. marks * RenderInterval \in Int
    BY <2>2
  <2>5. RenderTimeIn(s, t, d) = a + marks * RenderInterval
    BY <1>1, <1>3 DEF RenderTimeIn, late, a, marks
  <2> HIDE DEF marks
  <2>6. marks * RenderInterval >= late /\ marks * RenderInterval < late + RenderInterval
    BY <2>1, <2>2, <2>3, <2>4
  <2> QED BY <1>1, <1>3, <2>4, <2>5, <2>6 DEF late, a, Later
<1> QED BY <1>1, <1>2, <1>3

-----------------------------------------------------------------------------
(***************************************************************************)
(* 2. Days.                                                                *)
(***************************************************************************)
LEMMA DayBounds ==
  ASSUME NEW t \in Nat
  PROVE  /\ DayOf(t) \in Nat
         /\ DayOf(t) * DayLength <= t /\ t < (DayOf(t) + 1) * DayLength
         /\ DayOf(t) * DayLength \in Nat
         /\ (DayOf(t) + 1) * DayLength = DayOf(t) * DayLength + DayLength
<1>1. DayLength \in Nat \ {0}
  BY ShiftMathAssumption
<1>2. DayOf(t) \in Nat
  BY <1>1 DEF DayOf
<1>3. DayOf(t) * DayLength <= t /\ t < (DayOf(t) + 1) * DayLength
  BY <1>1 DEF DayOf
<1>4. (DayOf(t) + 1) * DayLength = DayOf(t) * DayLength + DayLength
  BY <1>1, <1>2
<1> QED BY <1>1, <1>2, <1>3, <1>4

\* Nothing but the moments of a day belongs to it.
LEMMA DayIsUnique ==
  ASSUME NEW t \in Nat, NEW d \in Int, d * DayLength <= t, t < (d + 1) * DayLength
  PROVE  DayOf(t) = d
<1>1. DayLength \in Nat \ {0}
  BY ShiftMathAssumption
<1>2. DayOf(t) \in Nat /\ DayOf(t) * DayLength <= t /\ t < (DayOf(t) + 1) * DayLength
  BY DayBounds
<1> DEFINE e == DayOf(t)
<1>3. CASE e < d
  <2>1. (e + 1) * DayLength <= d * DayLength
    BY <1>1, <1>2, <1>3
  <2>2. (e + 1) * DayLength \in Int /\ d * DayLength \in Int
    BY <1>1, <1>2
  <2> QED BY <1>2, <2>1, <2>2
<1>4. CASE d < e
  <2>1. (d + 1) * DayLength <= e * DayLength
    BY <1>1, <1>2, <1>4
  <2>2. (d + 1) * DayLength \in Int /\ e * DayLength \in Int
    BY <1>1, <1>2
  <2> QED BY <1>2, <2>1, <2>2
<1> QED BY <1>2, <1>3, <1>4

LEMMA MomentsAreOfDays == ASSUME NEW t \in Moments PROVE DayOf(t) \in Days /\ t \in Nat
<1>1. t \in Nat /\ Horizon \in Nat /\ t <= Horizon
  BY DayAssumption DEF Moments
<1>2. DayOf(t) \in Nat /\ DayOf(Horizon) \in Nat
  BY <1>1, DayBounds
<1>3. DayOf(t) <= DayOf(Horizon)
  <2> SUFFICES ASSUME DayOf(Horizon) + 1 <= DayOf(t) PROVE FALSE
    BY <1>2
  <2> DEFINE e == DayOf(t)
             h == DayOf(Horizon)
  <2>1. DayLength \in Nat
    BY ShiftMathAssumption
  <2>2. e * DayLength <= t /\ Horizon < (h + 1) * DayLength
    BY <1>1, DayBounds
  <2>3. (h + 1) * DayLength <= e * DayLength
    BY <1>2, <2>1
  <2>4. e * DayLength \in Nat /\ (h + 1) * DayLength \in Nat
    BY <1>2, <2>1
  <2> QED BY <1>1, <2>2, <2>3, <2>4
<1> QED BY <1>1, <1>2, <1>3 DEF Days

-----------------------------------------------------------------------------
(***************************************************************************)
(* 3. Where a scan is filed.                                               *)
(***************************************************************************)
JobOK == \E e \in Employments : shift = e.shift /\ mode = e.mode /\ until = e.to

LEMMA JobIs ==
  ASSUME JobOK
  PROVE  /\ shift \in Shift /\ shift.start > 0 /\ shift.start \in Nat
         /\ mode \in {"FIXED", "FIELD"} /\ until \in Moments
<1>1. PICK e \in Employments : shift = e.shift /\ mode = e.mode /\ until = e.to
  BY DEF JobOK
<1>2. e \in [ shift : {s \in Shift : s.start > 0},
              mode : {"FIXED", "FIELD"}, from : 1..Horizon, to : 1..Horizon ]
  BY DayAssumption
<1> QED BY <1>1, <1>2 DEF Shift, Moments

\* The overnight shift of the day before is over before today's begins.
LEMMA YesterdayIsOver ==
  ASSUME JobOK, NEW d \in Int, NEW t \in Int
  PROVE  /\ CanContinueOvernight(shift, d, t) => t < StartOn(shift, d + 1)
         /\ t < EndOn(shift, d) => t < StartOn(shift, d + 1)
         /\ CrossesMidnight(shift) /\ t < EndOn(shift, d) => CanContinueOvernight(shift, d, t)
         /\ EndOn(shift, d) \in Int /\ StartOn(shift, d) \in Int
<1>1. shift \in Shift
  BY JobIs
<1>2. /\ EndOn(shift, d) = StartOn(shift, d) + ShiftSpan(shift)
      /\ ShiftSpan(shift) \in 1..DayLength
      /\ StartOn(shift, d + 1) = StartOn(shift, d) + DayLength
      /\ StartOn(shift, d) \in Int /\ EndOn(shift, d) \in Int
  BY <1>1, SpanIsAtMostADay
<1>3. DayLength \in Nat
  BY ShiftMathAssumption
<1> QED BY <1>2, <1>3 DEF CanContinueOvernight

\* A moment of day d is filed under day d or, while the overnight shift of
\* the day before may still be continued, under the day before.
LEMMA WorkingDayIs ==
  ASSUME JobOK, NEW t \in Moments, NEW d, d = WorkingDay(t)
  PROVE  \/ d = DayOf(t) /\ d \in Days
         \/ /\ mode = "FIXED" /\ d = DayOf(t) - 1 /\ d \in Int
            /\ CanContinueOvernight(shift, d, t)
<1>1. DayOf(t) \in Days /\ t \in Nat /\ DayOf(t) \in Nat
  BY MomentsAreOfDays, DayBounds
<1>2. mode \in {"FIXED", "FIELD"}
  BY JobIs
<1>3. CASE d = DayOf(t)
  BY <1>1, <1>3
<1>4. CASE d # DayOf(t)
  <2>1. mode = "FIXED" /\ d = OfficeDay(t)
    BY <1>2, <1>4 DEF WorkingDay
  <2>2. /\ d = DayOf(t) - 1
        /\ \/ CanContinueOvernight(shift, d, t)
           \/ InsidePreviousDayShift(shift, t)
    BY <1>4, <2>1 DEF OfficeDay
  <2>3. d \in Int
    BY <1>1, <2>2
  <2>4. InsidePreviousDayShift(shift, t) => CanContinueOvernight(shift, d, t)
    BY <1>1, <2>2, <2>3, YesterdayIsOver DEF InsidePreviousDayShift
  <2> QED BY <2>1, <2>2, <2>3, <2>4
<1> QED BY <1>3, <1>4

\* Whatever day a moment is filed under, it belongs to that day.
LEMMA FiledWhereItBelongs ==
  ASSUME JobOK, NEW t \in Moments, NEW d, d = WorkingDay(t)
  PROVE  BelongsTo(d, t)
<1>1. /\ DayOf(t) \in Nat /\ t \in Nat
      /\ DayOf(t) * DayLength <= t /\ t < (DayOf(t) + 1) * DayLength
      /\ DayOf(t) * DayLength \in Nat
      /\ (DayOf(t) + 1) * DayLength = DayOf(t) * DayLength + DayLength
  BY MomentsAreOfDays, DayBounds
<1>2. DayLength \in Nat \ {0} /\ shift \in Shift
  BY JobIs, ShiftMathAssumption
<1>3. CASE d = DayOf(t)
  <2> DEFINE m == d * DayLength
  <2>1. m \in Nat /\ m <= t /\ t < m + DayLength
    BY <1>1, <1>3
  <2>2. CASE CrossesMidnight(shift)
    <3>1. (d + 1) * DayLength = m + DayLength
      BY <1>1, <1>3
    <3> HIDE DEF m
    <3>2. EndOn(shift, d) = m + shift.end + DayLength /\ shift.end \in Nat
      BY <1>2, <2>2, <2>1 DEF EndOn, m, Shift
    <3>3. StartOn(shift, d + 1) = m + DayLength + shift.start /\ shift.start \in Nat
      BY <1>2, <3>1 DEF StartOn, m, Shift
    <3>4. 2 * t < EndOn(shift, d) + StartOn(shift, d + 1)
      BY <1>1, <1>2, <2>1, <3>2, <3>3, JobIs
    <3> QED BY <1>3, <2>1, <2>2, <3>4 DEF BelongsTo, m
  <2> QED BY <1>3, <2>1, <2>2 DEF BelongsTo
<1>4. CASE d # DayOf(t)
  <2>1. /\ mode = "FIXED" /\ d = DayOf(t) - 1 /\ d \in Int
        /\ CanContinueOvernight(shift, d, t)
    BY <1>4, WorkingDayIs
  <2>2. d * DayLength <= t
    <3>1. d * DayLength = DayOf(t) * DayLength - DayLength
      BY <1>1, <1>2, <2>1
    <3> QED BY <1>1, <1>2, <3>1
  <2> QED BY <2>1, <2>2 DEF BelongsTo, CanContinueOvernight
<1> QED BY <1>3, <1>4

\* While a shift runs on a working day, its scans are filed under that day.
LEMMA RunningShiftTakesScans ==
  ASSUME JobOK, clock \in Moments
  PROVE  ShiftTakesItsScans
<1> SUFFICES ASSUME NEW d \in Days \ DaysOff, mode = "FIXED",
                    StartOn(shift, d) <= clock, ~HasShiftEnded(shift, d, clock)
             PROVE  WorkingDay(clock) = d
  BY DEF ShiftTakesItsScans
<1>1. /\ DayOf(clock) \in Nat /\ clock \in Nat
      /\ DayOf(clock) * DayLength <= clock /\ clock < (DayOf(clock) + 1) * DayLength
  BY MomentsAreOfDays, DayBounds
<1>2. DayLength \in Nat \ {0} /\ shift \in Shift /\ d \in Int
  BY JobIs, ShiftMathAssumption DEF Days
<1>3. clock < EndOn(shift, d) /\ EndOn(shift, d) \in Int /\ StartOn(shift, d) \in Int
  BY <1>1, <1>2, YesterdayIsOver DEF HasShiftEnded
<1>4. clock < StartOn(shift, d + 1)
  BY <1>1, <1>2, <1>3, YesterdayIsOver
<1> DEFINE yesterday == DayOf(clock) - 1
<1>5. d = DayOf(clock) \/ (d = yesterday /\ CrossesMidnight(shift))
  <2> DEFINE m == d * DayLength
  <2>1. m \in Int /\ (d + 1) * DayLength = m + DayLength /\ (d + 2) * DayLength = m + 2 * DayLength
    BY <1>2
  <2>2. m <= clock
    BY <1>1, <1>2, <2>1 DEF StartOn, Shift
  <2>3. CASE clock < (d + 1) * DayLength
    BY <1>1, <1>2, <2>2, <2>3, DayIsUnique
  <2>4. CASE (d + 1) * DayLength <= clock
    <3> HIDE DEF m
    <3>1. shift.end \in Nat /\ shift.end < DayLength
      BY <1>2 DEF Shift
    <3>2. CrossesMidnight(shift)
      <4> SUFFICES ASSUME ~CrossesMidnight(shift) PROVE FALSE
        OBVIOUS
      <4>1. EndOn(shift, d) = m + shift.end
        BY <2>1, <3>1 DEF EndOn, m
      <4> QED BY <1>1, <1>2, <1>3, <2>1, <2>4, <3>1, <4>1
    <3>3. EndOn(shift, d) = m + shift.end + DayLength
      BY <3>2 DEF EndOn, m
    <3>4. clock < (d + 2) * DayLength
      BY <1>1, <1>2, <1>3, <2>1, <3>1, <3>3
    <3>5. DayOf(clock) = d + 1
      <4>1. d + 1 \in Int /\ (d + 1) + 1 = d + 2
        BY <1>2
      <4> QED BY <1>1, <2>4, <3>4, <4>1, DayIsUnique
    <3> QED BY <1>2, <3>2, <3>5
  <2>5. (d + 1) * DayLength \in Int
    BY <1>2
  <2> QED BY <1>1, <2>3, <2>4, <2>5
<1>6. WorkingDay(clock) = OfficeDay(clock)
  BY DEF WorkingDay
<1>7. CASE d = DayOf(clock)
  <2>1. yesterday \in Int /\ yesterday + 1 = d
    BY <1>1, <1>7
  <2>2. ~CanContinueOvernight(shift, yesterday, clock)
    BY <1>1, <1>3, <2>1, YesterdayIsOver
  <2>3. ~InsidePreviousDayShift(shift, clock)
    BY <1>1, <1>3, <2>1, YesterdayIsOver DEF InsidePreviousDayShift
  <2> QED BY <1>6, <1>7, <2>2, <2>3 DEF OfficeDay
<1>8. CASE d = yesterday /\ CrossesMidnight(shift)
  <2>1. InsidePreviousDayShift(shift, clock)
    BY <1>3, <1>8 DEF InsidePreviousDayShift
  <2> QED BY <1>6, <1>8, <2>1 DEF OfficeDay
<1> QED BY <1>5, <1>7, <1>8

LEMMA LastOf ==
  ASSUME NEW T, T \subseteq Nat, T # {}, NEW n \in Nat, \A m \in T : m <= n
  PROVE  Max(T) \in T /\ \A m \in T : m <= Max(T)
<1>1. PICK y \in T : \A m \in T : y >= m
  BY GreatestNumber
<1>2. Max(T) \in T /\ \A m \in T : Max(T) >= m
  BY <1>1 DEF Max
<1> QED BY <1>2

-----------------------------------------------------------------------------
(***************************************************************************)
(* 4. What a scan reads, and what a write does to a row.                   *)
(***************************************************************************)
\* A scan under way has read the tally of some flagged scans; how many there
\* can be is shown for a single scanner in section 7.
ScanForms ==
  [pc : {"idle"}]
    \cup [pc : {"match"}, key : Keys, seen : Row, punch : Punches, at : Moments]
    \cup [pc : {"supersede", "count"}, log : LogIds, day : Days]
    \cup [pc : {"tally"}, day : Days, read : [day : Days, count : Nat]]

Typed ==
  /\ clock \in Moments
  /\ JobOK
  /\ rows \in [Keys -> Row]
  /\ logs \in Seq(Log) /\ Len(logs) <= MaxFlags
  /\ tally \in [day : Days, count : Nat]
  /\ scan \in [Scanners -> ScanForms]
  /\ review \in [Reviewers -> ReviewState]
  /\ \A r \in Reviewers : review[r].pc # "idle" => review[r].log \in DOMAIN logs

\* What no write undoes: a row has a Time In, and a break is begun before it
\* is ended.
RowsWellMade ==
  \A k \in Keys :
    /\ rows[k].exists => rows[k].timeIn # None
    /\ ~rows[k].exists => rows[k] = NoRow
    /\ rows[k].lunchIn # None => rows[k].lunchOut # None

\* The row and the punch a scan is for, as it read them.
Fits(seen, punch) ==
  /\ punch = "TIME_IN" => seen = NoRow
  /\ punch # "TIME_IN" => seen.timeIn # None /\ seen.timeOut = None
  /\ punch = "LUNCH_OUT" => seen.lunchOut = None /\ seen.lunchIn = None
  /\ punch = "LUNCH_IN" => seen.lunchOut # None /\ seen.lunchIn = None

LEMMA NoRowIsRow == NoRow \in Row
  BY DEF NoRow, Row, None

LEMMA LatestRowsExist ==
  ASSUME Typed, NEW d, RowsOf(d) # {}
  PROVE  LatestRows(d) # {} /\ LatestRows(d) \subseteq RowsOf(d)
<1> DEFINE T == {rows[k].timeIn : k \in RowsOf(d)}
<1>1. Horizon \in Nat
  BY DayAssumption
<1>2. \A k \in RowsOf(d) : rows[k].timeIn \in Nat /\ rows[k].timeIn <= Horizon
  <2> SUFFICES ASSUME NEW k \in RowsOf(d) PROVE rows[k].timeIn \in Nat /\ rows[k].timeIn <= Horizon
    OBVIOUS
  <2>1. rows[k] \in Row
    BY DEF RowsOf, Typed
  <2>2. rows[k].timeIn \in Moments \cup {None}
    BY <2>1 DEF Row
  <2> QED BY <1>1, <2>2 DEF Moments, None
<1>3. T \subseteq Nat /\ T # {} /\ \A m \in T : m <= Horizon
  BY <1>2
<1>4. Max(T) \in T /\ \A m \in T : m <= Max(T)
  BY <1>1, <1>3, LastOf
<1>5. PICK k \in RowsOf(d) : rows[k].timeIn = Max(T)
  BY <1>4
<1>6. k \in Keys /\ k.day = d
  BY DEF RowsOf
<1>7. \A j \in RowsOf(d) : rows[j].timeIn <= rows[k].timeIn
  BY <1>4, <1>5
<1>8. k \in LatestRows(d)
  BY <1>7 DEF LatestRows
<1> QED BY <1>8 DEF LatestRows

LEMMA FieldScanIs ==
  ASSUME Typed, RowsWellMade, NEW d, NEW area \in Areas, NEW t \in FieldScan(d, area)
  PROVE  /\ t.key \in Keys /\ t.key.day = d /\ t.seen = rows[t.key]
         /\ t.punch \in Punches /\ Fits(t.seen, t.punch)
         /\ t.punch = "TIME_IN" => \A k \in LatestRows(d) : ~Open(rows[k])
         /\ t.punch \in {"TIME_IN", "TIME_OUT"}
<1> DEFINE open == {k \in LatestRows(d) : Open(rows[k])}
<1>1. CASE open # {}
  <2> DEFINE k == CHOOSE k \in open : TRUE
  <2>1. k \in open
    BY <1>1
  <2>2. t = [key |-> k, seen |-> rows[k], punch |-> "TIME_OUT"]
    BY <1>1 DEF FieldScan
  <2>3. k \in Keys /\ k.day = d
    BY <2>1 DEF LatestRows, RowsOf
  <2>4. Open(rows[k])
    BY <2>1
  <2> HIDE DEF k
  <2> QED BY <2>2, <2>3, <2>4 DEF Open, Fits, Punches
<1>2. CASE open = {}
  <2>1. PICK k \in Keys : /\ k = [day |-> d, type |-> area, visit |-> NextVisit(d, area)]
                          /\ t = [key |-> k, seen |-> NoRow, punch |-> "TIME_IN"]
    BY <1>2 DEF FieldScan
  <2>2. k.day = d /\ k.type = area /\ k.visit = NextVisit(d, area)
    BY <2>1
  <2> DEFINE V == {0} \cup {j.visit : j \in {i \in RowsOf(d) : i.type = area}}
  <2>3. V \subseteq Nat /\ V # {} /\ \A v \in V : v <= MaxVisits
    BY DayAssumption DEF RowsOf, Keys
  <2>4. Max(V) \in V /\ \A v \in V : v <= Max(V)
    BY <2>3, DayAssumption, LastOf
  <2>5. NextVisit(d, area) = 1 + Max(V)
    BY DEF NextVisit
  <2> HIDE DEF V
  <2>6. ~(NextVisit(d, area) \in V)
    <3>1. Max(V) \in Nat
      BY <2>3, <2>4
    <3> QED BY <2>4, <2>5, <3>1
  <2>7. k \notin RowsOf(d)
    BY <2>2, <2>6 DEF V
  <2>8. rows[k] = NoRow
    BY <2>1, <2>2, <2>7 DEF RowsOf, RowsWellMade
  <2> QED BY <1>2, <2>1, <2>2, <2>8 DEF Fits, Punches
<1> QED BY <1>1, <1>2

LEMMA FixedScanIs ==
  ASSUME Typed, RowsWellMade, NEW d \in Days, NEW area \in Areas, NEW t \in FixedScan(d, area)
  PROVE  /\ t.key \in Keys /\ t.key.day = d /\ t.seen = rows[t.key]
         /\ t.punch \in Punches /\ Fits(t.seen, t.punch)
<1> DEFINE k == FixedKey(d, area)
<1>1. k \in Keys /\ k.day = d
  <2>1. CASE RowsOf(d) = {}
    <3>1. k = [day |-> d, type |-> area, visit |-> 1]
      BY <2>1 DEF FixedKey
    <3>2. area \in Types /\ 1 \in 1..MaxVisits
      BY DayAssumption
    <3> HIDE DEF k
    <3> QED BY <3>1, <3>2 DEF Keys
  <2>2. CASE RowsOf(d) # {}
    <3>1. k \in LatestRows(d)
      BY <2>2, LatestRowsExist DEF FixedKey
    <3> HIDE DEF k
    <3> QED BY <3>1 DEF LatestRows, RowsOf
  <2> QED BY <2>1, <2>2
<1>2. PICK p \in FixedPunches(rows[k]) : t = [key |-> k, seen |-> rows[k], punch |-> p]
  BY DEF FixedScan
<1> HIDE DEF k
<1>3. t.key = k /\ t.seen = rows[k] /\ t.punch = p
  BY <1>2
<1>4. /\ rows[k].timeIn = None => p = "TIME_IN"
      /\ rows[k].timeIn # None => /\ rows[k].timeOut = None
                                  /\ p \in {"TIME_OUT", "LUNCH_OUT", "LUNCH_IN"}
      /\ p = "LUNCH_OUT" => rows[k].lunchOut = None
      /\ p = "LUNCH_IN" => rows[k].lunchOut # None /\ rows[k].lunchIn = None
  BY DEF FixedPunches
<1>5. p = "TIME_IN" => rows[k] = NoRow
  BY <1>1, <1>4 DEF RowsWellMade
<1>6. p = "LUNCH_OUT" => rows[k].lunchIn = None
  BY <1>1, <1>4 DEF RowsWellMade
<1>7. Fits(rows[k], p)
  BY <1>4, <1>5, <1>6 DEF Fits
<1>8. p \in Punches
  BY <1>4 DEF Punches
<1> QED BY <1>1, <1>3, <1>7, <1>8

LEMMA RenderedIsNumber ==
  ASSUME JobOK, NEW d \in Days, NEW at \in Moments
  PROVE  /\ RenderedAt(d, at) \in Nat
         /\ RenderedAt(d, at) # None => mode = "FIXED"
         /\ mode = "FIXED" => RenderedAt(d, at) >= at /\ RenderedAt(d, at) # None
<1>1. shift \in Shift /\ d \in Int /\ at \in Nat /\ at > 0
  BY JobIs DEF Days, Moments
<1>2. RenderTimeIn(shift, at, d) >= at
  BY <1>1, RenderNeverFavoursTheLate
<1>3. RenderTimeIn(shift, at, d) \in Int
  <2>1. StartOn(shift, d) \in Int
    BY <1>1, SpanIsAtMostADay
  <2>2. RenderInterval \in Nat \ {0}
    BY ShiftMathAssumption
  <2> DEFINE late == at - StartOn(shift, d)
             marks == (late + RenderInterval - 1) \div RenderInterval
  <2>3. late \in Int /\ marks \in Int
    BY <1>1, <2>1, <2>2
  <2>4. marks * RenderInterval \in Int
    BY <2>2, <2>3
  <2>5. RenderTimeIn(shift, at, d)
          = IF late <= 0 THEN StartOn(shift, d) ELSE StartOn(shift, d) + marks * RenderInterval
    BY DEF RenderTimeIn
  <2> HIDE DEF late, marks
  <2> QED BY <2>1, <2>4, <2>5
<1> QED BY <1>1, <1>2, <1>3 DEF RenderedAt, None

LEMMA WorkedIsNumber ==
  ASSUME JobOK, NEW d \in Days, NEW r \in Row, NEW out \in Moments
  PROVE  /\ Worked(d, r, out) \in Nat
         /\ r.timeIn <= out /\ (r.rendered # None => r.rendered >= r.timeIn)
              => Worked(d, r, out) <= out - r.timeIn
<1> DEFINE b == BreakTaken(shift, d, WorkStart(r), out, r.lunchOut, r.lunchIn, None)
           w == WorkStart(r)
<1>1. shift \in Shift /\ d \in Int /\ out \in Nat
  BY JobIs DEF Days, Moments
<1>2. r.timeIn \in Nat /\ r.rendered \in Nat /\ r.lunchOut \in Nat /\ r.lunchIn \in Nat
  BY DEF Row, Moments, None
<1>3. w \in Nat
  BY <1>2 DEF WorkStart
<1>4. b \in Nat
  <2>1. BreakFrom(shift, d) \in Int /\ BreakTo(shift, d) \in Int
    <3>1. d * DayLength \in Int /\ DayLength \in Nat
      BY <1>1, ShiftMathAssumption
    <3>2. StartOn(shift, d) \in Int /\ shift.breakStart \in Nat /\ shift.breakLength \in Nat
      BY <1>1, <3>1, SpanIsAtMostADay DEF Shift
    <3> QED BY <3>1, <3>2 DEF BreakFrom, BreakTo
  <2>2. shift.breakLength \in Nat
    BY <1>1 DEF Shift
  <2> HIDE DEF w
  <2>3. b = BreakTaken(shift, d, w, out, r.lunchOut, r.lunchIn, None)
    BY DEF w
  <2>4. BreakTaken(shift, d, w, out, r.lunchOut, r.lunchIn, None) \in Nat
    BY <1>1, <1>2, <1>3, <2>1, <2>2 DEF BreakTaken, AtLeastZero, Earlier, Later
  <2> QED BY <2>3, <2>4
<1>5. Worked(d, r, out) = AtLeastZero((out - w) - (IF r.rendered = None THEN 0 ELSE b))
  BY DEF Worked
<1>6. r.rendered # None => w = r.rendered
  BY DEF WorkStart
<1>7. r.rendered = None => w = r.timeIn
  BY DEF WorkStart
<1> HIDE DEF b, w
<1> QED BY <1>1, <1>2, <1>3, <1>4, <1>5, <1>6, <1>7 DEF AtLeastZero

\* What upsertAttendanceRecord leaves in the row it writes.
Written(key, seen, punch, at) == Upserted(key, seen, punch, at)[key]

LEMMA WriteIs ==
  ASSUME Typed, RowsWellMade, NEW key \in Keys, NEW seen \in Row,
         NEW punch \in Punches, NEW at \in Moments,
         punch # "TIME_IN" => rows[key].exists,
         punch = "LUNCH_IN" => rows[key].lunchOut # None,
         NEW w, w = Written(key, seen, punch, at)
  PROVE  /\ Upserted(key, seen, punch, at) = [rows EXCEPT ![key] = w]
         /\ w \in Row /\ w.exists /\ w.timeIn # None
         /\ w.lunchIn # None => w.lunchOut # None
         /\ \A q \in Punches \ {punch} : PunchAt(w, q) = PunchAt(rows[key], q)
         /\ punch = "TIME_IN" => w.rendered = RenderedAt(key.day, at)
         /\ punch # "TIME_IN" => w.rendered = rows[key].rendered
         /\ PunchAt(w, punch) = at \/ (punch = "TIME_OUT" /\ seen.timeIn = None /\ w = rows[key])
         /\ punch = "TIME_OUT" /\ seen.timeIn # None => w.worked = Worked(key.day, seen, at)
<1>1. rows[key] \in Row /\ rows \in [Keys -> Row] /\ JobOK /\ key.day \in Days
  BY DEF Typed, Keys
<1>2. w = IF rows[key].exists THEN UpdatedRow(key.day, rows[key], seen, punch, at)
          ELSE CreatedRow(key.day, punch, at)
  BY <1>1 DEF Written, Upserted
<1>3. Upserted(key, seen, punch, at) = [rows EXCEPT ![key] = w]
  BY <1>1, <1>2 DEF Upserted
<1>4. RenderedAt(key.day, at) \in Nat /\ Worked(key.day, seen, at) \in Nat
  BY <1>1, RenderedIsNumber, WorkedIsNumber
<1>5. at # None /\ at \in Moments \cup {None}
  BY DEF Moments, None
<1>6. /\ rows[key].exists => rows[key].timeIn # None
      /\ ~rows[key].exists => rows[key] = NoRow
      /\ rows[key].lunchIn # None => rows[key].lunchOut # None
  BY DEF RowsWellMade
<1> DEFINE old == rows[key]
<1> HIDE DEF old
<1>7. CASE ~rows[key].exists
  <2>1. punch = "TIME_IN"
    BY <1>7
  <2>2. w = [NoRow EXCEPT !.exists = TRUE, !.timeIn = at, !.rendered = RenderedAt(key.day, at)]
    BY <1>2, <1>7, <2>1 DEF CreatedRow
  <2>3. w \in Row /\ w.exists /\ w.timeIn = at /\ w.rendered = RenderedAt(key.day, at)
    BY <1>4, <1>5, <2>2, NoRowIsRow DEF NoRow, Row
  <2>4. w.lunchOut = None /\ w.lunchIn = None /\ w.timeOut = None
    BY <2>2 DEF NoRow
  <2>5. rows[key].lunchOut = None /\ rows[key].lunchIn = None /\ rows[key].timeOut = None
    BY <1>6, <1>7 DEF NoRow
  <2> QED BY <1>3, <1>5, <2>1, <2>3, <2>4, <2>5 DEF PunchAt, Punches
<1>8. CASE rows[key].exists
  <2>0. old \in Row /\ old.exists /\ old.timeIn # None
        /\ (old.lunchIn # None => old.lunchOut # None)
    BY <1>1, <1>6, <1>8 DEF old
  <2>1. w = UpdatedRow(key.day, old, seen, punch, at)
    BY <1>2, <1>8 DEF old
  <2>2. CASE punch = "TIME_IN"
    <3>1. w = [old EXCEPT !.timeIn = at, !.rendered = RenderedAt(key.day, at)]
      BY <2>1, <2>2 DEF UpdatedRow
    <3>2. w \in Row /\ w.exists /\ w.timeIn = at /\ w.rendered = RenderedAt(key.day, at)
          /\ w.lunchOut = old.lunchOut /\ w.lunchIn = old.lunchIn /\ w.timeOut = old.timeOut
      BY <1>4, <1>5, <2>0, <3>1 DEF Row
    <3> QED BY <1>3, <1>5, <2>0, <2>2, <3>2 DEF PunchAt, Punches, old
  <2>3. CASE punch = "TIME_OUT" /\ seen.timeIn # None
    <3>1. w = [old EXCEPT !.timeOut = at, !.worked = Worked(key.day, seen, at)]
      BY <2>1, <2>3 DEF UpdatedRow
    <3>2. w \in Row /\ w.exists /\ w.timeOut = at /\ w.worked = Worked(key.day, seen, at)
          /\ w.lunchOut = old.lunchOut /\ w.lunchIn = old.lunchIn /\ w.timeIn = old.timeIn
          /\ w.rendered = old.rendered
      BY <1>4, <1>5, <2>0, <3>1 DEF Row
    <3> QED BY <1>3, <1>5, <2>0, <2>3, <3>2 DEF PunchAt, Punches, old
  <2>4. CASE punch = "TIME_OUT" /\ seen.timeIn = None
    <3>1. w = old
      BY <2>1, <2>4 DEF UpdatedRow
    <3> QED BY <1>3, <2>0, <2>4, <3>1 DEF PunchAt, Punches, old
  <2>5. CASE punch = "LUNCH_OUT"
    <3>1. w = [old EXCEPT !.lunchOut = at]
      BY <2>1, <2>5 DEF UpdatedRow
    <3>2. w \in Row /\ w.exists /\ w.lunchOut = at
          /\ w.lunchIn = old.lunchIn /\ w.timeIn = old.timeIn /\ w.timeOut = old.timeOut
          /\ w.rendered = old.rendered
      BY <1>5, <2>0, <3>1 DEF Row
    <3> QED BY <1>3, <1>5, <2>0, <2>5, <3>2 DEF PunchAt, Punches, old
  <2>6. CASE punch = "LUNCH_IN"
    <3>1. w = [old EXCEPT !.lunchIn = at]
      BY <2>1, <2>6 DEF UpdatedRow
    <3>2. w \in Row /\ w.exists /\ w.lunchIn = at
          /\ w.lunchOut = old.lunchOut /\ w.timeIn = old.timeIn /\ w.timeOut = old.timeOut
          /\ w.rendered = old.rendered
      BY <1>5, <2>0, <3>1 DEF Row
    <3> QED BY <1>3, <1>5, <2>0, <2>6, <3>2 DEF PunchAt, Punches, old
  <2> QED BY <2>2, <2>3, <2>4, <2>5, <2>6 DEF Punches
<1> QED BY <1>7, <1>8

-----------------------------------------------------------------------------
(***************************************************************************)
(* 5. Any number of scans and reviews at once.                             *)
(***************************************************************************)
\* A punch that was captured, for a row, at a moment.
Captured(key, punch, at) ==
  /\ at <= clock
  /\ BelongsTo(key.day, at)
  /\ punch = "TIME_IN" => at < EndOn(shift, key.day)
  /\ punch # "TIME_IN" => rows[key].exists
  /\ punch = "LUNCH_IN" => rows[key].lunchOut # None

ScansFit ==
  \A s \in Scanners : scan[s].pc = "match" =>
    /\ Captured(scan[s].key, scan[s].punch, scan[s].at)
    /\ scan[s].at = clock
    /\ Fits(scan[s].seen, scan[s].punch)

LogsFit == \A i \in DOMAIN logs : Captured(logs[i].key, logs[i].punch, logs[i].at)

RowsFiled ==
  \A k \in Keys :
    /\ \A p \in Punches, t \in Moments :
         PunchAt(rows[k], p) = t => t <= clock /\ BelongsTo(k.day, t)
    /\ rows[k].timeIn # None => rows[k].timeIn < EndOn(shift, k.day)

Base == Typed /\ RowsWellMade /\ ScansFit /\ LogsFit /\ RowsFiled

LEMMA BaseAtFirst == Init => Base
<1> SUFFICES ASSUME Init PROVE Base
  OBVIOUS
<1> USE DEF Init
<1>1. PICK e \in Employments : clock = e.from /\ until = e.to /\ shift = e.shift /\ mode = e.mode
  OBVIOUS
<1>2. e.from \in Moments /\ e.shift \in Shift
  BY DayAssumption DEF Moments
<1>3. clock \in Moments /\ JobOK
  BY <1>1, <1>2 DEF JobOK
<1>4. rows \in [Keys -> Row] /\ \A k \in Keys : rows[k] = NoRow
  BY NoRowIsRow
<1>5. logs \in Seq(Log) /\ Len(logs) = 0 /\ DOMAIN logs = {}
  OBVIOUS
<1>6. 0 \in Days
  <2>1. Horizon \in Nat
    BY DayAssumption
  <2> QED BY <2>1, DayBounds DEF Days
<1>7. scan \in [Scanners -> ScanForms] /\ \A s \in Scanners : scan[s].pc = "idle"
  BY DEF ScanForms, Idle
<1>8. review \in [Reviewers -> ReviewState] /\ \A r \in Reviewers : review[r].pc = "idle"
  BY DEF ReviewState, Idle
<1>9. Typed
  BY <1>3, <1>4, <1>5, <1>6, <1>7, <1>8, DayAssumption DEF Typed
<1>10. RowsWellMade /\ RowsFiled
  <2>1. \A k \in Keys, p \in Punches : PunchAt(rows[k], p) = None
    BY <1>4 DEF NoRow, PunchAt, Punches
  <2>2. \A t \in Moments : t # None
    BY DEF Moments, None
  <2>3. \A k \in Keys : rows[k].timeIn = None /\ rows[k].lunchIn = None /\ ~rows[k].exists
    BY <1>4 DEF NoRow
  <2> QED BY <1>4, <2>1, <2>2, <2>3 DEF RowsWellMade, RowsFiled
<1>11. ScansFit /\ LogsFit
  BY <1>5, <1>7 DEF ScansFit, LogsFit
<1> QED BY <1>9, <1>10, <1>11 DEF Base

\* What every write to a row leaves in order.
LEMMA WriteKeepsRows ==
  ASSUME Base, NEW key \in Keys, NEW seen \in Row, NEW punch \in Punches, NEW at \in Moments,
         Captured(key, punch, at),
         rows' = Upserted(key, seen, punch, at), UNCHANGED <<clock, job>>
  PROVE  /\ rows' \in [Keys -> Row] /\ RowsWellMade' /\ RowsFiled'
         /\ \A k \in Keys : /\ rows[k].exists => rows'[k].exists
                            /\ rows[k].lunchOut # None => rows'[k].lunchOut # None
<1> DEFINE w == Written(key, seen, punch, at)
<1>1. Typed /\ RowsWellMade /\ RowsFiled
  BY DEF Base
<1>2. /\ Upserted(key, seen, punch, at) = [rows EXCEPT ![key] = w]
      /\ w \in Row /\ w.exists /\ w.timeIn # None
      /\ w.lunchIn # None => w.lunchOut # None
      /\ \A q \in Punches \ {punch} : PunchAt(w, q) = PunchAt(rows[key], q)
      /\ PunchAt(w, punch) = at \/ w = rows[key]
  BY <1>1, WriteIs DEF Captured
<1> HIDE DEF w
<1>3. rows \in [Keys -> Row] /\ clock' = clock /\ shift' = shift /\ mode' = mode
  BY <1>1 DEF Typed, job
<1>4. rows' \in [Keys -> Row] /\ rows'[key] = w /\ \A k \in Keys \ {key} : rows'[k] = rows[k]
  BY <1>2, <1>3
<1>5. RowsWellMade'
  BY <1>1, <1>2, <1>4 DEF RowsWellMade
<1>6. at <= clock /\ BelongsTo(key.day, at) /\ (punch = "TIME_IN" => at < EndOn(shift, key.day))
  BY DEF Captured
<1>7. RowsFiled'
  <2>1. ASSUME NEW k \in Keys \ {key}, NEW p \in Punches, NEW t \in Moments, PunchAt(rows'[k], p) = t
        PROVE  t <= clock /\ BelongsTo(k.day, t)
    BY <1>1, <1>4, <2>1 DEF RowsFiled
  <2>2. ASSUME NEW p \in Punches, NEW t \in Moments, PunchAt(w, p) = t
        PROVE  t <= clock /\ BelongsTo(key.day, t)
    <3>1. PunchAt(w, p) = PunchAt(rows[key], p) \/ PunchAt(w, p) = at
      BY <1>2
    <3> QED BY <1>1, <1>6, <2>2, <3>1 DEF RowsFiled
  <2>3. ASSUME NEW k \in Keys, rows'[k].timeIn # None
        PROVE  rows'[k].timeIn < EndOn(shift, k.day)
    <3>1. CASE k # key
      BY <1>1, <1>4, <2>3, <3>1 DEF RowsFiled
    <3>2. CASE k = key
      <4>1. PunchAt(w, "TIME_IN") = w.timeIn /\ PunchAt(rows[key], "TIME_IN") = rows[key].timeIn
        BY DEF PunchAt
      <4>2. w.timeIn = rows[key].timeIn \/ (punch = "TIME_IN" /\ w.timeIn = at)
        BY <1>2, <4>1 DEF Punches
      <4> QED BY <1>1, <1>4, <1>6, <2>3, <3>2, <4>2 DEF RowsFiled
    <3> QED BY <3>1, <3>2
  <2>4. ASSUME NEW d, NEW t, BelongsTo(d, t) PROVE BelongsTo(d, t)'
    BY <1>3, <2>4 DEF BelongsTo
  <2>5. ASSUME NEW k \in Keys, NEW p \in Punches, NEW t \in Moments, PunchAt(rows'[k], p) = t
        PROVE  t <= clock' /\ BelongsTo(k.day, t)'
    <3>1. t <= clock /\ BelongsTo(k.day, t)
      BY <1>4, <2>1, <2>2, <2>5
    <3> QED BY <1>3, <2>4, <3>1
  <2>6. \A k \in Keys, p \in Punches : PunchAt(rows[k], p)' = PunchAt(rows'[k], p)
    BY DEF PunchAt
  <2> QED BY <1>3, <2>3, <2>5, <2>6 DEF RowsFiled
<1>8. /\ rows[key].lunchOut # None => w.lunchOut # None
  <2>1. PunchAt(w, "LUNCH_OUT") = w.lunchOut /\ PunchAt(rows[key], "LUNCH_OUT") = rows[key].lunchOut
    BY DEF PunchAt
  <2>2. at # None
    BY DEF Moments, None
  <2> QED BY <1>2, <2>1, <2>2 DEF Punches
<1> QED BY <1>2, <1>4, <1>5, <1>7, <1>8

\* A capture stays one as long as its row keeps its punches.
LEMMA CapturesStay ==
  ASSUME Base, UNCHANGED job, clock' \in Nat, clock <= clock',
         \A k \in Keys : /\ rows[k].exists => rows'[k].exists
                         /\ rows[k].lunchOut # None => rows'[k].lunchOut # None,
         NEW key \in Keys, NEW punch, NEW at \in Moments, Captured(key, punch, at)
  PROVE  Captured(key, punch, at)'
<1>1. shift' = shift /\ mode' = mode
  BY DEF job
<1>2. clock \in Nat /\ at \in Nat
  BY DEF Base, Typed, Moments
<1>3. at <= clock'
  BY <1>2 DEF Captured
<1>4. BelongsTo(key.day, at)'
  BY <1>1 DEF Captured, BelongsTo
<1> QED BY <1>1, <1>3, <1>4 DEF Captured

\* What scans and logs need to stay fitting when no scan begins and no log is
\* added.
LEMMA FitsStay ==
  ASSUME Base, UNCHANGED job, clock' \in Nat, clock <= clock',
         \A k \in Keys : /\ rows[k].exists => rows'[k].exists
                         /\ rows[k].lunchOut # None => rows'[k].lunchOut # None
  PROVE  /\ /\ clock' = clock
            /\ \A s \in Scanners : scan'[s].pc = "match" => scan'[s] = scan[s]
            => ScansFit'
         /\ /\ DOMAIN logs' = DOMAIN logs
            /\ \A i \in DOMAIN logs : /\ logs'[i].key = logs[i].key
                                      /\ logs'[i].punch = logs[i].punch
                                      /\ logs'[i].at = logs[i].at
            => LogsFit'
<1>1. Typed /\ ScansFit /\ LogsFit
  BY DEF Base
<1>2. ASSUME NEW s \in Scanners, clock' = clock, scan'[s].pc = "match", scan'[s] = scan[s]
      PROVE  /\ Captured(scan[s].key, scan[s].punch, scan[s].at)'
             /\ scan'[s].at = clock' /\ Fits(scan'[s].seen, scan'[s].punch)
  <2>1. scan[s] \in [pc : {"match"}, key : Keys, seen : Row, punch : Punches, at : Moments]
    BY <1>1, <1>2 DEF Typed, ScanForms
  <2>2. PICK key, punch, at : key = scan[s].key /\ punch = scan[s].punch /\ at = scan[s].at
    OBVIOUS
  <2>3. Captured(key, punch, at)' /\ scan[s].at = clock /\ Fits(scan[s].seen, scan[s].punch)
    BY <1>1, <1>2, <2>1, <2>2, CapturesStay DEF ScansFit
  <2>4. Captured(scan[s].key, scan[s].punch, scan[s].at)'
    BY <1>2, <2>2, <2>3 DEF Captured
  <2> QED BY <1>2, <2>3, <2>4
<1>3. ASSUME NEW i \in DOMAIN logs, logs'[i].key = logs[i].key,
             logs'[i].punch = logs[i].punch, logs'[i].at = logs[i].at
      PROVE  Captured(logs[i].key, logs[i].punch, logs[i].at)'
  <2>1. logs[i] \in Log
    BY <1>1 DEF Typed
  <2>2. PICK key, punch, at : key = logs[i].key /\ punch = logs[i].punch /\ at = logs[i].at
    OBVIOUS
  <2>3. key \in Keys /\ at \in Moments
    BY <2>1, <2>2 DEF Log
  <2>4. Captured(key, punch, at)'
    BY <1>1, <2>2, <2>3, CapturesStay DEF LogsFit
  <2> QED BY <1>3, <2>2, <2>4 DEF Captured
<1> QED BY <1>2, <1>3 DEF ScansFit, LogsFit, Fits

LEMMA RowsStay ==
  ASSUME Base, UNCHANGED <<job, rows>>, clock' \in Nat, clock <= clock'
  PROVE  RowsWellMade' /\ RowsFiled'
<1>1. Typed /\ RowsWellMade /\ RowsFiled
  BY DEF Base
<1>2. shift' = shift /\ mode' = mode /\ clock \in Nat
  BY <1>1 DEF job, Typed, Moments
<1>3. RowsWellMade'
  BY <1>1 DEF RowsWellMade
<1>4. ASSUME NEW d, NEW t, BelongsTo(d, t) PROVE BelongsTo(d, t)'
  BY <1>2, <1>4 DEF BelongsTo
<1>5. ASSUME NEW t \in Moments, t <= clock PROVE t <= clock'
  BY <1>2, <1>5 DEF Moments
<1>6. \A k \in Keys, p \in Punches : PunchAt(rows[k], p)' = PunchAt(rows[k], p)
  BY DEF PunchAt
<1>7. RowsFiled'
  BY <1>1, <1>2, <1>4, <1>5, <1>6 DEF RowsFiled
<1> QED BY <1>3, <1>7

\* What a beginning scan has read.
LEMMA BeginScanIs ==
  ASSUME Base, NEW s \in Scanners, NEW area \in Areas, BeginScan(s, area)
  PROVE  \E d \in Days, k \in Keys, p \in Punches :
           /\ d = WorkingDay(clock) /\ k.day = d /\ MayScan(d)
           /\ scan[s].pc = "idle"
           /\ scan' = [scan EXCEPT ![s] =
                [pc |-> "match", key |-> k, seen |-> rows[k], punch |-> p, at |-> clock]]
           /\ Captured(k, p, clock) /\ Fits(rows[k], p)
           /\ mode = "FIELD" /\ p = "TIME_IN" => \A j \in LatestRows(d) : ~Open(rows[j])
           /\ mode = "FIELD" => p \in {"TIME_IN", "TIME_OUT"}
<1>1. Typed /\ RowsWellMade
  BY DEF Base
<1> DEFINE d == WorkingDay(clock)
<1>2. d \in Days /\ MayScan(d)
  BY DEF BeginScan, MayScan
<1>3. BelongsTo(d, clock)
  BY <1>1, FiledWhereItBelongs DEF Typed
<1>4. mode \in {"FIXED", "FIELD"}
  BY <1>1, JobIs DEF Typed
<1>5. PICK t \in IF mode = "FIELD" THEN FieldScan(d, area) ELSE FixedScan(d, area) :
           /\ t.punch = "TIME_IN" => MayTimeIn(d, clock)
           /\ scan' = [scan EXCEPT ![s] =
                [pc |-> "match", key |-> t.key, seen |-> t.seen, punch |-> t.punch,
                 at |-> clock]]
  BY DEF BeginScan
<1> HIDE DEF d
<1>6. /\ t.key \in Keys /\ t.key.day = d /\ t.seen = rows[t.key]
      /\ t.punch \in Punches /\ Fits(t.seen, t.punch)
      /\ mode = "FIELD" /\ t.punch = "TIME_IN" => \A k \in LatestRows(d) : ~Open(rows[k])
      /\ mode = "FIELD" => t.punch \in {"TIME_IN", "TIME_OUT"}
  <2>1. CASE mode = "FIELD"
    BY <1>1, <1>2, <1>5, <2>1, FieldScanIs
  <2>2. CASE mode # "FIELD"
    BY <1>1, <1>2, <1>5, <2>2, FixedScanIs
  <2> QED BY <2>1, <2>2
<1>7. clock \in Nat /\ d \in Int
  BY <1>1, <1>2 DEF Typed, Moments, Days
<1>8. EndOn(shift, d) \in Int
  BY <1>1, <1>7, YesterdayIsOver DEF Typed
<1>9. t.punch = "TIME_IN" => clock < EndOn(shift, d)
  BY <1>5, <1>7, <1>8 DEF MayTimeIn, HasShiftEnded
<1>10. /\ t.punch # "TIME_IN" => rows[t.key].exists
       /\ t.punch = "LUNCH_IN" => rows[t.key].lunchOut # None
  BY <1>1, <1>6 DEF Fits, RowsWellMade, NoRow
<1>11. Captured(t.key, t.punch, clock)
  BY <1>3, <1>6, <1>7, <1>9, <1>10 DEF Captured
<1>12. scan[s].pc = "idle"
  BY DEF BeginScan
<1> QED BY <1>2, <1>5, <1>6, <1>11, <1>12 DEF d

\* A flagged scan's new log and where the scan goes from there.
LEMMA FlagIs ==
  ASSUME Base, NEW s \in Scanners, ScanFlagged(s)
  PROVE  /\ scan[s] \in [pc : {"match"}, key : Keys, seen : Row, punch : Punches, at : Moments]
         /\ Len(logs') = Len(logs) + 1 /\ Len(logs) < MaxFlags
         /\ logs' \in Seq(Log) /\ DOMAIN logs' = 1..(Len(logs) + 1) /\ DOMAIN logs = 1..Len(logs)
         /\ Len(logs) \in Nat
         /\ \A i \in DOMAIN logs : logs'[i] = logs[i]
         /\ LET l == logs'[Len(logs) + 1]
            IN  /\ l.key = scan[s].key /\ l.punch = scan[s].punch /\ l.at = scan[s].at
                /\ l.status = "PENDING_REVIEW" /\ l.linked = FALSE /\ l.reviewedAfter = None
         /\ scan' = [scan EXCEPT ![s] =
                [pc |-> "supersede", log |-> Len(logs) + 1, day |-> scan[s].key.day]]
<1>1. Typed
  BY DEF Base
<1>2. scan[s] \in [pc : {"match"}, key : Keys, seen : Row, punch : Punches, at : Moments]
  BY <1>1 DEF ScanFlagged, Typed, ScanForms
<1> DEFINE l == [key |-> scan[s].key, punch |-> scan[s].punch, at |-> scan[s].at,
                 status |-> "PENDING_REVIEW", linked |-> FALSE, reviewedAfter |-> None]
<1>3. l \in Log
  BY <1>2, DayAssumption DEF Log, None
<1>4. logs' = Append(logs, l) /\ Len(logs) < MaxFlags /\ logs \in Seq(Log)
  BY <1>1 DEF ScanFlagged, Typed
<1>5. l.key = scan[s].key /\ l.punch = scan[s].punch /\ l.at = scan[s].at
      /\ l.status = "PENDING_REVIEW" /\ l.linked = FALSE /\ l.reviewedAfter = None
  OBVIOUS
<1> HIDE DEF l
<1>6. /\ logs' \in Seq(Log) /\ Len(logs') = Len(logs) + 1
      /\ DOMAIN logs' = 1..(Len(logs) + 1) /\ DOMAIN logs = 1..Len(logs) /\ Len(logs) \in Nat
      /\ logs'[Len(logs) + 1] = l /\ \A i \in DOMAIN logs : logs'[i] = logs[i]
  BY <1>3, <1>4
<1>7. scan' = [scan EXCEPT ![s] =
                [pc |-> "supersede", log |-> Len(logs) + 1, day |-> scan[s].key.day]]
  BY <1>6 DEF ScanFlagged
<1> QED BY <1>2, <1>4, <1>5, <1>6, <1>7

\* The steps that rewrite logs leave what was captured.
LogsRewritten ==
  /\ logs' \in Seq(Log) /\ Len(logs') = Len(logs) /\ DOMAIN logs' = DOMAIN logs
  /\ \A i \in DOMAIN logs : /\ logs'[i].key = logs[i].key
                            /\ logs'[i].punch = logs[i].punch
                            /\ logs'[i].at = logs[i].at

LEMMA SupersedeIs ==
  ASSUME Base, NEW s \in Scanners, ScanSupersedes(s)
  PROVE  /\ LogsRewritten
         /\ \A i \in DOMAIN logs :
              logs'[i] = IF i \in SupersededBy(scan[s].log, scan[s].day)
                           THEN [logs[i] EXCEPT !.status = "ARCHIVED"] ELSE logs[i]
         /\ scan[s] \in [pc : {"supersede"}, log : LogIds, day : Days]
         /\ scan' = [scan EXCEPT ![s] = [@ EXCEPT !.pc = "count"]]
         /\ scan'[s] \in [pc : {"count"}, log : LogIds, day : Days]
         /\ scan'[s].log = scan[s].log /\ scan'[s].day = scan[s].day
<1>1. Typed
  BY DEF Base
<1>2. logs \in Seq(Log) /\ DOMAIN logs = 1..Len(logs) /\ Len(logs) \in Nat
      /\ \A i \in DOMAIN logs : logs[i] \in Log
  BY <1>1 DEF Typed
<1> DEFINE S == SupersededBy(scan[s].log, scan[s].day)
<1> HIDE DEF S
<1>3. logs' = [i \in DOMAIN logs |->
                IF i \in S THEN [logs[i] EXCEPT !.status = "ARCHIVED"] ELSE logs[i]]
  BY DEF ScanSupersedes, S
<1>4. \A i \in DOMAIN logs : logs'[i] \in Log
  BY <1>2, <1>3 DEF Log
<1>5. logs' \in [1..Len(logs) -> Log]
  BY <1>2, <1>3, <1>4
<1>6. logs' \in Seq(Log) /\ Len(logs') = Len(logs) /\ DOMAIN logs' = DOMAIN logs
  BY <1>2, <1>5
<1>7. \A i \in DOMAIN logs : /\ logs'[i].key = logs[i].key
                             /\ logs'[i].punch = logs[i].punch
                             /\ logs'[i].at = logs[i].at
  BY <1>2, <1>3 DEF Log
<1>8. scan[s] \in [pc : {"supersede"}, log : LogIds, day : Days]
  BY <1>1 DEF ScanSupersedes, Typed, ScanForms
<1>9. scan' = [scan EXCEPT ![s] = [@ EXCEPT !.pc = "count"]]
  BY DEF ScanSupersedes
<1>10. scan'[s] = [scan[s] EXCEPT !.pc = "count"]
  BY <1>1, <1>9 DEF Typed
<1>11. LogsRewritten
  BY <1>6, <1>7 DEF LogsRewritten
<1> QED BY <1>3, <1>8, <1>9, <1>10, <1>11 DEF S

LEMMA CloseIs ==
  ASSUME Base, NEW r \in Reviewers, ReviewCloses(r)
  PROVE  /\ LogsRewritten
         /\ review[r].log \in DOMAIN logs
         /\ \A i \in DOMAIN logs \ {review[r].log} : logs'[i] = logs[i]
         /\ LET i == review[r].log
            IN  /\ logs'[i].status # "PENDING_REVIEW"
                /\ logs'[i].reviewedAfter = Len(logs)
<1>1. Typed
  BY DEF Base
<1>2. logs \in Seq(Log) /\ DOMAIN logs = 1..Len(logs) /\ Len(logs) \in Nat
      /\ \A i \in DOMAIN logs : logs[i] \in Log
  BY <1>1 DEF Typed
<1>3. review[r] \in [pc : {"record", "close"}, log : LogIds, decision : Decisions, seen : Row]
      /\ review[r].log \in DOMAIN logs
  BY <1>1 DEF ReviewCloses, Typed, ReviewState
<1>4. review[r].decision \in {"validate", "reject", "archive"}
  BY <1>3, DayAssumption
<1>5. PICK st : st = ClosedStatus(review[r].decision)
  OBVIOUS
<1>6. st \in {"APPROVED", "FAKE_ATTEMPT", "ARCHIVED"}
  BY <1>4, <1>5 DEF ClosedStatus
<1>7. PICK v \in BOOLEAN : v = (review[r].decision = "validate")
  OBVIOUS
<1>8. PICK i \in DOMAIN logs : i = review[r].log
  BY <1>3
<1>9. logs' = [logs EXCEPT ![i] =
           [@ EXCEPT !.status = st, !.linked = logs[i].linked \/ v, !.reviewedAfter = Len(logs)]]
  BY <1>5, <1>7, <1>8 DEF ReviewCloses
<1>10. Len(logs) \in 0..MaxFlags
  BY <1>1, <1>2, DayAssumption DEF Typed
<1>11. \E b \in BOOLEAN : logs'[i] = [logs[i] EXCEPT !.status = st, !.linked = b, !.reviewedAfter = Len(logs)]
  <2> DEFINE e == [logs[i] EXCEPT !.status = st, !.linked = logs[i].linked \/ v, !.reviewedAfter = Len(logs)]
  <2>0. logs' = [logs EXCEPT ![i] = e]
    BY <1>9, Zenon
  <2> HIDE DEF e
  <2>1. logs'[i] = e
    BY <1>2, <2>0
  <2> USE DEF e
  <2>2. PICK b \in BOOLEAN : b = (logs[i].linked \/ v)
    OBVIOUS
  <2>3. logs'[i] = [logs[i] EXCEPT !.status = st, !.linked = b, !.reviewedAfter = Len(logs)]
    BY <2>1, <2>2, Zenon
  <2> QED BY <2>3
<1>12. logs'[i] \in Log /\ logs'[i].key = logs[i].key /\ logs'[i].punch = logs[i].punch
       /\ logs'[i].at = logs[i].at /\ logs'[i].status = st /\ logs'[i].reviewedAfter = Len(logs)
  BY <1>2, <1>6, <1>10, <1>11 DEF Log
<1>13. DOMAIN logs' = DOMAIN logs /\ \A j \in DOMAIN logs \ {i} : logs'[j] = logs[j]
  BY <1>2, <1>9
<1>14. \A j \in DOMAIN logs : logs'[j] \in Log
  BY <1>2, <1>12, <1>13
<1>15. logs' \in [1..Len(logs) -> Log]
  <2>1. logs' = [j \in DOMAIN logs |-> logs'[j]]
    BY <1>9
  <2> QED BY <1>2, <1>14, <2>1
<1>16. logs' \in Seq(Log) /\ Len(logs') = Len(logs)
  BY <1>2, <1>15
<1>17. LogsRewritten
  BY <1>12, <1>13, <1>16 DEF LogsRewritten
<1> QED BY <1>6, <1>8, <1>12, <1>13, <1>17

\* Steps that write neither rows nor logs and begin no scan.
LEMMA QuietKeepsBase ==
  ASSUME Base, UNCHANGED <<job, rows, logs>>, Typed', clock <= clock',
         \/ clock' = clock /\ \A s \in Scanners : scan'[s].pc = "match" => scan'[s] = scan[s]
         \/ \A s \in Scanners : scan'[s].pc # "match"
  PROVE  Base'
<1>1. clock' \in Nat
  BY DEF Typed, Moments
<1>2. RowsWellMade' /\ RowsFiled'
  BY <1>1, RowsStay
<1>3. LogsFit'
  BY <1>1, FitsStay
<1>4. ScansFit'
  <2>1. CASE clock' = clock /\ \A s \in Scanners : scan'[s].pc = "match" => scan'[s] = scan[s]
    BY <1>1, <2>1, FitsStay
  <2>2. CASE \A s \in Scanners : scan'[s].pc # "match"
    BY <2>2 DEF ScansFit
  <2> QED BY <2>1, <2>2
<1> QED BY <1>2, <1>3, <1>4 DEF Base

\* Steps that rewrite logs.
LEMMA RewriteKeepsBase ==
  ASSUME Base, UNCHANGED <<clock, job, rows>>, Typed', LogsRewritten,
         \A s \in Scanners : scan'[s].pc = "match" => scan'[s] = scan[s]
  PROVE  Base'
<1>1. clock' \in Nat /\ clock <= clock'
  BY DEF Typed, Moments
<1>2. RowsWellMade' /\ RowsFiled'
  BY <1>1, RowsStay
<1>3. LogsFit' /\ ScansFit'
  BY <1>1, FitsStay DEF LogsRewritten
<1> QED BY <1>2, <1>3 DEF Base

\* Steps that write a row.
LEMMA WriteKeepsBase ==
  ASSUME Base, NEW key \in Keys, NEW seen \in Row, NEW punch \in Punches, NEW at \in Moments,
         Captured(key, punch, at),
         rows' = Upserted(key, seen, punch, at), UNCHANGED <<clock, job, logs, tally>>,
         \A s \in Scanners : scan'[s].pc = "match" => scan'[s] = scan[s],
         scan' \in [Scanners -> ScanForms], review' \in [Reviewers -> ReviewState],
         \A r \in Reviewers : review'[r].pc # "idle" => review'[r].log \in DOMAIN logs
  PROVE  Base'
<1>1. /\ rows' \in [Keys -> Row] /\ RowsWellMade' /\ RowsFiled'
      /\ \A k \in Keys : /\ rows[k].exists => rows'[k].exists
                         /\ rows[k].lunchOut # None => rows'[k].lunchOut # None
  BY WriteKeepsRows
<1>2. Typed'
  BY <1>1 DEF Base, Typed, job, JobOK
<1>3. clock' \in Nat /\ clock <= clock'
  BY <1>2 DEF Typed, Moments
<1>4. LogsFit' /\ ScansFit'
  BY <1>1, <1>3, FitsStay
<1> QED BY <1>1, <1>2, <1>4 DEF Base

LEMMA JobStays == ASSUME JobOK, UNCHANGED job PROVE JobOK'
  BY DEF JobOK, job

LEMMA BeginScanKeepsBase ==
  ASSUME Base, NEW s \in Scanners, NEW area \in Areas, BeginScan(s, area) PROVE Base'
<1>1. UNCHANGED <<clock, job, rows, logs, tally, review>>
  BY DEF BeginScan
<1>2. PICK d \in Days, k \in Keys, p \in Punches :
           /\ scan' = [scan EXCEPT ![s] =
                [pc |-> "match", key |-> k, seen |-> rows[k], punch |-> p, at |-> clock]]
           /\ Captured(k, p, clock) /\ Fits(rows[k], p)
  BY BeginScanIs
<1>3. Typed /\ ScansFit
  BY DEF Base
<1>4. rows[k] \in Row
  BY <1>3 DEF Typed
<1>5. scan' \in [Scanners -> ScanForms]
  BY <1>2, <1>3, <1>4 DEF Typed, ScanForms
<1>6. Typed'
  BY <1>1, <1>3, <1>5, JobStays DEF Typed
<1>7. clock' \in Nat /\ clock <= clock'
  BY <1>1, <1>3 DEF Typed, Moments
<1>8. RowsWellMade' /\ RowsFiled' /\ LogsFit'
  BY <1>1, <1>7, RowsStay, FitsStay
<1>9. ASSUME NEW j \in Keys, NEW q, NEW t, Captured(j, q, t) PROVE Captured(j, q, t)'
  BY <1>1, <1>9 DEF Captured, job, BelongsTo
<1>10. ASSUME NEW o \in Scanners, scan'[o].pc = "match"
       PROVE  \E j, q, t : /\ j \in Keys /\ j = scan'[o].key /\ q = scan'[o].punch /\ t = scan'[o].at
                           /\ Captured(j, q, t) /\ t = clock /\ Fits(scan'[o].seen, q)
  <2>1. CASE o = s
    <3>1. scan'[o] = [pc |-> "match", key |-> k, seen |-> rows[k], punch |-> p, at |-> clock]
      BY <1>2, <1>3, <2>1 DEF Typed
    <3> QED BY <1>2, <3>1
  <2>2. CASE o # s
    <3>1. scan'[o] = scan[o]
      BY <1>2, <1>3, <2>2 DEF Typed
    <3>2. scan[o] \in [pc : {"match"}, key : Keys, seen : Row, punch : Punches, at : Moments]
      BY <1>3, <1>10, <3>1 DEF Typed, ScanForms
    <3> QED BY <1>3, <1>10, <3>1, <3>2 DEF ScansFit
  <2> QED BY <2>1, <2>2
<1>11. ASSUME NEW o \in Scanners, scan'[o].pc = "match"
       PROVE  /\ Captured(scan[o].key, scan[o].punch, scan[o].at)'
              /\ scan'[o].at = clock' /\ Fits(scan'[o].seen, scan'[o].punch)
  <2>1. PICK j, q, t : /\ j \in Keys /\ j = scan'[o].key /\ q = scan'[o].punch /\ t = scan'[o].at
                       /\ Captured(j, q, t) /\ t = clock /\ Fits(scan'[o].seen, q)
    BY <1>10, <1>11
  <2>2. Captured(j, q, t)'
    BY <1>9, <2>1
  <2> QED BY <1>1, <2>1, <2>2 DEF Captured
<1>12. ScansFit'
  BY <1>11 DEF ScansFit, Fits
<1> QED BY <1>6, <1>8, <1>12 DEF Base

LEMMA ScanApprovedKeepsBase ==
  ASSUME Base, NEW s \in Scanners, ScanApproved(s) PROVE Base'
<1>1. Typed /\ ScansFit /\ scan[s].pc = "match"
  BY DEF Base, ScanApproved
<1>2. scan[s] \in [pc : {"match"}, key : Keys, seen : Row, punch : Punches, at : Moments]
  BY <1>1 DEF Typed, ScanForms
<1>3. Captured(scan[s].key, scan[s].punch, scan[s].at)
  BY <1>1 DEF ScansFit
<1>4. /\ rows' = Upserted(scan[s].key, scan[s].seen, scan[s].punch, scan[s].at)
      /\ scan' = [scan EXCEPT ![s] = Idle] /\ UNCHANGED <<clock, job, logs, tally, review>>
  BY DEF ScanApproved
<1>5. /\ \A o \in Scanners : scan'[o].pc = "match" => scan'[o] = scan[o]
      /\ scan' \in [Scanners -> ScanForms]
  BY <1>1, <1>4 DEF Typed, ScanForms, Idle
<1>6. /\ review' \in [Reviewers -> ReviewState]
      /\ \A r \in Reviewers : review'[r].pc # "idle" => review'[r].log \in DOMAIN logs
  BY <1>1, <1>4 DEF Typed
<1>7. PICK key \in Keys, seen \in Row, punch \in Punches, at \in Moments :
        key = scan[s].key /\ seen = scan[s].seen /\ punch = scan[s].punch /\ at = scan[s].at
  BY <1>2
<1>8. rows' = Upserted(key, seen, punch, at) /\ Captured(key, punch, at)
  BY <1>3, <1>4, <1>7
<1> QED BY <1>4, <1>5, <1>6, <1>8, WriteKeepsBase

LEMMA ReviewRecordsKeepsBase ==
  ASSUME Base, NEW r \in Reviewers, ReviewRecords(r) PROVE Base'
<1>1. Typed /\ LogsFit /\ review[r].pc = "record"
  BY DEF Base, ReviewRecords
<1>2. review[r] \in [pc : {"record"}, log : LogIds, decision : Decisions, seen : Row]
      /\ review[r].log \in DOMAIN logs
  BY <1>1 DEF Typed, ReviewState
<1>3. PICK i \in DOMAIN logs : i = review[r].log
  BY <1>2
<1>4. logs[i] \in Log /\ Captured(logs[i].key, logs[i].punch, logs[i].at)
  BY <1>1 DEF LogsFit, Typed
<1>5. /\ rows' = Upserted(logs[i].key, review[r].seen, logs[i].punch, logs[i].at)
      /\ review' = [review EXCEPT ![r] = [@ EXCEPT !.pc = "close"]]
      /\ UNCHANGED <<clock, job, logs, tally, scan>>
  BY <1>3 DEF ReviewRecords, RecordedAt
<1>6. /\ \A o \in Scanners : scan'[o].pc = "match" => scan'[o] = scan[o]
      /\ scan' \in [Scanners -> ScanForms]
  BY <1>1, <1>5 DEF Typed
<1>7. review'[r] = [review[r] EXCEPT !.pc = "close"] /\ \A o \in Reviewers \ {r} : review'[o] = review[o]
  BY <1>1, <1>5 DEF Typed
<1>8. review'[r] \in ReviewState /\ review'[r].log = i
  BY <1>2, <1>3, <1>7 DEF ReviewState
<1>9. review' \in [Reviewers -> ReviewState]
  BY <1>1, <1>5, <1>7, <1>8 DEF Typed
<1>10. \A o \in Reviewers : review'[o].pc # "idle" => review'[o].log \in DOMAIN logs
  BY <1>1, <1>7, <1>8 DEF Typed
<1>11. PICK key \in Keys, seen \in Row, punch \in Punches, at \in Moments :
        key = logs[i].key /\ seen = review[r].seen /\ punch = logs[i].punch /\ at = logs[i].at
  BY <1>2, <1>4 DEF Log
<1>12. rows' = Upserted(key, seen, punch, at) /\ Captured(key, punch, at)
  BY <1>4, <1>5, <1>11
<1> QED BY <1>5, <1>6, <1>9, <1>10, <1>12, WriteKeepsBase

LEMMA ScanFlaggedKeepsBase ==
  ASSUME Base, NEW s \in Scanners, ScanFlagged(s) PROVE Base'
<1>1. /\ scan[s] \in [pc : {"match"}, key : Keys, seen : Row, punch : Punches, at : Moments]
      /\ Len(logs') = Len(logs) + 1 /\ Len(logs) < MaxFlags
      /\ logs' \in Seq(Log) /\ DOMAIN logs' = 1..(Len(logs) + 1) /\ DOMAIN logs = 1..Len(logs)
      /\ Len(logs) \in Nat
      /\ \A i \in DOMAIN logs : logs'[i] = logs[i]
      /\ logs'[Len(logs) + 1].key = scan[s].key /\ logs'[Len(logs) + 1].punch = scan[s].punch
      /\ logs'[Len(logs) + 1].at = scan[s].at
      /\ scan' = [scan EXCEPT ![s] =
             [pc |-> "supersede", log |-> Len(logs) + 1, day |-> scan[s].key.day]]
  BY FlagIs
<1>2. Typed /\ ScansFit /\ LogsFit /\ scan[s].pc = "match"
  BY DEF Base, ScanFlagged
<1>3. UNCHANGED <<clock, job, rows, tally, review>>
  BY DEF ScanFlagged
<1>4. Len(logs') <= MaxFlags /\ Len(logs) + 1 \in LogIds
  BY <1>1, DayAssumption DEF LogIds
<1>5. /\ scan' \in [Scanners -> ScanForms]
      /\ \A o \in Scanners : scan'[o].pc = "match" => scan'[o] = scan[o]
  BY <1>1, <1>2, <1>4 DEF Typed, ScanForms, Keys
<1>6. \A r \in Reviewers : review'[r].pc # "idle" => review'[r].log \in DOMAIN logs'
  BY <1>1, <1>2, <1>3 DEF Typed
<1>7. Typed'
  BY <1>1, <1>2, <1>3, <1>4, <1>5, <1>6, JobStays DEF Typed
<1>8. clock' \in Nat /\ clock <= clock'
  BY <1>2, <1>3 DEF Typed, Moments
<1>9. RowsWellMade' /\ RowsFiled' /\ ScansFit'
  BY <1>3, <1>5, <1>8, RowsStay, FitsStay
<1>10. ASSUME NEW i \in DOMAIN logs' PROVE Captured(logs[i].key, logs[i].punch, logs[i].at)'
  <2>1. \E key \in Keys, punch \in Punches, at \in Moments :
          /\ key = logs'[i].key /\ punch = logs'[i].punch /\ at = logs'[i].at
          /\ Captured(key, punch, at)
    <3>1. CASE i \in DOMAIN logs
      <4>1. logs[i] \in Log
        BY <1>2, <3>1 DEF Typed
      <4> QED BY <1>1, <1>2, <3>1, <4>1 DEF LogsFit, Log
    <3>2. CASE i = Len(logs) + 1
      BY <1>1, <1>2, <3>2 DEF ScansFit
    <3> QED BY <1>1, <3>1, <3>2
  <2>2. PICK key \in Keys, punch \in Punches, at \in Moments :
          /\ key = logs'[i].key /\ punch = logs'[i].punch /\ at = logs'[i].at
          /\ Captured(key, punch, at)
    BY <2>1
  <2>3. Captured(key, punch, at)'
    BY <1>3, <1>8, <2>2, CapturesStay
  <2> QED BY <2>2, <2>3 DEF Captured
<1>11. LogsFit'
  BY <1>10 DEF LogsFit
<1> QED BY <1>7, <1>9, <1>11 DEF Base

\* The other steps of scans and reviews change only what they write.
LEMMA ScanStepsKeepBase ==
  ASSUME Base, NEW s \in Scanners,
         ScanSupersedes(s) \/ ScanReadsTally(s) \/ ScanCounts(s) \/ ScanEnds(s)
  PROVE  Base'
<1>1. Typed
  BY DEF Base
<1>2. CASE ScanSupersedes(s)
  <2>1. /\ LogsRewritten /\ scan' = [scan EXCEPT ![s] = [@ EXCEPT !.pc = "count"]]
        /\ scan'[s] \in [pc : {"count"}, log : LogIds, day : Days]
    BY <1>2, SupersedeIs
  <2>2. UNCHANGED <<clock, job, rows, tally, review>>
    BY <1>2 DEF ScanSupersedes
  <2>3. /\ scan' \in [Scanners -> ScanForms]
        /\ \A o \in Scanners : scan'[o].pc = "match" => scan'[o] = scan[o]
    BY <1>1, <2>1 DEF Typed, ScanForms
  <2>4. Typed'
    BY <1>1, <2>1, <2>2, <2>3, JobStays DEF Typed, LogsRewritten
  <2> QED BY <2>1, <2>2, <2>3, <2>4, RewriteKeepsBase
<1>3. CASE ScanReadsTally(s)
  <2>1. /\ scan' = [scan EXCEPT ![s] = [pc |-> "tally", day |-> scan[s].day, read |-> tally]]
        /\ scan[s].pc = "count" /\ UNCHANGED <<clock, job, rows, logs, tally, review>>
    BY <1>3 DEF ScanReadsTally
  <2>2. scan[s].day \in Days /\ tally \in [day : Days, count : Nat]
    BY <1>1, <2>1 DEF Typed, ScanForms
  <2>3. /\ scan' \in [Scanners -> ScanForms]
        /\ \A o \in Scanners : scan'[o].pc = "match" => scan'[o] = scan[o]
    BY <1>1, <2>1, <2>2 DEF Typed, ScanForms
  <2>4. Typed'
    BY <1>1, <2>1, <2>3, JobStays DEF Typed
  <2>5. clock' = clock /\ clock <= clock'
    BY <1>1, <2>1 DEF Typed, Moments
  <2> QED BY <2>1, <2>3, <2>4, <2>5, QuietKeepsBase
<1>4. CASE ScanCounts(s)
  <2>1. /\ scan' = [scan EXCEPT ![s] = Idle] /\ tally' = Counted(scan[s].day, scan[s].read)
        /\ scan[s].pc = "tally" /\ UNCHANGED <<clock, job, rows, logs, review>>
    BY <1>4 DEF ScanCounts
  <2>2. scan[s].day \in Days /\ scan[s].read \in [day : Days, count : Nat]
    BY <1>1, <2>1 DEF Typed, ScanForms
  <2>3. /\ scan' \in [Scanners -> ScanForms]
        /\ \A o \in Scanners : scan'[o].pc = "match" => scan'[o] = scan[o]
    BY <1>1, <2>1 DEF Typed, ScanForms, Idle
  <2>4. tally' \in [day : Days, count : Nat]
    BY <2>1, <2>2 DEF Counted
  <2>5. Typed'
    BY <1>1, <2>1, <2>3, <2>4, JobStays DEF Typed
  <2>6. clock' = clock /\ clock <= clock'
    BY <1>1, <2>1 DEF Typed, Moments
  <2> QED BY <2>1, <2>3, <2>5, <2>6, QuietKeepsBase
<1>5. CASE ScanEnds(s)
  <2>1. /\ scan' = [scan EXCEPT ![s] = Idle]
        /\ UNCHANGED <<clock, job, rows, logs, tally, review>>
    BY <1>5 DEF ScanEnds
  <2>2. /\ scan' \in [Scanners -> ScanForms]
        /\ \A o \in Scanners : scan'[o].pc = "match" => scan'[o] = scan[o]
    BY <1>1, <2>1 DEF Typed, ScanForms, Idle
  <2>3. Typed'
    BY <1>1, <2>1, <2>2, JobStays DEF Typed
  <2>4. clock' = clock /\ clock <= clock'
    BY <1>1, <2>1 DEF Typed, Moments
  <2> QED BY <2>1, <2>2, <2>3, <2>4, QuietKeepsBase
<1> QED BY <1>2, <1>3, <1>4, <1>5

LEMMA ReviewStepsKeepBase ==
  ASSUME Base, NEW r \in Reviewers,
         \/ \E i \in DOMAIN logs, decision \in Decisions : BeginReview(r, i, decision)
         \/ ReviewCloses(r) \/ ReviewFails(r)
  PROVE  Base'
<1>1. Typed
  BY DEF Base
<1>2. CASE \E i \in DOMAIN logs, decision \in Decisions : BeginReview(r, i, decision)
  <2>1. PICK i \in DOMAIN logs, decision \in Decisions : BeginReview(r, i, decision)
    BY <1>2
  <2>2. /\ review' = [review EXCEPT ![r] =
             [pc |-> IF decision = "validate" THEN "record" ELSE "close",
              log |-> i, decision |-> decision,
              seen |-> IF decision = "validate" THEN rows[logs[i].key] ELSE NoRow]]
        /\ UNCHANGED <<clock, job, rows, logs, tally, scan>>
    BY <2>1 DEF BeginReview
  <2>3. logs[i] \in Log /\ i \in LogIds
    BY <1>1, DayAssumption DEF Typed, LogIds
  <2>4. rows[logs[i].key] \in Row /\ NoRow \in Row
    BY <1>1, <2>3, NoRowIsRow DEF Typed, Log
  <2>5. /\ review' \in [Reviewers -> ReviewState]
        /\ \A o \in Reviewers : review'[o].pc # "idle" => review'[o].log \in DOMAIN logs
    BY <1>1, <2>2, <2>3, <2>4 DEF Typed, ReviewState
  <2>6. Typed'
    BY <1>1, <2>2, <2>5, JobStays DEF Typed
  <2>7. clock' = clock /\ clock <= clock' /\ scan' = scan
    BY <1>1, <2>2 DEF Typed, Moments
  <2> QED BY <2>2, <2>6, <2>7, QuietKeepsBase
<1>3. CASE ReviewCloses(r)
  <2>1. LogsRewritten
    BY <1>3, CloseIs
  <2>2. review' = [review EXCEPT ![r] = Idle] /\ UNCHANGED <<clock, job, rows, tally, scan>>
    BY <1>3 DEF ReviewCloses
  <2>3. /\ review' \in [Reviewers -> ReviewState]
        /\ \A o \in Reviewers : review'[o].pc # "idle" => review'[o].log \in DOMAIN logs
    BY <1>1, <2>2 DEF Typed, ReviewState, Idle
  <2>4. Typed'
    BY <1>1, <2>1, <2>2, <2>3, JobStays DEF Typed, LogsRewritten
  <2> QED BY <2>1, <2>2, <2>4, RewriteKeepsBase
<1>4. CASE ReviewFails(r)
  <2>1. review' = [review EXCEPT ![r] = Idle] /\ UNCHANGED <<clock, job, rows, logs, tally, scan>>
    BY <1>4 DEF ReviewFails
  <2>2. /\ review' \in [Reviewers -> ReviewState]
        /\ \A o \in Reviewers : review'[o].pc # "idle" => review'[o].log \in DOMAIN logs
    BY <1>1, <2>1 DEF Typed, ReviewState, Idle
  <2>3. Typed'
    BY <1>1, <2>1, <2>2, JobStays DEF Typed
  <2>4. clock' = clock /\ clock <= clock' /\ scan' = scan
    BY <1>1, <2>1 DEF Typed, Moments
  <2> QED BY <2>1, <2>3, <2>4, QuietKeepsBase
<1> QED BY <1>2, <1>3, <1>4

LEMMA TickKeepsBase == ASSUME Base, Tick PROVE Base'
<1>1. Typed
  BY DEF Base
<1>2. /\ clock < until /\ clock' = clock + 1 /\ UNCHANGED <<job, rows, logs, tally, scan, review>>
      /\ \A s \in Scanners : scan[s] = Idle
  BY DEF Tick
<1>3. clock' \in Moments /\ clock <= clock'
  BY <1>1, <1>2, JobIs, DayAssumption DEF Typed, Moments
<1>4. Typed'
  BY <1>1, <1>2, <1>3, JobStays DEF Typed
<1>5. \A s \in Scanners : scan'[s].pc # "match"
  BY <1>2 DEF Idle
<1> QED BY <1>2, <1>3, <1>4, <1>5, QuietKeepsBase

LEMMA BaseStays == Base /\ [Next]_vars => Base'
<1> SUFFICES ASSUME Base, [Next]_vars PROVE Base'
  OBVIOUS
<1>1. CASE UNCHANGED vars
  <2>1. UNCHANGED <<clock, job, rows, logs, tally, scan, review>>
    BY <1>1 DEF vars
  <2>2. Typed'
    BY <2>1, JobStays DEF Base, Typed
  <2>3. clock' = clock /\ clock <= clock' /\ scan' = scan
    BY <2>1 DEF Base, Typed, Moments
  <2> QED BY <2>1, <2>2, <2>3, QuietKeepsBase
<1>2. CASE Next
  BY <1>2, BeginScanKeepsBase, ScanApprovedKeepsBase, ScanFlaggedKeepsBase,
     ScanStepsKeepBase, ReviewRecordsKeepsBase, ReviewStepsKeepBase, TickKeepsBase DEF Next
<1> QED BY <1>1, <1>2

\* A punch of a row that a flagged scan may have put there.
ReviewedPunch(k, p) ==
  \E i \in DOMAIN logs :
    logs[i].key = k /\ logs[i].punch = p /\ PunchAt(rows[k], p) = logs[i].at

LEMMA ReviewedIs ==
  ASSUME Base, NEW k PROVE Reviewed(k) <=> \E p \in Punches : ReviewedPunch(k, p)
<1>1. \A i \in DOMAIN logs : logs[i] \in Log
  BY DEF Base, Typed
<1>2. \A i \in DOMAIN logs : logs[i].punch \in Punches
  BY <1>1 DEF Log
<1> QED BY <1>2 DEF Reviewed, ReviewedPunch

\* Logs are never lost, and what they captured stays.
LogsGrow ==
  \A i \in DOMAIN logs : /\ i \in DOMAIN logs'
                         /\ logs'[i].key = logs[i].key
                         /\ logs'[i].punch = logs[i].punch
                         /\ logs'[i].at = logs[i].at

LEMMA LogsChange ==
  ASSUME Base, [Next]_vars
  PROVE  LogsRewritten \/ UNCHANGED logs \/ \E s \in Scanners : ScanFlagged(s)
<1>1. CASE \E s \in Scanners : ScanSupersedes(s)
  BY <1>1, SupersedeIs
<1>2. CASE \E r \in Reviewers : ReviewCloses(r)
  BY <1>2, CloseIs
<1>3. CASE UNCHANGED vars
  BY <1>3 DEF vars
<1>4. CASE \E s \in Scanners, area \in Areas : BeginScan(s, area)
  BY <1>4 DEF BeginScan
<1>5. CASE \E s \in Scanners : ScanApproved(s) \/ ScanReadsTally(s) \/ ScanCounts(s) \/ ScanEnds(s)
  BY <1>5 DEF ScanApproved, ScanReadsTally, ScanCounts, ScanEnds
<1>6. CASE \E r \in Reviewers, i \in DOMAIN logs, decision \in Decisions : BeginReview(r, i, decision)
  BY <1>6 DEF BeginReview
<1>7. CASE \E r \in Reviewers : ReviewRecords(r) \/ ReviewFails(r)
  BY <1>7 DEF ReviewRecords, ReviewFails
<1>8. CASE Tick
  BY <1>8 DEF Tick
<1> QED BY <1>1, <1>2, <1>3, <1>4, <1>5, <1>6, <1>7, <1>8 DEF Next

LEMMA LogsOnlyGrow ==
  ASSUME Base, [Next]_vars PROVE LogsGrow /\ UNCHANGED job
<1>1. ASSUME LogsRewritten PROVE LogsGrow
  BY <1>1 DEF LogsRewritten, LogsGrow
<1>2. ASSUME UNCHANGED logs PROVE LogsGrow
  BY <1>2 DEF LogsGrow
<1>3. ASSUME \E s \in Scanners : ScanFlagged(s) PROVE LogsGrow
  <2>1. /\ DOMAIN logs' = 1..(Len(logs) + 1) /\ DOMAIN logs = 1..Len(logs) /\ Len(logs) \in Nat
        /\ \A i \in DOMAIN logs : logs'[i] = logs[i]
    BY <1>3, FlagIs
  <2>2. \A i \in DOMAIN logs : i \in DOMAIN logs'
    BY <2>1
  <2> QED BY <2>1, <2>2 DEF LogsGrow
<1>4. LogsRewritten \/ UNCHANGED logs \/ \E s \in Scanners : ScanFlagged(s)
  BY LogsChange
<1>5. UNCHANGED job
  BY DEF Next, vars, BeginScan, ScanApproved, ScanFlagged, ScanSupersedes, ScanReadsTally,
         ScanCounts, ScanEnds, BeginReview, ReviewRecords, ReviewCloses, ReviewFails, Tick
<1> QED BY <1>1, <1>2, <1>3, <1>4, <1>5

LEMMA ReviewedPunchStays ==
  ASSUME LogsGrow, NEW k, NEW p, PunchAt(rows[k], p)' = PunchAt(rows[k], p), ReviewedPunch(k, p)
  PROVE  ReviewedPunch(k, p)'
<1>1. PICK i \in DOMAIN logs :
        logs[i].key = k /\ logs[i].punch = p /\ PunchAt(rows[k], p) = logs[i].at
  BY DEF ReviewedPunch
<1>2. i \in DOMAIN logs' /\ logs'[i].key = k /\ logs'[i].punch = p /\ logs'[i].at = logs[i].at
  BY <1>1 DEF LogsGrow
<1> QED BY <1>1, <1>2 DEF ReviewedPunch

\* The row an approved scan leaves.
ScanLeaves(s, key, seen, p, w) ==
  /\ scan[s].pc = "match" /\ Fits(seen, p)
  /\ key = scan[s].key /\ seen = scan[s].seen /\ p = scan[s].punch
  /\ clock = scan[s].at /\ clock # None
  /\ rows' = [rows EXCEPT ![key] = w]
  /\ \A q \in Punches \ {p} : PunchAt(w, q) = PunchAt(rows[key], q)
  /\ PunchAt(w, p) = clock
  /\ w.exists
  /\ p = "TIME_IN" => w.rendered = RenderedAt(key.day, clock)
  /\ p # "TIME_IN" => w.rendered = rows[key].rendered
  /\ p = "TIME_OUT" => w.worked = Worked(key.day, seen, clock)

LEMMA RowAfterScan ==
  ASSUME Base, NEW s \in Scanners, ScanApproved(s)
  PROVE  \E key \in Keys, seen \in Row, p \in Punches, w \in Row :
           ScanLeaves(s, key, seen, p, w)
<1>1. Typed /\ RowsWellMade /\ ScansFit /\ scan[s].pc = "match"
  BY DEF Base, ScanApproved
<1>2. scan[s] \in [pc : {"match"}, key : Keys, seen : Row, punch : Punches, at : Moments]
  BY <1>1 DEF Typed, ScanForms
<1>3. PICK key \in Keys, seen \in Row, p \in Punches, at \in Moments :
        key = scan[s].key /\ seen = scan[s].seen /\ p = scan[s].punch /\ at = scan[s].at
  BY <1>2
<1>4. Captured(key, p, at) /\ at = clock /\ Fits(seen, p)
  BY <1>1, <1>3 DEF ScansFit
<1>5. rows' = Upserted(key, seen, p, at)
  BY <1>3 DEF ScanApproved
<1>6. p = "TIME_OUT" => seen.timeIn # None
  BY <1>4 DEF Fits
<1>7. p # "TIME_IN" => rows[key].exists
  BY <1>4 DEF Captured
<1>8. p = "LUNCH_IN" => rows[key].lunchOut # None
  BY <1>4 DEF Captured
<1>9. PICK w : w = Written(key, seen, p, at)
  OBVIOUS
<1>10. /\ rows' = [rows EXCEPT ![key] = w] /\ w \in Row /\ w.exists
       /\ \A q \in Punches \ {p} : PunchAt(w, q) = PunchAt(rows[key], q)
       /\ PunchAt(w, p) = at
       /\ p = "TIME_IN" => w.rendered = RenderedAt(key.day, at)
       /\ p # "TIME_IN" => w.rendered = rows[key].rendered
       /\ p = "TIME_OUT" => w.worked = Worked(key.day, seen, at)
  BY <1>1, <1>5, <1>6, <1>7, <1>8, <1>9, WriteIs
<1>11. clock # None
  BY <1>1 DEF Typed, Moments, None
<1>12. ScanLeaves(s, key, seen, p, w)
  BY <1>1, <1>3, <1>4, <1>10, <1>11 DEF ScanLeaves
<1>13. w \in Row
  BY <1>10
<1> QED BY <1>12, <1>13

\* The row a validated scan leaves: nothing new, or the punch captured.
ReviewLeaves(i, key, p, w) ==
  /\ key = logs[i].key /\ p = logs[i].punch
  /\ rows' = [rows EXCEPT ![key] = w]
  /\ \A q \in Punches \ {p} : PunchAt(w, q) = PunchAt(rows[key], q)
  /\ w = rows[key] \/ (PunchAt(w, p) = logs[i].at /\ ReviewedPunch(key, p)')
  /\ w.exists
  /\ p = "TIME_IN" => w.rendered = RenderedAt(key.day, logs[i].at)
  /\ p = "TIME_IN" => PunchAt(w, p) = logs[i].at
  /\ p # "TIME_IN" => w.rendered = rows[key].rendered

LEMMA RowAfterReview ==
  ASSUME Base, NEW r \in Reviewers, ReviewRecords(r)
  PROVE  \E key \in Keys, p \in Punches, w \in Row, i \in DOMAIN logs :
           ReviewLeaves(i, key, p, w)
<1>1. Typed /\ RowsWellMade /\ LogsFit /\ review[r].pc = "record"
  BY DEF Base, ReviewRecords
<1>2. review[r] \in [pc : {"record"}, log : LogIds, decision : Decisions, seen : Row]
      /\ review[r].log \in DOMAIN logs
  BY <1>1 DEF Typed, ReviewState
<1>3. PICK i \in DOMAIN logs : i = review[r].log
  BY <1>2
<1>4. logs[i] \in Log /\ Captured(logs[i].key, logs[i].punch, logs[i].at)
  BY <1>1 DEF LogsFit, Typed
<1>5. rows' = Upserted(logs[i].key, review[r].seen, logs[i].punch, logs[i].at) /\ logs' = logs
  BY <1>3 DEF ReviewRecords, RecordedAt
<1>6. PICK key \in Keys, seen \in Row, p \in Punches, at \in Moments :
        key = logs[i].key /\ seen = review[r].seen /\ p = logs[i].punch /\ at = logs[i].at
  BY <1>2, <1>4 DEF Log
<1>7. Captured(key, p, at)
  BY <1>4, <1>6
<1>8. p # "TIME_IN" => rows[key].exists
  BY <1>7 DEF Captured
<1>9. p = "LUNCH_IN" => rows[key].lunchOut # None
  BY <1>7 DEF Captured
<1>10. PICK w : w = Written(key, seen, p, at)
  OBVIOUS
<1>11. Upserted(key, seen, p, at) = [rows EXCEPT ![key] = w] /\ w \in Row /\ w.exists
       /\ (\A q \in Punches \ {p} : PunchAt(w, q) = PunchAt(rows[key], q))
       /\ (p = "TIME_IN" => w.rendered = RenderedAt(key.day, at))
       /\ (p # "TIME_IN" => w.rendered = rows[key].rendered)
       /\ (PunchAt(w, p) = at \/ (p = "TIME_OUT" /\ w = rows[key]))
  BY <1>1, <1>8, <1>9, <1>10, WriteIs
<1>12. rows' = [rows EXCEPT ![key] = w]
  BY <1>5, <1>6, <1>11
<1>13. rows'[key] = w
  BY <1>1, <1>12 DEF Typed
<1>14. PunchAt(w, p) = at => ReviewedPunch(key, p)'
  BY <1>5, <1>6, <1>13 DEF ReviewedPunch, PunchAt
<1>15. p = "TIME_IN" => PunchAt(w, p) = at
  BY <1>11
<1>16. ReviewLeaves(i, key, p, w)
  BY <1>6, <1>11, <1>12, <1>14, <1>15 DEF ReviewLeaves
<1>17. w \in Row
  BY <1>11
<1> QED BY <1>16, <1>17

-----------------------------------------------------------------------------
(***************************************************************************)
(* 6. The order of the punches, with any number of scans and reviews.      *)
(***************************************************************************)
PunchPairs ==
  { <<"TIME_IN", "LUNCH_OUT">>, <<"LUNCH_OUT", "LUNCH_IN">>,
    <<"LUNCH_IN", "TIME_OUT">>, <<"TIME_IN", "TIME_OUT">> }

\* Two punches that only scans made are in order, whatever was reviewed in
\* other columns of the row.
PairsInOrder ==
  \A k \in Keys, pair \in PunchPairs :
    \/ ReviewedPunch(k, pair[1]) \/ ReviewedPunch(k, pair[2])
    \/ InOrder(PunchAt(rows[k], pair[1]), PunchAt(rows[k], pair[2]))

\* What a scan under way has read still holds, but for punches made at this
\* very moment or put there by a review.
SeenIsCurrent ==
  \A s \in Scanners : scan[s].pc = "match" =>
    \A q \in Punches :
      \/ ReviewedPunch(scan[s].key, q)
      \/ PunchAt(rows[scan[s].key], q) \in {PunchAt(scan[s].seen, q), clock}

Ordered == Base /\ SeenIsCurrent /\ PairsInOrder

LEMMA PairsAreInOrder ==
  ASSUME Base, PairsInOrder PROVE PunchesInOrder
<1> SUFFICES ASSUME NEW k \in Keys, ~Reviewed(k)
             PROVE  /\ InOrder(rows[k].timeIn, rows[k].lunchOut)
                    /\ InOrder(rows[k].lunchOut, rows[k].lunchIn)
                    /\ InOrder(rows[k].lunchIn, rows[k].timeOut)
                    /\ InOrder(rows[k].timeIn, rows[k].timeOut)
  BY DEF PunchesInOrder
<1>1. \A p \in Punches : ~ReviewedPunch(k, p)
  BY ReviewedIs
<1>2. ASSUME NEW p \in Punches, NEW q \in Punches, <<p, q>> \in PunchPairs
      PROVE  InOrder(PunchAt(rows[k], p), PunchAt(rows[k], q))
  BY <1>1, <1>2 DEF PairsInOrder
<1>3. "TIME_IN" \in Punches /\ "LUNCH_OUT" \in Punches /\ "LUNCH_IN" \in Punches /\ "TIME_OUT" \in Punches
  BY DEF Punches
<1>4. InOrder(PunchAt(rows[k], "TIME_IN"), PunchAt(rows[k], "LUNCH_OUT"))
  BY <1>2, <1>3 DEF PunchPairs
<1>5. InOrder(PunchAt(rows[k], "LUNCH_OUT"), PunchAt(rows[k], "LUNCH_IN"))
  BY <1>2, <1>3 DEF PunchPairs
<1>6. InOrder(PunchAt(rows[k], "LUNCH_IN"), PunchAt(rows[k], "TIME_OUT"))
  BY <1>2, <1>3 DEF PunchPairs
<1>7. InOrder(PunchAt(rows[k], "TIME_IN"), PunchAt(rows[k], "TIME_OUT"))
  BY <1>2, <1>3 DEF PunchPairs
<1> QED BY <1>4, <1>5, <1>6, <1>7 DEF PunchAt

\* A step that leaves row k alone leaves its order.
LEMMA UntouchedPairs ==
  ASSUME LogsGrow, PairsInOrder, NEW k \in Keys, rows'[k] = rows[k]
  PROVE  \A pair \in PunchPairs :
           \/ ReviewedPunch(k, pair[1])' \/ ReviewedPunch(k, pair[2])'
           \/ InOrder(PunchAt(rows'[k], pair[1]), PunchAt(rows'[k], pair[2]))
<1>1. \A p : ReviewedPunch(k, p) => ReviewedPunch(k, p)'
  <2> SUFFICES ASSUME NEW p, ReviewedPunch(k, p) PROVE ReviewedPunch(k, p)'
    OBVIOUS
  <2>1. PunchAt(rows[k], p)' = PunchAt(rows[k], p)
    BY DEF PunchAt
  <2> QED BY <2>1, ReviewedPunchStays
<1> QED BY <1>1 DEF PairsInOrder

LEMMA PairsPrimed ==
  ASSUME \A k \in Keys, pair \in PunchPairs :
           \/ ReviewedPunch(k, pair[1])' \/ ReviewedPunch(k, pair[2])'
           \/ InOrder(PunchAt(rows'[k], pair[1]), PunchAt(rows'[k], pair[2]))
  PROVE  PairsInOrder'
<1>1. \A k \in Keys : \A p : PunchAt(rows[k], p)' = PunchAt(rows'[k], p)
  BY DEF PunchAt
<1> QED BY <1>1 DEF PairsInOrder, InOrder

LEMMA ScanKeepsPairs ==
  ASSUME Ordered, Base', LogsGrow, NEW s \in Scanners, ScanApproved(s)
  PROVE  PairsInOrder'
<1>1. PICK key \in Keys, seen \in Row, p \in Punches, w \in Row : ScanLeaves(s, key, seen, p, w)
  BY RowAfterScan DEF Ordered
<1>2. /\ scan[s].pc = "match" /\ Fits(seen, p)
      /\ key = scan[s].key /\ seen = scan[s].seen /\ p = scan[s].punch
      /\ clock # None
      /\ rows' = [rows EXCEPT ![key] = w]
      /\ \A q \in Punches \ {p} : PunchAt(w, q) = PunchAt(rows[key], q)
      /\ PunchAt(w, p) = clock
  BY <1>1 DEF ScanLeaves
<1>3. Typed /\ RowsFiled /\ clock \in Nat /\ SeenIsCurrent /\ PairsInOrder
  BY DEF Ordered, Base, Typed, Moments
<1>4. rows'[key] = w /\ \A k \in Keys \ {key} : rows'[k] = rows[k]
  BY <1>2, <1>3 DEF Typed
<1>5. \A q \in Punches \ {p} : ReviewedPunch(key, q) => ReviewedPunch(key, q)'
  <2> SUFFICES ASSUME NEW q \in Punches \ {p}, ReviewedPunch(key, q) PROVE ReviewedPunch(key, q)'
    OBVIOUS
  <2>1. PunchAt(rows[key], q)' = PunchAt(rows[key], q)
    BY <1>2, <1>4 DEF PunchAt
  <2> QED BY <2>1, ReviewedPunchStays
<1>6. \A q \in Punches : PunchAt(rows[key], q) \in Nat /\ PunchAt(rows[key], q) <= clock
  <2>1. rows[key] \in Row
    BY <1>3 DEF Typed
  <2>2. \A q \in Punches : PunchAt(rows[key], q) \in Moments \cup {None}
    BY <2>1 DEF PunchAt, Punches, Row
  <2> QED BY <1>3, <2>2 DEF RowsFiled, Moments, None
<1>7. ASSUME NEW pair \in PunchPairs
      PROVE  \/ ReviewedPunch(key, pair[1])' \/ ReviewedPunch(key, pair[2])'
             \/ InOrder(PunchAt(w, pair[1]), PunchAt(w, pair[2]))
  <2>1. pair[1] \in Punches /\ pair[2] \in Punches /\ pair[1] # pair[2]
    BY DEF PunchPairs, Punches
  <2>2. CASE p = pair[2]
    BY <1>2, <1>6, <2>1, <2>2 DEF InOrder
  <2>3. CASE p = pair[1]
    <3>1. PunchAt(seen, pair[2]) = None
      <4>1. CASE p = "TIME_IN"
        BY <1>2, <2>3, <4>1 DEF Fits, PunchPairs, PunchAt, NoRow
      <4>2. CASE p # "TIME_IN"
        BY <1>2, <2>3, <4>2 DEF Fits, PunchPairs, PunchAt
      <4> QED BY <4>1, <4>2
    <3>2. \/ ReviewedPunch(key, pair[2])
          \/ PunchAt(rows[key], pair[2]) \in {None, clock}
      BY <1>2, <1>3, <2>1, <3>1 DEF SeenIsCurrent
    <3>3. PunchAt(w, pair[2]) = PunchAt(rows[key], pair[2])
      BY <1>2, <2>1, <2>3
    <3> QED BY <1>2, <1>3, <1>5, <2>1, <2>3, <3>2, <3>3 DEF InOrder
  <2>4. CASE p # pair[1] /\ p # pair[2]
    BY <1>2, <1>3, <1>5, <2>1, <2>4 DEF PairsInOrder
  <2> QED BY <2>2, <2>3, <2>4
<1>8. \A k \in Keys, pair \in PunchPairs :
           \/ ReviewedPunch(k, pair[1])' \/ ReviewedPunch(k, pair[2])'
           \/ InOrder(PunchAt(rows'[k], pair[1]), PunchAt(rows'[k], pair[2]))
  BY <1>3, <1>4, <1>7, UntouchedPairs
<1> QED BY <1>8, PairsPrimed

LEMMA ReviewKeepsPairs ==
  ASSUME Ordered, LogsGrow, NEW r \in Reviewers, ReviewRecords(r)
  PROVE  PairsInOrder'
<1>1. PICK key \in Keys, p \in Punches, w \in Row, i \in DOMAIN logs : ReviewLeaves(i, key, p, w)
  BY RowAfterReview DEF Ordered
<1>2. /\ rows' = [rows EXCEPT ![key] = w]
      /\ \A q \in Punches \ {p} : PunchAt(w, q) = PunchAt(rows[key], q)
      /\ w = rows[key] \/ ReviewedPunch(key, p)'
  BY <1>1 DEF ReviewLeaves
<1>3. Typed /\ PairsInOrder
  BY DEF Ordered, Base
<1>4. rows'[key] = w /\ \A k \in Keys \ {key} : rows'[k] = rows[k]
  BY <1>2, <1>3 DEF Typed
<1>5. \A q \in Punches \ {p} : ReviewedPunch(key, q) => ReviewedPunch(key, q)'
  <2> SUFFICES ASSUME NEW q \in Punches \ {p}, ReviewedPunch(key, q) PROVE ReviewedPunch(key, q)'
    OBVIOUS
  <2>1. PunchAt(rows[key], q)' = PunchAt(rows[key], q)
    BY <1>2, <1>4 DEF PunchAt
  <2> QED BY <2>1, ReviewedPunchStays
<1>6. ASSUME NEW pair \in PunchPairs
      PROVE  \/ ReviewedPunch(key, pair[1])' \/ ReviewedPunch(key, pair[2])'
             \/ InOrder(PunchAt(rows'[key], pair[1]), PunchAt(rows'[key], pair[2]))
  <2>1. pair[1] \in Punches /\ pair[2] \in Punches
    BY DEF PunchPairs, Punches
  <2>2. CASE w = rows[key]
    BY <1>3, <1>4, <2>2, UntouchedPairs
  <2>3. CASE p = pair[1] \/ p = pair[2]
    BY <1>2, <1>3, <1>4, <2>2, <2>3
  <2>4. CASE p # pair[1] /\ p # pair[2]
    BY <1>2, <1>3, <1>4, <1>5, <2>1, <2>4 DEF PairsInOrder
  <2> QED BY <2>2, <2>3, <2>4
<1>7. \A k \in Keys, pair \in PunchPairs :
           \/ ReviewedPunch(k, pair[1])' \/ ReviewedPunch(k, pair[2])'
           \/ InOrder(PunchAt(rows'[k], pair[1]), PunchAt(rows'[k], pair[2]))
  BY <1>3, <1>4, <1>6, UntouchedPairs
<1> QED BY <1>7, PairsPrimed

\* The steps that neither begin a scan nor write a row.
LEMMA OtherSteps ==
  ASSUME Base, [Next]_vars
  PROVE  \/ \E s \in Scanners, area \in Areas : BeginScan(s, area)
         \/ \E s \in Scanners : ScanApproved(s)
         \/ \E r \in Reviewers : ReviewRecords(r)
         \/ /\ rows' = rows
            /\ \A o \in Scanners : scan'[o].pc = "match" => scan'[o] = scan[o] /\ clock' = clock
<1>1. scan \in [Scanners -> ScanForms]
  BY DEF Base, Typed
<1> DEFINE Quiet == /\ rows' = rows
                    /\ \A o \in Scanners : scan'[o].pc = "match" =>
                         scan'[o] = scan[o] /\ clock' = clock
<1>2. ASSUME UNCHANGED vars PROVE Quiet
  BY <1>2 DEF vars
<1>3. ASSUME NEW s \in Scanners, ScanFlagged(s) PROVE Quiet
  <2>1. /\ scan' = [scan EXCEPT ![s] = [pc |-> "supersede", log |-> Len(logs) + 1, day |-> scan[s].key.day]]
    BY <1>3, FlagIs
  <2> QED BY <1>1, <1>3, <2>1 DEF ScanFlagged
<1>4. ASSUME NEW s \in Scanners, ScanSupersedes(s) PROVE Quiet
  <2>1. scan' = [scan EXCEPT ![s] = [@ EXCEPT !.pc = "count"]]
        /\ scan'[s] \in [pc : {"count"}, log : LogIds, day : Days]
    BY <1>4, SupersedeIs
  <2> QED BY <1>1, <1>4, <2>1 DEF ScanSupersedes
<1>5. ASSUME NEW s \in Scanners, ScanReadsTally(s) PROVE Quiet
  BY <1>1, <1>5 DEF ScanReadsTally
<1>6. ASSUME NEW s \in Scanners, ScanCounts(s) \/ ScanEnds(s) PROVE Quiet
  <2>1. scan' = [scan EXCEPT ![s] = Idle] /\ UNCHANGED <<clock, rows>>
    BY <1>6 DEF ScanCounts, ScanEnds
  <2> QED BY <1>1, <2>1 DEF Idle
<1>7. ASSUME NEW r \in Reviewers,
             \/ \E i \in DOMAIN logs, decision \in Decisions : BeginReview(r, i, decision)
             \/ ReviewCloses(r) \/ ReviewFails(r)
      PROVE  Quiet
  BY <1>7 DEF BeginReview, ReviewCloses, ReviewFails
<1>8. ASSUME Tick PROVE Quiet
  BY <1>8 DEF Tick, Idle
<1> HIDE DEF Quiet
<1> SUFFICES ASSUME Next,
                    ~ \E s \in Scanners, area \in Areas : BeginScan(s, area),
                    ~ \E s \in Scanners : ScanApproved(s),
                    ~ \E r \in Reviewers : ReviewRecords(r)
             PROVE  Quiet
  BY <1>2 DEF Quiet
<1> QED BY <1>3, <1>4, <1>5, <1>6, <1>7, <1>8 DEF Next

LEMMA SeenStaysCurrent ==
  ASSUME Ordered, Base', LogsGrow, [Next]_vars
  PROVE  SeenIsCurrent'
<1>1. Base /\ Typed /\ SeenIsCurrent
  BY DEF Ordered, Base
<1>2. scan \in [Scanners -> ScanForms] /\ rows \in [Keys -> Row]
  BY <1>1 DEF Typed
<1>3. \A k \in Keys : \A q : PunchAt(rows[k], q)' = PunchAt(rows'[k], q)
  BY DEF PunchAt
<1>4. ASSUME NEW k \in Keys, NEW q \in Punches, PunchAt(rows'[k], q) = PunchAt(rows[k], q),
             ReviewedPunch(k, q)
      PROVE  ReviewedPunch(k, q)'
  BY <1>3, <1>4, ReviewedPunchStays
<1>5. ASSUME NEW o \in Scanners, scan[o].pc = "match"
      PROVE  /\ scan[o].key \in Keys
             /\ \A q \in Punches :
                 \/ ReviewedPunch(scan[o].key, q)
                 \/ PunchAt(rows[scan[o].key], q) \in {PunchAt(scan[o].seen, q), clock}
  <2>1. scan[o] \in [pc : {"match"}, key : Keys, seen : Row, punch : Punches, at : Moments]
    BY <1>2, <1>5 DEF ScanForms
  <2> QED BY <1>1, <1>5, <2>1 DEF SeenIsCurrent
\* A scan that is still under way, whose row changed in one punch.
<1>6. ASSUME NEW o \in Scanners, scan[o].pc = "match", scan'[o] = scan[o], clock' = clock,
             NEW k \in Keys, k = scan[o].key, NEW p \in Punches,
             \A q \in Punches \ {p} : PunchAt(rows'[k], q) = PunchAt(rows[k], q),
             \/ rows'[k] = rows[k] \/ PunchAt(rows'[k], p) = clock \/ ReviewedPunch(k, p)',
             NEW q \in Punches
      PROVE  \/ ReviewedPunch(k, q)'
             \/ PunchAt(rows'[k], q) \in {PunchAt(scan'[o].seen, q), clock'}
  <2>1. \/ ReviewedPunch(k, q)
        \/ PunchAt(rows[k], q) \in {PunchAt(scan[o].seen, q), clock}
    BY <1>5, <1>6
  <2>2. CASE PunchAt(rows'[k], q) = PunchAt(rows[k], q)
    BY <1>4, <1>6, <2>1, <2>2
  <2>3. CASE q = p /\ (PunchAt(rows'[k], p) = clock \/ ReviewedPunch(k, p)')
    BY <1>6, <2>3
  <2> QED BY <1>6, <2>2, <2>3
<1>7. ASSUME \A o \in Scanners : scan'[o].pc = "match" =>
               \E k \in Keys : /\ k = scan'[o].key
                               /\ \A q \in Punches :
                                    \/ ReviewedPunch(k, q)'
                                    \/ PunchAt(rows'[k], q) \in {PunchAt(scan'[o].seen, q), clock'}
      PROVE  SeenIsCurrent'
  <2> SUFFICES ASSUME NEW o \in Scanners, scan'[o].pc = "match", NEW q \in Punches
               PROVE  \/ ReviewedPunch(scan[o].key, q)'
                      \/ PunchAt(rows'[scan'[o].key], q) \in {PunchAt(scan'[o].seen, q), clock'}
    BY DEF SeenIsCurrent, PunchAt
  <2>1. PICK k \in Keys : /\ k = scan'[o].key
                          /\ \/ ReviewedPunch(k, q)'
                             \/ PunchAt(rows'[k], q) \in {PunchAt(scan'[o].seen, q), clock'}
    BY <1>7
  <2>2. ReviewedPunch(k, q)' => ReviewedPunch(scan[o].key, q)'
    BY <2>1 DEF ReviewedPunch
  <2> QED BY <2>1, <2>2
<1>8. CASE \E s \in Scanners, area \in Areas : BeginScan(s, area)
  <2>1. PICK s \in Scanners, area \in Areas : BeginScan(s, area)
    BY <1>8
  <2>2. PICK k \in Keys, p \in Punches :
           scan' = [scan EXCEPT ![s] =
                [pc |-> "match", key |-> k, seen |-> rows[k], punch |-> p, at |-> clock]]
    BY <1>1, <2>1, BeginScanIs
  <2>3. rows' = rows /\ clock' = clock
    BY <2>1 DEF BeginScan
  <2>4. ASSUME NEW o \in Scanners, scan'[o].pc = "match"
        PROVE  \E j \in Keys : /\ j = scan'[o].key
                               /\ \A q \in Punches :
                                    \/ ReviewedPunch(j, q)'
                                    \/ PunchAt(rows'[j], q) \in {PunchAt(scan'[o].seen, q), clock'}
    <3>1. CASE o = s
      <4>1. scan'[o].key = k /\ scan'[o].seen = rows[k]
        BY <1>2, <2>2, <3>1
      <4> QED BY <2>3, <4>1
    <3>2. CASE o # s
      <4>1. scan'[o] = scan[o] /\ scan[o].pc = "match"
        BY <1>2, <2>2, <2>4, <3>2
      <4>2. PICK j \in Keys : j = scan[o].key
        BY <1>5, <4>1
      <4> QED BY <1>6, <2>3, <4>1, <4>2
    <3> QED BY <3>1, <3>2
  <2> QED BY <1>7, <2>4
<1>9. CASE \E s \in Scanners : ScanApproved(s)
  <2>1. PICK s \in Scanners : ScanApproved(s)
    BY <1>9
  <2>2. PICK key \in Keys, seen \in Row, p \in Punches, w \in Row : ScanLeaves(s, key, seen, p, w)
    BY <1>1, <2>1, RowAfterScan
  <2>3. /\ rows'[key] = w /\ \A k \in Keys \ {key} : rows'[k] = rows[k]
        /\ \A q \in Punches \ {p} : PunchAt(w, q) = PunchAt(rows[key], q)
        /\ PunchAt(w, p) = clock
    BY <1>2, <2>2 DEF ScanLeaves
  <2>4. scan' = [scan EXCEPT ![s] = Idle] /\ clock' = clock
    BY <2>1 DEF ScanApproved
  <2>5. ASSUME NEW o \in Scanners, scan'[o].pc = "match"
        PROVE  \E j \in Keys : /\ j = scan'[o].key
                               /\ \A q \in Punches :
                                    \/ ReviewedPunch(j, q)'
                                    \/ PunchAt(rows'[j], q) \in {PunchAt(scan'[o].seen, q), clock'}
    <3>1. scan'[o] = scan[o] /\ scan[o].pc = "match"
      BY <1>2, <2>4, <2>5 DEF Idle
    <3>2. PICK j \in Keys : j = scan[o].key
      BY <1>5, <3>1
    <3>3. \A q \in Punches \ {p} : PunchAt(rows'[j], q) = PunchAt(rows[j], q)
      BY <2>3
    <3>4. rows'[j] = rows[j] \/ PunchAt(rows'[j], p) = clock
      BY <2>3
    <3> QED BY <1>6, <2>4, <3>1, <3>2, <3>3, <3>4
  <2> QED BY <1>7, <2>5
<1>10. CASE \E r \in Reviewers : ReviewRecords(r)
  <2>1. PICK r \in Reviewers : ReviewRecords(r)
    BY <1>10
  <2>2. PICK key \in Keys, p \in Punches, w \in Row, i \in DOMAIN logs : ReviewLeaves(i, key, p, w)
    BY <1>1, <2>1, RowAfterReview
  <2>3. /\ rows'[key] = w /\ \A k \in Keys \ {key} : rows'[k] = rows[k]
        /\ \A q \in Punches \ {p} : PunchAt(w, q) = PunchAt(rows[key], q)
        /\ w = rows[key] \/ ReviewedPunch(key, p)'
    BY <1>2, <2>2 DEF ReviewLeaves
  <2>4. scan' = scan /\ clock' = clock
    BY <2>1 DEF ReviewRecords
  <2>5. ASSUME NEW o \in Scanners, scan'[o].pc = "match"
        PROVE  \E j \in Keys : /\ j = scan'[o].key
                               /\ \A q \in Punches :
                                    \/ ReviewedPunch(j, q)'
                                    \/ PunchAt(rows'[j], q) \in {PunchAt(scan'[o].seen, q), clock'}
    <3>1. scan'[o] = scan[o] /\ scan[o].pc = "match"
      BY <2>4, <2>5
    <3>2. PICK j \in Keys : j = scan[o].key
      BY <1>5, <3>1
    <3>3. \A q \in Punches \ {p} : PunchAt(rows'[j], q) = PunchAt(rows[j], q)
      BY <2>3
    <3>4. rows'[j] = rows[j] \/ ReviewedPunch(j, p)'
      BY <2>3
    <3> QED BY <1>6, <2>4, <3>1, <3>2, <3>3, <3>4
  <2> QED BY <1>7, <2>5
<1>11. CASE /\ rows' = rows
            /\ \A o \in Scanners : scan'[o].pc = "match" => scan'[o] = scan[o] /\ clock' = clock
  <2>1. ASSUME NEW o \in Scanners, scan'[o].pc = "match"
        PROVE  \E j \in Keys : /\ j = scan'[o].key
                               /\ \A q \in Punches :
                                    \/ ReviewedPunch(j, q)'
                                    \/ PunchAt(rows'[j], q) \in {PunchAt(scan'[o].seen, q), clock'}
    <3>1. scan'[o] = scan[o] /\ scan[o].pc = "match" /\ clock' = clock
      BY <1>11, <2>1
    <3>2. PICK j \in Keys : j = scan[o].key
      BY <1>5, <3>1
    <3>3. "TIME_IN" \in Punches
      BY DEF Punches
    <3> QED BY <1>6, <1>11, <3>1, <3>2, <3>3
  <2> QED BY <1>7, <2>1
<1> QED BY <1>1, <1>8, <1>9, <1>10, <1>11, OtherSteps

LEMMA OrderStays == Ordered /\ [Next]_vars => Ordered'
<1> SUFFICES ASSUME Ordered, [Next]_vars PROVE Ordered'
  OBVIOUS
<1>1. Base /\ PairsInOrder
  BY DEF Ordered
<1>2. Base' /\ LogsGrow
  BY <1>1, BaseStays, LogsOnlyGrow
<1>3. SeenIsCurrent'
  BY <1>2, SeenStaysCurrent
<1>4. ASSUME rows' = rows PROVE PairsInOrder'
  <2>1. \A k \in Keys, pair \in PunchPairs :
           \/ ReviewedPunch(k, pair[1])' \/ ReviewedPunch(k, pair[2])'
           \/ InOrder(PunchAt(rows'[k], pair[1]), PunchAt(rows'[k], pair[2]))
    BY <1>1, <1>2, <1>4, UntouchedPairs
  <2> QED BY <2>1, PairsPrimed
<1>5. (\E s \in Scanners, area \in Areas : BeginScan(s, area)) => rows' = rows
  BY DEF BeginScan
<1>6. PairsInOrder'
  BY <1>1, <1>2, <1>4, <1>5, OtherSteps, ScanKeepsPairs, ReviewKeepsPairs
<1> QED BY <1>2, <1>3, <1>6 DEF Ordered

LEMMA OrderAtFirst == Init => Ordered
<1> SUFFICES ASSUME Init PROVE Ordered
  OBVIOUS
<1>1. Base
  BY BaseAtFirst
<1>2. \A s \in Scanners : scan[s].pc # "match"
  BY DEF Init, Idle
<1>3. \A k \in Keys, p \in Punches : PunchAt(rows[k], p) = None
  BY DEF Init, NoRow, PunchAt, Punches
<1>4. PairsInOrder
  BY <1>3 DEF PairsInOrder, PunchPairs, Punches, InOrder
<1> QED BY <1>1, <1>2, <1>4 DEF Ordered, SeenIsCurrent

LEMMA AlwaysOrdered == Spec => []Ordered
<1>1. Init => Ordered
  BY OrderAtFirst
<1>2. Ordered /\ [Next]_vars => Ordered'
  BY OrderStays
<1> QED BY <1>1, <1>2, PTL DEF Spec

\* However many scans and reviews are under way and in whatever order flagged
\* scans are validated, no attendance row is without a Time In
\* (upsertAttendanceRecord).
THEOREM NoRowWithoutTimeIn == Spec => []EveryRowHasTimeIn
<1>1. Ordered => EveryRowHasTimeIn
  BY DEF Ordered, Base, RowsWellMade, EveryRowHasTimeIn
<1> QED BY <1>1, AlwaysOrdered, PTL

\* The punches of a row no flagged scan was recorded in come in the order of
\* a working day, even when several scans overlap (submit).
THEOREM PunchesComeInOrder == Spec => []PunchesInOrder
<1>1. Ordered => PunchesInOrder
  BY PairsAreInOrder DEF Ordered
<1> QED BY <1>1, AlwaysOrdered, PTL

\* Every punch lies in the span of the working day it is filed under, for
\* every shift and however late it is validated
\* (resolveOfficeAttendanceDate, validateFlaggedLog).
THEOREM PunchesAreOfTheirDay == Spec => []PunchesBelongToTheirDay
<1>1. Ordered => PunchesBelongToTheirDay
  <2> SUFFICES ASSUME Ordered, NEW k \in Keys
               PROVE  /\ \A t \in {rows[k].timeIn, rows[k].lunchOut, rows[k].lunchIn, rows[k].timeOut} :
                           t # None => BelongsTo(k.day, t)
                      /\ rows[k].timeIn # None => rows[k].timeIn < EndOn(shift, k.day)
    BY DEF PunchesBelongToTheirDay
  <2>1. RowsFiled /\ rows[k] \in Row
    BY DEF Ordered, Base, Typed
  <2>2. \A p \in Punches : PunchAt(rows[k], p) \in Moments \cup {None}
    BY <2>1 DEF Row, PunchAt, Punches
  <2>3. \A p \in Punches : PunchAt(rows[k], p) # None => BelongsTo(k.day, PunchAt(rows[k], p))
    BY <2>1, <2>2 DEF RowsFiled
  <2>4. /\ PunchAt(rows[k], "TIME_IN") = rows[k].timeIn
        /\ PunchAt(rows[k], "LUNCH_OUT") = rows[k].lunchOut
        /\ PunchAt(rows[k], "LUNCH_IN") = rows[k].lunchIn
        /\ PunchAt(rows[k], "TIME_OUT") = rows[k].timeOut
    BY DEF PunchAt
  <2>5. /\ rows[k].timeIn # None => BelongsTo(k.day, rows[k].timeIn)
        /\ rows[k].lunchOut # None => BelongsTo(k.day, rows[k].lunchOut)
        /\ rows[k].lunchIn # None => BelongsTo(k.day, rows[k].lunchIn)
        /\ rows[k].timeOut # None => BelongsTo(k.day, rows[k].timeOut)
    BY <2>3, <2>4 DEF Punches
  <2> QED BY <2>1, <2>5 DEF RowsFiled
<1> QED BY <1>1, AlwaysOrdered, PTL

\* While a shift runs on a working day, the next scan is filed under it,
\* whatever was left open the day before and whatever the shift
\* (resolveOfficeAttendanceDate).
THEOREM ShiftKeepsItsScans == Spec => []ShiftTakesItsScans
<1>1. Ordered => ShiftTakesItsScans
  BY RunningShiftTakesScans DEF Ordered, Base, Typed
<1> QED BY <1>1, AlwaysOrdered, PTL

-----------------------------------------------------------------------------
(***************************************************************************)
(* 7. One scan at a time: the hold after repeated flagged scans.           *)
(***************************************************************************)
\* The employee's phone sends one scan and waits for its answer.
OneScanAtATime == \A s, o \in Scanners : s = o

\* A flagged scan that has not been counted yet.
Uncounted(s) == scan[s].pc \in {"supersede", "count", "tally"}

\* How many logs have been counted.
CountedLogs == IF \E s \in Scanners : Uncounted(s) THEN Len(logs) - 1 ELSE Len(logs)

\* The count read or stored is covered by the logs of its day, and covers
\* the unbroken run of that day's logs at the end, unless calls may fail.
CountIsRight(t, n) ==
  /\ t.count <= Cardinality({i \in LogsOf(t.day) : i <= n})
  /\ mode \notin FailingModes =>
       \A d \in Days, m \in 1..n :
         (\A i \in (n - m + 1)..n : logs[i].key.day = d) => t.day = d /\ t.count >= m

TallyIsRight == \A t, n : t = tally /\ n = CountedLogs => CountIsRight(t, n)

\* A scan that is being counted is the latest log.
LatestUnderWay ==
  \A s \in Scanners : Uncounted(s) =>
    /\ Len(logs) > 0 /\ scan[s].day = logs[Len(logs)].key.day
    /\ scan[s].pc # "tally" => scan[s].log = Len(logs)
    /\ scan[s].pc = "tally" =>
         \A t, n : t = scan[s].read /\ n = CountedLogs => CountIsRight(t, n)

\* A decided scan was captured before it was decided, and the latest one of a
\* day was not superseded.
ReviewsAreLater ==
  \A i \in DOMAIN logs :
    /\ logs[i].reviewedAfter <= Len(logs)
    /\ logs[i].reviewedAfter # None => logs[i].reviewedAfter >= i
    /\ Awaiting(i) \/ logs[i].reviewedAfter # None
         \/ \E j \in DOMAIN logs : j > i /\ logs[j].key.day = logs[i].key.day

\* No scan goes on while the attendance of its day is disabled.
NoScanWhileHeld ==
  \A s \in Scanners : scan[s].pc = "match" => \A d : d = scan[s].key.day => ~Held(d)

InHand ==
  /\ Base /\ TallyIsRight /\ LatestUnderWay
  /\ ReviewsAreLater /\ NoScanWhileHeld

LEMMA LogsAreFinite ==
  ASSUME Typed, NEW d
  PROVE  /\ LogsOf(d) \subseteq 1..Len(logs) /\ DOMAIN logs = 1..Len(logs) /\ Len(logs) \in Nat
         /\ IsFiniteSet(LogsOf(d)) /\ Cardinality(LogsOf(d)) <= Len(logs)
<1>1. DOMAIN logs = 1..Len(logs) /\ Len(logs) \in Nat
  BY DEF Typed
<1>2. LogsOf(d) \subseteq 1..Len(logs)
  BY <1>1 DEF LogsOf
<1>3. IsFiniteSet(1..Len(logs)) /\ Cardinality(1..Len(logs)) = Len(logs)
  <2>1. PICK n \in Nat : n = Len(logs)
    BY <1>1
  <2>2. IsFiniteSet(1..n) /\ Cardinality(1..n) = IF 1 > n THEN 0 ELSE n - 1 + 1
    BY FS_Interval
  <2> QED BY <2>1, <2>2
<1>4. IsFiniteSet(LogsOf(d)) /\ Cardinality(LogsOf(d)) <= Cardinality(1..Len(logs))
  BY <1>2, <1>3, FS_Subset
<1> QED BY <1>1, <1>2, <1>3, <1>4

LEMMA CountedLogsIs ==
  ASSUME Typed, LatestUnderWay
  PROVE  /\ CountedLogs \in 0..Len(logs)
         /\ (\A s \in Scanners : ~Uncounted(s)) => CountedLogs = Len(logs)
         /\ \A s \in Scanners : Uncounted(s) => CountedLogs = Len(logs) - 1
<1>1. Len(logs) \in Nat
  BY DEF Typed
<1> QED BY <1>1 DEF CountedLogs, LatestUnderWay

\* A count is not disturbed by what happens to later logs or to reviews.
LEMMA CountStaysRight ==
  ASSUME Typed, Typed', LogsGrow, UNCHANGED job,
         NEW n \in 0..Len(logs), NEW t \in [day : Days, count : Nat], CountIsRight(t, n)
  PROVE  CountIsRight(t, n)'
<1>1. DOMAIN logs = 1..Len(logs) /\ Len(logs) \in Nat /\ DOMAIN logs' = 1..Len(logs') /\ Len(logs') \in Nat
  BY DEF Typed
<1>2. Len(logs) <= Len(logs')
  <2> SUFFICES ASSUME Len(logs') < Len(logs) PROVE FALSE
    BY <1>1
  <2>1. Len(logs) \in DOMAIN logs
    BY <1>1
  <2>2. Len(logs) \in DOMAIN logs'
    BY <2>1 DEF LogsGrow
  <2> QED BY <1>1, <2>2
<1>3. \A i \in 1..n : i \in DOMAIN logs /\ i \in DOMAIN logs' /\ logs'[i].key = logs[i].key
  BY <1>1, <1>2 DEF LogsGrow
<1>4. {i \in LogsOf(t.day) : i <= n}' = {i \in LogsOf(t.day) : i <= n}
  <2>1. \A i : (i \in LogsOf(t.day)' /\ i <= n) <=> (i \in LogsOf(t.day) /\ i <= n)
    BY <1>1, <1>2, <1>3 DEF LogsOf
  <2> QED BY <2>1
<1>5. t.count <= Cardinality({i \in LogsOf(t.day) : i <= n}')
  BY <1>4 DEF CountIsRight
<1>6. mode' = mode
  BY DEF job
<1>7. ASSUME mode' \notin FailingModes, NEW d \in Days, NEW m \in 1..n,
             \A i \in (n - m + 1)..n : logs'[i].key.day = d
      PROVE  t.day = d /\ t.count >= m
  <2>1. \A i \in (n - m + 1)..n : i \in 1..n
    BY <1>1
  <2>2. \A i \in (n - m + 1)..n : logs[i].key.day = d
    BY <1>3, <1>7, <2>1
  <2> QED BY <1>6, <1>7, <2>2 DEF CountIsRight
<1> QED BY <1>5, <1>7 DEF CountIsRight

\* Counting the latest log.
LEMMA CountsOneMore ==
  ASSUME Typed, NEW n \in Nat, n + 1 = Len(logs),
         NEW read \in [day : Days, count : Nat], CountIsRight(read, n),
         NEW d \in Days, d = logs[Len(logs)].key.day,
         NEW t, t = Counted(d, read)
  PROVE  CountIsRight(t, n + 1)
<1>1. DOMAIN logs = 1..(n + 1)
  BY DEF Typed
<1>2. t.day = d /\ t.count = (IF read.day = d THEN read.count + 1 ELSE 1) /\ t.count \in Nat
  BY DEF Counted
<1> DEFINE Before == {i \in LogsOf(d) : i <= n}
           Now == {i \in LogsOf(d) : i <= n + 1}
<1>3. n + 1 \notin Before /\ Now = Before \cup {n + 1}
  <2>1. n + 1 \in LogsOf(d)
    BY <1>1 DEF LogsOf
  <2>2. LogsOf(d) \subseteq 1..(n + 1)
    BY <1>1 DEF LogsOf
  <2>3. \A i \in LogsOf(d) : i <= n \/ i = n + 1
    BY <2>2
  <2>4. ~(n + 1 <= n)
    OBVIOUS
  <2>5. \A i : i \in Now <=> i \in Before \/ i = n + 1
    BY <2>1, <2>2, <2>3
  <2> QED BY <2>4, <2>5
<1>4. IsFiniteSet(Before)
  <2>1. IsFiniteSet(LogsOf(d)) /\ Before \subseteq LogsOf(d)
    BY LogsAreFinite
  <2> QED BY <2>1, FS_Subset
<1>5. Cardinality(Now) = Cardinality(Before) + 1 /\ Cardinality(Before) \in Nat
  <2> HIDE DEF Before, Now
  <2>1. Cardinality(Before \cup {n + 1}) = Cardinality(Before) + 1
    BY <1>3, <1>4, FS_AddElement
  <2> QED BY <1>3, <1>4, <2>1, FS_CardinalityType
<1>6. read.day = d => read.count <= Cardinality(Before)
  BY DEF CountIsRight
<1>7. t.count <= Cardinality(Now)
  BY <1>2, <1>5, <1>6
<1>8. t.count <= Cardinality({i \in LogsOf(t.day) : i <= n + 1})
  BY <1>2, <1>7
<1>9. ASSUME mode \notin FailingModes, NEW e \in Days, NEW m \in 1..(n + 1),
             \A i \in ((n + 1) - m + 1)..(n + 1) : logs[i].key.day = e
      PROVE  t.day = e /\ t.count >= m
  <2>1. n + 1 \in ((n + 1) - m + 1)..(n + 1)
    OBVIOUS
  <2>2. e = d
    BY <1>9, <2>1
  <2>3. CASE m = 1
    BY <1>2, <2>2, <2>3
  <2>4. CASE m # 1
    <3>1. m - 1 \in 1..n
      BY <2>4
    <3>2. \A i \in (n - (m - 1) + 1)..n : i \in ((n + 1) - m + 1)..(n + 1)
      OBVIOUS
    <3>3. \A i \in (n - (m - 1) + 1)..n : logs[i].key.day = d
      BY <1>9, <2>2, <3>2
    <3>4. read.day = d /\ read.count >= m - 1
      BY <1>9, <3>1, <3>3 DEF CountIsRight
    <3> QED BY <1>2, <2>2, <3>4
  <2> QED BY <2>3, <2>4
<1> QED BY <1>8, <1>9 DEF CountIsRight

\* Whatever a scan leaves uncounted is still a log.
LEMMA CountWithoutCall ==
  ASSUME Typed, NEW n \in Nat, n + 1 = Len(logs), mode \in FailingModes,
         NEW t \in [day : Days, count : Nat], CountIsRight(t, n)
  PROVE  CountIsRight(t, n + 1)
<1> DEFINE Before == {i \in LogsOf(t.day) : i <= n}
           Now == {i \in LogsOf(t.day) : i <= n + 1}
<1>1. LogsOf(t.day) \subseteq 1..Len(logs)
  BY LogsAreFinite
<1>2. Before \subseteq Now
  BY <1>1
<1>3. IsFiniteSet(Now)
  <2>1. IsFiniteSet(LogsOf(t.day)) /\ Now \subseteq LogsOf(t.day)
    BY LogsAreFinite
  <2> QED BY <2>1, FS_Subset
<1>4. IsFiniteSet(Before) /\ Cardinality(Before) <= Cardinality(Now)
  BY <1>2, <1>3, FS_Subset
<1>5. Cardinality(Before) \in Nat /\ Cardinality(Now) \in Nat
  BY <1>3, <1>4, FS_CardinalityType
<1>6. t.count <= Cardinality(Before)
  BY DEF CountIsRight
<1>7. t.count <= Cardinality(Now)
  BY <1>4, <1>5, <1>6
<1> QED BY <1>7 DEF CountIsRight

\* Steps that leave scans alone: the counts stay right.
LEMMA CountsStayBesideReviews ==
  ASSUME InHand, Base', LogsGrow, UNCHANGED <<job, tally, scan>>, Len(logs') = Len(logs)
  PROVE  TallyIsRight' /\ LatestUnderWay'
<1>1. Typed /\ Typed' /\ TallyIsRight /\ LatestUnderWay
  BY DEF InHand, Base
<1>2. PICK n \in 0..Len(logs) : n = CountedLogs
  BY <1>1, CountedLogsIs
<1>3. CountedLogs' = n
  BY <1>2 DEF CountedLogs, Uncounted
<1>4. PICK t \in [day : Days, count : Nat] : t = tally
  BY <1>1 DEF Typed
<1>5. CountIsRight(t, n)'
  BY <1>1, <1>2, <1>4, CountStaysRight DEF TallyIsRight
<1>6. TallyIsRight'
  BY <1>3, <1>4, <1>5 DEF TallyIsRight
<1>7. ASSUME NEW s \in Scanners, Uncounted(s)
      PROVE  /\ Len(logs') > 0 /\ scan'[s].day = logs'[Len(logs')].key.day
             /\ scan'[s].pc # "tally" => scan'[s].log = Len(logs')
             /\ scan'[s].pc = "tally" => \A u, m : u = scan'[s].read /\ m = n => CountIsRight(u, m)'
  <2>1. /\ Len(logs) > 0 /\ scan[s].day = logs[Len(logs)].key.day
        /\ scan[s].pc # "tally" => scan[s].log = Len(logs)
        /\ scan[s].pc = "tally" => \A u, m : u = scan[s].read /\ m = CountedLogs => CountIsRight(u, m)
    BY <1>1, <1>7 DEF LatestUnderWay
  <2>2. Len(logs) \in DOMAIN logs
    BY <1>1, <2>1 DEF Typed
  <2>3. logs'[Len(logs')].key = logs[Len(logs)].key
    BY <2>2 DEF LogsGrow
  <2>4. ASSUME scan[s].pc = "tally" PROVE \A u, m : u = scan[s].read /\ m = n => CountIsRight(u, m)'
    <3>1. PICK u \in [day : Days, count : Nat] : u = scan[s].read
      BY <1>1, <2>4 DEF Typed, ScanForms
    <3>2. CountIsRight(u, n)
      BY <1>2, <2>1, <2>4, <3>1
    <3>3. CountIsRight(u, n)'
      BY <1>1, <3>2, CountStaysRight
    <3> QED BY <3>1, <3>3
  <2> QED BY <2>1, <2>3, <2>4
<1>8. LatestUnderWay'
  BY <1>3, <1>7 DEF LatestUnderWay, Uncounted
<1> QED BY <1>6, <1>8

LEMMA HoldStays ==
  ASSUME UNCHANGED <<logs, tally>>, NEW d PROVE Held(d)' <=> Held(d)
  BY DEF Held, AwaitingOf, LogsOf, Awaiting

LEMMA ReviewsStayLater ==
  ASSUME ReviewsAreLater, UNCHANGED logs PROVE ReviewsAreLater'
  BY DEF ReviewsAreLater, Awaiting

\* The greatest of a day's waiting logs.
LEMMA LatestAwaiting ==
  ASSUME NEW d
  PROVE  Typed /\ AwaitingOf(d) # {} =>
           /\ Max(AwaitingOf(d)) \in AwaitingOf(d) /\ Max(AwaitingOf(d)) \in 1..Len(logs)
           /\ \A i \in AwaitingOf(d) : i <= Max(AwaitingOf(d))
<1> SUFFICES ASSUME Typed, AwaitingOf(d) # {}
             PROVE  /\ Max(AwaitingOf(d)) \in AwaitingOf(d) /\ Max(AwaitingOf(d)) \in 1..Len(logs)
                    /\ \A i \in AwaitingOf(d) : i <= Max(AwaitingOf(d))
  OBVIOUS
<1>1. AwaitingOf(d) \subseteq 1..Len(logs) /\ Len(logs) \in Nat
  BY LogsAreFinite DEF AwaitingOf
<1>2. AwaitingOf(d) \subseteq Nat /\ \A i \in AwaitingOf(d) : i <= Len(logs)
  BY <1>1
<1> QED BY <1>1, <1>2, LastOf

\* A review never disables attendance.
LEMMA CloseDoesNotHold ==
  ASSUME Base, Typed', NEW r \in Reviewers, ReviewCloses(r), NEW d, Held(d)'
  PROVE  Held(d)
<1>1. Typed
  BY DEF Base
<1>2. PICK c \in DOMAIN logs : c = review[r].log
  BY CloseIs
<1>3. /\ LogsRewritten
      /\ \A i \in DOMAIN logs \ {c} : logs'[i] = logs[i]
      /\ logs'[c].status # "PENDING_REVIEW"
      /\ logs'[c].reviewedAfter = Len(logs)
  BY <1>2, CloseIs
<1>4. DOMAIN logs' = DOMAIN logs /\ Len(logs') = Len(logs) /\ Len(logs) \in Nat
      /\ \A i \in DOMAIN logs : logs'[i].key = logs[i].key
  BY <1>1, <1>3 DEF LogsRewritten, Typed
<1>5. LogsOf(d)' = LogsOf(d)
  BY <1>4 DEF LogsOf
<1>6. tally' = tally
  BY DEF ReviewCloses
<1>7. AwaitingOf(d)' \subseteq AwaitingOf(d) /\ c \notin AwaitingOf(d)'
  <2>1. \A i : i \in AwaitingOf(d)' => i # c /\ i \in AwaitingOf(d)
    <3> SUFFICES ASSUME NEW i, i \in AwaitingOf(d)' PROVE i # c /\ i \in AwaitingOf(d)
      OBVIOUS
    <3>1. i \in LogsOf(d) /\ Awaiting(i)'
      BY <1>5 DEF AwaitingOf
    <3>2. i # c /\ i \in DOMAIN logs
      BY <1>3, <3>1 DEF Awaiting, LogsOf
    <3>3. logs'[i] = logs[i]
      BY <1>3, <3>2
    <3> QED BY <3>1, <3>2, <3>3 DEF Awaiting, AwaitingOf
  <2> QED BY <2>1
<1>8. AwaitingOf(d)' # {} /\ tally.day = d /\ tally.count >= Threshold
      /\ \A i \in LogsOf(d) : logs'[i].reviewedAfter < Max(AwaitingOf(d)')
  BY <1>5, <1>6 DEF Held
<1>9. /\ Max(AwaitingOf(d)') \in AwaitingOf(d)' /\ Max(AwaitingOf(d)') \in 1..Len(logs)
  <2>1. AwaitingOf(d)' \subseteq 1..Len(logs) /\ Len(logs) \in Nat
    BY <1>1, <1>7, LogsAreFinite DEF AwaitingOf
  <2>2. AwaitingOf(d)' \subseteq Nat /\ \A i \in AwaitingOf(d)' : i <= Len(logs)
    BY <2>1
  <2> QED BY <1>8, <2>1, <2>2, LastOf
<1>10. c \notin LogsOf(d)
  <2> SUFFICES ASSUME c \in LogsOf(d) PROVE FALSE
    OBVIOUS
  <2>1. Len(logs) < Max(AwaitingOf(d)')
    BY <1>3, <1>8
  <2> QED BY <1>4, <1>9, <2>1
<1>11. AwaitingOf(d) # {} /\ Max(AwaitingOf(d)') <= Max(AwaitingOf(d)) /\ Max(AwaitingOf(d)) \in 1..Len(logs)
  BY <1>1, <1>7, <1>8, <1>9, LatestAwaiting
<1>12. \A i \in LogsOf(d) : logs[i].reviewedAfter < Max(AwaitingOf(d))
  <2> SUFFICES ASSUME NEW i \in LogsOf(d) PROVE logs[i].reviewedAfter < Max(AwaitingOf(d))
    OBVIOUS
  <2>1. i \in DOMAIN logs /\ logs[i] \in Log /\ i # c
    BY <1>1, <1>10 DEF LogsOf, Typed
  <2>2. logs[i].reviewedAfter \in Int
    BY <2>1 DEF Log
  <2>3. logs[i].reviewedAfter < Max(AwaitingOf(d)')
    BY <1>3, <1>8, <2>1
  <2> QED BY <1>4, <1>9, <1>11, <2>2, <2>3
<1> QED BY <1>8, <1>11, <1>12 DEF Held

LEMMA ReviewsKeepInHand ==
  ASSUME InHand, Base', LogsGrow, UNCHANGED job, NEW r \in Reviewers,
         \/ \E i \in DOMAIN logs, decision \in Decisions : BeginReview(r, i, decision)
         \/ ReviewRecords(r) \/ ReviewCloses(r) \/ ReviewFails(r)
  PROVE  InHand'
<1>1. Base /\ Typed /\ Typed' /\ ReviewsAreLater /\ NoScanWhileHeld
  BY DEF InHand, Base
<1>2. UNCHANGED <<tally, scan>>
  BY DEF BeginReview, ReviewRecords, ReviewCloses, ReviewFails
<1>3. CASE ReviewCloses(r)
  <2>1. PICK c \in DOMAIN logs : c = review[r].log
    BY <1>1, <1>3, CloseIs
  <2>2. /\ LogsRewritten
        /\ \A i \in DOMAIN logs \ {c} : logs'[i] = logs[i]
        /\ logs'[c].reviewedAfter = Len(logs)
    BY <1>1, <1>3, <2>1, CloseIs
  <2>3. DOMAIN logs' = DOMAIN logs /\ Len(logs') = Len(logs) /\ DOMAIN logs = 1..Len(logs)
        /\ Len(logs) \in Nat /\ \A i \in DOMAIN logs : logs'[i].key = logs[i].key
    BY <1>1, <2>2 DEF LogsRewritten, Typed
  <2>4. TallyIsRight' /\ LatestUnderWay'
    BY <1>2, <2>3, CountsStayBesideReviews
  <2>5. ReviewsAreLater'
    <3> SUFFICES ASSUME NEW i \in DOMAIN logs
                 PROVE  /\ logs'[i].reviewedAfter <= Len(logs')
                        /\ logs'[i].reviewedAfter # None => logs'[i].reviewedAfter >= i
                        /\ Awaiting(i)' \/ logs'[i].reviewedAfter # None
                             \/ \E j \in DOMAIN logs' : j > i /\ logs'[j].key.day = logs'[i].key.day
      BY <2>3 DEF ReviewsAreLater
    <3>1. CASE i = c
      BY <2>2, <2>3, <3>1 DEF None
    <3>2. CASE i # c
      <4>1. logs'[i] = logs[i] /\ (Awaiting(i) => Awaiting(i)')
        BY <2>2, <3>2 DEF Awaiting
      <4> QED BY <1>1, <2>3, <4>1 DEF ReviewsAreLater
    <3> QED BY <3>1, <3>2
  <2>6. NoScanWhileHeld'
    <3>1. \A d : Held(d)' => Held(d)
      BY <1>1, <1>3, CloseDoesNotHold
    <3> QED BY <1>1, <1>2, <3>1 DEF NoScanWhileHeld
  <2> QED BY <2>4, <2>5, <2>6 DEF InHand
<1>4. CASE ~ReviewCloses(r)
  <2>1. logs' = logs
    BY <1>4 DEF BeginReview, ReviewRecords, ReviewFails
  <2>2. TallyIsRight' /\ LatestUnderWay'
    BY <1>2, <2>1, CountsStayBesideReviews
  <2>3. ReviewsAreLater'
    BY <1>1, <2>1, ReviewsStayLater
  <2>4. NoScanWhileHeld'
    BY <1>1, <1>2, <2>1, HoldStays DEF NoScanWhileHeld
  <2> QED BY <2>2, <2>3, <2>4 DEF InHand
<1> QED BY <1>3, <1>4

LEMMA TickKeepsInHand ==
  ASSUME InHand, Base', LogsGrow, UNCHANGED job, UNCHANGED <<logs, tally, scan>>
  PROVE  InHand'
<1>1. TallyIsRight' /\ LatestUnderWay'
  BY CountsStayBesideReviews
<1>2. ReviewsAreLater'
  BY ReviewsStayLater DEF InHand
<1>3. NoScanWhileHeld'
  BY HoldStays DEF NoScanWhileHeld, InHand
<1> QED BY <1>1, <1>2, <1>3 DEF InHand

\* With one scan at a time, a step that leaves it with nothing uncounted, or
\* with nothing read yet, leaves only the tally to look after.
LEMMA ScanCountsStay ==
  ASSUME OneScanAtATime, InHand, Base', LogsGrow, UNCHANGED <<job, tally>>,
         NEW s \in Scanners, CountedLogs' = CountedLogs
  PROVE  TallyIsRight'
<1>1. Typed /\ Typed' /\ TallyIsRight /\ LatestUnderWay
  BY DEF InHand, Base
<1>2. PICK n \in 0..Len(logs) : n = CountedLogs
  BY <1>1, CountedLogsIs
<1>3. PICK t \in [day : Days, count : Nat] : t = tally
  BY <1>1 DEF Typed
<1>4. CountIsRight(t, n)'
  BY <1>1, <1>2, <1>3, CountStaysRight DEF TallyIsRight
<1> QED BY <1>2, <1>3, <1>4 DEF TallyIsRight

LEMMA BeginScanKeepsInHand ==
  ASSUME OneScanAtATime, InHand, Base', LogsGrow, UNCHANGED job,
         NEW s \in Scanners, NEW area \in Areas, BeginScan(s, area)
  PROVE  InHand'
<1>1. Base /\ Typed /\ ReviewsAreLater
  BY DEF InHand, Base
<1>2. PICK d \in Days, k \in Keys, p \in Punches :
           /\ k.day = d /\ MayScan(d) /\ scan[s].pc = "idle"
           /\ scan' = [scan EXCEPT ![s] =
                [pc |-> "match", key |-> k, seen |-> rows[k], punch |-> p, at |-> clock]]
  BY <1>1, BeginScanIs
<1>3. UNCHANGED <<logs, tally>>
  BY DEF BeginScan
<1>4. scan'[s] = [pc |-> "match", key |-> k, seen |-> rows[k], punch |-> p, at |-> clock]
  BY <1>1, <1>2 DEF Typed
<1>5. \A o \in Scanners : ~Uncounted(o) /\ ~Uncounted(o)'
  BY <1>2, <1>4 DEF OneScanAtATime, Uncounted
<1>6. CountedLogs' = CountedLogs
  BY <1>3, <1>5 DEF CountedLogs
<1>7. TallyIsRight'
  BY <1>3, <1>6, ScanCountsStay
<1>8. LatestUnderWay'
  BY <1>5 DEF LatestUnderWay
<1>9. ReviewsAreLater'
  BY <1>1, <1>3, ReviewsStayLater
<1>10. ~Held(d)'
  BY <1>2, <1>3, HoldStays DEF MayScan
<1>11. NoScanWhileHeld'
  <2> SUFFICES ASSUME NEW o \in Scanners, NEW e, e = scan'[o].key.day PROVE ~Held(e)'
    BY DEF NoScanWhileHeld
  <2>1. e = d
    BY <1>2, <1>4 DEF OneScanAtATime
  <2> QED BY <1>10, <2>1
<1> QED BY <1>7, <1>8, <1>9, <1>11 DEF InHand

LEMMA ScanFlaggedKeepsInHand ==
  ASSUME OneScanAtATime, InHand, Base', LogsGrow, UNCHANGED job,
         NEW s \in Scanners, ScanFlagged(s)
  PROVE  InHand'
<1>1. Base /\ Typed /\ Typed' /\ ReviewsAreLater /\ LatestUnderWay
  BY DEF InHand, Base
<1> DEFINE n == Len(logs)
<1>2. /\ scan[s] \in [pc : {"match"}, key : Keys, seen : Row, punch : Punches, at : Moments]
      /\ Len(logs') = n + 1
      /\ DOMAIN logs' = 1..(n + 1) /\ DOMAIN logs = 1..n /\ n \in Nat
      /\ \A i \in DOMAIN logs : logs'[i] = logs[i]
      /\ logs'[n + 1].key = scan[s].key
      /\ logs'[n + 1].status = "PENDING_REVIEW" /\ logs'[n + 1].linked = FALSE
      /\ logs'[n + 1].reviewedAfter = None
      /\ scan' = [scan EXCEPT ![s] = [pc |-> "supersede", log |-> n + 1, day |-> scan[s].key.day]]
  BY <1>1, FlagIs
<1>3. scan'[s] = [pc |-> "supersede", log |-> n + 1, day |-> scan[s].key.day]
  BY <1>1, <1>2 DEF Typed
<1>4. scan[s].pc = "match" /\ tally' = tally
  BY DEF ScanFlagged
<1>5. (\A o \in Scanners : ~Uncounted(o)) /\ Uncounted(s)'
  BY <1>3, <1>4 DEF OneScanAtATime, Uncounted
<1>6. CountedLogs = n /\ CountedLogs' = n
  <2>1. CountedLogs = Len(logs)
    BY <1>5 DEF CountedLogs
  <2>2. CountedLogs' = Len(logs') - 1
    BY <1>5 DEF CountedLogs
  <2> QED BY <1>2, <2>1, <2>2
<1>7. TallyIsRight'
  BY <1>4, <1>6, ScanCountsStay
<1>8. LatestUnderWay'
  <2> SUFFICES ASSUME NEW o \in Scanners
               PROVE  /\ Len(logs') > 0 /\ scan'[o].day = logs'[Len(logs')].key.day
                      /\ scan'[o].log = Len(logs') /\ scan'[o].pc # "tally"
    BY DEF LatestUnderWay
  <2>1. o = s
    BY DEF OneScanAtATime
  <2> QED BY <1>2, <1>3, <2>1
<1>9. ReviewsAreLater'
  <2> SUFFICES ASSUME NEW i \in DOMAIN logs'
               PROVE  /\ logs'[i].reviewedAfter <= Len(logs')
                      /\ logs'[i].reviewedAfter # None => logs'[i].reviewedAfter >= i
                      /\ Awaiting(i)' \/ logs'[i].reviewedAfter # None
                           \/ \E j \in DOMAIN logs' : j > i /\ logs'[j].key.day = logs'[i].key.day
    BY DEF ReviewsAreLater
  <2>1. CASE i = n + 1
    BY <1>2, <2>1 DEF Awaiting, None
  <2>2. CASE i # n + 1
    <3>1. i \in DOMAIN logs /\ logs'[i] = logs[i] /\ (Awaiting(i) => Awaiting(i)')
      BY <1>2, <2>2 DEF Awaiting
    <3>2. logs[i] \in Log
      BY <1>1, <3>1 DEF Typed
    <3>3. logs[i].reviewedAfter \in Int
      BY <3>2 DEF Log
    <3>4. \A j \in DOMAIN logs : j \in DOMAIN logs' /\ logs'[j] = logs[j]
      BY <1>2
    <3>5. logs[i].reviewedAfter <= n
      BY <1>1, <3>1 DEF ReviewsAreLater
    <3>6. logs[i].reviewedAfter <= n + 1
      BY <1>2, <3>3, <3>5
    <3> QED BY <1>1, <1>2, <3>1, <3>4, <3>6 DEF ReviewsAreLater
  <2> QED BY <2>1, <2>2
<1>10. NoScanWhileHeld'
  BY <1>3 DEF NoScanWhileHeld, OneScanAtATime
<1> QED BY <1>7, <1>8, <1>9, <1>10 DEF InHand

LEMMA SupersedeKeepsInHand ==
  ASSUME OneScanAtATime, InHand, Base', LogsGrow, UNCHANGED job,
         NEW s \in Scanners, ScanSupersedes(s)
  PROVE  InHand'
<1>1. Base /\ Typed /\ Typed' /\ ReviewsAreLater /\ LatestUnderWay
  BY DEF InHand, Base
<1>2. /\ LogsRewritten
      /\ \A i \in DOMAIN logs :
           logs'[i] = IF i \in SupersededBy(scan[s].log, scan[s].day)
                        THEN [logs[i] EXCEPT !.status = "ARCHIVED"] ELSE logs[i]
      /\ scan'[s] \in [pc : {"count"}, log : LogIds, day : Days]
      /\ scan'[s].log = scan[s].log /\ scan'[s].day = scan[s].day
  BY <1>1, SupersedeIs
<1>3. scan[s].pc = "supersede" /\ tally' = tally
  BY DEF ScanSupersedes
<1>4. DOMAIN logs' = DOMAIN logs /\ Len(logs') = Len(logs) /\ DOMAIN logs = 1..Len(logs)
      /\ Len(logs) \in Nat /\ \A i \in DOMAIN logs : logs'[i].key = logs[i].key
  BY <1>1, <1>2 DEF LogsRewritten, Typed
<1>5. Uncounted(s) /\ Uncounted(s)'
  BY <1>2, <1>3 DEF Uncounted
<1>6. CountedLogs' = CountedLogs
  BY <1>4, <1>5 DEF CountedLogs
<1>7. TallyIsRight'
  BY <1>3, <1>6, ScanCountsStay
<1>8. Len(logs) > 0 /\ scan[s].day = logs[Len(logs)].key.day /\ scan[s].log = Len(logs)
  BY <1>1, <1>3, <1>5 DEF LatestUnderWay
<1>9. LatestUnderWay'
  <2> SUFFICES ASSUME NEW o \in Scanners
               PROVE  /\ Len(logs') > 0 /\ scan'[o].day = logs'[Len(logs')].key.day
                      /\ scan'[o].log = Len(logs') /\ scan'[o].pc # "tally"
    BY DEF LatestUnderWay
  <2>1. o = s
    BY DEF OneScanAtATime
  <2> QED BY <1>2, <1>4, <1>8, <2>1
<1>10. ReviewsAreLater'
  <2> SUFFICES ASSUME NEW i \in DOMAIN logs
               PROVE  /\ logs'[i].reviewedAfter <= Len(logs')
                      /\ logs'[i].reviewedAfter # None => logs'[i].reviewedAfter >= i
                      /\ Awaiting(i)' \/ logs'[i].reviewedAfter # None
                           \/ \E j \in DOMAIN logs' : j > i /\ logs'[j].key.day = logs'[i].key.day
    BY <1>4 DEF ReviewsAreLater
  <2>1. logs[i] \in Log
    BY <1>1 DEF Typed
  <2>2. logs'[i].reviewedAfter = logs[i].reviewedAfter
    BY <1>2, <2>1 DEF Log
  <2>3. CASE i \in SupersededBy(scan[s].log, scan[s].day)
    <3>1. i # Len(logs) /\ logs[i].key.day = scan[s].day
      BY <1>8, <2>3 DEF SupersededBy, AwaitingOf, LogsOf
    <3>2. Len(logs) > i /\ Len(logs) \in DOMAIN logs'
      BY <1>4, <1>8, <3>1
    <3>3. logs'[Len(logs)].key.day = logs'[i].key.day
      BY <1>4, <1>8, <3>1, <3>2
    <3> QED BY <1>1, <1>4, <2>2, <3>2, <3>3 DEF ReviewsAreLater
  <2>4. CASE i \notin SupersededBy(scan[s].log, scan[s].day)
    <3>1. logs'[i] = logs[i] /\ (Awaiting(i) => Awaiting(i)')
      BY <1>2, <2>4 DEF Awaiting
    <3> QED BY <1>1, <1>4, <3>1 DEF ReviewsAreLater
  <2> QED BY <2>3, <2>4
<1>11. NoScanWhileHeld'
  BY <1>2 DEF NoScanWhileHeld, OneScanAtATime
<1> QED BY <1>7, <1>9, <1>10, <1>11 DEF InHand

LEMMA ReadsTallyKeepsInHand ==
  ASSUME OneScanAtATime, InHand, Base', LogsGrow, UNCHANGED job,
         NEW s \in Scanners, ScanReadsTally(s)
  PROVE  InHand'
<1>1. Base /\ Typed /\ Typed' /\ ReviewsAreLater /\ LatestUnderWay
  BY DEF InHand, Base
<1>2. /\ scan' = [scan EXCEPT ![s] = [pc |-> "tally", day |-> scan[s].day, read |-> tally]]
      /\ scan[s].pc = "count" /\ UNCHANGED <<logs, tally>>
  BY DEF ScanReadsTally
<1>3. scan'[s] = [pc |-> "tally", day |-> scan[s].day, read |-> tally]
  BY <1>1, <1>2 DEF Typed
<1>4. Uncounted(s) /\ Uncounted(s)'
  BY <1>2, <1>3 DEF Uncounted
<1>5. CountedLogs' = CountedLogs
  BY <1>2, <1>4 DEF CountedLogs
<1>6. TallyIsRight'
  BY <1>2, <1>5, ScanCountsStay
<1>7. Len(logs) > 0 /\ scan[s].day = logs[Len(logs)].key.day
  BY <1>1, <1>4 DEF LatestUnderWay
<1>8. LatestUnderWay'
  <2> SUFFICES ASSUME NEW o \in Scanners
               PROVE  /\ Len(logs') > 0 /\ scan'[o].day = logs'[Len(logs')].key.day
                      /\ scan'[o].pc = "tally"
                      /\ \A t, n : t = scan'[o].read /\ n = CountedLogs' => CountIsRight(t, n)'
    BY DEF LatestUnderWay
  <2>1. o = s
    BY DEF OneScanAtATime
  <2>2. scan'[o].read = tally'
    BY <1>2, <1>3, <2>1
  <2> QED BY <1>2, <1>3, <1>6, <1>7, <2>1, <2>2 DEF TallyIsRight
<1>9. ReviewsAreLater'
  BY <1>1, <1>2, ReviewsStayLater
<1>10. NoScanWhileHeld'
  BY <1>3 DEF NoScanWhileHeld, OneScanAtATime
<1> QED BY <1>6, <1>8, <1>9, <1>10 DEF InHand

\* Steps that end the scan.
LEMMA ScanEndKeepsInHand ==
  ASSUME OneScanAtATime, InHand, Base', LogsGrow, UNCHANGED job,
         NEW s \in Scanners, ScanApproved(s) \/ ScanCounts(s) \/ ScanEnds(s)
  PROVE  InHand'
<1>1. Base /\ Typed /\ Typed' /\ ReviewsAreLater /\ LatestUnderWay /\ TallyIsRight
  BY DEF InHand, Base
<1>2. scan' = [scan EXCEPT ![s] = Idle] /\ UNCHANGED logs
  BY DEF ScanApproved, ScanCounts, ScanEnds
<1>3. scan'[s].pc = "idle"
  BY <1>1, <1>2 DEF Typed, Idle
<1>4. \A o \in Scanners : scan'[o].pc = "idle" /\ ~Uncounted(o)'
  BY <1>3 DEF OneScanAtATime, Uncounted
<1>5. CountedLogs' = Len(logs) /\ Len(logs) \in Nat
  BY <1>1, <1>2, <1>4 DEF CountedLogs, Typed
<1>6. LatestUnderWay' /\ NoScanWhileHeld'
  BY <1>4 DEF LatestUnderWay, NoScanWhileHeld
<1>7. ReviewsAreLater'
  BY <1>1, <1>2, ReviewsStayLater
<1>8. ASSUME NEW t \in [day : Days, count : Nat], t = tally', CountIsRight(t, Len(logs))
      PROVE  TallyIsRight'
  <2>1. PICK n \in 0..Len(logs) : n = Len(logs)
    BY <1>5
  <2>2. CountIsRight(t, n)'
    BY <1>1, <1>8, <2>1, CountStaysRight
  <2> QED BY <1>5, <1>8, <2>1, <2>2 DEF TallyIsRight
<1>9. CASE Uncounted(s)
  <2>1. PICK n \in Nat : n + 1 = Len(logs) /\ n = CountedLogs
    BY <1>1, <1>5, <1>9, CountedLogsIs DEF LatestUnderWay
  <2>2. scan[s].day = logs[Len(logs)].key.day
    BY <1>1, <1>9 DEF LatestUnderWay
  <2>3. CASE ScanCounts(s)
    <3>1. scan[s].pc = "tally" /\ tally' = Counted(scan[s].day, scan[s].read)
      BY <2>3 DEF ScanCounts
    <3>2. PICK d \in Days, read \in [day : Days, count : Nat] : d = scan[s].day /\ read = scan[s].read
      BY <1>1, <3>1 DEF Typed, ScanForms
    <3>3. CountIsRight(read, n)
      BY <1>1, <1>9, <2>1, <3>1, <3>2 DEF LatestUnderWay
    <3>4. PICK t : t = Counted(d, read)
      OBVIOUS
    <3>5. CountIsRight(t, n + 1)
      BY <1>1, <2>1, <2>2, <3>2, <3>3, <3>4, CountsOneMore
    <3>6. t \in [day : Days, count : Nat] /\ t = tally'
      BY <3>1, <3>2, <3>4 DEF Counted
    <3>7. CountIsRight(t, Len(logs))
      BY <2>1, <3>5
    <3>8. TallyIsRight'
      BY <1>8, <3>6, <3>7
    <3> QED BY <1>6, <1>7, <3>8 DEF InHand
  <2>4. CASE ScanEnds(s)
    <3>1. mode \in FailingModes /\ tally' = tally
      BY <1>9, <2>4 DEF ScanEnds, Uncounted
    <3>2. PICK t \in [day : Days, count : Nat] : t = tally
      BY <1>1 DEF Typed
    <3>3. CountIsRight(t, n)
      BY <1>1, <2>1, <3>2 DEF TallyIsRight
    <3>4. CountIsRight(t, n + 1)
      BY <1>1, <2>1, <3>1, <3>3, CountWithoutCall
    <3>5. CountIsRight(t, Len(logs))
      BY <2>1, <3>4
    <3>6. TallyIsRight'
      BY <1>8, <3>1, <3>2, <3>5
    <3> QED BY <1>6, <1>7, <3>6 DEF InHand
  <2>5. ~ScanApproved(s)
    BY <1>9 DEF ScanApproved, Uncounted
  <2> QED BY <2>3, <2>4, <2>5
<1>10. CASE ~Uncounted(s)
  <2>1. tally' = tally
    BY <1>10 DEF ScanApproved, ScanCounts, ScanEnds, Uncounted
  <2>2. \A o \in Scanners : ~Uncounted(o)
    BY <1>10 DEF OneScanAtATime
  <2>3. CountedLogs' = CountedLogs
    BY <1>5, <2>2 DEF CountedLogs
  <2>4. TallyIsRight'
    BY <2>1, <2>3, ScanCountsStay
  <2> QED BY <1>6, <1>7, <2>4 DEF InHand
<1> QED BY <1>9, <1>10

LEMMA InHandStays ==
  ASSUME OneScanAtATime PROVE InHand /\ [Next]_vars => InHand'
<1> SUFFICES ASSUME InHand, [Next]_vars PROVE InHand'
  OBVIOUS
<1>1. Base
  BY DEF InHand
<1>2. Base' /\ LogsGrow /\ UNCHANGED job
  BY <1>1, BaseStays, LogsOnlyGrow
<1>3. CASE UNCHANGED <<logs, tally, scan>>
  BY <1>2, <1>3, TickKeepsInHand
<1>4. ASSUME NEW s \in Scanners,
             \/ \E area \in Areas : BeginScan(s, area)
             \/ ScanApproved(s) \/ ScanFlagged(s) \/ ScanSupersedes(s)
             \/ ScanReadsTally(s) \/ ScanCounts(s) \/ ScanEnds(s)
      PROVE  InHand'
  BY <1>2, <1>4, BeginScanKeepsInHand, ScanFlaggedKeepsInHand, SupersedeKeepsInHand,
     ReadsTallyKeepsInHand, ScanEndKeepsInHand
<1>5. ASSUME NEW r \in Reviewers,
             \/ \E i \in DOMAIN logs, decision \in Decisions : BeginReview(r, i, decision)
             \/ ReviewRecords(r) \/ ReviewCloses(r) \/ ReviewFails(r)
      PROVE  InHand'
  BY <1>2, <1>5, ReviewsKeepInHand
<1>6. UNCHANGED vars => UNCHANGED <<logs, tally, scan>>
  BY DEF vars
<1>7. Tick => UNCHANGED <<logs, tally, scan>>
  BY DEF Tick
<1> QED BY <1>3, <1>4, <1>5, <1>6, <1>7 DEF Next

LEMMA InHandAtFirst == Init => InHand
<1> SUFFICES ASSUME Init PROVE InHand
  OBVIOUS
<1>1. Base
  BY BaseAtFirst
<1>2. logs = <<>> /\ Len(logs) = 0 /\ DOMAIN logs = {} /\ tally = [day |-> 0, count |-> 0]
  BY DEF Init
<1>3. \A s \in Scanners : scan[s].pc = "idle" /\ ~Uncounted(s)
  BY DEF Init, Idle, Uncounted
<1>4. CountedLogs = 0
  BY <1>2, <1>3 DEF CountedLogs
<1>5. TallyIsRight
  <2>1. \A d : LogsOf(d) = {}
    BY <1>2 DEF LogsOf
  <2>2. \A d : {i \in LogsOf(d) : i <= 0} = {}
    BY <2>1
  <2>3. Cardinality({}) = 0
    BY FS_EmptySet
  <2>4. PICK t : t = tally /\ t.day = 0 /\ t.count = 0
    BY <1>2
  <2>5. t.count <= Cardinality({i \in LogsOf(t.day) : i <= 0})
    BY <2>2, <2>3, <2>4
  <2>6. 1..0 = {}
    OBVIOUS
  <2>7. CountIsRight(t, 0)
    BY <2>5, <2>6 DEF CountIsRight
  <2> QED BY <1>4, <2>4, <2>7 DEF TallyIsRight
<1>6. LatestUnderWay /\ ReviewsAreLater /\ NoScanWhileHeld
  BY <1>2, <1>3 DEF LatestUnderWay, ReviewsAreLater, NoScanWhileHeld
<1> QED BY <1>1, <1>5, <1>6 DEF InHand

LEMMA AlwaysInHand == ASSUME OneScanAtATime PROVE Spec => []InHand
<1>1. Init => InHand
  BY InHandAtFirst
<1>2. InHand /\ [Next]_vars => InHand'
  BY InHandStays
<1> QED BY <1>1, <1>2, PTL DEF Spec

\* The latest log of a day.
LEMMA LatestLog ==
  ASSUME Typed, NEW d, LogsOf(d) # {}
  PROVE  /\ Max(LogsOf(d)) \in LogsOf(d) /\ Max(LogsOf(d)) \in 1..Len(logs)
         /\ \A i \in LogsOf(d) : i <= Max(LogsOf(d))
<1>1. LogsOf(d) \subseteq 1..Len(logs) /\ Len(logs) \in Nat
  BY LogsAreFinite
<1>2. LogsOf(d) \subseteq Nat /\ \A i \in LogsOf(d) : i <= Len(logs)
  BY <1>1
<1> QED BY <1>1, <1>2, LastOf

LEMMA LatestIsKept == ASSUME Typed, ReviewsAreLater PROVE LatestFlagIsKept
<1> SUFFICES ASSUME NEW d \in Days, LogsOf(d) # {}
             PROVE  Awaiting(Max(LogsOf(d))) \/ logs[Max(LogsOf(d))].reviewedAfter # None
  BY DEF LatestFlagIsKept
<1>1. PICK i : i = Max(LogsOf(d))
  OBVIOUS
<1>2. i \in LogsOf(d) /\ i \in Int /\ \A j \in LogsOf(d) : j <= i
  BY <1>1, LatestLog
<1>3. i \in DOMAIN logs /\ logs[i].key.day = d
  BY <1>2 DEF LogsOf
<1>4. ~ \E j \in DOMAIN logs : j > i /\ logs[j].key.day = logs[i].key.day
  <2> SUFFICES ASSUME NEW j \in DOMAIN logs, j > i, logs[j].key.day = d PROVE FALSE
    BY <1>3
  <2>1. j \in LogsOf(d) /\ DOMAIN logs = 1..Len(logs)
    BY LogsAreFinite DEF LogsOf
  <2>2. j \in Int
    BY <2>1
  <2> QED BY <1>2, <2>1, <2>2
<1>5. Awaiting(i) \/ logs[i].reviewedAfter # None
  BY <1>3, <1>4 DEF ReviewsAreLater
<1> QED BY <1>1, <1>5

\* A day's latest log is waiting if nothing of the day was decided after a
\* log that waits.
LEMMA LatestWaits ==
  ASSUME Typed, ReviewsAreLater, NEW d \in Days, NEW a \in LogsOf(d),
         \A i \in LogsOf(d) : logs[i].reviewedAfter < a
  PROVE  Awaiting(Max(LogsOf(d)))
<1>1. LatestFlagIsKept
  BY LatestIsKept
<1>2. PICK i : i = Max(LogsOf(d))
  OBVIOUS
<1>3. i \in LogsOf(d) /\ i \in 1..Len(logs) /\ a \in Int /\ a <= i
  BY <1>2, LatestLog, LogsAreFinite
<1>4. logs[i] \in Log /\ i \in DOMAIN logs
  BY <1>3 DEF LogsOf, Typed
<1>5. logs[i].reviewedAfter \in Int
  BY <1>4 DEF Log
<1>6. logs[i].reviewedAfter # None => logs[i].reviewedAfter >= i
  BY <1>4 DEF ReviewsAreLater
<1>7. logs[i].reviewedAfter = None
  BY <1>3, <1>5, <1>6
<1> QED BY <1>1, <1>2, <1>3, <1>7 DEF LatestFlagIsKept

LEMMA EarnedHold == ASSUME InHand PROVE HoldIsEarned
<1>1. Typed /\ ReviewsAreLater /\ LatestUnderWay /\ TallyIsRight
  BY DEF InHand, Base
<1> SUFFICES ASSUME NEW d \in Days, Held(d)
             PROVE  Cardinality(LogsOf(d)) >= Threshold /\ Awaiting(Max(LogsOf(d)))
  BY DEF HoldIsEarned
<1>2. PICK n \in 0..Len(logs) : n = CountedLogs
  BY <1>1, CountedLogsIs
<1>3. tally.day = d /\ tally.count >= Threshold /\ AwaitingOf(d) # {}
      /\ \A i \in LogsOf(d) : logs[i].reviewedAfter < Max(AwaitingOf(d))
  BY DEF Held
<1>4. PICK t \in [day : Days, count : Nat] : t = tally
  BY <1>1 DEF Typed
<1> DEFINE Counted0 == {i \in LogsOf(d) : i <= n}
<1>5. t.count <= Cardinality(Counted0) /\ t.count >= Threshold
  <2>1. CountIsRight(t, n)
    BY <1>1, <1>2, <1>4 DEF TallyIsRight
  <2> QED BY <1>3, <1>4, <2>1 DEF CountIsRight
<1>6. IsFiniteSet(LogsOf(d)) /\ Counted0 \subseteq LogsOf(d)
  BY <1>1, LogsAreFinite
<1> HIDE DEF Counted0
<1>7. Cardinality(Counted0) <= Cardinality(LogsOf(d)) /\ IsFiniteSet(Counted0)
  BY <1>6, FS_Subset
<1>8. Cardinality(Counted0) \in Nat /\ Cardinality(LogsOf(d)) \in Nat /\ Threshold \in Nat
  BY <1>6, <1>7, FS_CardinalityType, DayAssumption
<1>9. Cardinality(LogsOf(d)) >= Threshold
  BY <1>4, <1>5, <1>7, <1>8
<1>10. PICK a : a = Max(AwaitingOf(d))
  OBVIOUS
<1>11. a \in LogsOf(d)
  BY <1>1, <1>3, <1>10, LatestAwaiting DEF AwaitingOf
<1>12. Awaiting(Max(LogsOf(d)))
  BY <1>1, <1>3, <1>10, <1>11, LatestWaits
<1> QED BY <1>9, <1>12

LEMMA StreakHolds == ASSUME InHand PROVE StreakDisables
<1>1. Typed /\ ReviewsAreLater /\ LatestUnderWay /\ TallyIsRight
  BY DEF InHand, Base
<1> SUFFICES ASSUME NEW d \in Days, mode \notin FailingModes, \A s \in Scanners : scan[s] = Idle,
                    Len(logs) >= Threshold,
                    \A i \in (Len(logs) - Threshold + 1)..Len(logs) : logs[i].key.day = d,
                    \A i \in LogsOf(d) : logs[i].reviewedAfter < Len(logs)
             PROVE  Held(d)
  BY DEF StreakDisables
<1>2. PICK n \in Nat : n = Len(logs)
  BY <1>1 DEF Typed
<1>3. CountedLogs = n
  BY <1>1, <1>2, CountedLogsIs DEF Uncounted, Idle
<1>4. PICK t \in [day : Days, count : Nat] : t = tally
  BY <1>1 DEF Typed
<1>5. CountIsRight(t, n)
  BY <1>1, <1>3, <1>4 DEF TallyIsRight
<1>6. Threshold \in 1..n
  BY <1>2, DayAssumption
<1>7. t.day = d /\ t.count >= Threshold
  BY <1>2, <1>5, <1>6 DEF CountIsRight
<1>8. n \in LogsOf(d)
  <2>1. n \in (n - Threshold + 1)..n
    BY <1>6
  <2>2. n \in DOMAIN logs
    BY <1>1, <1>2, <1>6 DEF Typed
  <2> QED BY <1>2, <2>1, <2>2 DEF LogsOf
<1>9. Max(LogsOf(d)) = n
  BY <1>1, <1>2, <1>8, LatestLog
<1>10. n \in AwaitingOf(d)
  <2>1. Awaiting(Max(LogsOf(d)))
    BY <1>1, <1>2, <1>8, LatestWaits
  <2> QED BY <1>8, <1>9, <2>1 DEF AwaitingOf
<1>11. Max(AwaitingOf(d)) = n
  BY <1>1, <1>2, <1>10, LatestAwaiting
<1> QED BY <1>2, <1>4, <1>7, <1>10, <1>11 DEF Held

\* With one scan at a time and any number of reviews, the latest flagged scan
\* of a day stays in the review queue until somebody decides it (submit).
THEOREM LatestFlagWaits == ASSUME OneScanAtATime PROVE Spec => []LatestFlagIsKept
<1>1. InHand => LatestFlagIsKept
  BY LatestIsKept DEF InHand, Base
<1> QED BY <1>1, AlwaysInHand, PTL

\* Attendance is disabled only after Threshold flagged scans of the day, the
\* latest of them undecided (recordFlaggedAttempt).
THEOREM HoldsAreEarned == ASSUME OneScanAtATime PROVE Spec => []HoldIsEarned
<1>1. InHand => HoldIsEarned
  BY EarnedHold
<1> QED BY <1>1, AlwaysInHand, PTL

\* Threshold flagged scans in a row disable attendance, and no superseding,
\* counting or late review of earlier ones lifts the hold
\* (getFlaggedAttemptHoldMessage).
THEOREM StreaksDisable == ASSUME OneScanAtATime PROVE Spec => []StreakDisables
<1>1. InHand => StreakDisables
  BY StreakHolds
<1> QED BY <1>1, AlwaysInHand, PTL

\* While attendance is disabled, only a review changes the day's rows
\* (submit, validateFlaggedLog).
THEOREM HeldDaysChangeByReview == ASSUME OneScanAtATime PROVE Spec => OnlyReviewsWhileHeld
<1>1. ASSUME InHand, [Next]_vars
      PROVE  [ \A k \in Keys : rows'[k] # rows[k] /\ Held(k.day) =>
                 \E r \in Reviewers : review[r].pc = "record" /\ review'[r].pc = "close" ]_vars
  <2> SUFFICES ASSUME NEW k \in Keys, rows'[k] # rows[k], Held(k.day)
               PROVE  \E r \in Reviewers : review[r].pc = "record" /\ review'[r].pc = "close"
    OBVIOUS
  <2>1. Base /\ Typed /\ NoScanWhileHeld
    BY <1>1 DEF InHand, Base
  <2>2. ~ \E s \in Scanners, area \in Areas : BeginScan(s, area)
    BY DEF BeginScan
  <2>3. ASSUME NEW s \in Scanners, ScanApproved(s) PROVE FALSE
    <3>1. PICK key \in Keys, seen \in Row, p \in Punches, w \in Row : ScanLeaves(s, key, seen, p, w)
      BY <2>1, <2>3, RowAfterScan
    <3>2. scan[s].pc = "match" /\ key = scan[s].key /\ rows' = [rows EXCEPT ![key] = w]
      BY <3>1 DEF ScanLeaves
    <3>3. k = key
      BY <2>1, <3>2 DEF Typed
    <3> QED BY <2>1, <3>2, <3>3 DEF NoScanWhileHeld
  <2>4. PICK r \in Reviewers : ReviewRecords(r)
    BY <1>1, <2>1, <2>2, <2>3, OtherSteps
  <2>5. review[r].pc = "record" /\ review'[r].pc = "close"
    <3>1. review[r].pc = "record" /\ review' = [review EXCEPT ![r] = [@ EXCEPT !.pc = "close"]]
      BY <2>4 DEF ReviewRecords
    <3>2. review[r] \in [pc : {"record", "close"}, log : LogIds, decision : Decisions, seen : Row]
      BY <2>1, <3>1 DEF Typed, ReviewState
    <3> QED BY <2>1, <3>1, <3>2 DEF Typed
  <2> QED BY <2>5
<1> QED BY <1>1, AlwaysInHand, PTL DEF Spec, OnlyReviewsWhileHeld

LEMMA CountsAreBounded ==
  ASSUME Typed, LatestUnderWay, NEW n, n = CountedLogs,
         NEW t \in [day : Days, count : Nat], CountIsRight(t, n)
  PROVE  t \in [day : Days, count : 0..MaxFlags]
<1> DEFINE S == {i \in LogsOf(t.day) : i <= n}
<1>1. t.count <= Cardinality(S)
  BY DEF CountIsRight
<1>2. IsFiniteSet(LogsOf(t.day)) /\ Cardinality(LogsOf(t.day)) <= Len(logs) /\ S \subseteq LogsOf(t.day)
      /\ Len(logs) \in Nat
  BY LogsAreFinite
<1> HIDE DEF S
<1>3. IsFiniteSet(S) /\ Cardinality(S) <= Cardinality(LogsOf(t.day))
  BY <1>2, FS_Subset
<1>4. Cardinality(S) \in Nat /\ Cardinality(LogsOf(t.day)) \in Nat
  BY <1>2, <1>3, FS_CardinalityType
<1>5. Len(logs) <= MaxFlags /\ MaxFlags \in Nat
  BY DayAssumption DEF Typed
<1>6. t.count \in 0..MaxFlags
  BY <1>1, <1>2, <1>3, <1>4, <1>5
<1> QED BY <1>6

\* Every row, log and call under way is well formed; a count never exceeds
\* the number of flagged scans.
THEOREM DayTypeOK == ASSUME OneScanAtATime PROVE Spec => []TypeOK
<1>1. InHand => TypeOK
  <2> SUFFICES ASSUME InHand PROVE TypeOK
    OBVIOUS
  <2>1. Typed /\ TallyIsRight /\ LatestUnderWay
    BY DEF InHand, Base
  <2>2. tally \in [day : Days, count : 0..MaxFlags]
    <3>1. PICK t, n : t \in [day : Days, count : Nat] /\ t = tally /\ n = CountedLogs
      BY <2>1 DEF Typed
    <3> QED BY <2>1, <3>1, CountsAreBounded DEF TallyIsRight
  <2>3. scan \in [Scanners -> ScanState]
    <3> SUFFICES ASSUME NEW s \in Scanners PROVE scan[s] \in ScanState
      BY <2>1 DEF Typed
    <3>1. scan[s] \in ScanForms
      BY <2>1 DEF Typed
    <3>2. CASE scan[s] \in [pc : {"tally"}, day : Days, read : [day : Days, count : Nat]]
      <4>1. scan[s].pc = "tally" /\ Uncounted(s)
        BY <3>2 DEF Uncounted
      <4>2. PICK t, n : t \in [day : Days, count : Nat] /\ t = scan[s].read /\ n = CountedLogs
        BY <3>2
      <4>3. t \in [day : Days, count : 0..MaxFlags]
        BY <2>1, <4>1, <4>2, CountsAreBounded DEF LatestUnderWay
      <4> QED BY <3>2, <4>2, <4>3 DEF ScanState
    <3> QED BY <3>1, <3>2 DEF ScanForms, ScanState
  <2> QED BY <2>1, <2>2, <2>3 DEF TypeOK, Typed, JobOK
<1> QED BY <1>1, AlwaysInHand, PTL

-----------------------------------------------------------------------------
(***************************************************************************)
(* 8. One scan at a time: the hours of a row.                              *)
(***************************************************************************)
RowsRendered ==
  \A k \in Keys : rows[k].timeIn # None =>
    \E t \in Moments, n \in Nat :
      t = rows[k].timeIn /\ n = rows[k].rendered /\ n = RenderedAt(k.day, t)

\* What the scan under way has read still holds, but for reviewed punches.
SeenHolds ==
  \A s \in Scanners : scan[s].pc = "match" =>
    /\ \A q \in Punches :
         \/ ReviewedPunch(scan[s].key, q)
         \/ PunchAt(rows[scan[s].key], q) = PunchAt(scan[s].seen, q)
    /\ scan[s].seen.timeIn # None =>
         \E d \in Days, t \in Moments, n \in Nat :
           /\ d = scan[s].key.day /\ t = scan[s].seen.timeIn /\ n = scan[s].seen.rendered
           /\ n = RenderedAt(d, t)

HoursAre(k, r) == r.worked = Worked(k.day, r, r.timeOut)

HoursKept ==
  \A k \in Keys, r \in Row :
    r = rows[k] /\ r.timeOut # None /\ (\A q \in Punches : ~ReviewedPunch(k, q)) => HoursAre(k, r)

HoursInv == Ordered /\ RowsRendered /\ SeenHolds /\ HoursKept

LEMMA ArithmeticStays ==
  ASSUME UNCHANGED job
  PROVE  /\ \A d, t : RenderedAt(d, t)' = RenderedAt(d, t)
         /\ \A k, r : HoursAre(k, r)' <=> HoursAre(k, r)
<1>1. shift' = shift /\ mode' = mode
  BY DEF job
<1>2. \A d, t : RenderedAt(d, t)' = RenderedAt(d, t)
  BY <1>1 DEF RenderedAt
<1>3. ASSUME NEW k, NEW r PROVE HoursAre(k, r)' <=> HoursAre(k, r)
  BY <1>1 DEF HoursAre, Worked, WorkStart
<1> QED BY <1>2, <1>3

LEMMA HoursFollow == ASSUME HoursInv PROVE HoursFollowPunches
<1>1. Base /\ Typed /\ PunchesInOrder /\ RowsWellMade /\ RowsRendered /\ HoursKept
  BY PairsAreInOrder DEF HoursInv, Ordered, Base
<1> SUFFICES ASSUME NEW k \in Keys, rows[k].timeOut # None, ~Reviewed(k)
             PROVE  /\ rows[k].worked = Worked(k.day, rows[k], rows[k].timeOut)
                    /\ rows[k].worked <= rows[k].timeOut - rows[k].timeIn
  BY DEF HoursFollowPunches
<1>2. PICK r \in Row : r = rows[k]
  BY <1>1 DEF Typed
<1>3. \A q \in Punches : ~ReviewedPunch(k, q)
  BY <1>1, ReviewedIs
<1>4. r.worked = Worked(k.day, r, r.timeOut)
  BY <1>1, <1>2, <1>3 DEF HoursKept, HoursAre
<1>5. r.exists /\ r.timeIn # None
  BY <1>1, <1>2 DEF RowsWellMade, NoRow
<1>6. r.timeIn <= r.timeOut
  BY <1>1, <1>2, <1>5 DEF PunchesInOrder, InOrder
<1>7. r.timeOut \in Moments /\ r.timeIn \in Moments /\ k.day \in Days
  BY <1>2, <1>5 DEF Row, Keys
<1>8. r.rendered = RenderedAt(k.day, r.timeIn)
  BY <1>1, <1>2, <1>5 DEF RowsRendered
<1>9. r.rendered # None => r.rendered >= r.timeIn
  <2>1. JobOK
    BY <1>1 DEF Typed
  <2> QED BY <1>7, <1>8, <2>1, RenderedIsNumber
<1>10. Worked(k.day, r, r.timeOut) <= r.timeOut - r.timeIn
  <2>1. JobOK
    BY <1>1 DEF Typed
  <2> QED BY <1>6, <1>7, <1>9, <2>1, WorkedIsNumber
<1> QED BY <1>2, <1>4, <1>10

LEMMA RenderingStays ==
  ASSUME HoursInv, Base', UNCHANGED job, [Next]_vars
  PROVE  RowsRendered'
<1>1. Base /\ Typed /\ RowsRendered /\ Typed'
  BY DEF HoursInv, Ordered, Base
<1>2. rows \in [Keys -> Row] /\ rows' \in [Keys -> Row]
  BY <1>1 DEF Typed
<1>3. ASSUME NEW k \in Keys, rows'[k].timeIn = rows[k].timeIn, rows'[k].rendered = rows[k].rendered,
             rows'[k].timeIn # None
      PROVE  \E t \in Moments, n \in Nat :
               t = rows'[k].timeIn /\ n = rows'[k].rendered /\ n = RenderedAt(k.day, t)'
  BY <1>1, <1>3, ArithmeticStays DEF RowsRendered
<1>4. ASSUME NEW k \in Keys, NEW at \in Moments, rows'[k].timeIn = at,
             rows'[k].rendered = RenderedAt(k.day, at)
      PROVE  \E t \in Moments, n \in Nat :
               t = rows'[k].timeIn /\ n = rows'[k].rendered /\ n = RenderedAt(k.day, t)'
  <2>1. rows'[k].rendered \in Nat
    BY <1>2 DEF Row
  <2> QED BY <1>4, <2>1, ArithmeticStays
<1>5. ASSUME NEW k \in Keys
      PROVE  \/ rows'[k].timeIn = rows[k].timeIn /\ rows'[k].rendered = rows[k].rendered
             \/ \E at \in Moments : rows'[k].timeIn = at /\ rows'[k].rendered = RenderedAt(k.day, at)
  <2>1. CASE \E s \in Scanners : ScanApproved(s)
    <3>1. PICK s \in Scanners : ScanApproved(s)
      BY <2>1
    <3>2. PICK key \in Keys, seen \in Row, p \in Punches, w \in Row : ScanLeaves(s, key, seen, p, w)
      BY <1>1, <3>1, RowAfterScan
    <3>3. rows'[key] = w /\ \A j \in Keys \ {key} : rows'[j] = rows[j]
      BY <1>2, <3>2 DEF ScanLeaves
    <3>4. CASE p = "TIME_IN"
      <4>1. w.timeIn = clock /\ w.rendered = RenderedAt(key.day, clock)
        BY <3>2, <3>4 DEF ScanLeaves, PunchAt
      <4>2. PICK at \in Moments : at = clock
        BY <1>1 DEF Typed
      <4> QED BY <3>3, <4>1, <4>2
    <3>5. CASE p # "TIME_IN"
      <4>1. PunchAt(w, "TIME_IN") = PunchAt(rows[key], "TIME_IN") /\ w.rendered = rows[key].rendered
        BY <3>2, <3>5 DEF ScanLeaves, Punches
      <4> QED BY <3>3, <4>1 DEF PunchAt
    <3> QED BY <3>4, <3>5
  <2>2. CASE \E r \in Reviewers : ReviewRecords(r)
    <3>1. PICK r \in Reviewers : ReviewRecords(r)
      BY <2>2
    <3>2. PICK key \in Keys, p \in Punches, w \in Row, i \in DOMAIN logs : ReviewLeaves(i, key, p, w)
      BY <1>1, <3>1, RowAfterReview
    <3>3. rows'[key] = w /\ \A j \in Keys \ {key} : rows'[j] = rows[j]
      BY <1>2, <3>2 DEF ReviewLeaves
    <3>4. CASE p = "TIME_IN"
      <4>1. w.timeIn = logs[i].at /\ w.rendered = RenderedAt(key.day, logs[i].at)
        BY <3>2, <3>4 DEF ReviewLeaves, PunchAt
      <4>2. logs[i] \in Log
        BY <1>1 DEF Typed
      <4>3. PICK at \in Moments : at = logs[i].at
        BY <4>2 DEF Log
      <4> QED BY <3>3, <4>1, <4>3
    <3>5. CASE p # "TIME_IN"
      <4>1. PunchAt(w, "TIME_IN") = PunchAt(rows[key], "TIME_IN") /\ w.rendered = rows[key].rendered
        BY <3>2, <3>5 DEF ReviewLeaves, Punches
      <4> QED BY <3>3, <4>1 DEF PunchAt
    <3> QED BY <3>4, <3>5
  <2>3. CASE rows' = rows
    BY <2>3
  <2>4. (\E s \in Scanners, area \in Areas : BeginScan(s, area)) => rows' = rows
    BY DEF BeginScan
  <2> QED BY <1>1, <2>1, <2>2, <2>3, <2>4, OtherSteps
<1>6. ASSUME NEW k \in Keys, rows'[k].timeIn # None
      PROVE  \E t \in Moments, n \in Nat :
               t = rows'[k].timeIn /\ n = rows'[k].rendered /\ n = RenderedAt(k.day, t)'
  BY <1>3, <1>4, <1>5, <1>6
<1> QED BY <1>6 DEF RowsRendered

LEMMA SeenStaysHeld ==
  ASSUME OneScanAtATime, HoursInv, Base', LogsGrow, UNCHANGED job, [Next]_vars
  PROVE  SeenHolds'
<1>1. Base /\ Typed /\ RowsRendered /\ SeenHolds
  BY DEF HoursInv, Ordered, Base
<1>2. scan \in [Scanners -> ScanForms] /\ rows \in [Keys -> Row]
  BY <1>1 DEF Typed
<1>3. \A k \in Keys : \A q : PunchAt(rows[k], q)' = PunchAt(rows'[k], q)
  BY DEF PunchAt
<1>4. ASSUME NEW k \in Keys, NEW q \in Punches, PunchAt(rows'[k], q) = PunchAt(rows[k], q),
             ReviewedPunch(k, q)
      PROVE  ReviewedPunch(k, q)'
  BY <1>3, <1>4, ReviewedPunchStays
<1> DEFINE Held1(o) ==
      \E k \in Keys, seen \in Row :
        /\ k = scan'[o].key /\ seen = scan'[o].seen
        /\ \A q \in Punches : ReviewedPunch(k, q)' \/ PunchAt(rows'[k], q) = PunchAt(seen, q)
        /\ seen.timeIn # None =>
             \E d \in Days, t \in Moments, n \in Nat :
               d = k.day /\ t = seen.timeIn /\ n = seen.rendered /\ n = RenderedAt(d, t)'
<1>5. ASSUME \A o \in Scanners : scan'[o].pc = "match" => Held1(o) PROVE SeenHolds'
  <2> SUFFICES ASSUME NEW o \in Scanners, scan'[o].pc = "match"
               PROVE  /\ \A q \in Punches :
                           \/ ReviewedPunch(scan[o].key, q)'
                           \/ PunchAt(rows'[scan'[o].key], q) = PunchAt(scan'[o].seen, q)
                      /\ scan'[o].seen.timeIn # None =>
                           \E d \in Days, t \in Moments, n \in Nat :
                             /\ d = scan'[o].key.day /\ t = scan'[o].seen.timeIn
                             /\ n = scan'[o].seen.rendered /\ n = RenderedAt(d, t)'
    BY ZenonT(40) DEF SeenHolds, PunchAt
  <2>1. PICK k \in Keys, seen \in Row :
        /\ k = scan'[o].key /\ seen = scan'[o].seen
        /\ \A q \in Punches : ReviewedPunch(k, q)' \/ PunchAt(rows'[k], q) = PunchAt(seen, q)
        /\ seen.timeIn # None =>
             \E d \in Days, t \in Moments, n \in Nat :
               d = k.day /\ t = seen.timeIn /\ n = seen.rendered /\ n = RenderedAt(d, t)'
    BY <1>5
  <2>2. \A q : ReviewedPunch(k, q)' => ReviewedPunch(scan[o].key, q)'
    BY <2>1 DEF ReviewedPunch
  <2> QED BY <2>1, <2>2
\* A scan that is still under way, and its row before it changed.
<1>6. ASSUME NEW o \in Scanners, scan[o].pc = "match", scan'[o] = scan[o],
             NEW p \in Punches,
             \A k \in Keys : k = scan[o].key =>
               /\ \A q \in Punches \ {p} : PunchAt(rows'[k], q) = PunchAt(rows[k], q)
               /\ rows'[k] = rows[k] \/ ReviewedPunch(k, p)'
      PROVE  Held1(o)
  <2>1. scan[o] \in [pc : {"match"}, key : Keys, seen : Row, punch : Punches, at : Moments]
    BY <1>2, <1>6 DEF ScanForms
  <2>2. PICK k \in Keys, seen \in Row : k = scan[o].key /\ seen = scan[o].seen
    BY <2>1
  <2>3. ASSUME NEW q \in Punches
        PROVE  ReviewedPunch(k, q)' \/ PunchAt(rows'[k], q) = PunchAt(seen, q)
    <3>1. ReviewedPunch(k, q) \/ PunchAt(rows[k], q) = PunchAt(seen, q)
      BY <1>1, <1>6, <2>2 DEF SeenHolds
    <3>2. PunchAt(rows'[k], q) = PunchAt(rows[k], q) \/ (q = p /\ ReviewedPunch(k, p)')
      BY <1>6, <2>2
    <3> QED BY <1>4, <3>1, <3>2
  <2>4. seen.timeIn # None =>
          \E d \in Days, t \in Moments, n \in Nat :
            d = k.day /\ t = seen.timeIn /\ n = seen.rendered /\ n = RenderedAt(d, t)'
    BY <1>1, <1>6, <2>2, ArithmeticStays DEF SeenHolds
  <2> QED BY <1>6, <2>2, <2>3, <2>4
<1>7. CASE \E s \in Scanners, area \in Areas : BeginScan(s, area)
  <2>1. PICK s \in Scanners, area \in Areas : BeginScan(s, area)
    BY <1>7
  <2>2. PICK k \in Keys, p \in Punches :
           scan' = [scan EXCEPT ![s] =
                [pc |-> "match", key |-> k, seen |-> rows[k], punch |-> p, at |-> clock]]
    BY <1>1, <2>1, BeginScanIs
  <2>3. rows' = rows
    BY <2>1 DEF BeginScan
  <2>4. Held1(s)
    <3>1. PICK seen \in Row : seen = rows[k]
      BY <1>2
    <3>2. scan'[s].key = k /\ scan'[s].seen = seen
      BY <1>2, <2>2, <3>1
    <3>3. seen.timeIn # None =>
            \E d \in Days, t \in Moments, n \in Nat :
              d = k.day /\ t = seen.timeIn /\ n = seen.rendered /\ n = RenderedAt(d, t)'
      BY <1>1, <3>1, ArithmeticStays DEF RowsRendered, Keys
    <3>4. \A q \in Punches : PunchAt(rows'[k], q) = PunchAt(seen, q)
      BY <2>3, <3>1
    <3> QED BY <3>2, <3>3, <3>4
  <2>5. ASSUME NEW o \in Scanners PROVE Held1(o)
    <3>1. o = s
      BY DEF OneScanAtATime
    <3> HIDE DEF Held1
    <3> QED BY <2>4, <3>1
  <2> HIDE DEF Held1
  <2> QED BY <1>5, <2>5
<1>8. CASE \E s \in Scanners : ScanApproved(s)
  <2>1. PICK s \in Scanners : ScanApproved(s)
    BY <1>8
  <2>2. scan'[s].pc = "idle"
    BY <1>2, <2>1 DEF ScanApproved, Idle
  <2>3. \A o \in Scanners : scan'[o].pc # "match"
    BY <2>2 DEF OneScanAtATime
  <2> QED BY <2>3 DEF SeenHolds
<1>9. CASE \E r \in Reviewers : ReviewRecords(r)
  <2>1. PICK r \in Reviewers : ReviewRecords(r)
    BY <1>9
  <2>2. PICK key \in Keys, p \in Punches, w \in Row, i \in DOMAIN logs : ReviewLeaves(i, key, p, w)
    BY <1>1, <2>1, RowAfterReview
  <2>3. /\ rows'[key] = w /\ \A k \in Keys \ {key} : rows'[k] = rows[k]
        /\ \A q \in Punches \ {p} : PunchAt(w, q) = PunchAt(rows[key], q)
        /\ w = rows[key] \/ ReviewedPunch(key, p)'
    BY <1>2, <2>2 DEF ReviewLeaves
  <2>4. scan' = scan
    BY <2>1 DEF ReviewRecords
  <2>5. \A k \in Keys : /\ \A q \in Punches \ {p} : PunchAt(rows'[k], q) = PunchAt(rows[k], q)
                        /\ rows'[k] = rows[k] \/ ReviewedPunch(k, p)'
    BY <2>3
  <2>6. ASSUME NEW o \in Scanners, scan'[o].pc = "match" PROVE Held1(o)
    <3> HIDE DEF Held1
    <3> QED BY <1>6, <2>4, <2>5, <2>6
  <2> HIDE DEF Held1
  <2> QED BY <1>5, <2>6
<1>10. CASE /\ rows' = rows
            /\ \A o \in Scanners : scan'[o].pc = "match" => scan'[o] = scan[o] /\ clock' = clock
  <2>1. "TIME_IN" \in Punches
    BY DEF Punches
  <2>2. ASSUME NEW o \in Scanners, scan'[o].pc = "match" PROVE Held1(o)
    <3> HIDE DEF Held1
    <3> QED BY <1>6, <1>10, <2>1, <2>2
  <2> HIDE DEF Held1
  <2> QED BY <1>5, <2>2
<1> QED BY <1>1, <1>7, <1>8, <1>9, <1>10, OtherSteps

LEMMA HoursStay ==
  ASSUME HoursInv, Base', LogsGrow, UNCHANGED job, [Next]_vars
  PROVE  HoursKept'
<1>1. Base /\ Typed /\ Typed' /\ RowsRendered /\ SeenHolds /\ HoursKept
  BY DEF HoursInv, Ordered, Base
<1>2. rows \in [Keys -> Row]
  BY <1>1 DEF Typed
<1>3. \A k \in Keys : \A q : PunchAt(rows[k], q)' = PunchAt(rows'[k], q)
  BY DEF PunchAt
<1>4. ASSUME NEW k \in Keys, NEW q \in Punches, PunchAt(rows'[k], q) = PunchAt(rows[k], q),
             ReviewedPunch(k, q)
      PROVE  ReviewedPunch(k, q)'
  BY <1>3, <1>4, ReviewedPunchStays
<1> SUFFICES ASSUME NEW k \in Keys, NEW r \in Row, r = rows'[k], r.timeOut # None,
                    \A q \in Punches : ~ReviewedPunch(k, q)'
             PROVE  HoursAre(k, r)
  BY ArithmeticStays DEF HoursKept
<1>5. ASSUME rows'[k] = rows[k] PROVE HoursAre(k, r)
  BY <1>1, <1>4, <1>5 DEF HoursKept
<1>6. CASE \E s \in Scanners : ScanApproved(s)
  <2>1. PICK s \in Scanners : ScanApproved(s)
    BY <1>6
  <2>2. PICK key \in Keys, seen \in Row, p \in Punches, w \in Row : ScanLeaves(s, key, seen, p, w)
    BY <1>1, <2>1, RowAfterScan
  <2>3. /\ rows'[key] = w /\ \A j \in Keys \ {key} : rows'[j] = rows[j]
        /\ \A q \in Punches \ {p} : PunchAt(w, q) = PunchAt(rows[key], q)
        /\ scan[s].pc = "match" /\ key = scan[s].key /\ seen = scan[s].seen /\ Fits(seen, p)
        /\ PunchAt(w, p) = clock
        /\ p # "TIME_IN" => w.rendered = rows[key].rendered
        /\ p = "TIME_OUT" => w.worked = Worked(key.day, seen, clock)
    BY <1>2, <2>2 DEF ScanLeaves
  <2>4. CASE k # key
    BY <1>5, <2>3, <2>4
  <2>5. CASE k = key
    <3>1. r = w
      BY <2>3, <2>5
    <3>2. ASSUME NEW q \in Punches \ {p} PROVE PunchAt(w, q) = PunchAt(seen, q)
      <4>1. PunchAt(rows'[k], q) = PunchAt(rows[k], q)
        BY <2>3, <2>5
      <4>2. ~ReviewedPunch(k, q)
        BY <1>4, <4>1
      <4>3. PunchAt(rows[k], q) = PunchAt(seen, q)
        BY <1>1, <2>3, <2>5, <4>2 DEF SeenHolds
      <4> QED BY <2>3, <2>5, <4>3
    <3>3. p = "TIME_OUT"
      <4> SUFFICES ASSUME p # "TIME_OUT" PROVE FALSE
        OBVIOUS
      <4>1. PunchAt(w, "TIME_OUT") = PunchAt(seen, "TIME_OUT")
        BY <3>2 DEF Punches
      <4>2. seen.timeOut = None
        BY <2>3 DEF Fits, NoRow
      <4> QED BY <3>1, <4>1, <4>2 DEF PunchAt
    <3>4. /\ PunchAt(w, "TIME_IN") = PunchAt(seen, "TIME_IN")
          /\ PunchAt(w, "LUNCH_OUT") = PunchAt(seen, "LUNCH_OUT")
          /\ PunchAt(w, "LUNCH_IN") = PunchAt(seen, "LUNCH_IN")
      BY <3>2, <3>3 DEF Punches
    <3>5. w.timeIn = seen.timeIn /\ w.lunchOut = seen.lunchOut /\ w.lunchIn = seen.lunchIn
      BY <3>4 DEF PunchAt
    <3>6. w.timeOut = clock /\ seen.timeIn # None
      BY <2>3, <3>3 DEF PunchAt, Fits
    <3>7. w.rendered = seen.rendered
      <4>1. w.rendered = rows[k].rendered
        BY <2>3, <2>5, <3>3
      <4>2. rows[k].timeIn = seen.timeIn
        <5>1. PunchAt(w, "TIME_IN") = PunchAt(rows[key], "TIME_IN")
          BY <2>3, <3>3 DEF Punches
        <5> QED BY <2>5, <3>5, <5>1 DEF PunchAt
      <4>3. rows[k].rendered = RenderedAt(k.day, rows[k].timeIn)
        BY <1>1, <3>6, <4>2 DEF RowsRendered
      <4>4. seen.rendered = RenderedAt(k.day, seen.timeIn)
        BY <1>1, <2>3, <2>5, <3>6 DEF SeenHolds
      <4> QED BY <4>1, <4>2, <4>3, <4>4
    <3>8. w.worked = Worked(k.day, w, w.timeOut)
      <4>1. w.worked = Worked(k.day, seen, clock)
        BY <2>3, <2>5, <3>3
      <4>2. WorkStart(w) = WorkStart(seen)
        BY <3>5, <3>7 DEF WorkStart
      <4>3. Worked(k.day, w, clock) = Worked(k.day, seen, clock)
        BY <3>5, <3>7, <4>2 DEF Worked
      <4> QED BY <3>6, <4>1, <4>3
    <3> QED BY <3>1, <3>8 DEF HoursAre
  <2> QED BY <2>4, <2>5
<1>7. CASE \E v \in Reviewers : ReviewRecords(v)
  <2>1. PICK v \in Reviewers : ReviewRecords(v)
    BY <1>7
  <2>2. PICK key \in Keys, p \in Punches, w \in Row, i \in DOMAIN logs : ReviewLeaves(i, key, p, w)
    BY <1>1, <2>1, RowAfterReview
  <2>3. /\ rows'[key] = w /\ \A j \in Keys \ {key} : rows'[j] = rows[j]
        /\ w = rows[key] \/ ReviewedPunch(key, p)'
    BY <1>2, <2>2 DEF ReviewLeaves
  <2> QED BY <1>5, <2>3
<1>8. (\E s \in Scanners, area \in Areas : BeginScan(s, area)) => rows' = rows
  BY DEF BeginScan
<1> QED BY <1>1, <1>5, <1>6, <1>7, <1>8, OtherSteps

\* With one scan at a time, the hours of a finished row follow from its
\* punches and are never more than the time between them, unless a flagged
\* scan was recorded there (upsertAttendanceRecord, computeBreakMinutes).
THEOREM HoursAreOfPunches == ASSUME OneScanAtATime PROVE Spec => []HoursFollowPunches
<1>1. Init => HoursInv
  <2> SUFFICES ASSUME Init PROVE HoursInv
    OBVIOUS
  <2>1. Ordered
    BY OrderAtFirst
  <2>2. \A k \in Keys : rows[k].timeIn = None /\ rows[k].timeOut = None
    BY DEF Init, NoRow
  <2>3. \A s \in Scanners : scan[s].pc # "match"
    BY DEF Init, Idle
  <2> QED BY <2>1, <2>2, <2>3 DEF HoursInv, RowsRendered, SeenHolds, HoursKept
<1>2. HoursInv /\ [Next]_vars => HoursInv'
  <2> SUFFICES ASSUME HoursInv, [Next]_vars PROVE HoursInv'
    OBVIOUS
  <2>1. Ordered /\ Base /\ Ordered'
    BY OrderStays DEF HoursInv, Ordered
  <2>2. Base' /\ LogsGrow /\ UNCHANGED job
    BY <2>1, BaseStays, LogsOnlyGrow
  <2>3. RowsRendered'
    BY <2>2, RenderingStays
  <2>4. SeenHolds'
    BY <2>2, SeenStaysHeld
  <2>5. HoursKept'
    BY <2>2, HoursStay
  <2> QED BY <2>1, <2>3, <2>4, <2>5 DEF HoursInv
<1>3. HoursInv => HoursFollowPunches
  BY HoursFollow
<1> QED BY <1>1, <1>2, <1>3, PTL DEF Spec

-----------------------------------------------------------------------------
(***************************************************************************)
(* 9. Field visits.  An open visit that no review touched is the day's     *)
(* last: nothing of that day was timed in, or flagged as a Time In, after  *)
(* it, and no scan under way is about to.                                  *)
(***************************************************************************)
Plain(k) == rows[k].exists /\ Open(rows[k]) /\ ~Reviewed(k)

\* No other visit of the day is open, or was begun later.
OpenVisitIsLast ==
  \A j, k \in Keys : Plain(j) /\ k.day = j.day =>
    (Plain(k) => k = j) /\ rows[k].timeIn <= rows[j].timeIn

NoFlagIsLater ==
  \A j \in Keys, i \in LogIds :
    Plain(j) /\ i \in DOMAIN logs /\ logs[i].key.day = j.day /\ logs[i].punch = "TIME_IN"
      => logs[i].at <= rows[j].timeIn

NoVisitBegins ==
  \A j \in Keys, s \in Scanners :
    Plain(j) /\ scan[s].pc = "match" /\ scan[s].punch = "TIME_IN" => scan[s].key.day # j.day

FieldPunches ==
  \A s \in Scanners : scan[s].pc = "match" => scan[s].punch \in {"TIME_IN", "TIME_OUT"}

VisitInv ==
  /\ Base
  /\ mode = "FIELD" => OpenVisitIsLast /\ NoFlagIsLater /\ NoVisitBegins /\ FieldPunches

LEMMA VisitsAtFirst == Init => VisitInv
<1> SUFFICES ASSUME Init PROVE VisitInv
  OBVIOUS
<1>1. Base
  BY BaseAtFirst
<1>2. \A k \in Keys : ~Plain(k)
  BY DEF Init, NoRow, Plain
<1>3. \A s \in Scanners : scan[s].pc # "match"
  BY DEF Init, Idle
<1> QED BY <1>1, <1>2, <1>3 DEF VisitInv, OpenVisitIsLast, NoFlagIsLater, NoVisitBegins, FieldPunches

\* A row that no step wrote is plain only if it was.
LEMMA PlainWas ==
  ASSUME Base, Base', LogsGrow, NEW k \in Keys, rows'[k] = rows[k], Plain(k)'
  PROVE  Plain(k)
<1>1. rows[k].exists /\ Open(rows[k])
  BY DEF Plain, Open
<1>2. ASSUME NEW p \in Punches, ReviewedPunch(k, p) PROVE FALSE
  <2>1. PunchAt(rows[k], p)' = PunchAt(rows[k], p)
    BY DEF PunchAt
  <2>2. ReviewedPunch(k, p)'
    BY <1>2, <2>1, ReviewedPunchStays
  <2>3. PICK i \in DOMAIN logs' : logs'[i].key = k /\ logs'[i].punch = p /\ PunchAt(rows[k], p)' = logs'[i].at
    BY <2>2 DEF ReviewedPunch
  <2>4. PunchAt(rows'[k], logs'[i].punch) = logs'[i].at
    BY <2>3 DEF PunchAt
  <2>5. Reviewed(k)'
    BY <2>3, <2>4 DEF Reviewed, PunchAt
  <2> QED BY <2>5 DEF Plain
<1>3. ~Reviewed(k)
  BY <1>2, ReviewedIs
<1> QED BY <1>1, <1>3 DEF Plain

\* While a Time In is about to be recorded or flagged, or has just been read
\* as the day's next punch, no visit of the day is open.
LEMMA VisitBegins ==
  ASSUME VisitInv, mode = "FIELD", NEW s \in Scanners, NEW area \in Areas, BeginScan(s, area)
  PROVE  NoVisitBegins' /\ FieldPunches'
<1>1. Base /\ Typed /\ OpenVisitIsLast /\ NoVisitBegins /\ FieldPunches
  BY DEF VisitInv, Base
<1>2. PICK d \in Days, k \in Keys, p \in Punches :
        /\ k.day = d
        /\ scan' = [scan EXCEPT ![s] =
             [pc |-> "match", key |-> k, seen |-> rows[k], punch |-> p, at |-> clock]]
        /\ p = "TIME_IN" => \A j \in LatestRows(d) : ~Open(rows[j])
        /\ p \in {"TIME_IN", "TIME_OUT"}
  BY <1>1, BeginScanIs
<1>3. scan'[s].key = k /\ scan'[s].punch = p /\ \A o \in Scanners \ {s} : scan'[o] = scan[o]
  BY <1>1, <1>2 DEF Typed
<1>4. rows' = rows /\ logs' = logs
  BY DEF BeginScan
<1>5. \A j : Plain(j)' <=> Plain(j)
  BY <1>4 DEF Plain, Open, Reviewed, PunchAt
<1>6. ASSUME NEW j \in Keys, Plain(j), p = "TIME_IN", j.day = d PROVE FALSE
  <2>1. j \in RowsOf(d)
    BY <1>6 DEF RowsOf, Plain
  <2>2. \A m \in RowsOf(d) : rows[m].timeIn <= rows[j].timeIn
    BY <1>1, <1>6 DEF OpenVisitIsLast, RowsOf
  <2>3. j \in LatestRows(d)
    BY <2>1, <2>2 DEF LatestRows
  <2> QED BY <1>2, <1>6, <2>3 DEF Plain
<1>7. NoVisitBegins'
  <2> SUFFICES ASSUME NEW j \in Keys, NEW o \in Scanners, Plain(j), scan'[o].pc = "match",
                      scan'[o].punch = "TIME_IN"
               PROVE  scan'[o].key.day # j.day
    BY <1>5 DEF NoVisitBegins
  <2>1. CASE o = s
    BY <1>2, <1>3, <1>6, <2>1
  <2>2. CASE o # s
    BY <1>1, <1>3, <2>2 DEF NoVisitBegins
  <2> QED BY <2>1, <2>2
<1>8. FieldPunches'
  BY <1>1, <1>2, <1>3 DEF FieldPunches
<1> QED BY <1>7, <1>8

\* A row is plain after an approved scan if it was, or if it is the visit the
\* scan has just begun.
LEMMA PlainAfterScan ==
  ASSUME VisitInv, mode = "FIELD", Base', LogsGrow, NEW s \in Scanners,
         NEW key \in Keys, NEW seen \in Row, NEW p \in Punches, NEW w \in Row,
         ScanLeaves(s, key, seen, p, w), NEW k \in Keys, Plain(k)'
  PROVE  \/ Plain(k) /\ k # key /\ rows'[k] = rows[k]
         \/ k = key /\ p = "TIME_IN" /\ rows'[k].timeIn = clock
<1>1. Base /\ rows \in [Keys -> Row] /\ FieldPunches
  BY DEF VisitInv, Base, Typed
<1>2. /\ rows'[key] = w /\ \A j \in Keys \ {key} : rows'[j] = rows[j]
      /\ scan[s].pc = "match" /\ p = scan[s].punch /\ PunchAt(w, p) = clock /\ clock # None
  BY <1>1 DEF ScanLeaves
<1>3. CASE k # key
  BY <1>1, <1>2, <1>3, PlainWas
<1>4. CASE k = key
  <2>1. w.timeOut = None
    BY <1>2, <1>4 DEF Plain, Open
  <2>2. p # "TIME_OUT"
    BY <1>2, <2>1 DEF PunchAt
  <2>3. p = "TIME_IN"
    BY <1>1, <1>2, <2>2 DEF FieldPunches
  <2> QED BY <1>2, <1>4, <2>3 DEF PunchAt
<1> QED BY <1>3, <1>4

LEMMA ScanKeepsVisits ==
  ASSUME OneScanAtATime, VisitInv, mode = "FIELD", Base', LogsGrow,
         NEW s \in Scanners, ScanApproved(s)
  PROVE  OpenVisitIsLast' /\ NoFlagIsLater' /\ NoVisitBegins' /\ FieldPunches'
<1>1. Base /\ Typed /\ OpenVisitIsLast /\ NoFlagIsLater /\ NoVisitBegins /\ LogsFit
  BY DEF VisitInv, Base
<1>2. PICK key \in Keys, seen \in Row, p \in Punches, w \in Row : ScanLeaves(s, key, seen, p, w)
  BY <1>1, RowAfterScan
<1>3. /\ rows'[key] = w /\ \A j \in Keys \ {key} : rows'[j] = rows[j]
      /\ scan[s].pc = "match" /\ key = scan[s].key /\ p = scan[s].punch
      /\ \A q \in Punches \ {p} : PunchAt(w, q) = PunchAt(rows[key], q)
  BY <1>1, <1>2 DEF ScanLeaves, Typed
<1>4. logs' = logs /\ clock' = clock
  BY DEF ScanApproved
<1>5. \A o \in Scanners : scan'[o].pc = "idle"
  BY <1>1 DEF ScanApproved, OneScanAtATime, Typed, Idle
<1>6. NoVisitBegins' /\ FieldPunches'
  BY <1>5 DEF NoVisitBegins, FieldPunches
<1>7. ASSUME NEW k \in Keys, Plain(k)'
      PROVE  \/ Plain(k) /\ k # key /\ rows'[k] = rows[k]
             \/ k = key /\ p = "TIME_IN" /\ rows'[k].timeIn = clock
  BY <1>2, <1>7, PlainAfterScan
<1>8. ASSUME NEW k \in Keys, Plain(k), p = "TIME_IN" PROVE key.day # k.day
  BY <1>1, <1>3, <1>8 DEF NoVisitBegins
<1>9. \A k \in Keys : rows'[k].timeIn <= clock
  <2> SUFFICES ASSUME NEW k \in Keys PROVE rows'[k].timeIn <= clock
    OBVIOUS
  <2>1. rows'[k].timeIn \in Moments \cup {None} /\ clock \in Nat
    BY <1>1 DEF Base, Typed, Row, Moments
  <2>2. ASSUME rows'[k].timeIn \in Moments PROVE rows'[k].timeIn <= clock
    <3>1. PunchAt(rows[k], "TIME_IN")' = rows'[k].timeIn /\ "TIME_IN" \in Punches
      BY DEF PunchAt, Punches
    <3> QED BY <1>4, <2>2, <3>1 DEF Base, RowsFiled
  <2> QED BY <2>1, <2>2 DEF None
<1>10. p # "TIME_IN" => w.timeIn = rows[key].timeIn
  <2>1. p # "TIME_IN" => PunchAt(w, "TIME_IN") = PunchAt(rows[key], "TIME_IN")
    BY <1>3 DEF Punches
  <2> QED BY <2>1 DEF PunchAt
<1>11. OpenVisitIsLast'
  <2> SUFFICES ASSUME NEW j \in Keys, NEW k \in Keys, Plain(j)', k.day = j.day
               PROVE  (Plain(k)' => k = j) /\ rows'[k].timeIn <= rows'[j].timeIn
    BY DEF OpenVisitIsLast
  <2>1. CASE j = key /\ p = "TIME_IN" /\ rows'[j].timeIn = clock
    <3>1. Plain(k)' => k = j
      BY <1>7, <1>8, <2>1
    <3> QED BY <1>9, <2>1, <3>1
  <2>2. CASE Plain(j) /\ j # key /\ rows'[j] = rows[j]
    <3>1. (Plain(k) => k = j) /\ rows[k].timeIn <= rows[j].timeIn
      BY <1>1, <2>2 DEF OpenVisitIsLast
    <3>2. ~(k = key /\ p = "TIME_IN")
      BY <1>8, <2>2
    <3>3. Plain(k)' => k = j
      BY <1>7, <3>1, <3>2
    <3>4. rows'[k].timeIn = rows[k].timeIn
      BY <1>3, <1>10, <3>2
    <3> QED BY <2>2, <3>1, <3>3, <3>4
  <2> QED BY <1>7, <2>1, <2>2
<1>12. NoFlagIsLater'
  <2> SUFFICES ASSUME NEW j \in Keys, NEW i \in LogIds, Plain(j)', i \in DOMAIN logs,
                      logs[i].key.day = j.day, logs[i].punch = "TIME_IN"
               PROVE  logs[i].at <= rows'[j].timeIn
    BY <1>4 DEF NoFlagIsLater
  <2>1. logs[i].at <= clock
    BY <1>1 DEF LogsFit, Captured
  <2>2. CASE j = key /\ p = "TIME_IN" /\ rows'[j].timeIn = clock
    BY <2>1, <2>2
  <2>3. CASE Plain(j) /\ j # key /\ rows'[j] = rows[j]
    BY <1>1, <2>3 DEF NoFlagIsLater
  <2> QED BY <1>7, <2>2, <2>3
<1> QED BY <1>6, <1>11, <1>12

LEMMA ReviewKeepsVisits ==
  ASSUME VisitInv, mode = "FIELD", Base', LogsGrow, NEW r \in Reviewers, ReviewRecords(r)
  PROVE  OpenVisitIsLast' /\ NoFlagIsLater' /\ NoVisitBegins' /\ FieldPunches'
<1>1. Base /\ Typed /\ OpenVisitIsLast /\ NoFlagIsLater /\ NoVisitBegins /\ FieldPunches
  BY DEF VisitInv, Base
<1>2. PICK key \in Keys, p \in Punches, w \in Row, i \in DOMAIN logs : ReviewLeaves(i, key, p, w)
  BY <1>1, RowAfterReview
<1>3. /\ rows'[key] = w /\ \A j \in Keys \ {key} : rows'[j] = rows[j]
      /\ key = logs[i].key /\ p = logs[i].punch
      /\ w = rows[key] \/ ReviewedPunch(key, p)'
      /\ \A q \in Punches \ {p} : PunchAt(w, q) = PunchAt(rows[key], q)
      /\ p = "TIME_IN" => PunchAt(w, p) = logs[i].at
  BY <1>1, <1>2 DEF ReviewLeaves, Typed
<1>4. logs' = logs /\ scan' = scan
  BY DEF ReviewRecords
<1>5. i \in LogIds
  BY <1>1, DayAssumption DEF Typed, LogIds
<1>6. ASSUME NEW k \in Keys, Plain(k)' PROVE Plain(k) /\ rows'[k] = rows[k]
  <2>1. ~ReviewedPunch(k, p)'
    <3> SUFFICES ASSUME ReviewedPunch(k, p)' PROVE FALSE
      OBVIOUS
    <3>1. PICK n \in DOMAIN logs' :
            logs'[n].key = k /\ logs'[n].punch = p /\ PunchAt(rows[k], p)' = logs'[n].at
      BY DEF ReviewedPunch
    <3>2. PunchAt(rows'[k], logs'[n].punch) = logs'[n].at
      BY <3>1 DEF PunchAt
    <3>3. Reviewed(k)'
      BY <3>1, <3>2 DEF Reviewed, PunchAt
    <3> QED BY <1>6, <3>3 DEF Plain
  <2>2. rows'[k] = rows[k]
    BY <1>3, <2>1
  <2> QED BY <1>1, <1>6, <2>2, PlainWas
<1>7. ASSUME NEW j \in Keys, NEW k \in Keys, Plain(j), k.day = j.day
      PROVE  rows'[k].timeIn <= rows[j].timeIn
  <2>1. rows[k].timeIn <= rows[j].timeIn
    BY <1>1, <1>7 DEF OpenVisitIsLast
  <2>2. CASE k = key /\ p = "TIME_IN"
    <3>1. rows'[k].timeIn = logs[i].at
      BY <1>3, <2>2 DEF PunchAt
    <3> QED BY <1>1, <1>3, <1>5, <1>7, <2>2, <3>1 DEF NoFlagIsLater
  <2>3. CASE k = key /\ p # "TIME_IN"
    <3>1. PunchAt(w, "TIME_IN") = PunchAt(rows[key], "TIME_IN")
      BY <1>3, <2>3 DEF Punches
    <3> QED BY <1>3, <2>1, <2>3, <3>1 DEF PunchAt
  <2>4. CASE k # key
    BY <1>3, <2>1, <2>4
  <2> QED BY <2>2, <2>3, <2>4
<1>8. OpenVisitIsLast'
  <2> SUFFICES ASSUME NEW j \in Keys, NEW k \in Keys, Plain(j)', k.day = j.day
               PROVE  (Plain(k)' => k = j) /\ rows'[k].timeIn <= rows'[j].timeIn
    BY DEF OpenVisitIsLast
  <2> QED BY <1>1, <1>6, <1>7 DEF OpenVisitIsLast
<1>9. NoFlagIsLater'
  <2> SUFFICES ASSUME NEW j \in Keys, NEW n \in LogIds, Plain(j)', n \in DOMAIN logs,
                      logs[n].key.day = j.day, logs[n].punch = "TIME_IN"
               PROVE  logs[n].at <= rows'[j].timeIn
    BY <1>4 DEF NoFlagIsLater
  <2> QED BY <1>1, <1>6 DEF NoFlagIsLater
<1>10. NoVisitBegins' /\ FieldPunches'
  BY <1>1, <1>4, <1>6 DEF NoVisitBegins, FieldPunches
<1> QED BY <1>8, <1>9, <1>10

\* The other steps write no row; a scan that is flagged as a Time In had read
\* that no visit was open.
LEMMA OthersKeepVisits ==
  ASSUME VisitInv, mode = "FIELD", Base', LogsGrow, rows' = rows,
         \/ LogsRewritten \/ UNCHANGED logs \/ \E s \in Scanners : ScanFlagged(s)
  PROVE  OpenVisitIsLast' /\ NoFlagIsLater'
<1>1. Base /\ Typed /\ OpenVisitIsLast /\ NoFlagIsLater /\ NoVisitBegins
  BY DEF VisitInv, Base
<1>2. ASSUME NEW k \in Keys, Plain(k)' PROVE Plain(k)
  BY <1>1, <1>2, PlainWas
<1>3. OpenVisitIsLast'
  BY <1>1, <1>2 DEF OpenVisitIsLast
<1>4. NoFlagIsLater'
  <2> SUFFICES ASSUME NEW j \in Keys, NEW i \in LogIds, Plain(j), i \in DOMAIN logs',
                      logs'[i].key.day = j.day, logs'[i].punch = "TIME_IN"
               PROVE  logs'[i].at <= rows[j].timeIn
    BY <1>2 DEF NoFlagIsLater
  <2>1. ASSUME i \in DOMAIN logs PROVE logs'[i].at <= rows[j].timeIn
    BY <1>1, <2>1 DEF NoFlagIsLater, LogsGrow
  <2>2. ASSUME NEW s \in Scanners, ScanFlagged(s), i \notin DOMAIN logs PROVE FALSE
    <3>1. /\ DOMAIN logs' = 1..(Len(logs) + 1) /\ DOMAIN logs = 1..Len(logs) /\ Len(logs) \in Nat
          /\ logs'[Len(logs) + 1].key = scan[s].key /\ logs'[Len(logs) + 1].punch = scan[s].punch
          /\ scan[s].pc = "match"
      BY <1>1, <2>2, FlagIs DEF ScanFlagged
    <3>2. i = Len(logs) + 1
      BY <2>2, <3>1
    <3> QED BY <1>1, <3>1, <3>2 DEF NoVisitBegins
  <2> QED BY <2>1, <2>2 DEF LogsRewritten
<1> QED BY <1>3, <1>4

LEMMA VisitsStay ==
  ASSUME OneScanAtATime PROVE VisitInv /\ [Next]_vars => VisitInv'
<1> SUFFICES ASSUME VisitInv, [Next]_vars PROVE VisitInv'
  OBVIOUS
<1>1. Base /\ Base' /\ LogsGrow /\ UNCHANGED job
  BY BaseStays, LogsOnlyGrow DEF VisitInv
<1> SUFFICES ASSUME mode = "FIELD"
             PROVE  OpenVisitIsLast' /\ NoFlagIsLater' /\ NoVisitBegins' /\ FieldPunches'
  BY <1>1 DEF VisitInv, job
<1>2. CASE \E s \in Scanners : ScanApproved(s)
  BY <1>1, <1>2, ScanKeepsVisits
<1>3. CASE \E r \in Reviewers : ReviewRecords(r)
  BY <1>1, <1>3, ReviewKeepsVisits
<1>4. CASE \E s \in Scanners, area \in Areas : BeginScan(s, area)
  <2>1. rows' = rows /\ UNCHANGED logs
    BY <1>4 DEF BeginScan
  <2> QED BY <1>1, <1>4, <2>1, VisitBegins, OthersKeepVisits
<1>5. CASE /\ rows' = rows
           /\ \A o \in Scanners : scan'[o].pc = "match" => scan'[o] = scan[o] /\ clock' = clock
  <2>1. OpenVisitIsLast' /\ NoFlagIsLater'
    BY <1>1, <1>5, LogsChange, OthersKeepVisits
  <2>2. NoVisitBegins /\ FieldPunches
    BY DEF VisitInv
  <2>3. \A k \in Keys : Plain(k)' => Plain(k)
    BY <1>1, <1>5, PlainWas
  <2>4. NoVisitBegins' /\ FieldPunches'
    BY <1>5, <2>2, <2>3 DEF NoVisitBegins, FieldPunches
  <2> QED BY <2>1, <2>4
<1> QED BY <1>1, <1>2, <1>3, <1>4, <1>5, OtherSteps

\* With one scan at a time, a FIELD employee has one visit open at most on any
\* day, unless a flagged scan was recorded in one of them (submit).
THEOREM OneVisitAtATime == ASSUME OneScanAtATime PROVE Spec => []OneOpenVisit
<1>1. Init => VisitInv
  BY VisitsAtFirst
<1>2. VisitInv /\ [Next]_vars => VisitInv'
  BY VisitsStay
<1>3. VisitInv => OneOpenVisit
  BY DEF VisitInv, OpenVisitIsLast, OneOpenVisit, RowsOf, Plain
<1> QED BY <1>1, <1>2, <1>3, PTL DEF Spec
=============================================================================
