----------------------------- MODULE ShiftMath -----------------------------
(***************************************************************************)
(* The arithmetic of shifts (attendance-shift.util.ts).  A moment is the   *)
(* number of units since midnight of day 0, a day is DayLength units, and  *)
(* a shift's times of day are units since midnight.  The code counts in    *)
(* minutes; a model may count in coarser units.                            *)
(***************************************************************************)
EXTENDS Integers

CONSTANTS
  DayLength,        \* units in a day
  RenderInterval    \* RENDER_INTERVAL_MS: a late arrival counts from the next mark

ASSUME ShiftMathAssumption ==
  DayLength \in Nat \ {0} /\ RenderInterval \in Nat \ {0}

\* A Shift row.  breakStart is breakStartTime, breakLength lunchBreakMinutes,
\* grace lateThresholdMinutes, leaveEarly undertimeThresholdMinutes, rounding
\* roundingIntervalMinutes when enableRounding is set and 0 otherwise.
Shift ==
  [ start : 0..(DayLength - 1), end : 0..(DayLength - 1),
    grace : Nat, leaveEarly : Nat, rounding : Nat,
    breakStart : 0..(DayLength - 1), breakLength : 0..DayLength ]

AtLeastZero(n) == IF n > 0 THEN n ELSE 0
Earlier(a, b) == IF a < b THEN a ELSE b
Later(a, b) == IF a < b THEN b ELSE a

DayOf(t) == t \div DayLength

\* A 22:00-07:00 shift is one working day, filed under the day it starts on.
CrossesMidnight(s) == s.end <= s.start

StartOn(s, d) == d * DayLength + s.start

EndOn(s, d) ==
  d * DayLength + s.end + (IF CrossesMidnight(s) THEN DayLength ELSE 0)

ShiftSpan(s) ==
  IF CrossesMidnight(s) THEN s.end + DayLength - s.start ELSE s.end - s.start

AbsenceCutoff(s, d) == StartOn(s, d) + s.grace

-----------------------------------------------------------------------------
(***************************************************************************)
(* Which day a moment belongs to.                                          *)
(***************************************************************************)
HasShiftEnded(s, d, now) == now >= EndOn(s, d)

\* Mutant: an open record takes punches until the next shift starts.
ContinueUntilNextShift(s, d, now) ==
  CrossesMidnight(s) /\ now <= StartOn(s, d + 1)

\* An open record of an overnight shift takes punches until the moment that
\* is closer to the next shift's start than to this one's end.
CanContinueOvernight(s, d, now) ==
  CrossesMidnight(s) /\ 2 * now < EndOn(s, d) + StartOn(s, d + 1)

InsidePreviousDayShift(s, now) ==
  CrossesMidnight(s) /\ now < EndOn(s, DayOf(now) - 1)

\* isOnShiftAt: the shift of one of the working days is running.
OnShift(s, workingDays, now) ==
  \E d \in {DayOf(now), DayOf(now) - 1} \cap workingDays :
    StartOn(s, d) <= now /\ now < EndOn(s, d)

-----------------------------------------------------------------------------
(***************************************************************************)
(* Late, undertime, overtime.                                              *)
(***************************************************************************)
\* roundToInterval: to the nearest mark, halves up.
Rounded(t, interval) ==
  IF interval <= 1 THEN t ELSE ((2 * t + interval) \div (2 * interval)) * interval

MinutesLate(s, arrival, d) == AtLeastZero(arrival - AbsenceCutoff(s, d))

MinutesUndertime(s, departure, d) ==
  AtLeastZero((EndOn(s, d) - s.leaveEarly) - departure)

MinutesOvertime(s, departure, d) == AtLeastZero(departure - EndOn(s, d))

\* Mutant: a late arrival counts from the mark before it.
RenderTimeInDown(s, arrival, d) ==
  LET late == arrival - StartOn(s, d)
  IN  IF late <= 0 THEN StartOn(s, d)
      ELSE StartOn(s, d) + (late \div RenderInterval) * RenderInterval

\* The arrival that counts: the start of the shift, or the next mark after it.
RenderTimeIn(s, arrival, d) ==
  LET late == arrival - StartOn(s, d)
      marks == (late + RenderInterval - 1) \div RenderInterval
  IN  IF late <= 0 THEN StartOn(s, d) ELSE StartOn(s, d) + marks * RenderInterval

ExpectedTimeOut(s, rendered) == rendered + ShiftSpan(s)

-----------------------------------------------------------------------------
(***************************************************************************)
(* Breaks.                                                                 *)
(***************************************************************************)
BreakFrom(s, d) ==
  LET sameDay == d * DayLength + s.breakStart
  IN  IF sameDay < StartOn(s, d) THEN sameDay + DayLength ELSE sameDay

BreakTo(s, d) == BreakFrom(s, d) + s.breakLength

HasBreak(s, d) == s.breakLength > 0 /\ BreakTo(s, d) <= EndOn(s, d)

\* The break units taken off the time between workStart and timeOut.  A
\* punch that was not made is None.
BreakTaken(s, d, workStart, timeOut, lunchOut, lunchIn, None) ==
  IF lunchOut # None /\ lunchIn # None THEN AtLeastZero(lunchIn - lunchOut)
  ELSE IF lunchOut # None THEN Earlier(s.breakLength, AtLeastZero(timeOut - lunchOut))
  ELSE IF ~HasBreak(s, d) THEN 0
  ELSE AtLeastZero(Earlier(BreakTo(s, d), timeOut) - Later(BreakFrom(s, d), workStart))
=============================================================================
