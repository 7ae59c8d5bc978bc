----------------------------- MODULE LeaveRules -----------------------------
(***************************************************************************)
(* The vocabulary and the pure rules of backend/src/modules/leave that     *)
(* several modules share: the statuses of a LeaveRequest and the groups    *)
(* the code tests them in, the leave year a day belongs to, the arithmetic *)
(* of LeaveBalance.usedDays, and how a partial cancellation cuts a range   *)
(* of days into pieces.                                                    *)
(*                                                                         *)
(* A day is a natural number (a local midnight in the code).  A request    *)
(* covers the days from..to and its totalDays is their number, which is    *)
(* what both clients send when they file.                                  *)
(***************************************************************************)
EXTENDS Integers

CONSTANTS ResetDay      \* the first day of the second leave year

ASSUME ResetDayAssumption == ResetDay \in Nat

-----------------------------------------------------------------------------
\* Requests waiting on a reviewer, or (NEEDS_REVISION) on the employee.
Undecided == {"PENDING", "SUPERVISOR_APPROVED", "NEEDS_REVISION"}

\* Requests whose days were granted and are charged to the balance.
Granted == {"APPROVED", "CANCELLATION_PENDING"}

\* Requests that keep their days off-limits for another filing, which are
\* also the extensions that still stand (ACTIVE_EXTENSION_STATUSES).
Standing == Undecided \cup Granted

Closed == {"REJECTED", "CANCELLED", "LAPSED"}

LeaveStatus == Standing \cup Closed

\* What cancel() accepts, whoever calls it.
CancellableStatuses == {"PENDING", "SUPERVISOR_APPROVED", "APPROVED"}

-----------------------------------------------------------------------------
\* The leave year whose LeaveBalance row a request starting on `day` draws on.
Years == {1, 2}

YearOf(day) == IF day < ResetDay THEN 1 ELSE 2

\* Mutant: nothing stops usedDays at zero.
NextUsedUnclamped(used, delta) == used + delta

\* adjustLeaveBalance: usedDays never goes below zero.
NextUsed(used, delta) == IF used + delta < 0 THEN 0 ELSE used + delta

-----------------------------------------------------------------------------
(***************************************************************************)
(* splitForCancellation cuts first..last into maximal runs of days that    *)
(* are cancelled and maximal runs of days that stay.                       *)
(***************************************************************************)
SameSide(cancelled, d, e) == (d \in cancelled) <=> (e \in cancelled)

Runs(first, last, cancelled) ==
  { p \in [from : first..last, to : first..last] :
      /\ p.from <= p.to
      /\ \A d \in p.from..p.to : SameSide(cancelled, d, p.from)
      /\ p.from = first \/ ~SameSide(cancelled, p.from - 1, p.from)
      /\ p.to = last \/ ~SameSide(cancelled, p.to + 1, p.to) }

\* The run the original request keeps, as a set of one: the first run, or the
\* last one that stays when an extension points at the original
\* (keepOriginalOnStay).
KeptRun(runs, cancelled, onStay) ==
  IF onStay
    THEN {p \in runs : /\ p.from \notin cancelled
                       /\ \A q \in runs : q.from \notin cancelled => q.from <= p.from}
    ELSE {p \in runs : \A q \in runs : p.from <= q.from}

Length(p) == p.to - p.from + 1

\* Two ranges of days that share at least one day (the where of
\* assertNoOverlap).
Meet(p, q) == p.from <= q.to /\ q.from <= p.to
=============================================================================
