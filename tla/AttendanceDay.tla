--------------------------- MODULE AttendanceDay ---------------------------
(***************************************************************************)
(* The attendance of one employee (AttendanceService): scans that are      *)
(* approved or flagged, the hold after repeated flagged scans, and the     *)
(* reviewers' decisions on flagged scans, made hours later or at the same  *)
(* moment.  No handler reads another employee's rows.                      *)
(*                                                                         *)
(* A scan (submit) and a review (validateFlaggedLog, rejectFlaggedLog,     *)
(* archiveFlaggedLog) are taken apart at their writes: a step is what a    *)
(* handler reads before its next write, or one write.                      *)
(***************************************************************************)
EXTENDS ShiftMath, Sequences, FiniteSetsExt

CONSTANTS
  Horizon,         \* bound: last moment of the clock
  Employments,     \* the shifts and attendance modes a run tries, and bound:
                   \* the moments each is watched
  Areas,           \* types of the work locations the employee may scan at
  Sundays,         \* isDayOff: no attendance is taken at all
  DaysOff,         \* every day that is not a working day
  LeaveDays,       \* days covered by an approved leave
  Scanners,        \* bound: scans under way at the same time
  Reviewers,       \* bound: reviews under way at the same time
  Decisions,       \* what reviewers decide: validate, reject, archive
  Threshold,       \* FLAGGED_NOTIFY_THRESHOLD
  MaxFlags,        \* bound: flagged logs
  MaxVisits,       \* bound: visits of one type in a day
  FailingModes     \* modes in which a database call may throw between two
                   \* writes

Days == 0..DayOf(Horizon)
Moments == 1..Horizon
None == 0
Punches == {"TIME_IN", "TIME_OUT", "LUNCH_OUT", "LUNCH_IN"}
Types == {"OFFICE", "FIELD"}
Keys == [day : Days, type : Types, visit : 1..MaxVisits]
LogIds == 1..MaxFlags

ASSUME DayAssumption ==
  /\ Horizon \in Nat \ {0} /\ Threshold \in Nat \ {0}
  /\ Decisions \subseteq {"validate", "reject", "archive"}
  /\ MaxFlags \in Nat /\ MaxVisits \in Nat \ {0}
  /\ Sundays \subseteq DaysOff
  /\ Employments \subseteq [ shift : {s \in Shift : s.start > 0},
                        mode : {"FIXED", "FIELD"}, from : 1..Horizon, to : 1..Horizon ]
  /\ Areas \subseteq Types

VARIABLES
  clock,
  shift,     \* the employee's active schedule, the same for the whole run
  mode,      \* Employee.attendanceMode
  until,     \* the last moment watched
  rows,      \* attendance_records, by their unique key
  logs,      \* the flagged attendance_logs, oldest first
  tally,     \* Employee.flaggedAttemptCount and flaggedAttemptCountDate
  scan,      \* where each scan under way stands, and what it has read
  review     \* the same of each review

job == <<shift, mode, until>>

vars == <<clock, job, rows, logs, tally, scan, review>>

(***************************************************************************)
(* A row's punches are moments.  rendered is renderTimeInAt, set with the  *)
(* shift of a FIXED employee; worked is totalMinutes.                      *)
(***************************************************************************)
Row ==
  [ exists : BOOLEAN, timeIn : Moments \cup {None}, timeOut : Moments \cup {None},
    lunchOut : Moments \cup {None}, lunchIn : Moments \cup {None},
    rendered : Nat, worked : Nat ]

NoRow ==
  [ exists |-> FALSE, timeIn |-> None, timeOut |-> None, lunchOut |-> None,
    lunchIn |-> None, rendered |-> None, worked |-> 0 ]

\* A flagged log.  linked: attendanceRecordId is set.  reviewedAfter: how many
\* logs had been captured when it was reviewed, None when nobody reviewed it.
Log ==
  [ key : Keys, punch : Punches, at : Moments,
    status : {"PENDING_REVIEW", "APPROVED", "FAKE_ATTEMPT", "ARCHIVED"},
    linked : BOOLEAN, reviewedAfter : 0..MaxFlags ]

Idle == [pc |-> "idle"]

LogsOf(d) == {i \in DOMAIN logs : logs[i].key.day = d}
Awaiting(i) == logs[i].status = "PENDING_REVIEW" /\ ~logs[i].linked
AwaitingOf(d) == {i \in LogsOf(d) : Awaiting(i)}

-----------------------------------------------------------------------------
(***************************************************************************)
(* What a scan reads.                                                      *)
(***************************************************************************)
\* Mutant: one flagged scan short.
HeldEarly(d) ==
  /\ tally.day = d /\ tally.count >= Threshold - 1
  /\ AwaitingOf(d) # {}
  /\ \A i \in LogsOf(d) : logs[i].reviewedAfter < Max(AwaitingOf(d))

\* getFlaggedAttemptHoldMessage: enough flagged scans that day, the latest
\* one waiting, and none of the day's reviewed since it was captured.
Held(d) ==
  /\ tally.day = d /\ tally.count >= Threshold
  /\ AwaitingOf(d) # {}
  /\ \A i \in LogsOf(d) : logs[i].reviewedAfter < Max(AwaitingOf(d))

RowsOf(d) == {k \in Keys : k.day = d /\ rows[k].exists}

\* The day's rows with the latest Time In.
LatestRows(d) ==
  {k \in RowsOf(d) : \A j \in RowsOf(d) : rows[j].timeIn <= rows[k].timeIn}

Open(r) == r.timeIn # None /\ r.timeOut = None

\* Mutant: a scan after midnight always opens a new day.
OfficeDayIsToday(now) == DayOf(now)

\* resolveOfficeAttendanceDate
OfficeDay(now) ==
  LET yesterday == DayOf(now) - 1
      stillOpen == \E k \in LatestRows(yesterday) : Open(rows[k])
  IN  IF \/ stillOpen /\ CanContinueOvernight(shift, yesterday, now)
         \/ InsidePreviousDayShift(shift, now) /\ yesterday \in Days \ DaysOff
        THEN yesterday ELSE DayOf(now)

WorkingDay(now) == IF mode = "FIELD" THEN DayOf(now) ELSE OfficeDay(now)

\* An open FIXED record keeps the type it was opened with.
FixedKey(d, area) ==
  IF RowsOf(d) = {} THEN [day |-> d, type |-> area, visit |-> 1]
  ELSE CHOOSE k \in LatestRows(d) : TRUE

\* Mutant: a finished day still takes break punches.
FixedPunchesAfterOut(r) ==
  IF r.timeIn = None THEN {"TIME_IN"}
  ELSE (IF r.timeOut = None THEN {"TIME_OUT"} ELSE {})
         \cup (IF r.lunchOut = None THEN {"LUNCH_OUT"} ELSE {})
         \cup (IF r.lunchOut # None /\ r.lunchIn = None THEN {"LUNCH_IN"} ELSE {})

\* The punches a FIXED scan may be for; the client chooses among them once
\* timed in.
FixedPunches(r) ==
  IF r.timeIn = None THEN {"TIME_IN"}
  ELSE IF r.timeOut # None THEN {}
  ELSE {"TIME_OUT"}
         \cup (IF r.lunchOut = None THEN {"LUNCH_OUT"} ELSE {})
         \cup (IF r.lunchOut # None /\ r.lunchIn = None THEN {"LUNCH_IN"} ELSE {})

NextVisit(d, type) ==
  1 + Max({0} \cup {k.visit : k \in {j \in RowsOf(d) : j.type = type}})

\* Mutant: every punch is filed under the type of the area scanned at.
FixedScanByArea(d, area) ==
  { [key |-> [k EXCEPT !.type = area], seen |-> rows[k], punch |-> p] :
      k \in {FixedKey(d, area)}, p \in FixedPunches(rows[FixedKey(d, area)]) }

\* What a scan at an area may be: the row it is for, as read, and the punch.
FixedScan(d, area) ==
  { [key |-> k, seen |-> rows[k], punch |-> p] :
      k \in {FixedKey(d, area)}, p \in FixedPunches(rows[FixedKey(d, area)]) }

\* Mutant: an open visit of another type does not count.
FieldScanByType(d, area) ==
  LET open == {k \in LatestRows(d) : Open(rows[k]) /\ k.type = area}
  IN  IF open # {}
        THEN LET k == CHOOSE k \in open : TRUE
             IN  {[key |-> k, seen |-> rows[k], punch |-> "TIME_OUT"]}
        ELSE { [key |-> k, seen |-> NoRow, punch |-> "TIME_IN"] :
                 k \in {j \in Keys : j = [day |-> d, type |-> area,
                                          visit |-> NextVisit(d, area)]} }

\* A field visit is opened at any assigned site; while the latest one is
\* open, the next scan closes it.
FieldScan(d, area) ==
  LET open == {k \in LatestRows(d) : Open(rows[k])}
  IN  IF open # {}
        THEN LET k == CHOOSE k \in open : TRUE
             IN  {[key |-> k, seen |-> rows[k], punch |-> "TIME_OUT"]}
        ELSE { [key |-> k, seen |-> NoRow, punch |-> "TIME_IN"] :
                 k \in {j \in Keys : j = [day |-> d, type |-> area,
                                          visit |-> NextVisit(d, area)]} }

\* Mutant: the hold is left to the clients' buttons.
MayScanUnheld(d) == d \in Days \ Sundays

MayScan(d) == d \in Days \ Sundays /\ ~Held(d)

MayTimeIn(d, now) ==
  d \notin LeaveDays /\ d \notin DaysOff /\ ~HasShiftEnded(shift, d, now)

\* submit up to the face match: everything read, nothing written.
BeginScan(s, area) ==
  LET d == WorkingDay(clock)
  IN  /\ scan[s].pc = "idle"
      /\ MayScan(d)
      /\ \E t \in IF mode = "FIELD" THEN FieldScan(d, area) ELSE FixedScan(d, area) :
           /\ t.punch = "TIME_IN" => MayTimeIn(d, clock)
           /\ scan' = [scan EXCEPT ![s] =
                [pc |-> "match", key |-> t.key, seen |-> t.seen, punch |-> t.punch,
                 at |-> clock]]
      /\ UNCHANGED <<clock, job, rows, logs, tally, review>>

-----------------------------------------------------------------------------
(***************************************************************************)
(* upsertAttendanceRecord, on the row as it is and the row as it was read. *)
(***************************************************************************)
RenderedAt(d, at) == IF mode = "FIXED" THEN RenderTimeIn(shift, at, d) ELSE None

WorkStart(r) == IF r.rendered # None THEN r.rendered ELSE r.timeIn

\* totalMinutes for a Time Out of row r.
Worked(d, r, out) ==
  AtLeastZero((out - WorkStart(r))
    - (IF r.rendered = None THEN 0
       ELSE BreakTaken(shift, d, WorkStart(r), out, r.lunchOut, r.lunchIn, None)))

CreatedRow(d, punch, at) ==
  CASE punch = "TIME_IN" ->
         [NoRow EXCEPT !.exists = TRUE, !.timeIn = at, !.rendered = RenderedAt(d, at)]
    [] punch = "TIME_OUT" -> [NoRow EXCEPT !.exists = TRUE, !.timeOut = at]
    [] OTHER -> [NoRow EXCEPT !.exists = TRUE]

UpdatedRow(d, r, seen, punch, at) ==
  CASE punch = "TIME_IN" -> [r EXCEPT !.timeIn = at, !.rendered = RenderedAt(d, at)]
    [] punch = "TIME_OUT" /\ seen.timeIn # None ->
         [r EXCEPT !.timeOut = at, !.worked = Worked(d, seen, at)]
    [] punch = "LUNCH_OUT" -> [r EXCEPT !.lunchOut = at]
    [] punch = "LUNCH_IN" -> [r EXCEPT !.lunchIn = at]
    [] OTHER -> r

Upserted(key, seen, punch, at) ==
  [rows EXCEPT ![key] = IF @.exists THEN UpdatedRow(key.day, @, seen, punch, at)
                        ELSE CreatedRow(key.day, punch, at)]

\* The face matches: the punch is recorded.
ScanApproved(s) ==
  /\ scan[s].pc = "match"
  /\ rows' = Upserted(scan[s].key, scan[s].seen, scan[s].punch, scan[s].at)
  /\ scan' = [scan EXCEPT ![s] = Idle]
  /\ UNCHANGED <<clock, job, logs, tally, review>>

\* A doubtful match: the scan is only logged.
ScanFlagged(s) ==
  /\ scan[s].pc = "match"
  /\ Len(logs) < MaxFlags
  /\ logs' = Append(logs, [key |-> scan[s].key, punch |-> scan[s].punch,
                           at |-> scan[s].at, status |-> "PENDING_REVIEW",
                           linked |-> FALSE, reviewedAfter |-> None])
  /\ scan' = [scan EXCEPT ![s] =
                [pc |-> "supersede", log |-> Len(logs'), day |-> scan[s].key.day]]
  /\ UNCHANGED <<clock, job, rows, tally, review>>

\* Mutant: the scan's own log is superseded with the others.
SupersededWithOwn(id, d) == AwaitingOf(d)

\* Only the latest failed attempt is kept in the review queue.
SupersededBy(id, d) == AwaitingOf(d) \ {id}

ScanSupersedes(s) ==
  /\ scan[s].pc = "supersede"
  /\ logs' = [i \in DOMAIN logs |->
                IF i \in SupersededBy(scan[s].log, scan[s].day)
                  THEN [logs[i] EXCEPT !.status = "ARCHIVED"] ELSE logs[i]]
  /\ scan' = [scan EXCEPT ![s] = [@ EXCEPT !.pc = "count"]]
  /\ UNCHANGED <<clock, job, rows, tally, review>>

\* Mutant: the day last counted never equals today.
CountedAfresh(d, read) == [day |-> d, count |-> 1]

Counted(d, read) ==
  [day |-> d, count |-> IF read.day = d THEN read.count + 1 ELSE 1]

\* recordFlaggedAttempt reads the count, then writes it.
ScanReadsTally(s) ==
  /\ scan[s].pc = "count"
  /\ scan' = [scan EXCEPT ![s] = [pc |-> "tally", day |-> scan[s].day, read |-> tally]]
  /\ UNCHANGED <<clock, job, rows, logs, tally, review>>

ScanCounts(s) ==
  /\ scan[s].pc = "tally"
  /\ tally' = Counted(scan[s].day, scan[s].read)
  /\ scan' = [scan EXCEPT ![s] = Idle]
  /\ UNCHANGED <<clock, job, rows, logs, review>>

\* No face, or a call that throws: what was written so far stays.
ScanEnds(s) ==
  /\ scan[s].pc = "match" \/ (mode \in FailingModes /\ scan[s].pc # "idle")
  /\ scan' = [scan EXCEPT ![s] = Idle]
  /\ UNCHANGED <<clock, job, rows, logs, tally, review>>

-----------------------------------------------------------------------------
(***************************************************************************)
(* Review of a flagged log.                                                *)
(***************************************************************************)
BeginReview(r, i, decision) ==
  /\ review[r].pc = "idle"
  /\ Awaiting(i)
  /\ review' = [review EXCEPT ![r] =
       [pc |-> IF decision = "validate" THEN "record" ELSE "close",
        log |-> i, decision |-> decision,
        seen |-> IF decision = "validate" THEN rows[logs[i].key] ELSE NoRow]]
  /\ UNCHANGED <<clock, job, rows, logs, tally, scan>>

\* A validated scan is recorded as of when it was captured.
RecordedAt(i) == logs[i].at

ReviewRecords(r) ==
  LET i == review[r].log
  IN  /\ review[r].pc = "record"
      /\ rows' = Upserted(logs[i].key, review[r].seen, logs[i].punch, RecordedAt(i))
      /\ review' = [review EXCEPT ![r] = [@ EXCEPT !.pc = "close"]]
      /\ UNCHANGED <<clock, job, logs, tally, scan>>

ClosedStatus(decision) ==
  CASE decision = "validate" -> "APPROVED"
    [] decision = "reject" -> "FAKE_ATTEMPT"
    [] decision = "archive" -> "ARCHIVED"

ReviewCloses(r) ==
  LET i == review[r].log
      validates == review[r].decision = "validate"
  IN  /\ review[r].pc = "close"
      /\ logs' = [logs EXCEPT ![i] =
           [@ EXCEPT !.status = ClosedStatus(review[r].decision),
                     !.linked = logs[i].linked \/ validates, !.reviewedAfter = Len(logs)]]
      /\ review' = [review EXCEPT ![r] = Idle]
      /\ UNCHANGED <<clock, job, rows, tally, scan>>

ReviewFails(r) ==
  /\ mode \in FailingModes /\ review[r].pc # "idle"
  /\ review' = [review EXCEPT ![r] = Idle]
  /\ UNCHANGED <<clock, job, rows, logs, tally, scan>>

-----------------------------------------------------------------------------
\* The clock moves on between calls: a unit is far longer than a call.
Tick ==
  /\ clock < until
  /\ \A s \in Scanners : scan[s] = Idle
  /\ \A r \in Reviewers : review[r] = Idle
  /\ clock' = clock + 1
  /\ UNCHANGED <<job, rows, logs, tally, scan, review>>

Init ==
  /\ \E e \in Employments : /\ clock = e.from /\ until = e.to
                             /\ shift = e.shift /\ mode = e.mode
  /\ rows = [k \in Keys |-> NoRow]
  /\ logs = <<>>
  /\ tally = [day |-> 0, count |-> 0]
  /\ scan = [s \in Scanners |-> Idle]
  /\ review = [r \in Reviewers |-> Idle]

Next ==
  \/ \E s \in Scanners, area \in Areas : BeginScan(s, area)
  \/ \E s \in Scanners : ScanApproved(s)
  \/ \E s \in Scanners : ScanFlagged(s)
  \/ \E s \in Scanners : ScanSupersedes(s)
  \/ \E s \in Scanners : ScanReadsTally(s)
  \/ \E s \in Scanners : ScanCounts(s)
  \/ \E s \in Scanners : ScanEnds(s)
  \/ \E r \in Reviewers, i \in DOMAIN logs, decision \in Decisions :
       BeginReview(r, i, decision)
  \/ \E r \in Reviewers : ReviewRecords(r)
  \/ \E r \in Reviewers : ReviewCloses(r)
  \/ \E r \in Reviewers : ReviewFails(r)
  \/ Tick

Spec == Init /\ [][Next]_vars

-----------------------------------------------------------------------------
(***************************************************************************)
(* Properties.                                                             *)
(***************************************************************************)
ScanState ==
  [pc : {"idle"}]
    \cup [pc : {"match"}, key : Keys, seen : Row, punch : Punches, at : Moments]
    \cup [pc : {"supersede", "count"}, log : LogIds, day : Days]
    \cup [pc : {"tally"}, day : Days, read : [day : Days, count : 0..MaxFlags]]

ReviewState ==
  [pc : {"idle"}]
    \cup [pc : {"record", "close"}, log : LogIds, decision : Decisions, seen : Row]

\* Every row, log and call under way is well formed.
TypeOK ==
  /\ clock \in Moments
  /\ \E e \in Employments : shift = e.shift /\ mode = e.mode /\ until = e.to
  /\ rows \in [Keys -> Row]
  /\ logs \in Seq(Log) /\ Len(logs) <= MaxFlags
  /\ tally \in [day : Days, count : 0..MaxFlags]
  /\ scan \in [Scanners -> ScanState]
  /\ review \in [Reviewers -> ReviewState]

\* Whatever scan was flagged and whenever it is validated, no row is left
\* without a Time In: a validated break punch or Time Out finds the row it
\* was scanned for (upsertAttendanceRecord would create one without).
EveryRowHasTimeIn == \A k \in Keys : rows[k].exists => rows[k].timeIn # None

PunchAt(r, punch) ==
  CASE punch = "TIME_IN" -> r.timeIn
    [] punch = "TIME_OUT" -> r.timeOut
    [] punch = "LUNCH_OUT" -> r.lunchOut
    [] punch = "LUNCH_IN" -> r.lunchIn

\* Row k shows a flagged scan, whose review closed it or broke off before.
Reviewed(k) ==
  \E i \in DOMAIN logs :
    logs[i].key = k /\ PunchAt(rows[k], logs[i].punch) = logs[i].at

\* Two punches in order, where both were made.
InOrder(a, b) == a # None /\ b # None => a <= b

\* Overnight or not, the punches of a row come in the order of a working day,
\* unless a flagged scan was recorded there afterwards (submit).
PunchesInOrder ==
  \A k \in Keys : rows[k].exists /\ ~Reviewed(k) =>
    /\ InOrder(rows[k].timeIn, rows[k].lunchOut)
    /\ InOrder(rows[k].lunchOut, rows[k].lunchIn)
    /\ InOrder(rows[k].lunchIn, rows[k].timeOut)
    /\ InOrder(rows[k].timeIn, rows[k].timeOut)

\* The span in which a scan may be filed under day d.
BelongsTo(d, t) ==
  /\ t >= d * DayLength
  /\ IF mode = "FIXED" /\ CrossesMidnight(shift)
       THEN 2 * t < EndOn(shift, d) + StartOn(shift, d + 1)
       ELSE DayOf(t) = d

\* No punch is filed under another working day than its own, before or after
\* midnight and however late a flagged one is validated
\* (resolveOfficeAttendanceDate, validateFlaggedLog).
PunchesBelongToTheirDay ==
  \A k \in Keys :
    /\ \A t \in {rows[k].timeIn, rows[k].lunchOut, rows[k].lunchIn, rows[k].timeOut} :
         t # None => BelongsTo(k.day, t)
    /\ rows[k].timeIn # None => rows[k].timeIn < EndOn(shift, k.day)

\* While the employee's shift runs on a working day, the next scan is filed
\* under it: a record left open the day before never takes it.
ShiftTakesItsScans ==
  \A d \in Days \ DaysOff :
    (/\ mode = "FIXED" /\ StartOn(shift, d) <= clock /\ ~HasShiftEnded(shift, d, clock))
      => WorkingDay(clock) = d

\* The hours of a finished row follow from its punches, unless a flagged scan
\* was recorded there, and are never more than the time between the punches
\* (computeBreakMinutes, computeRenderTimeIn).
HoursFollowPunches ==
  \A k \in Keys : rows[k].timeOut # None /\ ~Reviewed(k) =>
    /\ rows[k].worked = Worked(k.day, rows[k], rows[k].timeOut)
    /\ rows[k].worked <= rows[k].timeOut - rows[k].timeIn

\* The latest flagged scan of a day is never dropped from the review queue by
\* another scan: it waits or somebody has decided it (submit: "Only the
\* latest failed attempt is kept in the review queue").
LatestFlagIsKept ==
  \A d \in Days : LogsOf(d) # {} =>
    LET last == Max(LogsOf(d)) IN Awaiting(last) \/ logs[last].reviewedAfter # None

\* Attendance is disabled for a day only after Threshold flagged scans of
\* that very day, none decided since the latest (recordFlaggedAttempt).
HoldIsEarned ==
  \A d \in Days : Held(d) =>
    Cardinality(LogsOf(d)) >= Threshold /\ Awaiting(Max(LogsOf(d)))

\* Once the last Threshold flagged scans were of the same day, that day's
\* attendance is disabled until the latest is decided: superseding, counting
\* and late reviews of earlier scans do not lift the hold (unless a call threw
\* before it counted).
StreakDisables ==
  \A d \in Days :
    (/\ mode \notin FailingModes /\ \A s \in Scanners : scan[s] = Idle
     /\ Len(logs) >= Threshold
     /\ \A i \in (Len(logs) - Threshold + 1)..Len(logs) : logs[i].key.day = d
     /\ \A i \in LogsOf(d) : logs[i].reviewedAfter < Len(logs))
      => Held(d)

\* While attendance is disabled, rows of that day change only by a review:
\* a scan that had begun before is over by then (submit).
OnlyReviewsWhileHeld ==
  [][ \A k \in Keys : rows'[k] # rows[k] /\ Held(k.day) =>
        \E r \in Reviewers : review[r].pc = "record" /\ review'[r].pc = "close" ]_vars

\* A FIELD employee is at one site at a time, unless a flagged scan was
\* recorded afterwards (submit: the latest visit decides).
OneOpenVisit ==
  \A d \in Days : mode = "FIELD" =>
    \A j, k \in RowsOf(d) :
      j # k /\ Open(rows[j]) /\ Open(rows[k]) => Reviewed(j) \/ Reviewed(k)
=============================================================================
