# Leave, attendance and face registration, specified

TLA+ for the face-verification attendance and leave system (`src/backend`,
NestJS on Prisma/Postgres; a web and a mobile client in `src/apps`). The core is
the life of a leave request: its days, its balance and its quarrel with
attendance. Around it stand the attendance of a day, the jobs that credit, pay
out and remind, the links between spouses, the work areas and the attendance
modes that follow from them, and the registration of a face.

## 1. Inventory

| component | state | operations | hard parts | modelled |
|---|---|---|---|---|
| Leave requests (`leave/leave.service.ts`) | `leave_requests` (status, days, links to the request it extends or was split from), notes | file one range or several days, approve, reject or return, resubmit, cancel (all or some days), decide a cancellation, request a Maternity extension | handlers read, then write, with no transaction; approve and reject test no status; a partial cancellation cuts a request into several | yes |
| Leave balances (`adjustLeaveBalance`, `leave-balances.service.ts`) | `usedDays`, `earnedDays` per employee, type, leave year | charge, refund (clamped at 0), grant, automatic credit, transfer to a spouse | read-add-store; the year of the first day | partly |
| Lapse job (`leave-lapse.service.ts`) | settings, who was reminded | every 10 minutes: lapse undecided requests, remind reviewers on shift | races the reviewers; overlaps itself; one failing request ends the run | yes |
| Attendance (`attendance.service.ts`) | one record per employee and day (FIXED) or visit (FIELD), flagged logs, a tally | a scan becomes a punch or a flagged log; hold; validate, reject, archive | which day and which punch a scan is; reviews long after the scan; scans at the same moment | all but `updateStatus` |
| Shift arithmetic (`attendance-shift.util.ts`) | none | late, undertime, overtime, breaks, day boundaries | shifts across midnight | yes |
| Accrual (`leave-accrual.service.ts`) | one row per period | nightly and at start-up | overlapping runs, at most once, no day lost | yes |
| Monetization (`leave-monetization.service.ts`) | one row per employee, type and year | hourly in the first week of the next year | beside decisions on the same year's requests | partly |
| Spouses (`employees.service.ts`) | `spouseEmployeeId` on both sides | link, relink, unlink, backfill at start-up | two saves; days that move with the link | partly |
| Work areas (`geolocation.service.ts`, `departments.service.ts`) | areas, their rosters, each employee's attendance mode, what a department allows | create, change, delete an area; assign and unassign; restrict a department; hire, move, archive, restore; repair at start-up | a change, the return to the default area and the modes are separate writes; one rule checked in four places | partly |
| Face registration (`FaceRegistrationPage.tsx`, `registration-liveness.service.ts`) | refs of the page; sessions in memory | guided steps, frames in the background, retries on both sides, expiry | the page runs ahead of the verdicts | yes |
| Face profiles (`face-profiles.service.ts`) | `face_profiles`, a job per save | save, archive, delete | the descriptor follows later | yes |
| Parental return (`parental-return.*`) | notification rows | return day, reminders sent once | dates moved by partial cancellations | no |
| Undertime filings (`undertime.service.ts`) | one filing per cutoff | file, review | review tests no status | no |
| Auth (`auth.service.ts`, `jwt.strategy.ts`) | token version, one-time codes | login, reset, administrator handover | attempts check-then-increment | no |
| Backups, notifications, mail, audit log, other master data, reports, other pages | rows, files, pages | CRUD and queries | little control of their own | no |

How they interact: attendance reads APPROVED leave before a Time In; filing and
approving leave read attendance; the lapse job reads both; accrual and
monetization read leave and write balances; a spouse link and a grant move
Maternity days; hiring, moving and restricting departments read and write areas
and modes, and the mode decides how a scan is filed; every handler sends
notifications (which may throw) and audit rows (which may not). The server is
one process with asynchronous handlers, so handlers interleave at their
`await`s; the database is shared by all of them, the liveness sessions and the
descriptor timers live in the process and are lost when it stops.

What must hold: a day has one leave; `usedDays` is what was granted; a refund
never covers days already gone; an extension is given once; a leave does not
cover a day that was worked; the job that lapses a request never undoes a
decision; every request ends decided, and reviewers who keep it waiting are
reminded once. A scan is filed under its own working day, the hours of a record
follow from its punches, a flagged scan waits until somebody decides it. A
month is credited once and never with an absence in it; unused days are paid
once; a couple's days add up. An office-only employee is on no field area,
modes follow the areas, and everyone active is in the default area. Only the
photo under review is registered, and its descriptor is its own.

## 2. Modules

| module | models |
|---|---|
| `LeaveRules` | statuses and their groups, leave year, usedDays arithmetic, the cutting of a range of days into runs |
| `LeaveWorkflow` | the requests, balances and worked days of one employee; each handler is one step |
| `LeaveDayBook` | the abstract promise: one mark per day (free, asked, granted, contested), and what may be done to it |
| `LeaveReview` | the same handlers taken apart at their awaits, for one day and one balance |
| `OverdueReminders` | the reminder job: read, claim, send, over shifts and resubmissions |
| `ShiftMath` | the arithmetic of shifts |
| `AttendanceDay` (extends `ShiftMath`) | scans, flagged logs and reviews of one employee, taken apart at their writes |
| `LeaveAccrual`, `AccrualPromise` | the accrual job, and the abstract promise it implements |
| `LeavePayout` (extends `LeaveRules`) | the payout of an ended year beside the requests of that year |
| `SpouseTransfer` | spouse links and Maternity days |
| `GuidedCapture` | the registration page and the server's liveness sessions |
| `WorkAreas` | work areas, rosters and attendance modes, beside departments and employees |
| `FaceProfiles` | saving a registered face and its descriptor |
| `MC*` | constants of the runs |
| `<module>_proofs` of `LeaveWorkflow`, `LeaveReview`, `AttendanceDay` (with `ShiftMath`), `SpouseTransfer`, `WorkAreas` | the theorems |
| `LeaveJobs_proofs` | the theorems about `LeaveAccrual`, `LeavePayout` and `OverdueReminders` |
| `FaceRegistration_proofs` | the theorems about `GuidedCapture` and `FaceProfiles` |
| `SumLemmas` | what sums over finite sets do when a member changes, for the proofs |

One employee is enough in most of them because no handler reads another
employee's rows; `SpouseTransfer` and `WorkAreas` are about several.

`LeaveWorkflow`: `requests[i]` is a row of `leave_requests` (a free row has
status `"NONE"`; ids are given in the order of insertion); `used[t][y]` is
`LeaveBalance.usedDays`, a missing row being 0; `worked` are the days with an
attendance record whose `timeInAt` is set; `flags[d]` the latest doubtful Time
In of a day; `today` the clock. `denied` and `spent` stand for the
CANCELLATION_DENIED note and for the audit trail of a cancellation that gave
nothing back. Actions carry the handlers' names (`FileRequests` is `create` and
`createForDates`, `Approve` is `updateStatus(id, "APPROVED")`, `Cancel` is
`cancel` with `splitForCancellation` and `cancelOne`, `ReviewFlagged` the three
reviews of a flagged log).

`LeaveReview`: `row` is the status of each request, `call[c]` where caller c is
in its handler and what it has loaded. A step is one database call, or several
consecutive reads made before a handler's first write. `BreakOff` is a handler
that throws or dies between two of them. `approve` and `reject` test no status;
the web client offers them for PENDING, SUPERVISOR_APPROVED and, for approve,
LAPSED (`LeavePage.tsx:1705-1723`). `OfferedToApprove` and `OfferedToReject`
choose what the page offers on current data, or what a page loaded earlier
still offers.

`AttendanceDay`: `rows[k]` is the attendance record with the unique key (day,
kind of place, visit), `logs` the flagged logs, `tally` the employee's
`flaggedAttemptCount` with its date. `scan[s]` and `review[r]` say where a call
stands and what it has read. `BeginScan` is `submit` as far as the approved or
flagged outcome: the hold, the working day, the punch, approved leave. A moment
is a coarse unit of the shift; `ShiftMath` works in any unit.

`LeaveAccrual`: days are numbers, a month is `Month` days. `BeginRun` reads the
latest period, `ReadDays` everything the periods follow from, `Save` is one
transaction. `Excuse` and `Miss` are the handlers of other parts after which a
past day stops or starts being an absence (a late approval, a validated scan; an
approved leave cancelled by an admin). `AccrualPromise` sees only the first day
not yet taken, the number of credits and whether what a run reads was rewritten;
`KeepsPromise` maps the records to them.

`LeavePayout`: the three reads of `buildRows` (`ReadBalance`, `ReadUndecided`,
`ReadPaid`) come in any order, as `Promise.all` leaves it, then `Pay` is the
transaction. A decision is its status update and the two halves of
`adjustLeaveBalance`, which may fail; decisions and payouts interleave freely.

`SpouseTransfer`: a transaction is a chain of functions over a record of links
and days, one per function of the code (`Moved`, `Unlinked`, `Relinked`,
`Synced`); `SaveLink` and `SyncLinks` are the two saves of an edit.

`OverdueReminders`: `listed` and `done` are `overdueNotifiedUserIds` and
`overdueNotifiedAt`; `Claim` is the guarded update by which a run takes the
reviewers who are on duty, `lost` whom a run had claimed that was broken off
before it sent.

`GuidedCapture`: the page is one thread, so whatever wakes it is a function from
the page's state to its next state, as far as the next await (`Unless` is
`throwIfLivenessFailed`, `Redo` the inner catch, `Failed` the outer one).
`wire` holds the one frame request on its way per session, `hold[a]` what the
page's callbacks know of session a.

`WorkAreas`: `roster[l]` is the join table of area l, `staff[e]` what an
employee's row says of status, department and mode. A call is its transaction,
with the reads before it, then `ReturnHome`
(`returnToDefaultAreaIfUnassigned`), then `SyncReads` and one `SyncWrites` per
mode it changes; moving an employee and restricting a department are a check and
a write. `Restart` may come between any two, and `BootHome`, `BootHomeFails` and
`BootSync` are `onApplicationBootstrap`; `failed` says which of its two repairs
failed. `strayed` is kept for a property: who is out of the default area and was
archived at some time since they left it.

`FaceProfiles`: a session's number stands for its photo and a descriptor is the
photo it was computed from; `save[a]` is a call of `create` between two of its
database calls, `jobs` the descriptors under way.

Abstractions: in leave a day is a number and `totalDays` the number of days in
the range (both clients send that); half days, attachments, messages, roles and
departments are left out; two leave years with one reset day; SUPERVISOR_APPROVED,
a status only old rows have, is accepted everywhere the code accepts it but
never written. Whether a face, a place or a frame passes is a free choice. In
`FaceProfiles` the clock moves with every save, so equal `enrolledAt` of two
saves within a millisecond is left out.

## 3. Runs

| run | asks | bounds |
|---|---|---|
| `LeaveTwoTypes` | `TypeOK`, `NoOverlap`, `LedgerExact`, `RefundsOnlyDaysToCome`, `WorkedLeaveIsExplained`, `KeepsDayBook` (refinement), `EventuallyDecided` | two types, two leave years: every handler, across the reset and past the grace period, `FairSpec` |
| `LeaveMaternity` | `ExtensionOnce`, `NotOverdrawn`, `WorkedLeaveIsExplained` | a leave of the whole allotment, its pieces, its extension and a second attempt; one day with doubtful scans |
| `ReviewBesideLapse` | `LedgerSettles`, `OneLeavePerDay`, `DecisionOutlivesLapse` | two requests; every call, one after the other, with the lapse job (which may die) beside them |
| `AttendanceTwoDays` | nine properties of rows, hours, queue and hold | a night shift over two days, a technician's day with two visits per place; two flagged scans; a threshold of two; a call that throws |
| `LeaveAccrualOverlap` | `CreditsMatchPeriods`, `NoAbsenceCredited`, `KeepsPromise` (refinement), `EventuallySaved` | two runs, months of two days, a reset, one stop, two changes of employment, one absence that comes or goes late |
| `LeavePayout` | `PaidDaysStay`, `PayoutSparesHeldDays` | two payouts, two requests of one and two days, three decisions, every interleaving and an adjustment that may fail |
| `SpouseTransfer` | `WifeIsShort`, `LinksAreMutual` | two men, two women, grants of up to two days, one-way links of earlier versions |
| `OverdueReminders` | `RemindedOnce`, `ClaimsAreKept`, `EventuallyReminded` | two reviewers on two shifts, two runs, one resubmission, one change of recipients, one stop |
| `GuidedCapture` | `StepsAgree`, `VerifiedIsReviewed`, `AttemptEnds` | one attempt with three retries on each side, as in the code |
| `FaceProfiles` | `DescriptorOfPhoto` | two admins, two captures, two profiles |
| `WorkAreas` | `FieldAreasAreAllowed`, `ModeFollowsAreas`, `EveryoneIsHome` | two employees, two departments, one area beside the default one, one caller, any number of stops and of failed repairs |
| `FindingTwoApprovals` | `LedgerSettles`, violated | two callers who approve |

`LedgerExact` excepts leaves cut across the leave-year reset, where the code is
wrong. `ReviewBesideLapse` ties two models together: when calls do not overlap,
the separate writes of `LeaveReview` leave what the single steps of
`LeaveWorkflow` leave.

Bounds. In leave, `MaxRequests` rows, days `1..LastDay`, the clock up to
`Horizon`: two to four rows are what it takes for one request to be filed, cut
and met by another, or for a leave, its extension and a piece; two or three days
hold a range with a middle, a reset inside it and a last day that passes;
`Horizon` lies past the last day plus the grace period so that lapses happen.
`MaxUsed` in `LeaveReview` stops approvals once the balance has been charged
that often. `AttendanceTwoDays` has a day of three units, so that a night shift
has a unit inside each of its two days and one between shifts; `MaxFlags` equals
`Threshold`, so that a hold is reached and both scans meet reviews in either
order; an overnight run and a field run share one model. `MaxStops`, `MaxBreaks`, `MaxMoves`,
`MaxCorrections`, `MaxDecisions`, `MaxRounds` and `MaxRoutes` count rare events.
Every property is also broken by a plausible change of the code within the same
bounds (the `mutants` of PROJECT.json). Deadlock is off where a clock ends or an
attempt is over.

`WorkAreas` needs two employees so that a department's slice of a roster leaves
somebody out, and two departments so that an employee can be moved. One area
beside the default one is enough to be kept or lost; that a field area can be
lost beside one that is kept is left to the proof.

Two constants narrow a run to what the code gets right, and are named where
they apply: `Undisturbed` in `SpouseTransfer` (the server stops between calls),
`HomeStays` in `WorkAreas`
(the default area stays an active office; there is one caller, too). `GuidedCapture` has one
attempt at a time. Section "What the code does otherwise" says what happens
beyond them.

Fairness. `LeaveTwoTypes`: the clock goes on, and the lapse job, which runs
every ten minutes and reads every undecided request, eventually handles one
that stays due; no reviewer or employee is fair. `EventuallyDecided` is about
requests whose grace period ends before `Horizon`. `LeaveAccrualOverlap`: days
pass and a run is started every night; a run that is not stopped ends.
`OverdueReminders`: hours pass and a request that is due meets one run an hour
(there are six). `GuidedCapture`: only what has a timer of its own is fair. The employee may
never move, and neither frames nor the request that opens the session need ever
be answered, so `AttemptEnds` starts when the session was opened.

### What the code does otherwise

One run ends in a violation; PROJECT.json quotes the comment it contradicts.
`FindingTwoApprovals`: two approvals of one request that both loaded PENDING
charge it twice. The same modules show more when a constant or a property is
changed; these are not among the runs.

| module | change | what happens |
|---|---|---|
| `LeaveWorkflow` | `OfferedToApprove` with LAPSED, `NoOverlap` | a request lapses, another is filed for its days, the lapsed one is approved late |
| | `NoLeaveOnWorkedDay` | Time In during an awaited cancellation that is then denied; with `DoubtfulDays`, a doubtful Time In validated after the leave was approved |
| | `LedgerExactAlways` | a piece after the reset is refunded to a year never charged |
| | `OfferedToApprove` with CANCELLATION_PENDING, `LedgerExact` | a leave is charged twice |
| `LeaveReview` | two callers who file, `OneLeavePerDay` | both pass the overlap check |
| | a reviewer approving while the employee cancels, or one caller in `MayFail`, `LedgerSettles` | updateStatus writes APPROVED, awaits `notifyUsers`, which does not catch, and only then charges the balance |
| `LeaveAccrual` | `NoDayLeftOut` without `rewritten` | an absence is excused between two overlapping runs, or after its period was saved (a complete month and the absence on the day after it have the same `cycleEnd`, and either may be the latest): the period now found starts where one is saved already and is dropped, the periods after it are saved, and days between them are lost |
| | `NoDayCreditedTwice` | an approved leave of a past day is cancelled between the reads of two overlapping runs, and the second begins a month inside the one the first credits |
| | `SeasonalStartsFromZero` | only the current year's row is seeded: after a reset and before the first complete month the whole allotment counts as earned |
| `LeavePayout` | `PaidDaysComeOff` | a payout between the two halves of `adjustLeaveBalance` is overwritten, and the paid days can be taken again |
| | `HeldDaysAreNotPaid` | a request filed after a payout's reads is paid out from under |
| `OverdueReminders` | `EventuallyReminded` without `lost` | a run is broken off between the claim and `notifyUsers`: the claim stays, the reminder is never sent |
| `SpouseTransfer` | two admins or `Undisturbed = FALSE` | a link saved and not yet synchronised; a grant that moves days from a former wife |
| `GuidedCapture` | `MaxAttempts = 2`, `OnlyTheLatestActs` | an attempt cancelled while its session was being opened sees the next attempt's flag and goes on beside it; `StepsAgree` then fails too |
| | `AttemptEnds` from the press of the button | the request that opens the session has no timeout, and Reset is disabled while it is awaited |
| `FaceProfiles` | `OneActiveProfile`, `HistoryStays` | two first registrations both create a profile; a profile archived meanwhile is written over |
| `WorkAreas` | two callers | the first two fail: a department is checked while an area is being reclassified; a mode is written that was read before another change (`EveryoneIsHome` still holds) |
| | `HomeStays = FALSE`, `FieldAreasAreAllowed` | the default area is made a field area, a department is restricted, and the next hire is put on it unchecked |
| | `HomeStays = FALSE`, `EveryoneIsHome` | hired while the default area is inactive: nothing puts them there before the next start |
| | `EveryoneIsHome` without `strayed` | an archived employee is dropped from the default area and then restored: nothing puts them there before the next start |
| | `OneOtherArea` | an employee with several field areas keeps them all when they stop being field areas ("alongside at most one other") |
| `AttendanceDay` | several scanners or reviewers | two flagged scans archive each other; two reviewers decide one log |

`WorkedLeaveIsExplained` is the other half of `NoLeaveOnWorkedDay`: a denied
cancellation and a validated doubtful Time In are, within the bounds, the only
ways to have an approved leave on a worked day.

## 4. Proofs

For every value of the constants that meets the module's assumption (which only
gives the constants their types) and the condition named below, where there is
one. Each condition is met by the run that checks the same property, and says
who is served at the same moment; section "What the code does otherwise" shows
what happens without it.

| condition | says | why |
|---|---|---|
| `ReviewersActOnStanding`, `ReviewersLeaveCancelled`, `ReviewersActInTurn` | in which statuses reviewers are offered approve and reject | the handlers test none, the pages do (section 2) |
| `OneClient`, `ClientsFinish` | one person's call at a time, and it does not throw, beside a lapse job that may stop anywhere | with two, or with one that throws between its writes, the code is wrong |
| `OneScanAtATime` | one scan of an employee at a time, any number of reviewers | the phone sends one and waits for the answer |
| `OneAdmin`, `Undisturbed` (`SpouseTransfer`) | one admin edits at a time, and the server stops between calls | a link and its completion are two saves |
| `OneAttempt` (`GuidedCapture`) | the button to start is pressed once; any number of retries, resets, lost answers and restarts | attempts share the page's refs, and a cancelled one may go on beside the next |
| `OneAtATime` (`WorkAreas`) | one request at a time, the default area an active office; the server may stop anywhere and its repairs may fail | several writes to one request |

**`LeaveWorkflow_proofs`**

- `LeaveTypeOK`: `Spec => []TypeOK`. One lemma per action; the ones worth
  reading are `CancelSafe` (every piece is a well-formed request and the refund
  a number) and `InsertedType`.
- `LeaveNoOverlap`, if `ReviewersActOnStanding`. `NoOverlap` is inductive with
  `TypeOK`. Most actions create no standing request (`NothingNewStands`); filing
  and extending insert requests checked against every standing one and apart
  from each other (`NewRequestsStandApart`); a partial cancellation replaces a
  standing leave by runs of its days, which share no day because each is maximal
  (`RunsAlign`, `RunsApart`), and lie inside days no other leave covers
  (`CutLeaveStandsApart`).
- `WorkOnLeaveIsExplained`, whatever reviewers act on. The rows a leave was
  split into hang together through `splitFrom`, whose roots are recursive: that
  a link always leads to an earlier row (`RowsInOrder`) makes the root of every
  row well defined. The invariant adds where a denial ends up when its row is
  cut, and that days of a standing leave are worked only in those ways.
- `WorkflowKeepsDayBook`: `Spec` implements the abstract book of days. Initial
  states map to it, and each handler is a step of the book, day by day, or
  leaves it alone.
- `RefundsAreOfDaysToCome`: an action property, by the same case split, over the
  days that leave the set of granted ones and the refund computed from pieces.
- `BalancesFollowLeaves` (`LedgerExact`), if `ReviewersLeaveCancelled`: charged
  rows and sums over them. A cut leave's days are those of the pieces kept, the
  pieces given up and the days already begun, each counted once.
- `NothingIsOverdrawn`, if `ReviewersActInTurn`, on top of it: what is charged
  and what waits move together through every decision.
- `LeaveIsExtendedOnce`, if `ReviewersActOnStanding`: the extensions of all the
  rows of one root add up to at most one.

**`LeaveReview_proofs`**

- `ReviewTypeOK`, and `ReviewDecisionOutlivesLapse`, under no condition. The
  invariant of the second is `LapseLoadedUndecided`: a lapse in progress has
  loaded an undecided status, so its guarded update finds no decided row.
- `BooksSettle` and `OneLeaveForTheDay`, if `OneClient` and `ClientsFinish`. The
  invariant follows the one client through every await: what the call has loaded
  is still so, except that the lapse job may have taken an undecided request,
  and the balance differs from the rows by what the call still owes
  (`LedgerInHand`).

**`AttendanceDay_proofs`**

- The arithmetic of shifts, for every shift, day and moment: shifts of
  successive days never overlap (`ShiftsNeverOverlap`), an open overnight record
  takes all of its shift and none of the next (`OvernightRecordHasItsShift`),
  undertime and overtime exclude each other (`NoUndertimeWithOvertime`), and
  rounding never moves an arrival forward in the employee's favour
  (`RenderNeverFavoursTheLate`). All rest on `SpanIsAtMostADay`.
- Under no condition, for any number of scans and reviews at once:
  `NoRowWithoutTimeIn`, `PunchesComeInOrder`, `PunchesAreOfTheirDay`,
  `ShiftKeepsItsScans`. The invariant `Ordered` says of every punch on its way,
  in a scan or a flagged log, that it fits the record it will be put on.
- If `OneScanAtATime`, from the invariant `InHand` (logs, tally, and what the
  scan and each review still have to write): `LatestFlagWaits`, `HoldsAreEarned`,
  `StreaksDisable`, `HeldDaysChangeByReview` (an action property) and
  `DayTypeOK`.
- If `OneScanAtATime`: `HoursAreOfPunches` (`HoursInv`: the minutes a call will
  write are those of the punches it will write) and `OneVisitAtATime`
  (`VisitInv`: the open visit no review touched is the latest of its day).

**`LeaveJobs_proofs`**

- The monthly credit, under no condition: `CreditsAreExact` and
  `AbsencesEarnNothing`. What an evaluation finds is a function of the days left,
  recursive in how many there are; that it is a row of periods, each a complete
  month without absence or the days up to one, is shown by induction
  (`FoundIsRow`). The invariant `Base` says that every period saved, or found
  and still to be saved, was earned when it was found (the history `late` holds
  the absences that came afterwards), and counts the months.
- `PeriodsLeaveNoGap` and, on top of it, `AccrualKeepsPromise`, the refinement of
  `AccrualPromise`. Until what a run reads is `rewritten`, every run stands at a
  place (`Places`) where a period saved already begins or the next one will, and
  the periods it found lead from there through such places (`Chain`). So a save
  either repeats a period or takes the next days. Saved periods that no
  evaluation starts over from may be corrected without harm, so the invariant
  asks only the others to be as the days are (`SoundFrom`). What the history
  leaves out is `NoDayCreditedTwice` in section 3.
- The payout, under no condition: `PayoutsKeepTheBooks` and
  `PayoutsSpareHeldDays`. The histories `astray` (an adjustment failed, or was
  stored over a newer balance) and `beside` (a payout saw requests or balance
  change) say in the properties how far the code's promise goes. Until somebody
  has paid, what a payout outside `beside` read is still so (`ReadingsHold`).
- The reminders, under no condition: `NobodyIsRemindedTwice` and
  `ClaimedAreReminded`. A reviewer who is not listed has had no reminder and none
  is on its way (`OneReminder`); the claim lists those it will remind, and only
  if nobody was listed since it read.

The module extends the three, which is why they name their specifications apart
(`Spec`, `PayoutSpec`, `RemindSpec`); nothing is said about the jobs together.

**`SpouseTransfer_proofs`**: `CouplesAreMutual` and `HusbandsDaysComeOut`, if
`OneAdmin` and `Undisturbed`. The two formulas hold between calls only;
`SpouseInv` says that in between all is as it was but for the link just saved,
and that the books of an earlier version have at most one couple linked from one
side. `SyncKeepsCouples` is the heart: four relinks, of someone whose former and
new spouse may both have been linked elsewhere, leave mutual links and every
wife short by her own husband's days.

**`WorkAreas_proofs`**, if `OneAtATime`, for any number of employees,
departments and areas: `FieldAreasStayAllowed`, `WorkAreasRules`
(`ModeFollowsAreas`), `EveryoneComesHome`. The last two hold only between
requests; the invariant `IInv` says what holds within one: whoever is out of
step is remembered by the call (`InStepSoon`), whoever is not in the default
area strayed, or is about to be there, by the hire or the start (`HomeSoon`), and
what a check established still holds at its write (`ChecksHold`). Every write to an area is
an instance of `AreaWritten`.

**`FaceRegistration_proofs`**

- `PageAndServerAgree` and `ReviewedIsVerified`, if `OneAttempt`, for any number
  of retries. Page and server are rarely in the same step: the page runs ahead
  of the verdicts, and a retry sends both back at different moments. What ties
  them is the queue between them (`InLine`). Frames of older generations come
  first and are dropped; those of the current one continue what the server has
  taken, one kind after another, up to where the page stands, or up to the retry
  it has still to make. A retry makes every waiting frame old (`LineRestarts`);
  a step done puts its frames at the end (`LineGrows`). The frame on its way is
  therefore the one the server expects (`OnTheWire`), and a final frame still
  current shows the photo under review. Each run of the page's thread is
  followed function by function, as the code is written (`ThrownSettles`,
  `RedoSettles`, `UnlessSettles`, `LoopTopSettles`).
- `FaceDescriptorOfPhoto`, under no condition. The descriptor arrives for a row
  and a time; the invariant is that a time identifies a photo. Rows, saves under
  way and jobs that carry the same `enrolledAt` carry the same photo
  (`SavesAgree`, `RowsAgree`, `JobsAgreeWithSaves`, `JobsAgreeWithRows`), and
  every time handed out is past (`TimesArePast`), so a new save agrees with all.

**`SumLemmas`**. The library's induction theorems take a formula as a parameter,
which the provers cannot instantiate. Where induction is needed (sums over
finite sets, the root of a row, the greatest member of a set of numbers) it is
derived for sets instead: `<` is well-founded on the natural numbers, so a set
of numbers at which something fails has a least member (`LeastNumber`,
`AllNumbers`, `AllSubsets`).

Only model-checked: all liveness (`EventuallyDecided`, `EventuallySaved`,
`EventuallyReminded`, `AttemptEnds`), which is out of the prover's reach. Every
safety property that a passing run checks is also a theorem.

## 5. Plan

Done: everything in section 2. Next, in order:

1. `UndertimeFiling`: one filing per cutoff, its review without a status test.
2. `AuthSessions`: token versions, code attempts, the handover.

## 6. Not modelled

Of work areas, the shape of an area and whether a position lies inside one,
renaming an area, moving it to another department and the schema before the join
table are left out; of attendance, an admin's overwriting of a record's status.
Parental return notices repeat the reminder's pattern without claims. Undertime
filings and sign-in are guarded updates of one row, planned above. Backups copy
files and whole databases. Notifications, mail and the audit log only append.
Reports, dashboard, announcements, evaluations and other master data are queries
or single-row writes behind form validation. The pages of the two clients, most
of the repository's lines, are forms, tables and presentation without control of
their own, except the guided capture, which is modelled; their request cache
(`dataCache.ts`) and the token refresh (`api.ts`), which may finish after a
logout, are left out. The numerics of face matching are out of reach of TLC and
TLAPS.
