--------------------------- MODULE LeaveWorkflow ---------------------------
(***************************************************************************)
(* The leave requests of one employee, the balances they draw on and the   *)
(* days the employee worked: LeaveService and the lapse job of             *)
(* LeaveLapseService, with the Time In rule of AttendanceService that      *)
(* reads approved leaves.  No handler reads another employee's rows, so    *)
(* one employee is the whole state.                                        *)
(*                                                                         *)
(* Here a handler is one step: the module is about long sequences of legal *)
(* calls.  LeaveReview takes the same handlers apart at their awaits.      *)
(*                                                                         *)
(* OfferedToApprove and OfferedToReject are the statuses in which a        *)
(* reviewer calls approve and reject.  The handlers test neither; the      *)
(* clients offer the buttons only in some statuses, so a run chooses       *)
(* between reviewers who act on what is stored and reviewers who act on a  *)
(* page loaded earlier.                                                    *)
(***************************************************************************)
EXTENDS LeaveRules, FiniteSetsExt

CONSTANTS
  MaxRequests,        \* bound: rows of leave_requests
  LastDay,            \* bound: last day a leave may cover
  Horizon,            \* bound: last value of today
  LeaveTypes,
  SingleDayTypes,     \* isSingleDayOnly
  AdvanceTypes,       \* advanceFilingAllowed
  PastAbsenceTypes,   \* pastAbsenceFilingAllowed
  UncappedTypes,      \* allowWithoutPay or isUnlimitedDays
  CancellableTypes,   \* cancellationAllowed
  ExtendableTypes,    \* kind MATERNITY with extensionDays > 0
  ExtensionDays,      \* extensionDays of those types
  NoticeDays,         \* EXTENSION_NOTICE_DAYS
  GraceDays,          \* LeaveSettings.lapseGraceDays
  Earned,             \* LeaveBalance.earnedDays per type and leave year
  Sundays,            \* the company-wide rest days
  DaysOff,            \* every non-working day of the employee
  DoubtfulDays,       \* bound: days on which a face match may be flagged
  OfferedToApprove,
  OfferedToReject

Days == 1..LastDay
Ids == 1..MaxRequests
NoId == 0

ASSUME WorkflowAssumption ==
  /\ MaxRequests \in Nat /\ LastDay \in Nat \ {0} /\ Horizon \in Nat \ {0}
  /\ LeaveTypes # {} /\ IsFiniteSet(LeaveTypes)
  /\ SingleDayTypes \subseteq LeaveTypes
  /\ AdvanceTypes \subseteq LeaveTypes
  /\ PastAbsenceTypes \subseteq LeaveTypes
  /\ UncappedTypes \subseteq LeaveTypes
  /\ CancellableTypes \subseteq LeaveTypes
  /\ ExtendableTypes \subseteq LeaveTypes
  /\ ExtensionDays \in Nat \ {0} /\ NoticeDays \in Nat /\ GraceDays \in Nat
  /\ Earned \in [LeaveTypes -> [Years -> Nat]]
  /\ Sundays \subseteq DaysOff /\ DoubtfulDays \subseteq Days
  /\ OfferedToApprove \subseteq LeaveStatus
  /\ OfferedToReject \subseteq LeaveStatus

VARIABLES
  requests,   \* leave_requests, by id; "NONE" is a row not inserted yet
  used,       \* LeaveBalance.usedDays (a missing row reads as 0)
  worked,     \* days with an attendance record whose timeInAt is set
  flags,      \* the latest flagged Time In of each day
  today

attendance == <<worked, flags>>

vars == <<requests, used, attendance, today>>

(***************************************************************************)
(* A row of leave_requests.  denied: it has a CANCELLATION_DENIED note.    *)
(* spent: its audit trail ends with a cancellation of an approved leave on *)
(* or after its first day, whose days were therefore not given back.       *)
(***************************************************************************)
Request ==
  [ status    : LeaveStatus \cup {"NONE"},
    type      : LeaveTypes,
    from      : Days,
    to        : Days,
    filedOn   : 1..Horizon,
    denied    : BOOLEAN,
    spent     : BOOLEAN,
    ext       : Ids \cup {NoId},      \* extensionOfId
    splitFrom : Ids \cup {NoId} ]     \* splitFromId

NoRequest ==
  [ status |-> "NONE", type |-> CHOOSE t \in LeaveTypes : TRUE,
    from |-> 1, to |-> 1, filedOn |-> 1, denied |-> FALSE, spent |-> FALSE,
    ext |-> NoId, splitFrom |-> NoId ]

Span(i) == requests[i].from..requests[i].to
HasStatus(i, S) == requests[i].status \in S
FreeIds == {i \in Ids : requests[i].status = "NONE"}

\* The pieces inserted in one transaction take the next ids, in day order.
Placements(pieces) ==
  { f \in [pieces -> FreeIds] :
      /\ \A p, q \in pieces : p.from < q.from => f[p] < f[q]
      /\ \A p, q \in pieces : f[p] = f[q] => p = q
      /\ \A p \in pieces : \A i \in FreeIds : i < f[p] => \E q \in pieces : f[q] = i }

\* The table once rows[p] is inserted where `place` puts p.
Inserted(table, place, rows) ==
  [ i \in Ids |-> IF \E p \in DOMAIN place : place[p] = i
                    THEN rows[CHOOSE p \in DOMAIN place : place[p] = i]
                    ELSE table[i] ]

\* Mutant: pieces are counted, not their days.
PieceCount(pieces) == Cardinality(pieces)

\* The days in a set of disjoint pieces.
Total(pieces) == Cardinality(UNION {p.from..p.to : p \in pieces})

-----------------------------------------------------------------------------
(***************************************************************************)
(* Filing.                                                                 *)
(***************************************************************************)
\* Mutant: granted leaves are forgotten.
OverlapsUndecided(p) ==
  \E i \in Ids : HasStatus(i, Undecided) /\ Meet(p, requests[i])

OverlapsStanding(p) ==
  \E i \in Ids : HasStatus(i, Standing) /\ Meet(p, requests[i])

\* Mutant: only the first day is looked at.
WorkedFirstDay(p) == p.from \in worked

WorkedIn(p) == worked \cap (p.from..p.to) # {}

\* isAbsentDay: a scheduled day gone by with no attendance and no leave.
AbsentOn(day) ==
  /\ day <= today /\ day \notin worked /\ day \notin DaysOff
  /\ ~OverlapsStanding([from |-> day, to |-> day])

InFilingWindow(type, day) ==
  \/ type \in AdvanceTypes
     /\ (type \in PastAbsenceTypes /\ day < today => AbsentOn(day))
  \/ type \notin AdvanceTypes /\ day = today
  \/ type \notin AdvanceTypes /\ day < today
     /\ IF type \in PastAbsenceTypes THEN AbsentOn(day) ELSE type \notin SingleDayTypes

\* assertDatesFileable
DatesFileable(type, p) ==
  /\ ~OverlapsStanding(p)
  /\ type \in SingleDayTypes => p.from = p.to
  /\ InFilingWindow(type, p.from)
  /\ {p.from, p.to} \cap DaysOff = {}
  /\ ~WorkedIn(p)

\* Each day range draws on the leave year of its own first day.  A type only
\* HR grants has nothing earned until it is granted.
BalanceCovers(type, pieces) ==
  \/ type \in UncappedTypes
  \/ \A y \in Years :
       LET drawn == {p \in pieces : YearOf(p.from) = y}
       IN  drawn # {} => Total(drawn) <= Earned[type][y] - used[type][y]

\* Mutant: only a request sent back to the employee is awaiting review.
AwaitsRevision(type) ==
  \E i \in Ids : HasStatus(i, {"NEEDS_REVISION"}) /\ requests[i].type = type

AwaitsReview(type) ==
  \E i \in Ids : HasStatus(i, Undecided) /\ requests[i].type = type

Filed(type, p, ext) ==
  [NoRequest EXCEPT !.status = "PENDING", !.type = type, !.from = p.from,
                    !.to = p.to, !.filedOn = today, !.ext = ext]

\* create (one range) and createForDates (several single days at once).
FileRequests(type, pieces) ==
  /\ Cardinality(pieces) > 1 => /\ type \in SingleDayTypes \cap PastAbsenceTypes
                                /\ \A p \in pieces : p.from = p.to
  /\ ~AwaitsReview(type)
  /\ \A p \in pieces : DatesFileable(type, p)
  /\ BalanceCovers(type, pieces)
  /\ \E place \in Placements(pieces) :
       requests' = Inserted(requests, place, [p \in pieces |-> Filed(type, p, NoId)])
  /\ UNCHANGED <<used, attendance, today>>

-----------------------------------------------------------------------------
(***************************************************************************)
(* Review.  A Maternity extension is without pay: it never counts.         *)
(***************************************************************************)
\* Mutant: the balance of today's leave year.
AdjustedToday(i, delta) ==
  IF requests[i].ext # NoId THEN used
  ELSE [used EXCEPT ![requests[i].type][YearOf(today)] = NextUsed(@, delta)]

\* Mutant: an extension is charged like any leave.
AdjustedWithExtensions(i, delta) ==
  [used EXCEPT ![requests[i].type][YearOf(requests[i].from)] = NextUsed(@, delta)]

\* usedDays once `delta` is applied for request i.
Adjusted(i, delta) ==
  LET y == YearOf(requests[i].from)
  IN  IF requests[i].ext # NoId THEN used
      ELSE [used EXCEPT ![requests[i].type][y] = NextUsed(@, delta)]

\* updateStatus(id, "APPROVED")
Approve(i) ==
  /\ HasStatus(i, OfferedToApprove)
  /\ requests[i].status = "APPROVED" \/ ~WorkedIn(requests[i])
  /\ requests' = [requests EXCEPT ![i].status = "APPROVED"]
  /\ used' = IF requests[i].status = "APPROVED" THEN used
             ELSE Adjusted(i, Length(requests[i]))
  /\ UNCHANGED <<attendance, today>>

Reject(i, needsRequirements) ==
  /\ HasStatus(i, OfferedToReject)
  /\ requests' = [requests EXCEPT ![i].status =
                    IF needsRequirements THEN "NEEDS_REVISION" ELSE "REJECTED"]
  /\ used' = IF requests[i].status = "APPROVED" THEN Adjusted(i, -Length(requests[i]))
             ELSE used
  /\ UNCHANGED <<attendance, today>>

Resubmit(i) ==
  /\ requests[i].status = "NEEDS_REVISION"
  /\ requests' = [requests EXCEPT ![i].status = "PENDING"]
  /\ UNCHANGED <<used, attendance, today>>

-----------------------------------------------------------------------------
(***************************************************************************)
(* Cancellation.                                                           *)
(***************************************************************************)
HasStandingExtension(i) ==
  \E e \in Ids : requests[e].ext = i /\ HasStatus(e, Standing)

\* The rules an employee's own cancellation of an approved leave follows.
SelfCancellable(i, days) ==
  /\ ~requests[i].denied
  /\ requests[i].type \in CancellableTypes
  /\ \E d \in Span(i) : d >= today
  /\ days \cap worked = {}
  /\ \A d \in days : d >= today

\* Mutant: a leave that begins today still gives its days back.
BegunBefore(first) == first < today

\* The days were already taken, so cancelling must not hand them back.
AlreadyUsed(first) == first <= today

\* cancel, splitForCancellation and cancelOne.  bySelf is FALSE for an ADMIN
\* or SUPERVISOR cancelling on the employee's behalf.
Cancel(i, days, bySelf) ==
  LET old       == requests[i]
      approved  == old.status = "APPROVED"
      awaits    == approved /\ bySelf
      onStay    == HasStandingExtension(i)
      runs      == Runs(old.from, old.to, days)
      ends(p)   == p.from \in days /\ ~awaits
      refunded(y) == {p \in runs : /\ ends(p) /\ approved /\ ~AlreadyUsed(p.from)
                                   /\ YearOf(p.from) = y}
      piece(p)  ==
        [old EXCEPT !.from = p.from, !.to = p.to,
                    !.spent = ends(p) /\ approved /\ AlreadyUsed(p.from),
                    !.status = IF p.from \notin days THEN old.status
                               ELSE IF awaits THEN "CANCELLATION_PENDING" ELSE "CANCELLED"]
      splitOff(p) == [piece(p) EXCEPT !.denied = FALSE, !.splitFrom = i]
  IN  /\ HasStatus(i, CancellableStatuses)
      /\ days # {} /\ days \subseteq Span(i)
      /\ onStay => days # Span(i)
      /\ awaits => SelfCancellable(i, days)
      /\ \E kept \in KeptRun(runs, days, onStay) :
           \E place \in Placements(runs \ {kept}) :
             requests' = Inserted([requests EXCEPT ![i] = piece(kept)], place,
                                  [p \in runs \ {kept} |-> splitOff(p)])
      /\ used' = IF old.ext # NoId THEN used
                 ELSE [used EXCEPT ![old.type] =
                         [y \in Years |-> NextUsed(@[y], -Total(refunded(y)))]]
      /\ UNCHANGED <<attendance, today>>

ApproveCancellation(i) ==
  LET started == AlreadyUsed(requests[i].from)
  IN  /\ requests[i].status = "CANCELLATION_PENDING"
      /\ requests' = [requests EXCEPT ![i].status = "CANCELLED", ![i].spent = started]
      /\ used' = IF started THEN used ELSE Adjusted(i, -Length(requests[i]))
      /\ UNCHANGED <<attendance, today>>

\* preCancellationStatus is only ever APPROVED, which is what it reverts to.
DenyCancellation(i) ==
  /\ requests[i].status = "CANCELLATION_PENDING"
  /\ requests' = [requests EXCEPT ![i].status = "APPROVED", ![i].denied = TRUE]
  /\ UNCHANGED <<used, attendance, today>>

-----------------------------------------------------------------------------
(***************************************************************************)
(* Maternity extensions.                                                   *)
(***************************************************************************)
\* The request a piece was first split from; pieces come after what they
\* were split from.
Root(i) ==
  LET f[j \in Ids] == IF requests[j].splitFrom = NoId THEN j ELSE f[requests[j].splitFrom]
  IN  f[i]

\* Mutant: the other pieces of a split leave are not looked at.
FamilyOfOne(i) == {i}

\* Every piece of the same split leave.
Family(i) == {j \in Ids : requests[j].status # "NONE" /\ Root(j) = Root(i)}

\* getExtensionEligibility and requestExtension
RequestExtension(i) ==
  LET asked == [from |-> requests[i].to + 1, to |-> requests[i].to + ExtensionDays]
  IN  /\ requests[i].type \in ExtendableTypes
      /\ requests[i].ext = NoId
      /\ requests[i].status = "APPROVED"
      /\ \A j \in Family(i) : ~HasStandingExtension(j)
      /\ today <= requests[i].to - NoticeDays
      /\ ~OverlapsStanding(asked)
      /\ asked.to <= LastDay
      /\ \E place \in Placements({asked}) :
           requests' = Inserted(requests, place,
                                [p \in {asked} |-> Filed(requests[i].type, p, i)])
      /\ UNCHANGED <<used, attendance, today>>

-----------------------------------------------------------------------------
(***************************************************************************)
(* The lapse job, attendance and time.                                     *)
(***************************************************************************)
\* Mutant: a request waiting on the employee never lapses.
LapseWhenReviewable == Undecided \ {"NEEDS_REVISION"}

LapseCandidates == Undecided

\* decideLapse: at once when every requested day was worked, otherwise when
\* the grace period after the later of the last day and the filing is over.
LapseDue(i) ==
  LET asked     == Span(i) \ Sundays
      graceFrom == IF requests[i].filedOn > requests[i].to
                     THEN requests[i].filedOn ELSE requests[i].to
  IN  /\ requests[i].to < today
      /\ \/ asked # {} /\ asked \subseteq worked
         \/ graceFrom + GraceDays < today

\* One candidate of lapseUndecided.
Lapse(i) ==
  /\ HasStatus(i, LapseCandidates)
  /\ LapseDue(i)
  /\ requests' = [requests EXCEPT ![i].status = "LAPSED"]
  /\ UNCHANGED <<used, attendance, today>>

\* Mutant: only the first day of a leave is on leave.
OnFirstDayOfLeave(day) ==
  \E i \in Ids : requests[i].status = "APPROVED" /\ day = requests[i].from

\* Mutant: Time In looks for leaves that wait, not for granted ones.
OnPendingLeave(day) ==
  \E i \in Ids : requests[i].status = "PENDING" /\ day \in Span(i)

OnApprovedLeave(day) ==
  \E i \in Ids : requests[i].status = "APPROVED" /\ day \in Span(i)

\* The first Time In of a working day: today's, or yesterday's for a shift
\* that crosses midnight.
MayTimeIn(day) ==
  /\ day \in {today - 1, today} \cap (Days \ DaysOff)
  /\ day \notin worked
  /\ ~OnApprovedLeave(day)

TimeIn(day) ==
  /\ MayTimeIn(day)
  /\ worked' = worked \cup {day}
  /\ UNCHANGED <<requests, used, flags, today>>

\* A scan whose face match is doubtful leaves no attendance record, only a
\* log that waits for a reviewer and supersedes the earlier ones of the day.
FlagTimeIn(day) ==
  /\ MayTimeIn(day)
  /\ day \in DoubtfulDays
  /\ flags[day] # "pending"
  /\ flags' = [flags EXCEPT ![day] = "pending"]
  /\ UNCHANGED <<requests, used, worked, today>>

\* validateFlaggedLog makes it the attendance of its own day; rejectFlaggedLog
\* and archiveFlaggedLog drop it.
ReviewFlagged(day, valid) ==
  /\ flags[day] = "pending"
  /\ flags' = [flags EXCEPT ![day] = IF valid THEN "validated" ELSE "none"]
  /\ worked' = IF valid THEN worked \cup {day} ELSE worked
  /\ UNCHANGED <<requests, used, today>>

NextDay ==
  /\ today < Horizon
  /\ today' = today + 1
  /\ UNCHANGED <<requests, used, attendance>>

-----------------------------------------------------------------------------
Ranges == {p \in [from : Days, to : Days] : p.from <= p.to}

\* What the clients can file: one range, or two single days.
Filings ==
  {{p} : p \in Ranges}
    \cup {pair \in SUBSET {p \in Ranges : p.from = p.to} : Cardinality(pair) = 2}

Init ==
  /\ requests = [i \in Ids |-> NoRequest]
  /\ used = [t \in LeaveTypes |-> [y \in Years |-> 0]]
  /\ worked = {}
  /\ flags = [d \in Days |-> "none"]
  /\ today = 1

Next ==
  \/ \E t \in LeaveTypes : \E pieces \in Filings : FileRequests(t, pieces)
  \/ \E i \in Ids : Approve(i)
  \/ \E i \in Ids : \E revise \in BOOLEAN : Reject(i, revise)
  \/ \E i \in Ids : Resubmit(i)
  \/ \E i \in Ids : \E days \in SUBSET Span(i) : \E bySelf \in BOOLEAN :
       Cancel(i, days, bySelf)
  \/ \E i \in Ids : ApproveCancellation(i)
  \/ \E i \in Ids : DenyCancellation(i)
  \/ \E i \in Ids : RequestExtension(i)
  \/ \E i \in Ids : Lapse(i)
  \/ \E day \in Days : TimeIn(day)
  \/ \E day \in Days : FlagTimeIn(day)
  \/ \E day \in Days : \E valid \in BOOLEAN : ReviewFlagged(day, valid)
  \/ NextDay

Spec == Init /\ [][Next]_vars

\* The lapse job runs every ten minutes and reads every undecided request,
\* and the clock never stops.
Fairness == WF_vars(NextDay) /\ \A i \in Ids : WF_vars(Lapse(i))

FairSpec == Spec /\ Fairness

-----------------------------------------------------------------------------
(***************************************************************************)
(* Properties.                                                             *)
(***************************************************************************)
\* Every row is a well-formed leave request and usedDays is never negative.
TypeOK ==
  /\ requests \in [Ids -> Request]
  /\ used \in [LeaveTypes -> [Years -> Nat]]
  /\ worked \subseteq Days
  /\ flags \in [Days -> {"none", "pending", "validated"}]
  /\ today \in 1..Horizon

\* One day is covered by a single leave: two requests that are waiting or
\* granted never share a day, however they were filed, split, extended,
\* sent back or contested (assertNoOverlap).
NoOverlap ==
  \A i, j \in Ids :
    i # j /\ HasStatus(i, Standing) /\ HasStatus(j, Standing)
      => ~Meet(requests[i], requests[j])

\* A partial cancellation cut a leave at the leave-year reset: its pieces
\* draw on two balances although one was charged.
SplitAcrossReset ==
  \E i \in Ids :
    /\ requests[i].splitFrom # NoId
    /\ YearOf(requests[i].from) # YearOf(requests[requests[i].splitFrom].from)

\* The requests whose days are charged to the balance.
Charged(i) ==
  /\ requests[i].ext = NoId
  /\ HasStatus(i, Granted) \/ (HasStatus(i, {"CANCELLED"}) /\ requests[i].spent)

\* totalDays of every row.
TotalDays == [i \in Ids |-> Length(requests[i])]

DrawnOn(t, y, S) ==
  SumFunctionOnSet(TotalDays, {i \in S : requests[i].type = t /\ YearOf(requests[i].from) = y})

Ledger(t, y) == used[t][y] = DrawnOn(t, y, {i \in Ids : Charged(i)})

\* usedDays is exactly the days of the leaves granted, plus the days of those
\* cancelled once they had begun: no sequence of approvals, rejections,
\* partial cancellations, denials and lapses charges a day twice or refunds
\* one never charged (updateStatus, approveCancellation, splitForCancellation).
LedgerExact == ~SplitAcrossReset => \A t \in LeaveTypes, y \in Years : Ledger(t, y)

\* The same without the exception for leaves cut at the reset: what
\* adjustLeaveBalance says of itself ("of the request's start date").
LedgerExactAlways == \A t \in LeaveTypes, y \in Years : Ledger(t, y)

\* The days of a capped leave type that are charged or may still be granted
\* fit in what was earned, although a filing is checked against the balance
\* only once and an approval never is (fileRequests).
NotOverdrawn ==
  ~SplitAcrossReset =>
    \A t \in LeaveTypes \ UncappedTypes, y \in Years :
      used[t][y] + DrawnOn(t, y, {i \in Ids : HasStatus(i, Undecided)
                                              /\ requests[i].ext = NoId})
        <= Earned[t][y]

\* However a Maternity leave is cut into pieces and its extension cancelled,
\* refused and asked for again, the extensions that stand never add up to
\* more than one extension (getExtensionEligibility).
ExtensionOnce ==
  \A i \in Ids :
    SumFunctionOnSet(TotalDays,
      {e \in Ids : /\ HasStatus(e, Standing) /\ requests[e].ext # NoId
                  /\ Root(requests[e].ext) = Root(i)})
      <= ExtensionDays

\* No leave is approved over a day the employee worked (updateStatus: "a day
\* they actually worked can't afterwards be turned into a leave day").
NoLeaveOnWorkedDay ==
  \A i \in Ids : requests[i].status = "APPROVED" => Span(i) \cap worked = {}

\* The only ways around it are a Time In while a cancellation was awaiting
\* its decision, and a decision that denied it (getApprovedLeaveByEmployee
\* reads APPROVED only), and a doubtful scan validated after the approval
\* (validateFlaggedLog looks at no leave).
WorkedLeaveIsExplained ==
  \A i \in Ids : requests[i].status = "APPROVED" =>
    \A d \in Span(i) \cap worked :
      flags[d] = "validated" \/ \E j \in Family(i) : requests[j].denied

GrantedDays(t) ==
  UNION {Span(i) : i \in {j \in Ids : /\ HasStatus(j, Granted) /\ requests[j].type = t
                                      /\ requests[j].ext = NoId}}

UsedDays(t) == SumFunctionOnSet(used[t], Years)

\* A step gives back no more days than it takes out of granted leave, and
\* only days still to come: a leave already begun keeps its charge
\* (cancelOne, approveCancellation).
RefundsOnlyDaysToCome ==
  [][ \A t \in LeaveTypes :
        UsedDays(t) - UsedDays(t)'
          <= Cardinality({d \in GrantedDays(t) \ GrantedDays(t)' : d > today}) ]_vars

\* A request filed early enough for its grace period to end within the
\* bounded clock does not stay undecided forever (LeaveLapseService: "Keeps
\* undecided leave requests from sitting pending forever").
EventuallyDecided ==
  \A i \in Ids :
    (/\ HasStatus(i, Undecided)
     /\ requests[i].filedOn + GraceDays < Horizon
     /\ requests[i].to + GraceDays < Horizon) ~> ~HasStatus(i, Undecided)

\* How a day reads in the abstract book.
MarkOf(d) ==
  LET covers(S) == \E i \in Ids : HasStatus(i, S) /\ d \in Span(i)
  IN  IF covers({"APPROVED"}) THEN "granted"
      ELSE IF covers({"CANCELLATION_PENDING"}) THEN "contested"
      ELSE IF covers(Undecided) THEN "asked"
      ELSE "free"

DayBook == INSTANCE LeaveDayBook
             WITH Day <- Days, book <- [d \in Days |-> MarkOf(d)], attended <- worked,
                  doubted <- {d \in Days : flags[d] = "pending"}

\* Every handler does to the days of its request what the abstract book
\* allows: none grants a day that was not asked for or was worked, and a
\* partial cancellation touches no day that was not picked.
KeepsDayBook == DayBook!BookSpec
=============================================================================
