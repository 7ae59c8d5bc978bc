----------------------------- MODULE LeaveReview -----------------------------
(***************************************************************************)
(* The handlers of LeaveService and LeaveLapseService taken apart at their *)
(* awaits.  None of them holds a transaction across its reads and writes,  *)
(* so another call can run between loading a request and updating it, and  *)
(* between reading usedDays and storing it.                                *)
(*                                                                         *)
(* Every request in Reqs is for the same one working day of one employee   *)
(* and draws on the same balance; consecutive reads made before a          *)
(* handler's first write are one step unless something hangs on their      *)
(* order.  A caller is one client, or the lapse job: it makes one call at  *)
(* a time.                                                                 *)
(***************************************************************************)
EXTENDS LeaveRules, FiniteSets

CONSTANTS
  Reqs,       \* rows of leave_requests that may be filed
  Callers,
  Duties,     \* the calls each caller makes
  MayFail,    \* the callers whose calls may break off between two awaits
  MaxUsed     \* bound: no approval is asked for once usedDays is this high

Operations ==
  {"file", "approve", "reject", "return", "override", "cancel",
   "approveCancellation", "denyCancellation", "resubmit", "lapse", "timeIn"}

ASSUME ReviewAssumption ==
  /\ Reqs # {} /\ IsFiniteSet(Reqs) /\ IsFiniteSet(Callers)
  /\ Duties \in [Callers -> SUBSET Operations]
  /\ MayFail \subseteq Callers /\ MaxUsed \in Nat

VARIABLES
  row,        \* status of each request, "NONE" before it is filed
  taken,      \* requests cancelled once their day had begun: no refund
  denied,     \* requests with a CANCELLATION_DENIED note
  used,       \* LeaveBalance.usedDays
  worked,     \* an attendance record with timeInAt exists for the day
  doubled,    \* history: lapsed requests approved though another kept the day
  phase,      \* where the clock stands relative to the day
  call        \* the handler call each caller is in

stored == <<row, taken, denied, used, worked, doubled>>
vars == <<stored, phase, call>>

(***************************************************************************)
(* at: the write or read the handler is about to make.  seen: the status   *)
(* it loaded.  first: what cancel() loaded before updateStatus loads again.*)
(* skip: skipBalanceRestore.  delta: what it adds to usedDays.  stash: the *)
(* usedDays it read.                                                       *)
(***************************************************************************)
Call ==
  [ at    : {"idle", "insert", "attendance", "reload", "update", "guarded",
             "balance", "store", "stamp"},
    op    : Operations,
    req   : Reqs,
    seen  : LeaveStatus \cup {"NONE"},
    first : LeaveStatus \cup {"NONE"},
    skip  : BOOLEAN,
    delta : {-1, 0, 1},
    stash : Nat ]

Idle == [ at |-> "idle", op |-> "file", req |-> CHOOSE r \in Reqs : TRUE,
          seen |-> "NONE", first |-> "NONE", skip |-> FALSE, delta |-> 0, stash |-> 0 ]

Goes(c, next) == call' = [call EXCEPT ![c] = next]

Begun == phase # "before"

\* The status a call writes: an employee's cancellation of an approved leave
\* only asks for it.
Outcome(k) ==
  CASE k.op \in {"approve", "denyCancellation"} -> "APPROVED"
    [] k.op = "reject"   -> "REJECTED"
    [] k.op = "return"   -> "NEEDS_REVISION"
    [] k.op = "resubmit" -> "PENDING"
    [] k.op = "cancel" /\ k.first = "APPROVED" -> "CANCELLATION_PENDING"
    [] OTHER -> "CANCELLED"

\* Mutant: skipBalanceRestore is ignored.
BalanceChangeNoSkip(k) ==
  CASE k.op = "approve" /\ k.seen # "APPROVED" -> 1
    [] /\ k.op \in {"reject", "return", "override", "cancel"}
       /\ k.seen = "APPROVED" /\ Outcome(k) # "CANCELLATION_PENDING" -> -1
    [] OTHER -> 0

\* updateStatus and reject: charge a first approval, refund a reversed one.
BalanceChange(k) ==
  CASE k.op = "approve" /\ k.seen # "APPROVED" -> 1
    [] /\ k.op \in {"reject", "return", "override", "cancel"}
       /\ k.seen = "APPROVED" /\ Outcome(k) # "CANCELLATION_PENDING" /\ ~k.skip -> -1
    [] OTHER -> 0

-----------------------------------------------------------------------------
\* Mutant: a leave already granted does not keep its day.
OnlyUndecided(status) == status \in Undecided

\* The statuses assertNoOverlap looks for.
KeepsItsDay(status) == status \in Standing

\* A request is handled only if it was loaded in one of these statuses (for
\* approve and reject that is what the clients offer, not a test of theirs; a
\* lapsed request may still be approved late).
Accepts(op, r) ==
  CASE op = "file" ->
         row[r] = "NONE" /\ ~worked /\ \A q \in Reqs : ~KeepsItsDay(row[q])
    [] op = "approve" -> row[r] \in {"PENDING", "LAPSED"}
    [] op \in {"reject", "return"} -> row[r] = "PENDING"
    [] op = "override" -> row[r] \in CancellableStatuses
    [] op = "cancel" ->
         /\ row[r] \in CancellableStatuses
         /\ row[r] = "APPROVED" => r \notin denied /\ phase # "after" /\ ~worked
    [] op \in {"approveCancellation", "denyCancellation"} -> row[r] = "CANCELLATION_PENDING"
    [] op = "resubmit" -> row[r] = "NEEDS_REVISION"
    [] op = "lapse" -> row[r] \in Undecided /\ phase = "after"
    [] op = "timeIn" -> phase = "on" /\ ~worked /\ \A q \in Reqs : row[q] # "APPROVED"

\* What the handler does next once it has loaded the request.
FirstStep(op, status) ==
  CASE op = "file" -> "insert"
    [] op = "approve" -> "attendance"
    [] op = "override" \/ (op = "cancel" /\ status # "APPROVED") -> "reload"
    [] op = "approveCancellation" /\ ~Begun -> "balance"
    [] op = "lapse" -> "guarded"
    [] op = "timeIn" -> "stamp"
    [] OTHER -> "update"

\* A call arrives and loads what it decides on.
Load(c, op, r) ==
  /\ call[c].at = "idle" /\ op \in Duties[c]
  /\ Accepts(op, r)
  /\ op = "approve" => used < MaxUsed
  /\ Goes(c, [Idle EXCEPT !.op = op, !.req = r, !.seen = row[r], !.first = row[r],
                          !.at = FirstStep(op, row[r]),
                          !.delta = IF op = "approveCancellation" /\ ~Begun THEN -1 ELSE 0])
  /\ UNCHANGED <<stored, phase>>

Insert(c, r) ==
  /\ call[c].at = "insert" /\ row[r] = "NONE"
  /\ row' = [row EXCEPT ![r] = "PENDING"]
  /\ Goes(c, Idle)
  /\ UNCHANGED <<taken, denied, used, worked, doubled, phase>>

\* workedDaysInRange: an approval is refused over a day already worked.
ReadAttendance(c) ==
  /\ call[c].at = "attendance"
  /\ Goes(c, IF worked THEN Idle ELSE [call[c] EXCEPT !.at = "update"])
  /\ UNCHANGED <<stored, phase>>

\* updateStatus loads the request that cancel() had already loaded.
Reload(c) ==
  LET k == call[c]
  IN  /\ k.at = "reload"
      /\ Goes(c, [k EXCEPT !.at = "update", !.seen = row[k.req],
                           !.skip = k.first = "APPROVED" /\ Begun])
      /\ UNCHANGED <<stored, phase>>

\* An approved leave is cancelled and its days are not given back.
KeepsCharge(k) ==
  /\ Outcome(k) = "CANCELLED"
  /\ k.seen \in Granted
  /\ IF k.op = "approveCancellation" THEN k.delta = 0 ELSE k.skip

\* updateStatus looks for no other leave of the day, as filing does.
ApprovesOverAnother(k) ==
  /\ k.op = "approve" /\ k.seen \in Closed
  /\ \E q \in Reqs \ {k.req} : row[q] \in Standing

\* The update is by id, whatever the row holds by now.
Update(c) ==
  LET k == call[c]
  IN  /\ k.at = "update"
      /\ row' = [row EXCEPT ![k.req] = Outcome(k)]
      /\ taken' = IF KeepsCharge(k) THEN taken \cup {k.req} ELSE taken \ {k.req}
      /\ denied' = IF k.op = "denyCancellation" THEN denied \cup {k.req} ELSE denied
      /\ doubled' = IF ApprovesOverAnother(k) THEN doubled \cup {k.req} ELSE doubled
      /\ Goes(c, IF BalanceChange(k) = 0 THEN Idle
                 ELSE [k EXCEPT !.at = "balance", !.delta = BalanceChange(k)])
      /\ UNCHANGED <<used, worked, phase>>

\* Mutant: the lapse is not guarded.
AnyStatus(k) == TRUE

\* The where clause of the lapse.
StillAsLoaded(k) == row[k.req] = k.seen

GuardedLapse(c) ==
  LET k == call[c]
  IN  /\ k.at = "guarded"
      /\ row' = IF StillAsLoaded(k) THEN [row EXCEPT ![k.req] = "LAPSED"] ELSE row
      /\ Goes(c, Idle)
      /\ UNCHANGED <<taken, denied, used, worked, doubled, phase>>

ReadBalance(c) ==
  /\ call[c].at = "balance"
  /\ Goes(c, [call[c] EXCEPT !.at = "store", !.stash = used])
  /\ UNCHANGED <<stored, phase>>

\* approveCancellation refunds before it closes the request, every other
\* handler updates the request first.
StoreBalance(c) ==
  LET k == call[c]
  IN  /\ k.at = "store"
      /\ used' = NextUsed(k.stash, k.delta)
      /\ Goes(c, IF k.op = "approveCancellation" THEN [k EXCEPT !.at = "update", !.stash = 0]
                 ELSE Idle)
      /\ UNCHANGED <<row, taken, denied, worked, doubled, phase>>

StampTimeIn(c) ==
  /\ call[c].at = "stamp"
  /\ worked' = TRUE
  /\ Goes(c, Idle)
  /\ UNCHANGED <<row, taken, denied, used, doubled, phase>>

\* An await throws (notifyUsers does not catch) or the server stops: what was
\* written stays, the rest of the handler never runs.
BreakOff(c) ==
  /\ c \in MayFail /\ call[c].at # "idle"
  /\ Goes(c, Idle)
  /\ UNCHANGED <<stored, phase>>

Midnight ==
  /\ phase # "after"
  /\ phase' = IF phase = "before" THEN "on" ELSE "after"
  /\ UNCHANGED <<stored, call>>

-----------------------------------------------------------------------------
Init ==
  /\ row = [r \in Reqs |-> "NONE"]
  /\ taken = {} /\ denied = {} /\ doubled = {}
  /\ used = 0
  /\ worked = FALSE
  /\ phase = "before"
  /\ call = [c \in Callers |-> Idle]

Next ==
  \/ \E c \in Callers, op \in Operations, r \in Reqs : Load(c, op, r)
  \/ \E c \in Callers, r \in Reqs : Insert(c, r)
  \/ \E c \in Callers : ReadAttendance(c)
  \/ \E c \in Callers : Reload(c)
  \/ \E c \in Callers : Update(c)
  \/ \E c \in Callers : GuardedLapse(c)
  \/ \E c \in Callers : ReadBalance(c)
  \/ \E c \in Callers : StoreBalance(c)
  \/ \E c \in Callers : StampTimeIn(c)
  \/ \E c \in Callers : BreakOff(c)
  \/ Midnight

Spec == Init /\ [][Next]_vars

-----------------------------------------------------------------------------
TypeOK ==
  /\ row \in [Reqs -> LeaveStatus \cup {"NONE"}]
  /\ taken \subseteq Reqs /\ denied \subseteq Reqs /\ doubled \subseteq Reqs
  /\ used \in Nat
  /\ worked \in BOOLEAN
  /\ phase \in {"before", "on", "after"}
  /\ call \in [Callers -> Call]

Settled == \A c \in Callers : call[c].at = "idle"

\* Once every call has returned, usedDays is the number of leaves granted or
\* cancelled too late: the charge and the status a handler writes in separate
\* steps end up agreeing (updateStatus: "Only touch the balance when the
\* *final* approval state is actually changing").
LedgerSettles ==
  Settled => used = Cardinality({r \in Reqs : row[r] \in Granted \/ r \in taken})

\* A decision that was written while the lapse job was looking at the request
\* is never overwritten by it (lapseUndecided: "a reviewer deciding the
\* request at the same moment always wins over the automatic lapse").
DecisionOutlivesLapse ==
  [][\A r \in Reqs : row[r] \in Granted \cup Closed /\ row[r] # "LAPSED" => row'[r] # "LAPSED"]_vars

\* Two leaves cover one day only if one of them had lapsed and was approved late
\* over the other, whoever files at the same moment (assertNoOverlap: "One day
\* can only ever be covered by a single leave").
OneLeavePerDay ==
  \A q, r \in Reqs :
    row[q] \in Standing /\ row[r] \in Standing /\ q # r => {q, r} \cap doubled # {}
=============================================================================
