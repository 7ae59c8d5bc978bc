----------------------------- MODULE LeavePayout -----------------------------
(***************************************************************************)
(* The payout of the unused days of a leave year that has ended            *)
(* (LeaveMonetizationService), beside the decisions on the requests of     *)
(* that year that are still open.  One employee, one monetizable type:     *)
(* a payout reads every employee at once, and pays each in a transaction   *)
(* of its own.                                                             *)
(*                                                                         *)
(* The payout comes back every hour in the first week of the new year, and *)
(* nothing else starts one.  The decisions are LeaveService's, whose       *)
(* adjustLeaveBalance reads the balance and stores it again outside a      *)
(* transaction; nothing keeps a decision and a payout apart.               *)
(***************************************************************************)
EXTENDS LeaveRules, FiniteSets, Functions

CONSTANTS
  Reqs,          \* requests of the ended year that may be filed
  TotalDays,     \* LeaveRequest.totalDays of each
  DefaultDays,   \* LeaveType.defaultDays
  MaxDays,       \* LeaveType.maxMonetizableDays
  AutoCredited,  \* LeaveType.isAutoCredited, of a REGULAR employee
  Payouts,       \* payouts under way at the same time
  MaxDecisions   \* bound: decisions and reversals

ASSUME PayoutAssumption ==
  /\ TotalDays \in [Reqs -> Nat \ {0}] /\ IsFiniteSet(Reqs)
  /\ DefaultDays \in Nat /\ MaxDays \in Nat /\ MaxDecisions \in Nat
  /\ AutoCredited \in BOOLEAN

VARIABLES
  status,       \* of each request, "NONE" before it is filed
  leaveBalance, \* leave_balances: whether the row exists, earnedDays, usedDays
  paid,         \* leave_monetizations: {} or the days of the one row
  payout,       \* where each payout stands and what it has read
  decision,     \* the decision under way, if any
  decided,      \* decisions so far
  beside,       \* history: payouts that saw the requests or the balance change
  astray        \* history: an adjustment was lost, or stored over a newer balance

payoutVars ==
  <<status, leaveBalance, paid, payout, decision, decided, beside, astray>>

AtRest == [pc |-> "idle"]
Unread == -1

Sum(S) == SumFunctionOnSet(TotalDays, S)
InStatus(S) == {q \in Reqs : status[q] \in S}
UndecidedDays == Sum(InStatus(Undecided))

\* earnedDays, or the allotment where there is no row.
Earned == IF leaveBalance.row THEN leaveBalance.earned ELSE DefaultDays
AtLeastZero(n) == IF n < 0 THEN 0 ELSE n
Remaining == AtLeastZero(Earned - leaveBalance.used)

Underway == {p \in Payouts : payout[p] # AtRest}

-----------------------------------------------------------------------------
(***************************************************************************)
(* The payout.                                                             *)
(***************************************************************************)
\* ensureAutoCreditedBalances, then buildRows sends its queries together:
\* they are answered in any order.
BeginPayout(p) ==
  /\ payout[p] = AtRest
  /\ leaveBalance' = IF AutoCredited /\ ~leaveBalance.row
                       THEN [row |-> TRUE, earned |-> DefaultDays, used |-> 0] ELSE leaveBalance
  /\ payout' = [payout EXCEPT ![p] =
       [pc |-> "reading", remaining |-> Unread, undecided |-> Unread, known |-> Unread]]
  /\ beside' = beside \ {p}
  /\ UNCHANGED <<status, paid, decision, decided, astray>>

Reads(p, field, value) ==
  /\ payout[p].pc = "reading" /\ payout[p][field] = Unread
  /\ payout' = [payout EXCEPT ![p][field] = value]
  /\ UNCHANGED <<status, leaveBalance, paid, decision, decided, beside, astray>>

ReadBalance(p) == Reads(p, "remaining", Remaining)

\* Mutant: only the requests nobody has looked at yet hold their days.
HeldPendingOnly == Sum(InStatus({"PENDING"}))

\* UNDECIDED_STATUSES
HeldDays == UndecidedDays

ReadUndecided(p) == Reads(p, "undecided", HeldDays)

ReadPaid(p) == Reads(p, "known", Cardinality(paid))

\* toMonetizeDays
Due(read) ==
  IF read.known = 1 THEN 0
  ELSE LET free == AtLeastZero(read.remaining - read.undecided)
       IN  IF free < MaxDays THEN free ELSE MaxDays

\* Mutant: a second payment is added to the first.
UnpaidAlways == TRUE

\* createMany with skipDuplicates, unique by employee, type and year.
Unpaid == paid = {}

\* One transaction: the row of the payout and the days on the balance.
Pay(p) ==
  /\ payout[p].pc = "reading"
  /\ \A field \in {"remaining", "undecided", "known"} : payout[p][field] # Unread
  /\ LET due == Due(payout[p])
     IN  IF due > 0 /\ Unpaid
           THEN /\ paid' = {due}
                /\ leaveBalance' =
                     [row |-> TRUE, earned |-> Earned, used |-> leaveBalance.used + due]
           ELSE UNCHANGED <<paid, leaveBalance>>
  /\ payout' = [payout EXCEPT ![p] = AtRest]
  /\ UNCHANGED <<status, decision, decided, beside, astray>>

\* A query throws, or the server stops.
StopPayout(p) ==
  /\ payout[p] # AtRest
  /\ payout' = [payout EXCEPT ![p] = AtRest]
  /\ UNCHANGED <<status, leaveBalance, paid, decision, decided, beside, astray>>

-----------------------------------------------------------------------------
(***************************************************************************)
(* The requests.                                                           *)
(***************************************************************************)
\* LeaveService.create: within what remains, other requests not counted.
File(q) ==
  /\ status[q] = "NONE" /\ TotalDays[q] <= Remaining
  /\ status' = [status EXCEPT ![q] = "PENDING"]
  /\ beside' = beside \cup Underway
  /\ UNCHANGED <<leaveBalance, paid, payout, decision, decided, astray>>

\* The update of a request, after it adjustLeaveBalance.
Decides(q, from, to, delta) ==
  /\ decision = AtRest /\ decided < MaxDecisions
  /\ status[q] \in from
  /\ status' = [status EXCEPT ![q] = to]
  /\ decision' = IF delta = 0 THEN AtRest ELSE [pc |-> "reading", delta |-> delta]
  /\ decided' = decided + 1 /\ beside' = beside \cup Underway
  /\ UNCHANGED <<leaveBalance, paid, payout, astray>>

Approve(q) == Decides(q, Undecided, "APPROVED", TotalDays[q])
Return(q) == Decides(q, {"PENDING"}, "NEEDS_REVISION", 0)
Reject(q) == Decides(q, Undecided, "REJECTED", 0)
\* reject tests no status: a page loaded before the approval still offers it.
TakeBack(q, outcome) == Decides(q, {"APPROVED"}, outcome, -TotalDays[q])

AdjustReads ==
  /\ decision.pc = "reading"
  /\ decision' = [pc |-> "storing", delta |-> decision.delta, seen |-> leaveBalance]
  /\ UNCHANGED <<status, leaveBalance, paid, payout, decided, beside, astray>>

\* Only usedDays is stored; the first row takes the allotment.
AdjustStores ==
  /\ decision.pc = "storing" /\ (leaveBalance.row => decision.seen.row)
  /\ leaveBalance' =
       [ row |-> TRUE,
         earned |-> IF leaveBalance.row THEN leaveBalance.earned ELSE DefaultDays,
         used |-> NextUsed(IF decision.seen.row THEN decision.seen.used ELSE 0,
                           decision.delta) ]
  /\ decision' = AtRest
  /\ astray' = (astray \/ decision.seen # leaveBalance)
  /\ beside' = beside \cup Underway
  /\ UNCHANGED <<status, paid, payout, decided>>

\* The adjustment throws: a query fails, or the row it is about to create has
\* been made by a payout in the meantime.  The request keeps its new status.
AdjustFails ==
  /\ decision # AtRest
  /\ decision' = AtRest /\ astray' = TRUE
  /\ UNCHANGED <<status, leaveBalance, paid, payout, decided, beside>>

-----------------------------------------------------------------------------
PayoutInit ==
  /\ status = [q \in Reqs |-> "NONE"]
  /\ leaveBalance = [row |-> FALSE, earned |-> 0, used |-> 0]
  /\ paid = {} /\ payout = [p \in Payouts |-> AtRest]
  /\ decision = AtRest /\ decided = 0 /\ beside = {} /\ astray = FALSE

PayoutNext ==
  \/ \E p \in Payouts :
       \/ BeginPayout(p) \/ ReadBalance(p) \/ ReadUndecided(p) \/ ReadPaid(p)
       \/ Pay(p) \/ StopPayout(p)
  \/ \E q \in Reqs : File(q) \/ Approve(q) \/ Return(q) \/ Reject(q)
  \/ \E q \in Reqs, outcome \in {"REJECTED", "NEEDS_REVISION"} : TakeBack(q, outcome)
  \/ AdjustReads \/ AdjustStores \/ AdjustFails

PayoutSpec == PayoutInit /\ [][PayoutNext]_payoutVars

-----------------------------------------------------------------------------
\* daysPaid of the rows there are
DaysPaid == SumFunctionOnSet([d \in paid |-> d], paid)

\* The days paid out and the days of approved leave are on the balance, each
\* once, whichever payouts overlapped, were repeated or stopped and whatever was
\* decided beside them, unless a decision went astray: an adjustment that failed
\* with its request decided, or one stored over a balance that had changed since
\* it was read (monetize, adjustLeaveBalance).
PaidDaysStay ==
  decision = AtRest /\ ~astray => leaveBalance.used = Sum(InStatus(Granted)) + DaysPaid

\* A payout takes no day that a request waiting for its decision holds, unless a
\* request was filed or decided, or its days charged, since the payout began
\* (UNDECIDED_STATUSES, buildRows).
PayoutSparesHeldDays ==
  [][\A p \in Payouts \ beside :
       Pay(p) /\ paid' # paid => Remaining' >= UndecidedDays]_payoutVars

-----------------------------------------------------------------------------
\* What the service's own comments say, without the exceptions.
\*
\* "The paid days are added to the balance's usedDays (so they come off
\* remaining everywhere)": they stay there.
PaidDaysComeOff == decision = AtRest => leaveBalance.used >= DaysPaid

\* "Requests still waiting on a decision hold their days -- monetizing must not
\* pay those out from under them": the payer leaves what they hold.
HeldDaysAreNotPaid ==
  [][paid' # paid => Remaining' >= UndecidedDays]_payoutVars
=============================================================================
