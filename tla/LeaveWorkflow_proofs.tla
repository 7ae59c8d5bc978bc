------------------------ MODULE LeaveWorkflow_proofs ------------------------
(***************************************************************************)
(* Proofs about LeaveWorkflow for every value of its constants.            *)
(*                                                                         *)
(*   1. types, and no two leaves over one day;                             *)
(*   2. the rows a leave was split into, and where they end up;            *)
(*   3. work on a leave day is explained;                                  *)
(*   4. every step does to the days what the abstract day book allows;     *)
(*   5. refunds are of days to come;                                       *)
(*   6. the balances are the days of the leaves granted;                   *)
(*   7. nothing is overdrawn;                                              *)
(*   8. a leave is extended once.                                          *)
(*                                                                         *)
(* Each theorem names what it assumes of the statuses in which reviewers   *)
(* are offered a decision; the weakest assumption that holds is used.      *)
(***************************************************************************)
EXTENDS LeaveWorkflow, FiniteSetTheorems, SumLemmas, TLAPS

\* Reviewers are offered only requests that still keep their days.
ReviewersActOnStanding ==
  OfferedToApprove \subseteq Standing /\ OfferedToReject \subseteq Standing

\* The number of days in a set of pieces is a natural number.
LEMMA TotalNat ==
  ASSUME NEW pieces, \A p \in pieces : p.from \in Days /\ p.to \in Days
  PROVE  Total(pieces) \in Nat
<1> DEFINE D == UNION {p.from..p.to : p \in pieces}
<1>1. D \subseteq Days
  BY WorkflowAssumption DEF Days
<1>2. IsFiniteSet(Days)
  BY FS_Interval, WorkflowAssumption DEF Days
<1>3. IsFiniteSet(D)
  BY <1>1, <1>2, FS_Subset
<1> QED
  BY <1>3, FS_CardinalityType DEF Total

\* usedDays stays a natural number.
LEMMA NextUsedNat ==
  ASSUME NEW u \in Nat, NEW delta \in Int
  PROVE  NextUsed(u, delta) \in Nat
BY DEF NextUsed

\* What charging or refunding a request leaves in the balances.
LEMMA AdjustedType ==
  ASSUME TypeOK, NEW i \in Ids, NEW delta \in Int
  PROVE  Adjusted(i, delta) \in [LeaveTypes -> [Years -> Nat]]
<1> DEFINE t == requests[i].type
           y == YearOf(requests[i].from)
<1>1. t \in LeaveTypes
  BY DEF TypeOK, Request
<1>2. y \in Years
  BY DEF YearOf, Years
<1>3. used[t][y] \in Nat
  BY <1>1, <1>2 DEF TypeOK
<1>4. NextUsed(used[t][y], delta) \in Nat
  BY <1>3, NextUsedNat
<1> QED
  BY <1>1, <1>2, <1>4 DEF Adjusted, TypeOK

\* A row of the table after an insertion is an old row or an inserted one.
LEMMA InsertedRow ==
  ASSUME NEW table, NEW place, NEW rows, NEW i \in Ids
  PROVE  \/ Inserted(table, place, rows)[i] = table[i]
         \/ \E p \in DOMAIN place : place[p] = i /\ Inserted(table, place, rows)[i] = rows[p]
<1>1. CASE \E p \in DOMAIN place : place[p] = i
  <2> DEFINE p == CHOOSE q \in DOMAIN place : place[q] = i
  <2>1. p \in DOMAIN place /\ place[p] = i
    BY <1>1
  <2>2. Inserted(table, place, rows)[i] = rows[p]
    BY <1>1 DEF Inserted
  <2> QED
    BY <2>1, <2>2
<1>2. CASE ~\E p \in DOMAIN place : place[p] = i
  BY <1>2 DEF Inserted
<1> QED
  BY <1>1, <1>2

LEMMA InsertedType ==
  ASSUME NEW table \in [Ids -> Request], NEW place, NEW rows,
         \A p \in DOMAIN place : rows[p] \in Request
  PROVE  Inserted(table, place, rows) \in [Ids -> Request]
<1>1. ASSUME NEW i \in Ids
      PROVE  Inserted(table, place, rows)[i] \in Request
  BY <1>1, InsertedRow
<1> QED
  BY <1>1 DEF Inserted

-----------------------------------------------------------------------------
\* A step after which every standing request stood before over the same days
\* makes no overlap.
LEMMA NothingNewStands ==
  ASSUME NoOverlap,
         \A i \in Ids : requests'[i].status \in Standing =>
           /\ requests[i].status \in Standing
           /\ requests'[i].from = requests[i].from
           /\ requests'[i].to = requests[i].to
  PROVE  NoOverlap'
BY DEF NoOverlap, HasStatus, Meet

\* Requests put into free rows, over days that no standing request covers and
\* that they do not share with each other, make no overlap.
LEMMA NewRequestsStandApart ==
  ASSUME TypeOK, NoOverlap, NEW pieces, NEW place \in Placements(pieces),
         NEW rows, DOMAIN rows = pieces,
         requests' = Inserted(requests, place, rows),
         \A p \in pieces : rows[p].from = p.from /\ rows[p].to = p.to,
         \A p \in pieces : ~OverlapsStanding(p),
         \A p, q \in pieces : p # q => ~Meet(p, q),
         \A p \in pieces : p.from \in Int /\ p.to \in Int
  PROVE  NoOverlap'
<1> SUFFICES ASSUME NEW i \in Ids, NEW j \in Ids, i # j,
                    requests'[i].status \in Standing, requests'[j].status \in Standing
             PROVE  ~Meet(requests'[i], requests'[j])
  BY DEF NoOverlap, HasStatus
<1>1. DOMAIN place = pieces
  BY DEF Placements
<1>2. \A k \in Ids : \/ requests'[k] = requests[k]
                      \/ \E p \in pieces : place[p] = k /\ requests'[k] = rows[p]
  BY <1>1, InsertedRow
<1>3. CASE requests'[i] = requests[i] /\ requests'[j] = requests[j]
  BY <1>3 DEF NoOverlap, HasStatus
<1>4. ASSUME NEW k \in Ids, NEW l \in Ids, requests'[k] = requests[k],
             requests[k].status \in Standing,
             NEW p \in pieces, requests'[l] = rows[p]
      PROVE  ~Meet(requests'[k], requests'[l]) /\ ~Meet(requests'[l], requests'[k])
  <2>1. ~Meet(p, requests[k])
    BY <1>4 DEF OverlapsStanding, HasStatus
  <2> QED
    BY <2>1, <1>4 DEF Meet
<1>5. CASE \E p, q \in pieces : /\ place[p] = i /\ requests'[i] = rows[p]
                                /\ place[q] = j /\ requests'[j] = rows[q]
  BY <1>5 DEF Meet
<1> QED
  BY <1>2, <1>3, <1>4, <1>5

-----------------------------------------------------------------------------
LEMMA FiledType ==
  ASSUME TypeOK, NEW type \in LeaveTypes, NEW p, p.from \in Days, p.to \in Days,
         NEW ext \in Ids \cup {NoId}
  PROVE  Filed(type, p, ext) \in Request
BY DEF Filed, NoRequest, Request, TypeOK, LeaveStatus, Standing, Undecided

LEMMA FileRequestsSafe ==
  ASSUME TypeOK, NEW type \in LeaveTypes, NEW pieces \in Filings,
         FileRequests(type, pieces)
  PROVE  TypeOK' /\ (NoOverlap => NoOverlap')
<1>1. PICK place \in Placements(pieces) :
        requests' = Inserted(requests, place, [p \in pieces |-> Filed(type, p, NoId)])
  BY DEF FileRequests
<1> DEFINE rows == [p \in pieces |-> Filed(type, p, NoId)]
<1>2. \A p \in pieces : p \in Ranges
  BY DEF Filings
<1>3. \A p \in pieces : p.from \in Days /\ p.to \in Days /\ p.from \in Int /\ p.to \in Int
  BY <1>2, WorkflowAssumption DEF Ranges, Days
<1>4. DOMAIN place = pieces
  BY <1>1 DEF Placements
<1>5. TypeOK'
  <2>1. \A p \in pieces : rows[p] \in Request
    BY <1>3, FiledType
  <2>2. requests' \in [Ids -> Request]
    BY <1>1, <1>4, <2>1, InsertedType DEF TypeOK
  <2> QED
    BY <2>2 DEF TypeOK, FileRequests, attendance
<1>6. \A p, q \in pieces : p # q => ~Meet(p, q)
  <2>1. CASE \E p \in Ranges : pieces = {p}
    BY <2>1
  <2>2. CASE pieces \subseteq {p \in Ranges : p.from = p.to}
    BY <2>2 DEF Meet, Ranges, Days
  <2> QED
    BY <2>1, <2>2 DEF Filings
<1>7. ASSUME NoOverlap PROVE NoOverlap'
  <2>1. \A p \in pieces : rows[p].from = p.from /\ rows[p].to = p.to
    BY DEF Filed, NoRequest
  <2>2. \A p \in pieces : ~OverlapsStanding(p)
    BY DEF FileRequests, DatesFileable
  <2> QED
    BY <1>1, <1>3, <1>6, <1>7, <2>1, <2>2, NewRequestsStandApart
<1> QED
  BY <1>5, <1>7

\* Giving a row another status leaves it well formed.
LEMMA StatusChangeType ==
  ASSUME TypeOK, NEW i \in Ids, NEW status \in LeaveStatus
  PROVE  [requests EXCEPT ![i].status = status] \in [Ids -> Request]
<1>1. requests[i] \in Request
  BY DEF TypeOK
<1>2. [requests[i] EXCEPT !.status = status] \in Request
  BY <1>1 DEF Request
<1> QED
  BY <1>2 DEF TypeOK

LEMMA ReviewSafe ==
  ASSUME TypeOK, NEW i \in Ids, NEW revise \in BOOLEAN,
         Approve(i) \/ Reject(i, revise)
  PROVE  TypeOK' /\ (NoOverlap /\ ReviewersActOnStanding => NoOverlap')
<1> DEFINE n == Length(requests[i])
<1>1. n \in Int /\ -n \in Int
  BY WorkflowAssumption DEF TypeOK, Request, Length, Days
<1>3. used' \in [LeaveTypes -> [Years -> Nat]]
  BY <1>1, AdjustedType DEF Approve, Reject, TypeOK
<1>4. requests' \in [Ids -> Request]
  <2>1. {"APPROVED", "NEEDS_REVISION", "REJECTED"} \subseteq LeaveStatus
    BY DEF LeaveStatus, Standing, Undecided, Granted, Closed
  <2>2. CASE Approve(i)
    BY <2>1, <2>2, StatusChangeType DEF Approve
  <2>3. CASE Reject(i, revise)
    <3>1. (IF revise THEN "NEEDS_REVISION" ELSE "REJECTED") \in LeaveStatus
      BY <2>1
    <3> QED
      BY <2>3, <3>1, StatusChangeType DEF Reject
  <2> QED
    BY <2>2, <2>3
<1>5. TypeOK'
  BY <1>3, <1>4 DEF Approve, Reject, TypeOK, attendance
<1>6. \A j \in Ids : requests'[j].from = requests[j].from /\ requests'[j].to = requests[j].to
  BY DEF Approve, Reject, TypeOK, Request
<1>7. ASSUME NoOverlap, ReviewersActOnStanding PROVE NoOverlap'
  <2>1. requests[i].status \in Standing
    BY <1>7 DEF Approve, Reject, HasStatus, ReviewersActOnStanding
  <2>2. \A j \in Ids : requests'[j].status \in Standing => requests[j].status \in Standing
    BY <2>1 DEF Approve, Reject, TypeOK, Request
  <2> QED
    BY <1>6, <1>7, <2>2, NothingNewStands
<1> QED
  BY <1>5, <1>7

LEMMA ResubmitSafe ==
  ASSUME TypeOK, NEW i \in Ids, Resubmit(i)
  PROVE  TypeOK' /\ (NoOverlap => NoOverlap')
<1>1. TypeOK'
  <2>1. "PENDING" \in LeaveStatus
    BY DEF LeaveStatus, Standing, Undecided
  <2> QED
    BY <2>1, StatusChangeType DEF Resubmit, TypeOK, attendance
<1>2. ASSUME NoOverlap PROVE NoOverlap'
  <2>1. requests[i].status \in Standing
    BY DEF Resubmit, Standing, Undecided
  <2>2. \A j \in Ids : requests'[j].status \in Standing =>
           /\ requests[j].status \in Standing
           /\ requests'[j].from = requests[j].from /\ requests'[j].to = requests[j].to
    BY <2>1 DEF Resubmit, TypeOK, Request
  <2> QED
    BY <1>2, <2>2, NothingNewStands
<1> QED
  BY <1>1, <1>2

LEMMA CancellationDecisionSafe ==
  ASSUME TypeOK, NEW i \in Ids, ApproveCancellation(i) \/ DenyCancellation(i)
  PROVE  TypeOK' /\ (NoOverlap => NoOverlap')
<1>1. -Length(requests[i]) \in Int
  BY WorkflowAssumption DEF TypeOK, Request, Length, Days
<1>2. used' \in [LeaveTypes -> [Years -> Nat]]
  BY <1>1, AdjustedType DEF ApproveCancellation, DenyCancellation, TypeOK
<1>3. AlreadyUsed(requests[i].from) \in BOOLEAN
  BY DEF AlreadyUsed
<1>4. requests' \in [Ids -> Request]
  <2>1. requests[i] \in Request
    BY DEF TypeOK
  <2>2. \A b \in BOOLEAN : [requests[i] EXCEPT !.status = "CANCELLED", !.spent = b] \in Request
    BY <2>1 DEF Request, LeaveStatus, Closed
  <2>3. [requests[i] EXCEPT !.status = "APPROVED", !.denied = TRUE] \in Request
    BY <2>1 DEF Request, LeaveStatus, Standing, Granted
  <2>4. CASE ApproveCancellation(i)
    BY <1>3, <2>2, <2>4 DEF ApproveCancellation, TypeOK
  <2>5. CASE DenyCancellation(i)
    BY <2>3, <2>5 DEF DenyCancellation, TypeOK
  <2> QED
    BY <2>4, <2>5
<1>5. TypeOK'
  BY <1>2, <1>4 DEF ApproveCancellation, DenyCancellation, TypeOK, attendance
<1>6. requests[i].status \in Standing
  BY DEF ApproveCancellation, DenyCancellation, Standing, Granted
<1>7. \A j \in Ids : requests'[j].status \in Standing =>
         /\ requests[j].status \in Standing
         /\ requests'[j].from = requests[j].from /\ requests'[j].to = requests[j].to
  BY <1>6, SMTT(20) DEF ApproveCancellation, DenyCancellation, TypeOK, Request
<1>8. ASSUME NoOverlap PROVE NoOverlap'
  BY <1>7, <1>8, NothingNewStands
<1> QED
  BY <1>5, <1>8

LEMMA RequestExtensionSafe ==
  ASSUME TypeOK, NEW i \in Ids, RequestExtension(i)
  PROVE  TypeOK' /\ (NoOverlap => NoOverlap')
<1> DEFINE asked == [from |-> requests[i].to + 1, to |-> requests[i].to + ExtensionDays]
           rows  == [p \in {asked} |-> Filed(requests[i].type, p, i)]
<1>1. PICK place \in Placements({asked}) : requests' = Inserted(requests, place, rows)
  BY DEF RequestExtension
<1>2. requests[i].to \in Days /\ requests[i].type \in LeaveTypes
  BY DEF TypeOK, Request
<1>3. asked.from \in Days /\ asked.to \in Days /\ asked.from \in Int /\ asked.to \in Int
  BY <1>2, WorkflowAssumption DEF RequestExtension, Days
<1>4. rows[asked] \in Request
  BY <1>2, <1>3, FiledType
<1>5. DOMAIN place = {asked}
  BY <1>1 DEF Placements
<1>6. requests' \in [Ids -> Request]
  BY <1>1, <1>4, <1>5, InsertedType DEF TypeOK
<1>7. TypeOK'
  BY <1>6 DEF RequestExtension, TypeOK, attendance
<1>8. ASSUME NoOverlap PROVE NoOverlap'
  <2>1. rows[asked].from = asked.from /\ rows[asked].to = asked.to
    BY DEF Filed, NoRequest
  <2>2. ~OverlapsStanding(asked)
    BY DEF RequestExtension
  <2>3. DOMAIN rows = {asked}
    OBVIOUS
  <2> HIDE DEF asked, rows
  <2> QED
    BY <1>1, <1>3, <1>8, <2>1, <2>2, <2>3, NewRequestsStandApart
<1> QED
  BY <1>7, <1>8

LEMMA TimePassesSafe ==
  ASSUME TypeOK,
         \/ \E i \in Ids : Lapse(i)
         \/ \E day \in Days : TimeIn(day) \/ FlagTimeIn(day)
         \/ \E day \in Days : \E valid \in BOOLEAN : ReviewFlagged(day, valid)
         \/ NextDay
         \/ UNCHANGED vars
  PROVE  TypeOK' /\ (NoOverlap => NoOverlap')
<1>1. ASSUME NEW i \in Ids, Lapse(i) PROVE TypeOK' /\ (NoOverlap => NoOverlap')
  <2>1. TypeOK'
    <3>1. "LAPSED" \in LeaveStatus
      BY DEF LeaveStatus, Closed
    <3> QED
      BY <1>1, <3>1, StatusChangeType DEF Lapse, TypeOK, attendance
  <2>2. \A j \in Ids : requests'[j].status \in Standing =>
           /\ requests[j].status \in Standing
           /\ requests'[j].from = requests[j].from /\ requests'[j].to = requests[j].to
    BY <1>1 DEF Lapse, TypeOK, Request, Standing, Undecided, Granted
  <2> QED
    BY <2>1, <2>2, NothingNewStands
<1>2. ASSUME NEW day \in Days, TimeIn(day) \/ FlagTimeIn(day)
      PROVE  TypeOK' /\ (NoOverlap => NoOverlap')
  BY <1>2 DEF TimeIn, FlagTimeIn, TypeOK, NoOverlap, HasStatus
<1>3. ASSUME NEW day \in Days, NEW valid \in BOOLEAN, ReviewFlagged(day, valid)
      PROVE  TypeOK' /\ (NoOverlap => NoOverlap')
  BY <1>3 DEF ReviewFlagged, TypeOK, NoOverlap, HasStatus
<1>4. CASE NextDay
  BY <1>4, WorkflowAssumption DEF NextDay, TypeOK, NoOverlap, HasStatus, attendance
<1>5. CASE UNCHANGED vars
  BY <1>5 DEF vars, attendance, TypeOK, NoOverlap, HasStatus
<1> QED
  BY <1>1, <1>2, <1>3, <1>4, <1>5

-----------------------------------------------------------------------------
\* Of two runs that share a day neither begins or ends before the other: each
\* is maximal.
LEMMA RunsAlign ==
  ASSUME NEW first \in Int, NEW last \in Int, NEW cancelled,
         NEW p \in Runs(first, last, cancelled), NEW q \in Runs(first, last, cancelled),
         Meet(p, q)
  PROVE  ~(p.from < q.from) /\ ~(p.to < q.to)
<1>1. /\ p.from \in Int /\ p.to \in Int /\ first <= p.from /\ p.to <= last
      /\ q.from \in Int /\ q.to \in Int /\ first <= q.from /\ q.to <= last
      /\ p.from <= p.to /\ q.from <= q.to
  BY DEF Runs
<1>2. /\ \A d \in p.from..p.to : SameSide(cancelled, d, p.from)
      /\ \A d \in q.from..q.to : SameSide(cancelled, d, q.from)
  BY DEF Runs
<1>3. ASSUME p.from < q.from PROVE FALSE
  <2>1. q.from - 1 \in p.from..p.to /\ q.from \in p.from..p.to
    BY <1>1, <1>3 DEF Meet
  <2>2. SameSide(cancelled, q.from - 1, q.from)
    BY <1>2, <2>1 DEF SameSide
  <2>3. q.from # first
    BY <1>1, <1>3
  <2> QED
    BY <2>2, <2>3 DEF Runs
<1>4. ASSUME p.to < q.to PROVE FALSE
  <2>1. p.to + 1 \in q.from..q.to /\ p.to \in q.from..q.to
    BY <1>1, <1>4 DEF Meet
  <2>2. SameSide(cancelled, p.to + 1, p.to)
    BY <1>2, <2>1 DEF SameSide
  <2>3. p.to # last
    BY <1>1, <1>4
  <2> QED
    BY <2>2, <2>3 DEF Runs
<1> QED
  BY <1>3, <1>4

\* A cancellation cuts a leave into runs that share no day.
LEMMA RunsApart ==
  ASSUME NEW first \in Int, NEW last \in Int, NEW cancelled,
         NEW p \in Runs(first, last, cancelled), NEW q \in Runs(first, last, cancelled),
         p # q
  PROVE  ~Meet(p, q)
<1> SUFFICES ASSUME Meet(p, q) PROVE FALSE
  OBVIOUS
<1>1. Meet(q, p)
  BY DEF Meet
<1>2. p \in [from : first..last, to : first..last] /\ q \in [from : first..last, to : first..last]
  BY DEF Runs
<1>3. ~(p.from < q.from) /\ ~(q.from < p.from) /\ ~(p.to < q.to) /\ ~(q.to < p.to)
  BY <1>1, RunsAlign
<1>4. p.from = q.from /\ p.to = q.to
  BY <1>2, <1>3
<1> QED
  BY <1>2, <1>4

\* Request i is replaced by runs of its own days that share none, each in a
\* row of its own, and no other row changes.
CutInto(i, runs, owner) ==
  /\ \A p \in runs : /\ p.from \in Days /\ p.to \in Days
                    /\ requests[i].from <= p.from /\ p.to <= requests[i].to
  /\ \A p, q \in runs : p # q => ~Meet(p, q)
  /\ \A k \in Ids :
       \/ k # i /\ requests'[k] = requests[k]
       \/ \E p \in runs : /\ owner[p] = k
                        /\ requests'[k].from = p.from /\ requests'[k].to = p.to

\* Cutting a standing leave makes no overlap.
LEMMA CutLeaveStandsApart ==
  ASSUME TypeOK, NoOverlap, NEW i \in Ids, requests[i].status \in Standing,
         NEW runs, NEW owner, CutInto(i, runs, owner)
  PROVE  NoOverlap'
<1> USE DEF CutInto
<1> SUFFICES ASSUME NEW j \in Ids, NEW k \in Ids, j # k,
                    requests'[j].status \in Standing, requests'[k].status \in Standing
             PROVE  ~Meet(requests'[j], requests'[k])
  BY DEF NoOverlap, HasStatus
<1>1. \A l \in Ids : requests[l].from \in Int /\ requests[l].to \in Int
  BY WorkflowAssumption DEF TypeOK, Request, Days
<1>2. \A p \in runs : p.from \in Int /\ p.to \in Int
  BY WorkflowAssumption DEF Days
<1>3. ASSUME NEW l \in Ids, l # i, requests[l].status \in Standing, NEW p \in runs
      PROVE  ~Meet(p, requests[l]) /\ ~Meet(requests[l], p)
  <2>1. ~Meet(requests[i], requests[l])
    BY <1>3 DEF NoOverlap, HasStatus
  <2> QED
    BY <1>1, <1>2, <2>1 DEF Meet
<1>4. CASE (j # i /\ requests'[j] = requests[j]) /\ (k # i /\ requests'[k] = requests[k])
  BY <1>4 DEF NoOverlap, HasStatus
<1>5. ASSUME j # i /\ requests'[j] = requests[j],
             NEW p \in runs, requests'[k].from = p.from /\ requests'[k].to = p.to
      PROVE  ~Meet(requests'[j], requests'[k])
  BY <1>3, <1>5 DEF Meet
<1>6. ASSUME k # i /\ requests'[k] = requests[k],
             NEW p \in runs, requests'[j].from = p.from /\ requests'[j].to = p.to
      PROVE  ~Meet(requests'[j], requests'[k])
  BY <1>3, <1>6 DEF Meet
<1>7. ASSUME NEW p \in runs, NEW q \in runs, owner[p] = j, owner[q] = k,
             requests'[j].from = p.from, requests'[j].to = p.to,
             requests'[k].from = q.from, requests'[k].to = q.to
      PROVE  ~Meet(requests'[j], requests'[k])
  BY <1>7 DEF Meet
<1> QED
  BY <1>4, <1>5, <1>6, <1>7

\* Two standing requests are the same row or share no day, after a partial
\* cancellation as before it.
LEMMA CancelSafe ==
  ASSUME TypeOK, NEW i \in Ids, NEW days \in SUBSET Span(i),
         NEW bySelf \in BOOLEAN, Cancel(i, days, bySelf)
  PROVE  TypeOK' /\ (NoOverlap => NoOverlap')
<1> DEFINE old      == requests[i]
           approved == old.status = "APPROVED"
           awaits   == approved /\ bySelf
           onStay   == HasStandingExtension(i)
           runs     == Runs(old.from, old.to, days)
           ends(p)  == p.from \in days /\ ~awaits
           refunded(y) == {p \in runs : /\ ends(p) /\ approved /\ ~AlreadyUsed(p.from)
                                        /\ YearOf(p.from) = y}
           piece(p) ==
             [old EXCEPT !.from = p.from, !.to = p.to,
                         !.spent = ends(p) /\ approved /\ AlreadyUsed(p.from),
                         !.status = IF p.from \notin days THEN old.status
                                    ELSE IF awaits THEN "CANCELLATION_PENDING"
                                    ELSE "CANCELLED"]
           splitOff(p) == [piece(p) EXCEPT !.denied = FALSE, !.splitFrom = i]
<1>1. old \in Request /\ old.from \in Days /\ old.to \in Days /\ old.type \in LeaveTypes
  BY DEF TypeOK, Request
<1>2. old.status \in Standing /\ old.status \in LeaveStatus
  BY DEF Cancel, HasStatus, CancellableStatuses, Standing, Undecided, Granted, LeaveStatus
<1>3. \A p \in runs : /\ p.from \in Days /\ p.to \in Days
                      /\ old.from <= p.from /\ p.to <= old.to /\ p.from <= p.to
  BY <1>1, WorkflowAssumption DEF Runs, Days
<1>4. PICK kept \in KeptRun(runs, days, onStay) :
        \E place \in Placements(runs \ {kept}) :
          requests' = Inserted([requests EXCEPT ![i] = piece(kept)], place,
                               [p \in runs \ {kept} |-> splitOff(p)])
  BY DEF Cancel
<1> DEFINE pieces == runs \ {kept}
           rows   == [p \in pieces |-> splitOff(p)]
           table  == [requests EXCEPT ![i] = piece(kept)]
<1>5. PICK place \in Placements(pieces) : requests' = Inserted(table, place, rows)
  BY <1>4
<1>6. kept \in runs
  BY <1>4 DEF KeptRun
<1>7. DOMAIN place = pieces
  BY <1>5 DEF Placements
<1>8. used' = IF old.ext # NoId THEN used
              ELSE [used EXCEPT ![old.type] =
                      [y \in Years |-> NextUsed(@[y], -Total(refunded(y)))]]
  BY DEF Cancel
<1>9. UNCHANGED <<worked, flags, today>>
  BY DEF Cancel, attendance
<1> HIDE DEF runs
<1>10. ASSUME NEW p \in runs
       PROVE  piece(p) \in Request /\ splitOff(p) \in Request
  <2>1. p.from \in Days /\ p.to \in Days
    BY <1>3
  <2>2. (ends(p) /\ approved /\ AlreadyUsed(p.from)) \in BOOLEAN
    BY DEF AlreadyUsed
  <2>3. (IF p.from \notin days THEN old.status
         ELSE IF awaits THEN "CANCELLATION_PENDING" ELSE "CANCELLED") \in LeaveStatus
    BY <1>2 DEF LeaveStatus, Standing, Granted, Closed
  <2>4. \A b \in BOOLEAN, st \in LeaveStatus :
          [old EXCEPT !.from = p.from, !.to = p.to, !.spent = b, !.status = st] \in Request
    BY <1>1, <2>1 DEF Request
  <2>5. piece(p) \in Request
    BY <2>2, <2>3, <2>4
  <2>6. \A r \in Request : [r EXCEPT !.denied = FALSE, !.splitFrom = i] \in Request
    BY DEF Request
  <2> QED
    BY <2>5, <2>6
<1>11. TypeOK'
  <2>1. table \in [Ids -> Request]
    BY <1>6, <1>10 DEF TypeOK
  <2>2. requests' \in [Ids -> Request]
    BY <1>5, <1>7, <1>10, <2>1, InsertedType
  <2>3. ASSUME NEW y \in Years PROVE -Total(refunded(y)) \in Int
    BY <1>3, TotalNat
  <2>4. \A y \in Years : NextUsed(used[old.type][y], -Total(refunded(y))) \in Nat
    BY <1>1, <2>3, NextUsedNat DEF TypeOK
  <2>5. used' \in [LeaveTypes -> [Years -> Nat]]
    BY <1>1, <1>8, <2>4 DEF TypeOK
  <2> QED
    BY <1>9, <2>2, <2>5 DEF TypeOK
<1>12. ASSUME NEW p \in runs
       PROVE  /\ piece(p).from = p.from /\ piece(p).to = p.to
              /\ splitOff(p).from = p.from /\ splitOff(p).to = p.to
  BY <1>1 DEF Request
<1> DEFINE owner == [p \in runs |-> IF p = kept THEN i ELSE place[p]]
<1>13. ASSUME NEW k \in Ids
       PROVE  \/ k # i /\ requests'[k] = requests[k]
              \/ \E p \in runs : /\ owner[p] = k
                               /\ requests'[k].from = p.from /\ requests'[k].to = p.to
  <2>1. table[i] = piece(kept) /\ (k # i => table[k] = requests[k])
    BY DEF TypeOK
  <2>2. \A p \in pieces : p \in runs /\ rows[p] = splitOff(p) /\ owner[p] = place[p]
    OBVIOUS
  <2>3. owner[kept] = i
    BY <1>6
  <2> HIDE DEF piece, splitOff, pieces, table, rows, owner
  <2>4. \/ requests'[k] = table[k]
        \/ \E p \in pieces : place[p] = k /\ requests'[k] = rows[p]
    BY <1>5, <1>7, InsertedRow
  <2> QED
    BY <1>6, <1>12, <2>1, <2>2, <2>3, <2>4
<1>14. \A p, q \in runs : p # q => ~Meet(p, q)
  BY <1>1, RunsApart, WorkflowAssumption DEF runs, Days
<1>15. ASSUME NoOverlap PROVE NoOverlap'
  <2> HIDE DEF piece, splitOff, pieces, table, rows, owner
  <2>1. \A p \in runs : /\ p.from \in Days /\ p.to \in Days
                        /\ requests[i].from <= p.from /\ p.to <= requests[i].to
    BY <1>3
  <2>2. requests[i].status \in Standing
    BY <1>2
  <2>3. \A k \in Ids :
          \/ k # i /\ requests'[k] = requests[k]
          \/ \E p \in runs : /\ owner[p] = k
                           /\ requests'[k].from = p.from /\ requests'[k].to = p.to
    BY <1>13
  <2>4. CutInto(i, runs, owner)
    BY <2>1, <2>3, <1>14 DEF CutInto
  <2> QED
    BY <1>15, <2>2, <2>4, CutLeaveStandsApart
<1> QED
  BY <1>11, <1>15

-----------------------------------------------------------------------------
\* Every step leaves rows and balances well formed, and makes no overlap when
\* reviewers act on standing requests.
LEMMA StepSafe ==
  ASSUME TypeOK, [Next]_vars
  PROVE  TypeOK' /\ (NoOverlap /\ ReviewersActOnStanding => NoOverlap')
<1> DEFINE Keeps == NoOverlap /\ ReviewersActOnStanding => NoOverlap'
<1>1. ASSUME NEW t \in LeaveTypes, NEW pieces \in Filings, FileRequests(t, pieces)
      PROVE  TypeOK' /\ Keeps
  BY <1>1, FileRequestsSafe
<1>2. ASSUME NEW i \in Ids, Approve(i) PROVE TypeOK' /\ Keeps
  BY <1>2, ReviewSafe
<1>3. ASSUME NEW i \in Ids, NEW revise \in BOOLEAN, Reject(i, revise)
      PROVE  TypeOK' /\ Keeps
  BY <1>3, ReviewSafe
<1>4. ASSUME NEW i \in Ids, Resubmit(i) PROVE TypeOK' /\ Keeps
  BY <1>4, ResubmitSafe
<1>5. ASSUME NEW i \in Ids, NEW days \in SUBSET Span(i), NEW bySelf \in BOOLEAN,
             Cancel(i, days, bySelf)
      PROVE  TypeOK' /\ Keeps
  BY <1>5, CancelSafe
<1>6. ASSUME NEW i \in Ids, ApproveCancellation(i) \/ DenyCancellation(i)
      PROVE  TypeOK' /\ Keeps
  BY <1>6, CancellationDecisionSafe
<1>7. ASSUME NEW i \in Ids, RequestExtension(i) PROVE TypeOK' /\ Keeps
  BY <1>7, RequestExtensionSafe
<1>8. CASE \/ \E i \in Ids : Lapse(i)
           \/ \E day \in Days : TimeIn(day) \/ FlagTimeIn(day)
           \/ \E day \in Days : \E valid \in BOOLEAN : ReviewFlagged(day, valid)
           \/ NextDay
           \/ UNCHANGED vars
  BY <1>8, TimePassesSafe
<1> QED
  BY <1>1, <1>2, <1>3, <1>4, <1>5, <1>6, <1>7, <1>8 DEF Next

LEMMA InitSafe == Init => TypeOK /\ NoOverlap
<1> SUFFICES ASSUME Init PROVE TypeOK /\ NoOverlap
  OBVIOUS
<1>1. NoRequest \in Request
  BY WorkflowAssumption DEF NoRequest, Request, Days
<1>2. TypeOK
  BY <1>1, WorkflowAssumption DEF Init, TypeOK
<1>3. NoOverlap
  BY DEF Init, NoOverlap, NoRequest, HasStatus, Standing, Undecided, Granted
<1> QED
  BY <1>2, <1>3

\* Every row stays a well-formed request and usedDays a natural number, in
\* whatever statuses reviewers act.
THEOREM LeaveTypeOK == Spec => []TypeOK
<1>1. TypeOK /\ [Next]_vars => TypeOK'
  BY StepSafe
<1> QED
  BY <1>1, InitSafe, PTL DEF Spec

\* Whatever requests are filed, split, extended, sent back or contested, no
\* day is ever covered by two standing leaves (assertNoOverlap: "One day can
\* only ever be covered by a single leave"), as long as reviewers act only on
\* requests that still keep their days, which the handlers do not ensure.
THEOREM LeaveNoOverlap ==
  ASSUME ReviewersActOnStanding
  PROVE  Spec => []NoOverlap
<1>1. TypeOK /\ NoOverlap /\ [Next]_vars => TypeOK' /\ NoOverlap'
  BY StepSafe
<1> QED
  BY <1>1, InitSafe, PTL DEF Spec

-----------------------------------------------------------------------------
(***************************************************************************)
(* 2. Rows and what they were split from.                                  *)
(***************************************************************************)
\* Rows are taken in order, and a piece comes after the row it was split from.
RowsInOrder ==
  /\ \A i, j \in Ids : i < j /\ requests[j].status # "NONE" => requests[i].status # "NONE"
  /\ \A i \in Ids : requests[i].splitFrom # NoId =>
                      requests[i].splitFrom < i /\ requests[i].status # "NONE"

\* The table of requests says which request each row was split from.
FollowsTo(f, j) ==
  f[j] = IF requests[j].splitFrom = NoId THEN j ELSE f[requests[j].splitFrom]

RootsFollow == \A i \in Ids : /\ requests[i].splitFrom = NoId => Root(i) = i
                              /\ requests[i].splitFrom # NoId => Root(i) = Root(requests[i].splitFrom)

LEMMA RootsExist ==
  ASSUME TypeOK, RowsInOrder
  PROVE  \E f : f = [j \in Ids |-> IF requests[j].splitFrom = NoId THEN j
                                   ELSE f[requests[j].splitFrom]]
<1> DEFINE T == {n \in Nat : \E f \in [Ids -> Ids] : \A j \in Ids : j <= n => FollowsTo(f, j)}
<1>0. /\ \A j \in Ids : /\ j \in Nat /\ j >= 1
                        /\ requests[j].splitFrom \in Ids \cup {NoId}
                        /\ requests[j].splitFrom # NoId =>
                             requests[j].splitFrom \in Ids /\ requests[j].splitFrom < j
      /\ MaxRequests \in Nat /\ \A j \in Ids : j <= MaxRequests
  BY WorkflowAssumption DEF TypeOK, Request, RowsInOrder, Ids
<1>1. 0 \in T
  <2>1. [j \in Ids |-> j] \in [Ids -> Ids] /\ \A j \in Ids : ~(j <= 0)
    BY <1>0
  <2> QED BY <2>1
<1>2. ASSUME NEW n \in T PROVE n + 1 \in T
  <2>1. n \in Nat
    BY <1>2
  <2>2. PICK f \in [Ids -> Ids] : \A j \in Ids : j <= n => FollowsTo(f, j)
    BY <1>2
  <2> DEFINE g == [j \in Ids |-> IF j = n + 1 /\ requests[j].splitFrom # NoId
                                   THEN f[requests[j].splitFrom]
                                 ELSE IF j = n + 1 THEN j ELSE f[j]]
  <2>3. g \in [Ids -> Ids]
    BY <1>0
  <2>4. ASSUME NEW j \in Ids, j <= n + 1 PROVE FollowsTo(g, j)
    <3>1. requests[j].splitFrom # NoId => g[requests[j].splitFrom] = f[requests[j].splitFrom]
      BY <1>0, <2>1, <2>4
    <3>2. CASE j = n + 1
      BY <3>1, <3>2 DEF FollowsTo
    <3>3. CASE j # n + 1
      <4>1. j <= n
        BY <1>0, <2>1, <2>4, <3>3
      <4> QED BY <4>1, <3>1, <3>3, <2>2 DEF FollowsTo
    <3> QED BY <3>2, <3>3
  <2> HIDE DEF g
  <2> QED BY <2>1, <2>3, <2>4
<1>3. MaxRequests \in T
  <2>1. T \subseteq Nat
    OBVIOUS
  <2> HIDE DEF T
  <2> QED BY <2>1, <1>0, <1>1, <1>2, AllNumbers
<1>4. PICK f \in [Ids -> Ids] : \A j \in Ids : FollowsTo(f, j)
  BY <1>3, <1>0
<1>5. f = [j \in Ids |-> IF requests[j].splitFrom = NoId THEN j ELSE f[requests[j].splitFrom]]
  BY <1>4 DEF FollowsTo
<1> QED BY <1>5

LEMMA RootFollows == TypeOK /\ RowsInOrder => RootsFollow
<1> SUFFICES ASSUME TypeOK, RowsInOrder PROVE RootsFollow
  OBVIOUS
<1> DEFINE F == CHOOSE f : f = [j \in Ids |-> IF requests[j].splitFrom = NoId THEN j
                                              ELSE f[requests[j].splitFrom]]
<1>1. F = [j \in Ids |-> IF requests[j].splitFrom = NoId THEN j ELSE F[requests[j].splitFrom]]
  BY RootsExist
<1>2. \A i \in Ids : Root(i) = F[i]
  BY DEF Root
<1>3. \A i \in Ids : requests[i].splitFrom \in Ids \cup {NoId}
  BY DEF TypeOK, Request
<1> HIDE DEF F
<1> QED BY <1>1, <1>2, <1>3 DEF RootsFollow

LEMMA RootFollowsNext == TypeOK' /\ RowsInOrder' => RootsFollow'
BY RootFollows, PTL

\* How a step treats the table: rows in use stay in use and keep the row they
\* were split from, and free rows are taken in order.
RowsAdvance ==
  /\ \A j \in Ids : requests[j].status # "NONE" =>
       requests'[j].status # "NONE" /\ requests'[j].splitFrom = requests[j].splitFrom
  /\ \A j \in Ids : requests[j].status = "NONE" =>
       \/ requests'[j] = requests[j]
       \/ /\ requests'[j].status # "NONE"
          /\ requests'[j].splitFrom # NoId =>
               /\ requests'[j].splitFrom \in Ids
               /\ requests[requests'[j].splitFrom].status # "NONE"
          /\ \A i \in Ids : i < j => requests'[i].status # "NONE"

LEMMA OrderKept ==
  ASSUME TypeOK, TypeOK', RowsInOrder, RowsAdvance
  PROVE  RowsInOrder'
<1>0. \A j \in Ids : j \in Int
  BY WorkflowAssumption DEF Ids
<1>1. ASSUME NEW i \in Ids, NEW j \in Ids, i < j, requests'[j].status # "NONE"
      PROVE  requests'[i].status # "NONE"
  BY <1>1 DEF RowsInOrder, RowsAdvance
<1>2. ASSUME NEW i \in Ids, requests'[i].splitFrom # NoId
      PROVE  requests'[i].splitFrom < i /\ requests'[i].status # "NONE"
  <2>1. CASE requests[i].status # "NONE"
    BY <2>1, <1>2 DEF RowsInOrder, RowsAdvance
  <2>2. CASE requests[i].status = "NONE"
    <3>1. requests'[i] # requests[i]
      BY <2>2, <1>2 DEF RowsInOrder
    <3> DEFINE s == requests'[i].splitFrom
    <3>2. s \in Ids /\ requests[s].status # "NONE" /\ requests'[i].status # "NONE"
      BY <2>2, <3>1, <1>2 DEF RowsAdvance
    <3>3. s # i /\ ~(i < s)
      BY <2>2, <3>2 DEF RowsInOrder
    <3> QED BY <1>0, <3>2, <3>3
  <2> QED BY <2>1, <2>2
<1> QED BY <1>1, <1>2 DEF RowsInOrder

\* The root of a row in use never changes.
LEMMA RootsStay ==
  ASSUME TypeOK, TypeOK', RowsInOrder, RowsAdvance
  PROVE  \A j \in Ids : requests[j].status # "NONE" => Root(j)' = Root(j)
<1> DEFINE T == {n \in Nat : \A j \in Ids : j <= n /\ requests[j].status # "NONE" => Root(j)' = Root(j)}
<1>0. /\ \A j \in Ids : j \in Nat /\ j >= 1 /\ j <= MaxRequests
      /\ MaxRequests \in Nat
  BY WorkflowAssumption DEF Ids
<1>1. RootsFollow /\ RootsFollow'
  BY OrderKept, RootFollows, RootFollowsNext
<1>2. 0 \in T
  BY <1>0
<1>3. ASSUME NEW n \in T PROVE n + 1 \in T
  <2>1. n \in Nat /\ \A j \in Ids : j <= n /\ requests[j].status # "NONE" => Root(j)' = Root(j)
    BY <1>3
  <2>2. ASSUME NEW j \in Ids, j = n + 1, requests[j].status # "NONE" PROVE Root(j)' = Root(j)
    <3>0. requests[j].splitFrom \in Ids \cup {NoId}
      BY DEF TypeOK, Request
    <3>1. PICK s \in Ids \cup {NoId} : requests[j].splitFrom = s
      BY <3>0
    <3>1a. requests'[j].splitFrom = s
      BY <2>2, <3>1 DEF RowsAdvance
    <3>2. CASE s = NoId
      BY <1>1, <3>1, <3>1a, <3>2 DEF RootsFollow
    <3>3. CASE s # NoId
      <4>1. s \in Ids /\ s < j
        BY <3>1, <3>3 DEF RowsInOrder
      <4>2. requests[s].status # "NONE"
        BY <4>1, <2>2 DEF RowsInOrder
      <4>3. s <= n
        BY <4>1, <1>0, <2>1, <2>2
      <4>4. Root(s)' = Root(s)
        BY <4>1, <4>2, <4>3, <2>1
      <4>5. Root(j) = Root(s)
        BY <1>1, <3>1, <3>3 DEF RootsFollow
      <4>6. Root(j)' = Root(s)'
        BY <1>1, <3>1a, <3>3 DEF RootsFollow
      <4> QED BY <4>4, <4>5, <4>6
    <3> QED BY <3>2, <3>3
  <2>3. \A j \in Ids : j <= n + 1 => j <= n \/ j = n + 1
    BY <1>0, <2>1
  <2> QED BY <2>1, <2>2, <2>3
<1>4. T = Nat
  <2>1. T \subseteq Nat
    OBVIOUS
  <2> HIDE DEF T
  <2> QED BY <2>1, <1>2, <1>3, AllNumbers
<1> QED BY <1>4, <1>0

-----------------------------------------------------------------------------
\* A placed row reads as what was placed there.
LEMMA InsertedPiece ==
  ASSUME NEW table, NEW pieces, NEW place \in Placements(pieces), NEW rows, NEW p \in pieces
  PROVE  Inserted(table, place, rows)[place[p]] = rows[p]
<1>1. /\ place \in [pieces -> FreeIds] /\ FreeIds \subseteq Ids
      /\ \A q, r \in pieces : place[q] = place[r] => q = r
  BY DEF Placements, FreeIds
<1> DEFINE c == CHOOSE q \in DOMAIN place : place[q] = place[p]
<1>2. c \in DOMAIN place /\ place[c] = place[p]
  BY <1>1
<1>3. c = p
  BY <1>2, <1>1
<1>4. Inserted(table, place, rows)[place[p]] = rows[c]
  BY <1>1 DEF Inserted
<1> QED BY <1>3, <1>4

\* Inserted rows are where they were placed, in rows that were free.
LEMMA InsertedAt ==
  ASSUME NEW table, NEW pieces, NEW place \in Placements(pieces), NEW rows, NEW new,
         new = Inserted(table, place, rows)
  PROVE  /\ place \in [pieces -> Ids] /\ DOMAIN place = pieces
         /\ \A p \in pieces : /\ requests[place[p]].status = "NONE"
                              /\ new[place[p]] = rows[p]
         /\ \A p, q \in pieces : place[p] = place[q] => p = q
         /\ \A i \in Ids : (\A p \in pieces : place[p] # i) =>
              new[i] = table[i]
         /\ \A p \in pieces, i \in Ids :
              i < place[p] /\ requests[i].status = "NONE" => \E q \in pieces : place[q] = i
<1>1. /\ place \in [pieces -> FreeIds] /\ FreeIds \subseteq Ids
      /\ \A i \in FreeIds : requests[i].status = "NONE"
      /\ \A i \in Ids : requests[i].status = "NONE" => i \in FreeIds
      /\ \A p, q \in pieces : place[p] = place[q] => p = q
      /\ \A p \in pieces : \A i \in FreeIds : i < place[p] => \E q \in pieces : place[q] = i
  BY DEF Placements, FreeIds
<1>2. \A p \in pieces : Inserted(table, place, rows)[place[p]] = rows[p]
  BY InsertedPiece
<1>3. ASSUME NEW i \in Ids, \A p \in pieces : place[p] # i
      PROVE  Inserted(table, place, rows)[i] = table[i]
  BY <1>1, <1>3 DEF Inserted
<1> QED BY <1>1, <1>2, <1>3

\* What Cancel makes of the rows: `owner` says where each run goes.
Cuts(i, days, bySelf, kept, owner) ==
  LET old      == requests[i]
      approved == old.status = "APPROVED"
      awaits   == approved /\ bySelf
      runs     == Runs(old.from, old.to, days)
  IN  /\ kept \in runs /\ owner \in [runs -> Ids] /\ owner[kept] = i
      /\ \A p, q \in runs : owner[p] = owner[q] => p = q
      /\ \A p \in runs \ {kept} :
           /\ requests[owner[p]].status = "NONE"
           /\ \A j \in Ids : j < owner[p] /\ requests[j].status = "NONE" =>
                \E q \in runs \ {kept} : owner[q] = j
      /\ \A p \in runs :
           /\ requests'[owner[p]].from = p.from /\ requests'[owner[p]].to = p.to
           /\ requests'[owner[p]].type = old.type /\ requests'[owner[p]].ext = old.ext
           /\ requests'[owner[p]].status =
                IF p.from \notin days THEN old.status
                ELSE IF awaits THEN "CANCELLATION_PENDING" ELSE "CANCELLED"
           /\ requests'[owner[p]].spent <=>
                p.from \in days /\ ~awaits /\ approved /\ AlreadyUsed(p.from)
           /\ requests'[owner[p]].splitFrom = IF p = kept THEN old.splitFrom ELSE i
      /\ requests'[i].denied = old.denied
      /\ \A k \in Ids : (\A p \in runs : owner[p] # k) => requests'[k] = requests[k]

LEMMA CancelCuts ==
  ASSUME TypeOK, NEW i \in Ids, NEW days \in SUBSET Span(i), NEW bySelf \in BOOLEAN,
         Cancel(i, days, bySelf)
  PROVE  \E kept, owner : Cuts(i, days, bySelf, kept, owner)
<1> DEFINE old      == requests[i]
           approved == old.status = "APPROVED"
           awaits   == approved /\ bySelf
           onStay   == HasStandingExtension(i)
           runs     == Runs(old.from, old.to, days)
           ends(p)  == p.from \in days /\ ~awaits
           piece(p) ==
             [old EXCEPT !.from = p.from, !.to = p.to,
                         !.spent = ends(p) /\ approved /\ AlreadyUsed(p.from),
                         !.status = IF p.from \notin days THEN old.status
                                    ELSE IF awaits THEN "CANCELLATION_PENDING"
                                    ELSE "CANCELLED"]
           splitOff(p) == [piece(p) EXCEPT !.denied = FALSE, !.splitFrom = i]
<1>1. PICK kept \in KeptRun(runs, days, onStay) :
        \E place \in Placements(runs \ {kept}) :
          requests' = Inserted([requests EXCEPT ![i] = piece(kept)], place,
                               [p \in runs \ {kept} |-> splitOff(p)])
  BY DEF Cancel
<1> DEFINE pieces == runs \ {kept}
           rows   == [p \in pieces |-> splitOff(p)]
           table  == [requests EXCEPT ![i] = piece(kept)]
<1>2. PICK place \in Placements(pieces) : requests' = Inserted(table, place, rows)
  BY <1>1
<1>3. kept \in runs
  BY <1>1 DEF KeptRun
<1>4. old.status # "NONE"
  BY DEF Cancel, HasStatus, CancellableStatuses
<1>5. old \in [status : LeaveStatus \cup {"NONE"}, type : LeaveTypes, from : Days, to : Days,
               filedOn : 1..Horizon, denied : BOOLEAN, spent : BOOLEAN,
               ext : Ids \cup {NoId}, splitFrom : Ids \cup {NoId}]
  BY DEF TypeOK, Request
<1> DEFINE owner == [p \in runs |-> IF p = kept THEN i ELSE place[p]]
<1>6. ASSUME NEW p \in runs
      PROVE  /\ piece(p).from = p.from /\ piece(p).to = p.to
             /\ piece(p).type = old.type /\ piece(p).ext = old.ext
             /\ piece(p).status = IF p.from \notin days THEN old.status
                                  ELSE IF awaits THEN "CANCELLATION_PENDING" ELSE "CANCELLED"
             /\ piece(p).spent = (ends(p) /\ approved /\ AlreadyUsed(p.from))
             /\ piece(p).splitFrom = old.splitFrom /\ piece(p).denied = old.denied
             /\ splitOff(p).from = p.from /\ splitOff(p).to = p.to
             /\ splitOff(p).type = old.type /\ splitOff(p).ext = old.ext
             /\ splitOff(p).status = piece(p).status /\ splitOff(p).spent = piece(p).spent
             /\ splitOff(p).splitFrom = i
  BY <1>5
<1>7. /\ table[i] = piece(kept)
      /\ \A k \in Ids : k # i => table[k] = requests[k]
      /\ \A p \in pieces : p \in runs /\ p # kept /\ rows[p] = splitOff(p)
      /\ \A p \in runs : p # kept => p \in pieces
  BY DEF TypeOK
<1> HIDE DEF piece, splitOff, pieces, table, rows, runs
<1>8. /\ place \in [pieces -> Ids]
      /\ \A p \in pieces : requests[place[p]].status = "NONE" /\ requests'[place[p]] = rows[p]
      /\ \A p, q \in pieces : place[p] = place[q] => p = q
      /\ \A k \in Ids : (\A p \in pieces : place[p] # k) => requests'[k] = table[k]
      /\ \A p \in pieces, j \in Ids :
           j < place[p] /\ requests[j].status = "NONE" => \E q \in pieces : place[q] = j
  <2>1. requests' = Inserted(table, place, rows)
    BY <1>2
  <2>2. place \in Placements(pieces)
    BY <1>2
  <2>3. ASSUME NEW p \in pieces
        PROVE  requests[place[p]].status = "NONE" /\ requests'[place[p]] = rows[p]
    <3>1. requests[place[p]].status = "NONE"
      BY <2>1, <2>2, InsertedAt
    <3>2. Inserted(table, place, rows)[place[p]] = rows[p]
      BY <2>2, InsertedPiece
    <3>3. requests'[place[p]] = rows[p]
      BY <2>1, <3>2
    <3> QED BY <3>1, <3>3
  <2>4. place \in [pieces -> Ids]
    BY <2>1, <2>2, InsertedAt
  <2>5. \A p, q \in pieces : place[p] = place[q] => p = q
    BY <2>1, <2>2, InsertedAt
  <2>6. \A k \in Ids : (\A p \in pieces : place[p] # k) => requests'[k] = table[k]
    BY <2>1, <2>2, InsertedAt
  <2>7. ASSUME NEW p \in pieces, NEW j \in Ids, j < place[p], requests[j].status = "NONE"
        PROVE  \E q \in pieces : place[q] = j
    BY <2>1, <2>2, <2>7, InsertedAt
  <2> QED BY <2>3, <2>4, <2>5, <2>6, <2>7
<1>9. \A p \in pieces : place[p] # i
  BY <1>4, <1>8
<1>10. requests'[i] = piece(kept)
  BY <1>7, <1>8, <1>9
<1>11. /\ owner[kept] = i /\ \A p \in pieces : owner[p] = place[p]
       /\ \A p \in runs : p = kept \/ p \in pieces
       /\ owner \in [runs -> Ids]
  BY <1>3, <1>7, <1>8
<1> HIDE DEF owner
<1>12. \A p, q \in runs : owner[p] = owner[q] => p = q
  BY <1>8, <1>9, <1>11
<1>13. ASSUME NEW p \in runs \ {kept}
       PROVE  /\ requests[owner[p]].status = "NONE"
              /\ \A j \in Ids : j < owner[p] /\ requests[j].status = "NONE" =>
                   \E q \in runs \ {kept} : owner[q] = j
  BY <1>7, <1>8, <1>11
<1>14. ASSUME NEW p \in runs
       PROVE  /\ requests'[owner[p]].from = p.from /\ requests'[owner[p]].to = p.to
              /\ requests'[owner[p]].type = old.type /\ requests'[owner[p]].ext = old.ext
              /\ requests'[owner[p]].status =
                   IF p.from \notin days THEN old.status
                   ELSE IF awaits THEN "CANCELLATION_PENDING" ELSE "CANCELLED"
              /\ requests'[owner[p]].spent <=> ends(p) /\ approved /\ AlreadyUsed(p.from)
              /\ requests'[owner[p]].splitFrom = IF p = kept THEN old.splitFrom ELSE i
  <2>1. CASE p = kept
    <3>1. requests'[owner[p]] = piece(p)
      BY <2>1, <1>10, <1>11
    <3> QED BY <2>1, <3>1, <1>6, ZenonT(40)
  <2>2. CASE p # kept
    <3>1. requests'[owner[p]] = splitOff(p)
      BY <2>2, <1>7, <1>8, <1>11
    <3> QED BY <2>2, <3>1, <1>6
  <2> QED BY <2>1, <2>2
<1>15. requests'[i].denied = old.denied
  BY <1>3, <1>6, <1>10
<1>16. ASSUME NEW k \in Ids, \A p \in runs : owner[p] # k
       PROVE  requests'[k] = requests[k]
  <2>1. k # i /\ \A p \in pieces : place[p] # k
    BY <1>3, <1>7, <1>11, <1>16
  <2> QED BY <2>1, <1>7, <1>8
<1>17. Cuts(i, days, bySelf, kept, owner)
  BY <1>3, <1>11, <1>12, <1>13, <1>14, <1>15, <1>16 DEF Cuts, runs
<1> QED BY <1>17

\* Requests inserted into the table take free rows in order.
LEMMA InsertionAdvances ==
  ASSUME TypeOK, NEW pieces, NEW place \in Placements(pieces), NEW rows,
         requests' = Inserted(requests, place, rows),
         \A p \in pieces : rows[p].status = "PENDING" /\ rows[p].splitFrom = NoId
  PROVE  /\ RowsAdvance
         /\ \A j \in Ids : requests[j].status # "NONE" => requests'[j] = requests[j]
         /\ \A j \in Ids : requests[j].status = "NONE" =>
              requests'[j] = requests[j] \/ \E p \in pieces : requests'[j] = rows[p]
         /\ \A p \in pieces : \E j \in Ids : requests'[j] = rows[p]
<1>1. /\ place \in [pieces -> Ids]
      /\ \A p \in pieces : requests[place[p]].status = "NONE"
      /\ \A k \in Ids : (\A p \in pieces : place[p] # k) => requests'[k] = requests[k]
  BY InsertedAt
<1>2. \A p \in pieces : requests'[place[p]] = rows[p]
  <2>1. ASSUME NEW p \in pieces
        PROVE  Inserted(requests, place, rows)[place[p]] = rows[p]
    <3> DEFINE table == requests
    <3>1. Inserted(table, place, rows)[place[p]] = rows[p]
      <4> HIDE DEF table
      <4> QED BY InsertedPiece
    <3> QED BY <3>1
  <2> QED BY <2>1
<1>3. \A p \in pieces, k \in Ids :
        k < place[p] /\ requests[k].status = "NONE" => \E q \in pieces : place[q] = k
  BY InsertedAt
<1>4. \A j \in Ids : requests[j].status # "NONE" => requests'[j] = requests[j]
  BY <1>1
<1>5. ASSUME NEW j \in Ids, requests[j].status = "NONE", requests'[j] # requests[j]
      PROVE  \E p \in pieces : place[p] = j /\ requests'[j] = rows[p]
  BY <1>1, <1>2, <1>5
<1>6. ASSUME NEW j \in Ids, requests[j].status = "NONE", requests'[j] # requests[j]
      PROVE  /\ requests'[j].status # "NONE" /\ requests'[j].splitFrom = NoId
             /\ \A i \in Ids : i < j => requests'[i].status # "NONE"
  <2>1. PICK p \in pieces : place[p] = j /\ requests'[j] = rows[p]
    BY <1>5, <1>6
  <2>2. ASSUME NEW i \in Ids, i < j PROVE requests'[i].status # "NONE"
    <3>1. CASE requests[i].status # "NONE"
      BY <1>4, <3>1
    <3>2. CASE requests[i].status = "NONE"
      <4>1. PICK q \in pieces : place[q] = i
        BY <1>3, <2>1, <2>2, <3>2
      <4> QED BY <4>1, <1>2
    <3> QED BY <3>1, <3>2
  <2> QED BY <2>1, <2>2
<1>7. \A p \in pieces : \E j \in Ids : requests'[j] = rows[p]
  BY <1>1, <1>2
<1> QED BY <1>4, <1>5, <1>6, <1>7 DEF RowsAdvance

\* No cancellation that was denied is forgotten.
DeniedStays ==
  \A j \in Ids : requests[j].status # "NONE" /\ requests[j].denied => requests'[j].denied

\* A step after which each approved row has no worked day, was denied, or is
\* part of a row that was approved before, leaves worked leave explained.
LEMMA ExplainedKept ==
  ASSUME TypeOK, TypeOK', RowsInOrder, RowsAdvance, WorkedLeaveIsExplained, DeniedStays,
         worked' = worked, flags' = flags,
         \A j \in Ids : requests'[j].status = "APPROVED" =>
           \/ Span(j)' \cap worked = {}
           \/ requests'[j].denied
           \/ \E k \in Ids : /\ requests[k].status = "APPROVED"
                             /\ Span(j)' \subseteq Span(k)
                             /\ Root(j)' = Root(k)
  PROVE  WorkedLeaveIsExplained'
<1> SUFFICES ASSUME NEW j \in Ids, requests'[j].status = "APPROVED",
                    NEW d \in Span(j)' \cap worked'
             PROVE  flags'[d] = "validated" \/ \E m \in Family(j)' : requests'[m].denied
  BY DEF WorkedLeaveIsExplained
<1>1. CASE requests'[j].denied
  BY <1>1 DEF Family
<1>2. ASSUME NEW k \in Ids, requests[k].status = "APPROVED", Span(j)' \subseteq Span(k),
             Root(j)' = Root(k)
      PROVE  flags'[d] = "validated" \/ \E m \in Family(j)' : requests'[m].denied
  <2>1. d \in Span(k) \cap worked
    BY <1>2
  <2>2. flags[d] = "validated" \/ \E m \in Family(k) : requests[m].denied
    BY <1>2, <2>1 DEF WorkedLeaveIsExplained
  <2>3. ASSUME NEW m \in Family(k), requests[m].denied
        PROVE  m \in Family(j)' /\ requests'[m].denied
    <3>1. m \in Ids /\ requests[m].status # "NONE" /\ Root(m) = Root(k)
      BY DEF Family
    <3>2. Root(m)' = Root(m) /\ requests'[m].status # "NONE" /\ requests'[m].denied
      BY <3>1, <2>3, RootsStay DEF RowsAdvance, DeniedStays
    <3>3. Root(m)' = Root(j)'
      BY <1>2, <3>1, <3>2
    <3> QED BY <3>1, <3>2, <3>3 DEF Family
  <2> QED BY <2>2, <2>3
<1> QED BY <1>1, <1>2

-----------------------------------------------------------------------------
(***************************************************************************)
(* 3. Work on a leave day.                                                 *)
(***************************************************************************)
Explained == TypeOK /\ RowsInOrder /\ WorkedLeaveIsExplained

\* A step that changes only the status of one row, or its notes, keeps every
\* row where it was.
LEMMA StatusAdvances ==
  ASSUME TypeOK,
         \A j \in Ids : /\ requests'[j].splitFrom = requests[j].splitFrom
                        /\ requests[j].status # "NONE" => requests'[j].status # "NONE"
                        /\ requests[j].status = "NONE" => requests'[j] = requests[j]
  PROVE  RowsAdvance
BY DEF RowsAdvance

LEMMA SameRoots ==
  ASSUME TypeOK, TypeOK', RowsInOrder, RowsAdvance, NEW j \in Ids,
         requests[j].status = "APPROVED", requests'[j].from = requests[j].from,
         requests'[j].to = requests[j].to
  PROVE  \E k \in Ids : /\ requests[k].status = "APPROVED" /\ Span(j)' \subseteq Span(k)
                        /\ Root(j)' = Root(k)
<1>1. Root(j)' = Root(j)
  BY RootsStay
<1>2. Span(j)' \subseteq Span(j)
  BY DEF Span
<1> QED BY <1>1, <1>2

LEMMA InsertionExplained ==
  ASSUME Explained, TypeOK', NEW pieces, NEW place \in Placements(pieces), NEW rows,
         requests' = Inserted(requests, place, rows),
         \A p \in pieces : rows[p].status = "PENDING" /\ rows[p].splitFrom = NoId,
         worked' = worked, flags' = flags
  PROVE  Explained'
<1>1. /\ RowsAdvance
      /\ \A j \in Ids : requests[j].status # "NONE" => requests'[j] = requests[j]
      /\ \A j \in Ids : requests[j].status = "NONE" =>
           requests'[j] = requests[j] \/ \E p \in pieces : requests'[j] = rows[p]
  BY InsertionAdvances DEF Explained
<1>2. RowsInOrder'
  BY <1>1, OrderKept DEF Explained
<1>3. DeniedStays
  BY <1>1 DEF DeniedStays
<1>4. ASSUME NEW j \in Ids, requests'[j].status = "APPROVED"
      PROVE  \E k \in Ids : /\ requests[k].status = "APPROVED" /\ Span(j)' \subseteq Span(k)
                            /\ Root(j)' = Root(k)
  <2>1. requests[j].status # "NONE" /\ requests'[j] = requests[j]
    BY <1>1, <1>4
  <2>2. /\ requests[j].status = "APPROVED" /\ requests'[j].from = requests[j].from
        /\ requests'[j].to = requests[j].to
    BY <2>1, <1>4
  <2> QED BY <1>1, <2>2, SameRoots DEF Explained
<1>5. WorkedLeaveIsExplained'
  BY <1>1, <1>3, <1>4, ExplainedKept DEF Explained
<1> QED BY <1>2, <1>5 DEF Explained

LEMMA FilingExplained ==
  ASSUME Explained, TypeOK',
         \/ \E type \in LeaveTypes : \E pieces \in Filings : FileRequests(type, pieces)
         \/ \E i \in Ids : RequestExtension(i)
  PROVE  Explained'
<1>1. ASSUME NEW type \in LeaveTypes, NEW pieces \in Filings, FileRequests(type, pieces)
      PROVE  Explained'
  <2> DEFINE rows == [p \in pieces |-> Filed(type, p, NoId)]
  <2>1. PICK place \in Placements(pieces) : requests' = Inserted(requests, place, rows)
    BY <1>1 DEF FileRequests
  <2>2. \A p \in pieces : rows[p].status = "PENDING" /\ rows[p].splitFrom = NoId
    BY DEF Filed, NoRequest
  <2>3. worked' = worked /\ flags' = flags
    BY <1>1 DEF FileRequests, attendance
  <2> HIDE DEF rows
  <2> QED BY <2>1, <2>2, <2>3, InsertionExplained
<1>2. ASSUME NEW i \in Ids, RequestExtension(i)
      PROVE  Explained'
  <2> DEFINE asked == [from |-> requests[i].to + 1, to |-> requests[i].to + ExtensionDays]
             rows  == [p \in {asked} |-> Filed(requests[i].type, p, i)]
  <2>1. PICK place \in Placements({asked}) : requests' = Inserted(requests, place, rows)
    BY <1>2 DEF RequestExtension
  <2>2. \A p \in {asked} : rows[p].status = "PENDING" /\ rows[p].splitFrom = NoId
    BY DEF Filed, NoRequest
  <2>3. worked' = worked /\ flags' = flags
    BY <1>2 DEF RequestExtension, attendance
  <2> HIDE DEF rows, asked
  <2> QED BY <2>1, <2>2, <2>3, InsertionExplained
<1> QED BY <1>1, <1>2

LEMMA DecisionExplained ==
  ASSUME Explained, TypeOK', NEW i \in Ids, NEW revise \in BOOLEAN,
         \/ Approve(i) \/ Reject(i, revise) \/ Resubmit(i)
         \/ ApproveCancellation(i) \/ DenyCancellation(i) \/ Lapse(i)
  PROVE  Explained'
<1>0. TypeOK /\ RowsInOrder
  BY DEF Explained
<1>1. /\ worked' = worked /\ flags' = flags
      /\ \A j \in Ids : j # i => requests'[j] = requests[j]
      /\ requests'[i].from = requests[i].from /\ requests'[i].to = requests[i].to
      /\ requests'[i].splitFrom = requests[i].splitFrom
      /\ requests'[i].denied = (requests[i].denied \/ requests'[i].denied)
  BY <1>0 DEF Approve, Reject, Resubmit, ApproveCancellation, DenyCancellation, Lapse,
              attendance, TypeOK, Request
<1>1a. \E status \in LeaveStatus : requests'[i].status = status
  <2>1. {"APPROVED", "NEEDS_REVISION", "REJECTED", "PENDING", "CANCELLED", "LAPSED"} \subseteq LeaveStatus
    BY DEF LeaveStatus, Standing, Undecided, Granted, Closed
  <2>2. requests'[i].status \in {"APPROVED", "NEEDS_REVISION", "REJECTED", "PENDING", "CANCELLED", "LAPSED"}
    <3>1. CASE Approve(i)
      BY <1>0, <3>1 DEF Approve, TypeOK, Request
    <3>2. CASE Reject(i, revise)
      BY <1>0, <3>2 DEF Reject, TypeOK, Request
    <3>3. CASE Resubmit(i)
      BY <1>0, <3>3 DEF Resubmit, TypeOK, Request
    <3>4. CASE ApproveCancellation(i)
      BY <1>0, <3>4 DEF ApproveCancellation, TypeOK, Request
    <3>5. CASE DenyCancellation(i)
      BY <1>0, <3>5 DEF DenyCancellation, TypeOK, Request
    <3>6. CASE Lapse(i)
      BY <1>0, <3>6 DEF Lapse, TypeOK, Request
    <3> QED BY <3>1, <3>2, <3>3, <3>4, <3>5, <3>6
  <2> QED BY <2>1, <2>2
<1>1b. requests[i].status \in LeaveStatus
  <2>1. OfferedToApprove \subseteq LeaveStatus /\ OfferedToReject \subseteq LeaveStatus
    BY WorkflowAssumption
  <2>2. {"NEEDS_REVISION", "CANCELLATION_PENDING"} \cup Undecided \subseteq LeaveStatus
    BY DEF LeaveStatus, Standing, Undecided, Granted
  <2> QED BY <2>1, <2>2 DEF Approve, Reject, Resubmit, ApproveCancellation, DenyCancellation,
                            Lapse, HasStatus, LapseCandidates
<1>2. requests[i].status # "NONE" /\ requests'[i].status # "NONE"
  <2>1. "NONE" \notin LeaveStatus
    BY DEF LeaveStatus, Standing, Undecided, Granted, Closed
  <2> QED BY <2>1, <1>1a, <1>1b
<1>3. RowsAdvance
  BY <1>0, <1>1, <1>2, StatusAdvances
<1>4. RowsInOrder'
  BY <1>0, <1>3, OrderKept
<1>5. DeniedStays
  BY <1>1 DEF DeniedStays
<1>6. ASSUME requests'[i].status = "APPROVED"
      PROVE  \/ Span(i)' \cap worked = {} \/ requests'[i].denied
             \/ requests[i].status = "APPROVED"
  <2>1. Span(i)' = Span(i)
    BY <1>1 DEF Span
  <2>2. CASE Approve(i)
    BY <2>1, <2>2 DEF Approve, WorkedIn, Span
  <2>3. CASE DenyCancellation(i)
    BY <2>3 DEF DenyCancellation, Explained, TypeOK, Request
  <2>4. CASE Reject(i, revise)
    BY <1>0, <1>6, <2>4 DEF Reject, TypeOK, Request
  <2>5. CASE Resubmit(i)
    BY <1>0, <1>6, <2>5 DEF Resubmit, TypeOK, Request
  <2>6. CASE ApproveCancellation(i)
    BY <1>0, <1>6, <2>6 DEF ApproveCancellation, TypeOK, Request
  <2>7. CASE Lapse(i)
    BY <1>0, <1>6, <2>7 DEF Lapse, TypeOK, Request
  <2> QED BY <2>2, <2>3, <2>4, <2>5, <2>6, <2>7
<1>7. ASSUME NEW j \in Ids, requests'[j].status = "APPROVED"
      PROVE  \/ Span(j)' \cap worked = {} \/ requests'[j].denied
             \/ \E k \in Ids : /\ requests[k].status = "APPROVED"
                               /\ Span(j)' \subseteq Span(k) /\ Root(j)' = Root(k)
  <2>1. CASE requests[j].status = "APPROVED"
    <3>1. requests'[j].from = requests[j].from /\ requests'[j].to = requests[j].to
      BY <1>1
    <3> QED BY <2>1, <3>1, <1>0, <1>3, SameRoots
  <2>2. CASE requests[j].status # "APPROVED"
    BY <2>2, <1>1, <1>6, <1>7
  <2> QED BY <2>1, <2>2
<1>8. WorkedLeaveIsExplained'
  BY <1>0, <1>1, <1>3, <1>5, <1>7, ExplainedKept DEF Explained
<1> QED BY <1>4, <1>8 DEF Explained

LEMMA CutsAdvance ==
  ASSUME TypeOK, NEW i \in Ids, requests[i].status \in CancellableStatuses,
         NEW days, NEW bySelf \in BOOLEAN, NEW kept, NEW owner,
         Cuts(i, days, bySelf, kept, owner)
  PROVE  /\ RowsAdvance /\ DeniedStays
         /\ \A k \in Ids : \/ requests'[k] = requests[k]
                           \/ \E p \in Runs(requests[i].from, requests[i].to, days) : owner[p] = k
<1> DEFINE old  == requests[i]
           runs == Runs(old.from, old.to, days)
           after(p) == IF p.from \notin days THEN old.status
                       ELSE IF old.status = "APPROVED" /\ bySelf THEN "CANCELLATION_PENDING"
                       ELSE "CANCELLED"
<1>1. /\ kept \in runs /\ owner \in [runs -> Ids] /\ owner[kept] = i
      /\ \A p \in runs : p # kept =>
           /\ requests[owner[p]].status = "NONE"
           /\ \A j \in Ids : j < owner[p] /\ requests[j].status = "NONE" =>
                \E q \in runs : q # kept /\ owner[q] = j
      /\ \A p \in runs :
           /\ requests'[owner[p]].status = after(p)
           /\ requests'[owner[p]].splitFrom = IF p = kept THEN old.splitFrom ELSE i
      /\ requests'[i].denied = old.denied
      /\ \A k \in Ids : (\A p \in runs : owner[p] # k) => requests'[k] = requests[k]
  BY DEF Cuts
<1>2. old.status # "NONE" /\ \A p \in runs : after(p) # "NONE"
  BY DEF CancellableStatuses
<1> HIDE DEF runs, after
<1>3. \A p \in runs : requests'[owner[p]].status # "NONE"
  BY <1>1, <1>2
<1>4. ASSUME NEW k \in Ids, requests[k].status # "NONE", k # i
      PROVE  requests'[k] = requests[k]
  BY <1>1, <1>4
<1>5. requests'[i].splitFrom = old.splitFrom
  BY <1>1
<1>6. ASSUME NEW k \in Ids, requests[k].status = "NONE", requests'[k] # requests[k]
      PROVE  /\ requests'[k].status # "NONE" /\ requests'[k].splitFrom = i
             /\ \A j \in Ids : j < k => requests'[j].status # "NONE"
  <2>1. PICK p \in runs : owner[p] = k
    BY <1>1, <1>6
  <2>2. p # kept
    BY <1>1, <1>2, <1>6, <2>1
  <2>3. ASSUME NEW j \in Ids, j < k PROVE requests'[j].status # "NONE"
    <3>1. CASE requests[j].status # "NONE"
      BY <3>1, <1>1, <1>3, <1>4
    <3>2. CASE requests[j].status = "NONE"
      BY <3>2, <1>1, <1>3, <2>1, <2>2, <2>3
    <3> QED BY <3>1, <3>2
  <2> QED BY <2>1, <2>2, <2>3, <1>1, <1>3
<1>7. RowsAdvance
  <2>1. ASSUME NEW k \in Ids, requests[k].status # "NONE"
        PROVE  requests'[k].status # "NONE" /\ requests'[k].splitFrom = requests[k].splitFrom
    BY <2>1, <1>1, <1>3, <1>4, <1>5
  <2> QED BY <2>1, <1>2, <1>6 DEF RowsAdvance
<1>8. DeniedStays
  BY <1>1, <1>4 DEF DeniedStays
<1> QED BY <1>1, <1>7, <1>8 DEF runs

LEMMA CancelExplained ==
  ASSUME Explained, TypeOK', NEW i \in Ids, NEW days \in SUBSET Span(i),
         NEW bySelf \in BOOLEAN, Cancel(i, days, bySelf)
  PROVE  Explained'
<1>0. TypeOK /\ RowsInOrder
  BY DEF Explained
<1>1. PICK kept, owner : Cuts(i, days, bySelf, kept, owner)
  BY <1>0, CancelCuts
<1>2. requests[i].status \in CancellableStatuses /\ worked' = worked /\ flags' = flags
  BY DEF Cancel, HasStatus, attendance
<1>3. RowsAdvance /\ DeniedStays
  BY <1>0, <1>1, <1>2, CutsAdvance
<1>4. RowsInOrder'
  BY <1>0, <1>3, OrderKept
<1>5. ASSUME NEW j \in Ids, requests'[j].status = "APPROVED"
      PROVE  \E k \in Ids : /\ requests[k].status = "APPROVED"
                            /\ Span(j)' \subseteq Span(k) /\ Root(j)' = Root(k)
  <2>1. CASE requests'[j] = requests[j]
    <3>1. /\ requests[j].status = "APPROVED" /\ requests'[j].from = requests[j].from
          /\ requests'[j].to = requests[j].to
      BY <2>1, <1>5
    <3> QED BY <1>0, <1>3, <3>1, SameRoots
  <2>2. CASE requests'[j] # requests[j]
    <3> DEFINE runs == Runs(requests[i].from, requests[i].to, days)
    <3>1. PICK p \in runs : owner[p] = j
      BY <1>0, <1>1, <1>2, <2>2, CutsAdvance
    <3>2. /\ requests'[j].from = p.from /\ requests'[j].to = p.to
          /\ requests'[j].status = IF p.from \notin days THEN requests[i].status
               ELSE IF requests[i].status = "APPROVED" /\ bySelf
                 THEN "CANCELLATION_PENDING" ELSE "CANCELLED"
          /\ requests'[j].splitFrom = IF p = kept THEN requests[i].splitFrom ELSE i
          /\ p = kept => j = i
      BY <1>1, <3>1 DEF Cuts
    <3>3. requests[i].status = "APPROVED"
      BY <3>2, <1>5
    <3>4. Root(j)' = Root(i)
      <4>1. Root(i)' = Root(i)
        BY <1>0, <1>3, <3>3, RootsStay
      <4>2. CASE p = kept
        BY <4>1, <4>2, <3>2
      <4>3. CASE p # kept
        <5>1. requests'[j].splitFrom = i /\ i # NoId
          BY <4>3, <3>2, WorkflowAssumption DEF Ids, NoId
        <5>2. RootsFollow'
          BY <1>4, RootFollowsNext
        <5> QED BY <4>1, <5>1, <5>2 DEF RootsFollow
      <4> QED BY <4>2, <4>3
    <3>5. Span(j)' \subseteq Span(i)
      <4>1. /\ requests[i].from \in Int /\ requests[i].to \in Int
        BY <1>0, WorkflowAssumption DEF TypeOK, Request, Days
      <4>2. /\ p.from \in Int /\ p.to \in Int
            /\ requests[i].from <= p.from /\ p.to <= requests[i].to
        BY <4>1 DEF Runs
      <4>3. p.from..p.to \subseteq requests[i].from..requests[i].to
        BY <4>1, <4>2
      <4> QED BY <3>2, <4>3 DEF Span
    <3> QED BY <3>3, <3>4, <3>5
  <2> QED BY <2>1, <2>2
<1>6. WorkedLeaveIsExplained'
  BY <1>0, <1>2, <1>3, <1>5, ExplainedKept DEF Explained
<1> QED BY <1>4, <1>6 DEF Explained

LEMMA TimeExplained ==
  ASSUME Explained, TypeOK',
         \/ \E day \in Days : TimeIn(day) \/ FlagTimeIn(day)
         \/ \E day \in Days : \E valid \in BOOLEAN : ReviewFlagged(day, valid)
         \/ NextDay
         \/ UNCHANGED vars
  PROVE  Explained'
<1>0. TypeOK /\ RowsInOrder /\ WorkedLeaveIsExplained
  BY DEF Explained
<1>1. requests' = requests
  BY DEF TimeIn, FlagTimeIn, ReviewFlagged, NextDay, vars
<1>2. \A j \in Ids : Span(j)' = Span(j) /\ Family(j)' = Family(j)
  BY <1>1 DEF Span, Family, Root
<1>3. RowsInOrder'
  BY <1>0, <1>1 DEF RowsInOrder
<1>4. ASSUME NEW j \in Ids, requests'[j].status = "APPROVED", NEW d \in Span(j)' \cap worked'
      PROVE  flags'[d] = "validated" \/ \E m \in Family(j)' : requests'[m].denied
  <2>1. requests[j].status = "APPROVED" /\ d \in Span(j)
    BY <1>1, <1>2, <1>4
  <2>2. d \in worked => flags[d] = "validated" \/ \E m \in Family(j)' : requests'[m].denied
    BY <1>0, <1>1, <1>2, <2>1 DEF WorkedLeaveIsExplained
  <2>3. ASSUME NEW day \in Days, TimeIn(day)
        PROVE  flags'[d] = "validated" \/ \E m \in Family(j)' : requests'[m].denied
    BY <2>1, <2>2, <2>3, <1>4 DEF TimeIn, MayTimeIn, OnApprovedLeave
  <2>4. ASSUME NEW day \in Days, FlagTimeIn(day)
        PROVE  flags'[d] = "validated" \/ \E m \in Family(j)' : requests'[m].denied
    BY <1>0, <2>2, <2>4, <1>4 DEF FlagTimeIn, MayTimeIn, TypeOK
  <2>5. ASSUME NEW day \in Days, NEW valid \in BOOLEAN, ReviewFlagged(day, valid)
        PROVE  flags'[d] = "validated" \/ \E m \in Family(j)' : requests'[m].denied
    BY <1>0, <2>2, <2>5, <1>4 DEF ReviewFlagged, TypeOK
  <2>6. CASE NextDay \/ UNCHANGED vars
    BY <2>2, <2>6, <1>4 DEF NextDay, vars, attendance
  <2> QED BY <2>3, <2>4, <2>5, <2>6
<1> QED BY <1>3, <1>4 DEF Explained, WorkedLeaveIsExplained

LEMMA StepExplained ==
  ASSUME Explained, [Next]_vars
  PROVE  Explained'
<1>0. TypeOK'
  BY StepSafe DEF Explained
<1>1. CASE \/ \E type \in LeaveTypes : \E pieces \in Filings : FileRequests(type, pieces)
           \/ \E i \in Ids : RequestExtension(i)
  BY <1>0, <1>1, FilingExplained
<1>2. ASSUME NEW i \in Ids,
             \/ Approve(i) \/ Resubmit(i) \/ ApproveCancellation(i)
             \/ DenyCancellation(i) \/ Lapse(i)
      PROVE  Explained'
  <2>1. TRUE \in BOOLEAN
    OBVIOUS
  <2> QED BY <1>0, <1>2, <2>1, DecisionExplained
<1>3. ASSUME NEW i \in Ids, NEW revise \in BOOLEAN, Reject(i, revise) PROVE Explained'
  BY <1>0, <1>3, DecisionExplained
<1>4. ASSUME NEW i \in Ids, NEW days \in SUBSET Span(i), NEW bySelf \in BOOLEAN,
             Cancel(i, days, bySelf)
      PROVE  Explained'
  BY <1>0, <1>4, CancelExplained
<1>5. CASE \/ \E day \in Days : TimeIn(day) \/ FlagTimeIn(day)
           \/ \E day \in Days : \E valid \in BOOLEAN : ReviewFlagged(day, valid)
           \/ NextDay
           \/ UNCHANGED vars
  BY <1>0, <1>5, TimeExplained
<1> QED BY <1>1, <1>2, <1>3, <1>4, <1>5 DEF Next

\* Whatever the statuses in which reviewers act: a day of an approved leave
\* that was also worked is there because a cancellation of that leave was
\* denied after the employee timed in, or because a doubtful scan was
\* validated after the approval (approveCancellation, validateFlaggedLog).
THEOREM WorkOnLeaveIsExplained == Spec => []WorkedLeaveIsExplained
<1>1. Init => Explained
  <2> SUFFICES ASSUME Init PROVE Explained
    OBVIOUS
  <2>1. \A i \in Ids : requests[i].status = "NONE" /\ requests[i].splitFrom = NoId
    BY DEF Init, NoRequest
  <2> QED BY <2>1, InitSafe DEF Explained, RowsInOrder, WorkedLeaveIsExplained
<1>2. Explained /\ [Next]_vars => Explained'
  BY StepExplained
<1>3. Explained => WorkedLeaveIsExplained
  BY DEF Explained
<1> QED BY <1>1, <1>2, <1>3, PTL DEF Spec

-----------------------------------------------------------------------------
(***************************************************************************)
(* 4. The day book.                                                        *)
(***************************************************************************)
\* Every day of a leave lies in one of the runs a cancellation cuts it into.
LEMMA RunsCover ==
  ASSUME NEW first \in Nat, NEW last \in Nat, NEW cancelled, NEW d \in first..last
  PROVE  \E p \in Runs(first, last, cancelled) : d \in p.from..p.to
<1> DEFINE A == {n \in Nat : n > d /\ (n = last + 1 \/ ~SameSide(cancelled, n, d))}
           B == {n \in Nat : n > 0 /\ (d - n = first - 1 \/ ~SameSide(cancelled, d - n, d))}
<1>1. PICK a \in A : \A n \in A : a <= n
  <2>1. last + 1 \in A
    OBVIOUS
  <2>2. A \subseteq Nat /\ A # {}
    BY <2>1
  <2> HIDE DEF A
  <2> QED BY <2>2, LeastNumber
<1>2. PICK b \in B : \A n \in B : b <= n
  <2>1. d - first + 1 \in B
    OBVIOUS
  <2>2. B \subseteq Nat /\ B # {}
    BY <2>1
  <2> HIDE DEF B
  <2> QED BY <2>2, LeastNumber
<1> DEFINE p == [from |-> d - b + 1, to |-> a - 1]
<1>3. /\ a \in Nat /\ a > d /\ (a = last + 1 \/ ~SameSide(cancelled, a, d))
      /\ b \in Nat /\ b > 0 /\ (d - b = first - 1 \/ ~SameSide(cancelled, d - b, d))
      /\ d \in Nat /\ first <= d /\ d <= last
  BY <1>1, <1>2
<1>4. a <= last + 1 /\ b <= d - first + 1
  <2>1. last + 1 \in A /\ d - first + 1 \in B
    OBVIOUS
  <2> HIDE DEF A, B
  <2> QED BY <2>1, <1>1, <1>2
<1>5. ASSUME NEW e \in d..(a - 1) PROVE SameSide(cancelled, e, d)
  <2>1. CASE e = d
    BY <2>1 DEF SameSide
  <2>2. CASE e # d
    <3>1. e \in Nat /\ e > d /\ ~(a <= e)
      BY <1>3, <2>2
    <3>2. e \notin A
      <4> HIDE DEF A
      <4> QED BY <3>1, <1>1
    <3> QED BY <3>1, <3>2
  <2> QED BY <2>1, <2>2
<1>6. ASSUME NEW e \in (d - b + 1)..d PROVE SameSide(cancelled, e, d)
  <2>1. CASE e = d
    BY <2>1 DEF SameSide
  <2>2. CASE e # d
    <3> DEFINE n == d - e
    <3>1. n \in Nat /\ n > 0 /\ ~(b <= n) /\ d - n = e
      BY <1>3, <2>2
    <3>2. n \notin B
      <4> HIDE DEF B, n
      <4> QED BY <3>1, <1>2
    <3> QED BY <3>1, <3>2
  <2> QED BY <2>1, <2>2
<1>7. p.from \in first..last /\ p.to \in first..last /\ p.from <= d /\ d <= p.to
  BY <1>3, <1>4
<1>8. ASSUME NEW e \in p.from..p.to PROVE SameSide(cancelled, e, d)
  <2>1. e \in Int /\ (e <= d \/ d <= e)
    BY <1>3, <1>7
  <2>2. e \in d..(a - 1) \/ e \in (d - b + 1)..d
    BY <1>3, <1>4, <1>8, <2>1
  <2> QED BY <2>2, <1>5, <1>6
<1>9. SameSide(cancelled, p.from, d)
  BY <1>3, <1>7, <1>8
<1>10. \A e \in p.from..p.to : SameSide(cancelled, e, p.from)
  BY <1>8, <1>9 DEF SameSide
<1>11. p.from = first \/ ~SameSide(cancelled, p.from - 1, p.from)
  <2>1. p.from - 1 = d - b
    BY <1>3
  <2>2. CASE d - b = first - 1
    BY <1>3, <2>2
  <2>3. CASE ~SameSide(cancelled, d - b, d)
    BY <2>1, <2>3, <1>9 DEF SameSide
  <2> QED BY <1>3, <2>2, <2>3
<1>12. p.to = last \/ ~SameSide(cancelled, p.to + 1, p.to)
  <2>1. p.to + 1 = a /\ SameSide(cancelled, p.to, d)
    BY <1>3, <1>7, <1>8
  <2>2. CASE a = last + 1
    BY <1>3, <2>2
  <2>3. CASE ~SameSide(cancelled, a, d)
    BY <2>1, <2>3 DEF SameSide
  <2> QED BY <1>3, <2>2, <2>3
<1>13. p \in Runs(first, last, cancelled)
  <2>1. p \in [from : first..last, to : first..last] /\ p.from <= p.to
    BY <1>7
  <2> HIDE DEF p
  <2> QED BY <2>1, <1>10, <1>11, <1>12 DEF Runs
<1>14. d \in p.from..p.to
  BY <1>7, <1>3
<1> HIDE DEF p
<1> QED BY <1>13, <1>14

-----------------------------------------------------------------------------
\* How the status of the leave that covers a day reads in the abstract book.
Tag(status) ==
  IF status = "APPROVED" THEN "granted"
  ELSE IF status = "CANCELLATION_PENDING" THEN "contested"
  ELSE IF status \in Undecided THEN "asked"
  ELSE "free"

Covers(i, d) == requests[i].status \in Standing /\ d \in Span(i)

MarksRead ==
  /\ \A i \in Ids, d \in Days : Covers(i, d) => MarkOf(d) = Tag(requests[i].status)
  /\ \A d \in Days : (\A i \in Ids : ~Covers(i, d)) => MarkOf(d) = "free"

LEMMA MarksAreRead == TypeOK /\ NoOverlap => MarksRead
<1> SUFFICES ASSUME TypeOK, NoOverlap PROVE MarksRead
  OBVIOUS
<1>1. \A i \in Ids : requests[i].from \in Int /\ requests[i].to \in Int
  BY WorkflowAssumption DEF TypeOK, Request, Days
<1>2. ASSUME NEW i \in Ids, NEW j \in Ids, NEW d \in Days, Covers(i, d), Covers(j, d)
      PROVE  i = j
  <2>1. Meet(requests[i], requests[j])
    BY <1>1, <1>2 DEF Covers, Span, Meet
  <2> QED BY <2>1, <1>2 DEF NoOverlap, Covers, HasStatus
<1> DEFINE covers(d, S) == \E i \in Ids : HasStatus(i, S) /\ d \in Span(i)
<1>3. \A d \in Days : MarkOf(d) = IF covers(d, {"APPROVED"}) THEN "granted"
                        ELSE IF covers(d, {"CANCELLATION_PENDING"}) THEN "contested"
                        ELSE IF covers(d, Undecided) THEN "asked"
                        ELSE "free"
  BY DEF MarkOf
<1>4. ASSUME NEW i \in Ids, NEW d \in Days, Covers(i, d)
      PROVE  MarkOf(d) = Tag(requests[i].status)
  <2>1. /\ covers(d, {"APPROVED"}) <=> requests[i].status = "APPROVED"
        /\ covers(d, {"CANCELLATION_PENDING"}) <=> requests[i].status = "CANCELLATION_PENDING"
        /\ covers(d, Undecided) <=> requests[i].status \in Undecided
    <3>1. ASSUME NEW S, S \subseteq Standing
          PROVE  covers(d, S) <=> requests[i].status \in S
      BY <1>2, <1>4, <3>1 DEF Covers, HasStatus
    <3>2. /\ {"APPROVED"} \subseteq Standing /\ {"CANCELLATION_PENDING"} \subseteq Standing
          /\ Undecided \subseteq Standing
      BY DEF Standing, Granted
    <3> HIDE DEF covers
    <3> QED BY <3>1, <3>2
  <2> HIDE DEF covers
  <2> QED BY <1>3, <2>1 DEF Tag
<1>5. ASSUME NEW d \in Days, \A i \in Ids : ~Covers(i, d)
      PROVE  MarkOf(d) = "free"
  <2>1. ~covers(d, {"APPROVED"}) /\ ~covers(d, {"CANCELLATION_PENDING"}) /\ ~covers(d, Undecided)
    BY <1>5 DEF Covers, HasStatus, Standing, Granted
  <2> HIDE DEF covers
  <2> QED BY <1>3, <2>1
<1> QED BY <1>4, <1>5 DEF MarksRead

LEMMA MarksAreReadNext == TypeOK' /\ NoOverlap' => MarksRead'
BY MarksAreRead, PTL

\* A day reads the same as long as the rows that cover it do.
LEMMA MarkStays ==
  ASSUME NEW d \in Days,
         \A i \in Ids : Covers(i, d) \/ Covers(i, d)' =>
           Covers(i, d) /\ Covers(i, d)' /\ requests'[i].status = requests[i].status
  PROVE  MarkOf(d)' = MarkOf(d)
<1>1. ASSUME NEW S, S \subseteq Standing
      PROVE  (\E i \in Ids : HasStatus(i, S) /\ d \in Span(i))'
               <=> (\E i \in Ids : HasStatus(i, S) /\ d \in Span(i))
  BY <1>1 DEF Covers, HasStatus
<1>2. /\ {"APPROVED"} \subseteq Standing /\ {"CANCELLATION_PENDING"} \subseteq Standing
      /\ Undecided \subseteq Standing
  BY DEF Standing, Granted
<1>3. /\ (\E i \in Ids : HasStatus(i, {"APPROVED"}) /\ d \in Span(i))'
           <=> (\E i \in Ids : HasStatus(i, {"APPROVED"}) /\ d \in Span(i))
      /\ (\E i \in Ids : HasStatus(i, {"CANCELLATION_PENDING"}) /\ d \in Span(i))'
           <=> (\E i \in Ids : HasStatus(i, {"CANCELLATION_PENDING"}) /\ d \in Span(i))
      /\ (\E i \in Ids : HasStatus(i, Undecided) /\ d \in Span(i))'
           <=> (\E i \in Ids : HasStatus(i, Undecided) /\ d \in Span(i))
  <2>1. Undecided' = Undecided
    BY DEF Undecided
  <2> QED BY <1>1, <1>2, <2>1
<1> QED BY <1>3 DEF MarkOf

\* A step that leaves every mark and the attendance alone is a stutter of the
\* book, and one that turns the marks of some days is a turn of the book.
LEMMA BookStutters ==
  ASSUME \A d \in Days : MarkOf(d)' = MarkOf(d), worked' = worked, flags' = flags
  PROVE  UNCHANGED <<[d \in Days |-> MarkOf(d)], worked, {d \in Days : flags[d] = "pending"}>>
<1>1. [d \in Days |-> MarkOf(d)]' = [d \in Days |-> MarkOf(d)]
  OBVIOUS
<1>2. {d \in Days : flags[d] = "pending"}' = {d \in Days : flags[d] = "pending"}
  OBVIOUS
<1> QED BY <1>1, <1>2

LEMMA BookTurns ==
  ASSUME NEW S \in SUBSET Days, NEW before, NEW after, S # {},
         \A d \in S : MarkOf(d) \in before /\ MarkOf(d)' = after,
         \A d \in Days \ S : MarkOf(d)' = MarkOf(d), worked' = worked, flags' = flags
  PROVE  DayBook!Turn(S, before, after)
<1>1. [d \in Days |-> MarkOf(d)]' =
        [d \in Days |-> IF d \in S THEN after ELSE [e \in Days |-> MarkOf(e)][d]]
  OBVIOUS
<1>2. {d \in Days : flags[d] = "pending"}' = {d \in Days : flags[d] = "pending"}
  OBVIOUS
<1>3. \A d \in S : [e \in Days |-> MarkOf(e)][d] \in before
  OBVIOUS
<1> QED BY <1>1, <1>2, <1>3 DEF DayBook!Turn

\* One step of the abstract book, or none.
BookStep ==
  \/ DayBook!BookNext
  \/ UNCHANGED <<[d \in Days |-> MarkOf(d)], worked, {d \in Days : flags[d] = "pending"}>>

\* The employee works no day to come, and no doubtful scan is of one.
NoWorkToCome ==
  /\ \A d \in worked : d <= today
  /\ \A d \in Days : flags[d] = "pending" => d <= today

\* A new status of one standing row turns the days of that row.
LEMMA RowTurns ==
  ASSUME TypeOK, TypeOK', NoOverlap, NoOverlap', NEW i \in Ids,
         requests[i].status \in Standing,
         requests'[i].status \in Standing \/ Tag(requests'[i].status) = "free",
         \A j \in Ids : j # i => requests'[j] = requests[j],
         requests'[i].from = requests[i].from, requests'[i].to = requests[i].to
  PROVE  /\ Span(i) \in SUBSET Days
         /\ \A d \in Span(i) : /\ MarkOf(d) = Tag(requests[i].status)
                               /\ MarkOf(d)' = Tag(requests'[i].status)
         /\ \A d \in Days \ Span(i) : MarkOf(d)' = MarkOf(d)
<1>1. MarksRead /\ MarksRead'
  BY MarksAreRead, MarksAreReadNext
<1>2. \A j \in Ids : requests[j].from \in Int /\ requests[j].to \in Int
  BY WorkflowAssumption DEF TypeOK, Request, Days
<1>3. Span(i) \in SUBSET Days
  BY WorkflowAssumption DEF TypeOK, Request, Days, Span
<1>4. Span(i)' = Span(i) /\ \A j \in Ids : j # i => Span(j)' = Span(j)
  BY DEF Span
<1>5. ASSUME NEW d \in Span(i)
      PROVE  MarkOf(d) = Tag(requests[i].status) /\ MarkOf(d)' = Tag(requests'[i].status)
  <2>1. MarkOf(d) = Tag(requests[i].status)
    BY <1>1, <1>3 DEF MarksRead, Covers
  <2>2. CASE requests'[i].status \in Standing
    <3>1. Covers(i, d)' /\ d \in Days
      BY <1>3, <1>4, <2>2 DEF Covers, Standing, Undecided, Granted
    <3> QED BY <1>1, <2>1, <3>1 DEF MarksRead, Tag, Undecided
  <2>3. CASE requests'[i].status \notin Standing
    <3>1. ASSUME NEW j \in Ids, Covers(j, d)' PROVE FALSE
      <4>1. j # i
        BY <3>1, <2>3 DEF Covers, Standing, Undecided, Granted
      <4>2. Covers(j, d) /\ Covers(i, d)
        BY <4>1, <3>1, <1>4 DEF Covers, Standing, Undecided, Granted
      <4>3. Meet(requests[i], requests[j])
        BY <4>2, <1>2 DEF Covers, Span, Meet
      <4> QED BY <4>1, <4>2, <4>3 DEF NoOverlap, Covers, HasStatus
    <3>2. MarkOf(d)' = "free"
      BY <1>1, <1>3, <3>1 DEF MarksRead
    <3> QED BY <2>1, <2>3, <3>2
  <2> QED BY <2>2, <2>3
<1>6. ASSUME NEW d \in Days \ Span(i) PROVE MarkOf(d)' = MarkOf(d)
  <2>1. ASSUME NEW j \in Ids, Covers(j, d) \/ Covers(j, d)'
        PROVE  Covers(j, d) /\ Covers(j, d)' /\ requests'[j].status = requests[j].status
    <3>1. j # i
      BY <2>1, <1>4 DEF Covers
    <3> QED BY <3>1, <2>1, <1>4 DEF Covers, Standing, Undecided, Granted
  <2> QED BY <2>1, MarkStays
<1> QED BY <1>3, <1>5, <1>6

\* The turns of the book a handler may make.
LEMMA BookAllows ==
  ASSUME NEW S \in SUBSET Days
  PROVE  /\ S \cap worked = {} /\ DayBook!Turn(S, {"free"}, "asked") => BookStep
         /\ S \cap worked = {} /\ DayBook!Turn(S, {"asked"}, "granted") => BookStep
         /\ S \cap worked = {} /\ DayBook!Turn(S, {"granted"}, "contested") => BookStep
         /\ DayBook!Turn(S, {"contested"}, "granted") => BookStep
         /\ DayBook!Turn(S, {"asked", "granted", "contested"}, "free") => BookStep
BY DEF BookStep, DayBook!BookNext, DayBook!Ask, DayBook!Grant, DayBook!Contest,
       DayBook!Uphold, DayBook!Free

LEMMA StatusBook ==
  ASSUME TypeOK, TypeOK', NoOverlap, NoOverlap', NEW i \in Ids,
         requests[i].status \in Standing,
         requests'[i].status \in Standing \/ Tag(requests'[i].status) = "free",
         \A j \in Ids : j # i => requests'[j] = requests[j],
         requests'[i].from = requests[i].from, requests'[i].to = requests[i].to,
         worked' = worked, flags' = flags,
         \/ Tag(requests'[i].status) = Tag(requests[i].status)
         \/ /\ Tag(requests[i].status) = "asked" /\ Tag(requests'[i].status) = "granted"
            /\ Span(i) \cap worked = {}
         \/ Tag(requests[i].status) = "contested" /\ Tag(requests'[i].status) = "granted"
         \/ Tag(requests'[i].status) = "free"
  PROVE  BookStep
<1>1. /\ Span(i) \in SUBSET Days
      /\ \A d \in Span(i) : /\ MarkOf(d) = Tag(requests[i].status)
                            /\ MarkOf(d)' = Tag(requests'[i].status)
      /\ \A d \in Days \ Span(i) : MarkOf(d)' = MarkOf(d)
  BY RowTurns
<1>2. CASE Span(i) = {} \/ Tag(requests'[i].status) = Tag(requests[i].status)
  <2>1. \A d \in Days : MarkOf(d)' = MarkOf(d)
    BY <1>1, <1>2
  <2> QED BY <2>1, BookStutters DEF BookStep
<1>3. ASSUME Span(i) # {}, NEW before, NEW after, Tag(requests[i].status) \in before,
             Tag(requests'[i].status) = after
      PROVE  DayBook!Turn(Span(i), before, after)
  BY <1>1, <1>3, BookTurns
<1>4. Tag(requests[i].status) \in {"asked", "granted", "contested"}
  BY DEF Tag, Standing, Granted
<1> QED BY <1>1, <1>2, <1>3, <1>4, BookAllows

LEMMA DecisionBook ==
  ASSUME TypeOK, TypeOK', NoOverlap, NoOverlap', NEW i \in Ids, NEW revise \in BOOLEAN,
         OfferedToApprove \subseteq Standing, OfferedToReject \subseteq Undecided,
         \/ Approve(i) \/ Reject(i, revise) \/ Resubmit(i)
         \/ ApproveCancellation(i) \/ DenyCancellation(i) \/ Lapse(i)
  PROVE  BookStep
<1>1. /\ worked' = worked /\ flags' = flags
      /\ \A j \in Ids : j # i => requests'[j] = requests[j]
      /\ requests'[i].from = requests[i].from /\ requests'[i].to = requests[i].to
  BY DEF Approve, Reject, Resubmit, ApproveCancellation, DenyCancellation, Lapse,
         attendance, TypeOK, Request
<1>2. CASE Approve(i)
  <2>1. requests[i].status \in Standing /\ requests'[i].status = "APPROVED"
    BY <1>2 DEF Approve, HasStatus, TypeOK, Request
  <2>2. requests[i].status = "APPROVED" \/ Span(i) \cap worked = {}
    BY <1>2 DEF Approve, WorkedIn, Span
  <2> QED BY <1>1, <2>1, <2>2, StatusBook DEF Tag, Standing, Granted
<1>3. CASE Reject(i, revise)
  <2>1. /\ requests[i].status \in Undecided
        /\ requests'[i].status \in {"NEEDS_REVISION", "REJECTED"}
    BY <1>3 DEF Reject, HasStatus, TypeOK, Request
  <2>2. /\ requests[i].status \in Standing /\ Tag(requests[i].status) = "asked"
        /\ requests'[i].status \in Standing \/ Tag(requests'[i].status) = "free"
        /\ Tag(requests'[i].status) \in {"asked", "free"}
    BY <2>1 DEF Tag, Standing, Undecided
  <2> QED BY <1>1, <2>2, StatusBook
<1>4. CASE Resubmit(i)
  <2>1. requests[i].status = "NEEDS_REVISION" /\ requests'[i].status = "PENDING"
    BY <1>4 DEF Resubmit, TypeOK, Request
  <2>2. /\ requests[i].status \in Standing /\ requests'[i].status \in Standing
        /\ Tag(requests[i].status) = Tag(requests'[i].status)
    BY <2>1 DEF Tag, Standing, Undecided
  <2> QED BY <1>1, <2>2, StatusBook
<1>5. CASE ApproveCancellation(i)
  <2>1. requests[i].status = "CANCELLATION_PENDING" /\ requests'[i].status = "CANCELLED"
    BY <1>5 DEF ApproveCancellation, TypeOK, Request
  <2>2. requests[i].status \in Standing /\ Tag(requests'[i].status) = "free"
    BY <2>1 DEF Tag, Standing, Granted, Undecided
  <2> QED BY <1>1, <2>2, StatusBook
<1>6. CASE DenyCancellation(i)
  <2>1. requests[i].status = "CANCELLATION_PENDING" /\ requests'[i].status = "APPROVED"
    BY <1>6 DEF DenyCancellation, TypeOK, Request
  <2>2. /\ requests[i].status \in Standing /\ requests'[i].status \in Standing
        /\ Tag(requests[i].status) = "contested" /\ Tag(requests'[i].status) = "granted"
    BY <2>1 DEF Tag, Standing, Granted
  <2> QED BY <1>1, <2>2, StatusBook
<1>7. CASE Lapse(i)
  <2>1. requests[i].status \in Undecided /\ requests'[i].status = "LAPSED"
    BY <1>7 DEF Lapse, HasStatus, LapseCandidates, TypeOK, Request
  <2>2. requests[i].status \in Standing /\ Tag(requests'[i].status) = "free"
    BY <2>1 DEF Tag, Standing, Undecided
  <2> QED BY <1>1, <2>2, StatusBook
<1> QED BY <1>2, <1>3, <1>4, <1>5, <1>6, <1>7

LEMMA InsertionBook ==
  ASSUME TypeOK, TypeOK', NoOverlap, NoOverlap', NEW pieces, NEW place \in Placements(pieces),
         NEW rows, requests' = Inserted(requests, place, rows),
         \A p \in pieces : /\ rows[p].status = "PENDING" /\ rows[p].splitFrom = NoId
                           /\ rows[p].from = p.from /\ rows[p].to = p.to
                           /\ p.from \in Days /\ p.to \in Days /\ ~OverlapsStanding(p)
                           /\ worked \cap (p.from..p.to) = {},
         worked' = worked, flags' = flags
  PROVE  BookStep
<1> DEFINE S == UNION {p.from..p.to : p \in pieces}
<1>0. MarksRead /\ MarksRead'
  BY MarksAreRead, MarksAreReadNext
<1>1. /\ \A j \in Ids : requests[j].status # "NONE" => requests'[j] = requests[j]
      /\ \A j \in Ids : requests[j].status = "NONE" =>
           requests'[j] = requests[j] \/ \E p \in pieces : requests'[j] = rows[p]
      /\ \A p \in pieces : \E j \in Ids : requests'[j] = rows[p]
  BY InsertionAdvances
<1>2. \A i \in Ids : requests[i].from \in Int /\ requests[i].to \in Int
  BY WorkflowAssumption DEF TypeOK, Request, Days
<1>3. \A p \in pieces : p.from \in Int /\ p.to \in Int
  BY WorkflowAssumption DEF Days
<1>4. S \in SUBSET Days /\ S \cap worked = {}
  BY WorkflowAssumption DEF Days
<1>5. ASSUME NEW d \in S PROVE MarkOf(d) = "free" /\ MarkOf(d)' = "asked"
  <2>1. PICK p \in pieces : d \in p.from..p.to
    BY <1>5
  <2>2. ASSUME NEW i \in Ids, Covers(i, d) PROVE FALSE
    <3>1. Meet(p, requests[i])
      BY <1>2, <1>3, <2>1, <2>2 DEF Meet, Covers, Span
    <3> QED BY <2>2, <3>1 DEF OverlapsStanding, Covers, HasStatus
  <2>3. MarkOf(d) = "free"
    BY <1>0, <1>4, <2>2 DEF MarksRead
  <2>4. PICK j \in Ids : requests'[j] = rows[p]
    BY <1>1
  <2>5. Covers(j, d)' /\ requests'[j].status = "PENDING"
    BY <2>1, <2>4 DEF Covers, Span, Standing, Undecided, Granted
  <2>6. MarkOf(d)' = Tag("PENDING")
    BY <1>0, <1>4, <2>5 DEF MarksRead, Tag, Undecided
  <2> QED BY <2>3, <2>6 DEF Tag, Undecided
<1>6. ASSUME NEW d \in Days \ S PROVE MarkOf(d)' = MarkOf(d)
  <2>1. ASSUME NEW j \in Ids, Covers(j, d) \/ Covers(j, d)'
        PROVE  Covers(j, d) /\ Covers(j, d)' /\ requests'[j].status = requests[j].status
    <3>1. CASE requests'[j] = requests[j]
      BY <2>1, <3>1 DEF Covers, Span, Standing, Undecided, Granted
    <3>2. CASE requests'[j] # requests[j]
      <4>1. PICK p \in pieces : requests'[j] = rows[p]
        BY <1>1, <3>2
      <4>2. requests[j].status = "NONE"
        BY <1>1, <3>2
      <4>3. d \notin p.from..p.to
        BY <1>6
      <4> QED BY <2>1, <4>1, <4>2, <4>3 DEF Covers, Span, Standing, Undecided, Granted
    <3> QED BY <3>1, <3>2
  <2> QED BY <2>1, MarkStays
<1> HIDE DEF S
<1>7. CASE S = {}
  BY <1>6, <1>7, BookStutters DEF BookStep
<1>8. CASE S # {}
  <2>1. DayBook!Turn(S, {"free"}, "asked")
    BY <1>4, <1>5, <1>6, <1>8, BookTurns
  <2> QED BY <1>4, <2>1, BookAllows
<1> QED BY <1>7, <1>8

LEMMA FilingBook ==
  ASSUME TypeOK, TypeOK', NoOverlap, NoOverlap', NEW type \in LeaveTypes,
         NEW pieces \in Filings, FileRequests(type, pieces)
  PROVE  BookStep
<1> DEFINE rows == [p \in pieces |-> Filed(type, p, NoId)]
<1>1. PICK place \in Placements(pieces) : requests' = Inserted(requests, place, rows)
  BY DEF FileRequests
<1>2. \A p \in pieces : p \in Ranges
  BY DEF Filings
<1>3. ASSUME NEW p \in pieces
      PROVE  /\ rows[p].status = "PENDING" /\ rows[p].splitFrom = NoId
             /\ rows[p].from = p.from /\ rows[p].to = p.to
             /\ p.from \in Days /\ p.to \in Days /\ ~OverlapsStanding(p)
             /\ worked \cap (p.from..p.to) = {}
  <2>1. DatesFileable(type, p)
    BY DEF FileRequests
  <2>2. ~OverlapsStanding(p) /\ worked \cap (p.from..p.to) = {}
    BY <2>1 DEF DatesFileable, WorkedIn
  <2>3. p.from \in Days /\ p.to \in Days
    BY <1>2 DEF Ranges
  <2> QED BY <2>2, <2>3 DEF Filed, NoRequest
<1>4. worked' = worked /\ flags' = flags
  BY DEF FileRequests, attendance
<1> HIDE DEF rows
<1> QED BY <1>1, <1>3, <1>4, InsertionBook

LEMMA ExtensionBook ==
  ASSUME TypeOK, TypeOK', NoOverlap, NoOverlap', NoWorkToCome, NEW i \in Ids,
         RequestExtension(i)
  PROVE  BookStep
<1> DEFINE asked == [from |-> requests[i].to + 1, to |-> requests[i].to + ExtensionDays]
           rows  == [p \in {asked} |-> Filed(requests[i].type, p, i)]
<1>1. PICK place \in Placements({asked}) : requests' = Inserted(requests, place, rows)
  BY DEF RequestExtension
<1>2. requests[i].to \in Nat /\ requests[i].to >= 1 /\ today \in Nat
  BY WorkflowAssumption DEF TypeOK, Request, Days
<1>3. asked.from \in Days /\ asked.to \in Days /\ ~OverlapsStanding(asked)
  BY <1>2, WorkflowAssumption DEF RequestExtension, Days
<1>4. worked \cap (asked.from..asked.to) = {}
  <2>1. today < asked.from
    BY <1>2, WorkflowAssumption DEF RequestExtension
  <2>2. \A d \in worked : d \in Nat /\ d <= today
    BY DEF NoWorkToCome, TypeOK, Days
  <2>3. asked.from \in Nat
    BY <1>2
  <2> HIDE DEF asked
  <2> QED BY <1>2, <2>1, <2>2, <2>3
<1>5. /\ rows[asked].status = "PENDING" /\ rows[asked].splitFrom = NoId
      /\ rows[asked].from = asked.from /\ rows[asked].to = asked.to
  BY DEF Filed, NoRequest
<1>6. worked' = worked /\ flags' = flags
  BY DEF RequestExtension, attendance
<1> HIDE DEF rows, asked
<1> QED BY <1>1, <1>3, <1>4, <1>5, <1>6, InsertionBook

\* What a cancellation makes of the days of its request.
LEMMA CancelMarks ==
  ASSUME TypeOK, TypeOK', NoOverlap, NoOverlap', NEW i \in Ids, NEW days \in SUBSET Span(i),
         NEW bySelf \in BOOLEAN, Cancel(i, days, bySelf)
  PROVE  /\ \A d \in Span(i) :
              /\ MarkOf(d) = Tag(requests[i].status)
              /\ d \notin days => MarkOf(d)' = Tag(requests[i].status)
              /\ d \in days => MarkOf(d)' = IF requests[i].status = "APPROVED" /\ bySelf
                                             THEN "contested" ELSE "free"
         /\ \A d \in Days \ Span(i) : MarkOf(d)' = MarkOf(d)
<1> DEFINE old  == requests[i]
           runs == Runs(old.from, old.to, days)
           awaits == old.status = "APPROVED" /\ bySelf
           after(p) == IF p.from \notin days THEN old.status
                       ELSE IF awaits THEN "CANCELLATION_PENDING" ELSE "CANCELLED"
<1>0. MarksRead /\ MarksRead'
  BY MarksAreRead, MarksAreReadNext
<1>1. PICK kept, owner : Cuts(i, days, bySelf, kept, owner)
  BY CancelCuts
<1>2. /\ worked' = worked /\ flags' = flags /\ days # {} /\ days \subseteq Span(i)
      /\ old.status \in CancellableStatuses /\ old.status \in Standing
      /\ awaits => days \cap worked = {}
  BY DEF Cancel, HasStatus, attendance, SelfCancellable, CancellableStatuses, Standing,
         Undecided, Granted
<1>3. \A j \in Ids : requests[j].from \in Nat /\ requests[j].to \in Nat
  BY WorkflowAssumption DEF TypeOK, Request, Days
<1>4. Span(i) \in SUBSET Days /\ days \in SUBSET Days
  BY WorkflowAssumption DEF TypeOK, Request, Days, Span
<1>5. /\ \A p \in runs : /\ owner[p] \in Ids
                         /\ requests'[owner[p]].from = p.from /\ requests'[owner[p]].to = p.to
                         /\ requests'[owner[p]].status = after(p)
                         /\ p.from \in Nat /\ p.to \in Nat
                         /\ old.from <= p.from /\ p.to <= old.to
                         /\ \A d \in p.from..p.to : d \in days <=> p.from \in days
      /\ \A k \in Ids : \/ requests'[k] = requests[k]
                        \/ \E p \in runs : owner[p] = k
      /\ \A k \in Ids : requests[k].status # "NONE" /\ k # i => requests'[k] = requests[k]
      /\ kept \in runs /\ owner[kept] = i
  <2>1. \A p \in runs : /\ owner[p] \in Ids
                        /\ requests'[owner[p]].from = p.from /\ requests'[owner[p]].to = p.to
                        /\ requests'[owner[p]].status = after(p)
    BY <1>1 DEF Cuts
  <2>2. \A p \in runs : /\ p.from \in Nat /\ p.to \in Nat
                        /\ old.from <= p.from /\ p.to <= old.to
                        /\ \A d \in p.from..p.to : d \in days <=> p.from \in days
    BY <1>3 DEF Runs, SameSide
  <2>3. /\ \A k \in Ids : (\A p \in runs : owner[p] # k) => requests'[k] = requests[k]
        /\ \A p \in runs : p # kept => requests[owner[p]].status = "NONE"
        /\ kept \in runs /\ owner[kept] = i
    BY <1>1 DEF Cuts
  <2> HIDE DEF runs, after
  <2>4. ASSUME NEW k \in Ids, requests[k].status # "NONE", k # i
        PROVE  requests'[k] = requests[k]
    BY <2>3, <2>4
  <2> QED BY <2>1, <2>2, <2>3, <2>4
<1>6. ASSUME NEW d \in Span(i)
      PROVE  /\ MarkOf(d) = Tag(old.status)
             /\ d \notin days => MarkOf(d)' = Tag(old.status)
             /\ d \in days => MarkOf(d)' = IF awaits THEN "contested" ELSE "free"
  <2>1. MarkOf(d) = Tag(old.status)
    BY <1>0, <1>2, <1>4 DEF MarksRead, Covers
  <2>2. PICK p \in runs : d \in p.from..p.to
    BY <1>3, RunsCover DEF Span
  <2>3. d \in days <=> p.from \in days
    BY <1>5, <2>2
  <2> DEFINE k == owner[p]
  <2>4. /\ k \in Ids /\ requests'[k].status = after(p) /\ d \in Span(k)'
    BY <1>5, <2>2 DEF Span
  <2>5. ASSUME after(p) \in Standing PROVE MarkOf(d)' = Tag(after(p))
    <3>1. Covers(k, d)'
      BY <2>4, <2>5 DEF Covers, Standing, Undecided, Granted
    <3> HIDE DEF k, after
    <3> QED BY <1>0, <1>4, <2>4, <3>1 DEF MarksRead, Tag, Undecided
  <2>6. CASE d \notin days
    <3>1. after(p) = old.status
      BY <2>3, <2>6
    <3> QED BY <1>2, <2>1, <2>5, <2>6, <3>1
  <2>7. CASE d \in days /\ awaits
    <3>1. after(p) = "CANCELLATION_PENDING"
      BY <2>3, <2>7
    <3>2. after(p) \in Standing /\ Tag(after(p)) = "contested"
      BY <3>1 DEF Standing, Granted, Tag
    <3> QED BY <2>1, <2>5, <2>7, <3>2
  <2>8. CASE d \in days /\ ~awaits
    <3>1. after(p) = "CANCELLED"
      BY <2>3, <2>8
    <3>2. ASSUME NEW j \in Ids, Covers(j, d)' PROVE FALSE
      <4>1. requests'[j].status \in Standing /\ d \in Span(j)'
        BY <3>2 DEF Covers, Standing, Undecided, Granted
      <4>2. CASE \E q \in runs : owner[q] = j
        <5>1. PICK q \in runs : owner[q] = j
          BY <4>2
        <5>2. d \in q.from..q.to /\ requests'[j].status = after(q)
          BY <1>5, <4>1, <5>1 DEF Span
        <5>3. q.from \in days
          BY <1>5, <2>8, <5>2
        <5>4. after(q) = "CANCELLED"
          BY <2>8, <5>3
        <5> QED BY <4>1, <5>2, <5>4 DEF Standing, Undecided, Granted
      <4>3. CASE requests'[j] = requests[j] /\ ~\E q \in runs : owner[q] = j
        <5>1. j # i
          BY <1>5, <4>3
        <5>2. Covers(j, d) /\ Covers(i, d)
          BY <4>1, <4>3, <1>2 DEF Covers, Span
        <5>3. Meet(requests[i], requests[j])
          BY <5>2, <1>3 DEF Covers, Span, Meet
        <5> QED BY <5>1, <5>2, <5>3 DEF NoOverlap, Covers, HasStatus
      <4> QED BY <1>5, <4>2, <4>3
    <3>3. MarkOf(d)' = "free"
      BY <1>0, <1>4, <3>2 DEF MarksRead
    <3> QED BY <2>1, <2>8, <3>3
  <2> QED BY <2>6, <2>7, <2>8
<1>7. ASSUME NEW d \in Days \ Span(i) PROVE MarkOf(d)' = MarkOf(d)
  <2>1. ASSUME NEW j \in Ids, Covers(j, d) \/ Covers(j, d)'
        PROVE  Covers(j, d) /\ Covers(j, d)' /\ requests'[j].status = requests[j].status
    <3>1. CASE requests'[j] = requests[j]
      BY <2>1, <3>1 DEF Covers, Span, Standing, Undecided, Granted
    <3>2. CASE requests'[j] # requests[j]
      <4>1. PICK p \in runs : owner[p] = j
        BY <1>5, <3>2
      <4>2. d \notin p.from..p.to
        <5>1. p.from..p.to \subseteq Span(i)
          BY <1>3, <1>5 DEF Span
        <5> QED BY <1>7, <5>1
      <4>3. ~Covers(j, d)'
        BY <1>5, <4>1, <4>2 DEF Covers, Span
      <4>4. ~Covers(j, d)
        BY <1>5, <1>7, <3>2 DEF Covers, Standing, Undecided, Granted
      <4> QED BY <2>1, <4>3, <4>4
    <3> QED BY <3>1, <3>2
  <2> QED BY <2>1, MarkStays
<1> QED BY <1>6, <1>7

LEMMA CancelBook ==
  ASSUME TypeOK, TypeOK', NoOverlap, NoOverlap', NEW i \in Ids, NEW days \in SUBSET Span(i),
         NEW bySelf \in BOOLEAN, Cancel(i, days, bySelf)
  PROVE  BookStep
<1> DEFINE awaits == requests[i].status = "APPROVED" /\ bySelf
<1>1. /\ worked' = worked /\ flags' = flags /\ days # {} /\ days \subseteq Span(i)
      /\ requests[i].status \in Standing
      /\ awaits => days \cap worked = {}
  BY DEF Cancel, HasStatus, attendance, SelfCancellable, CancellableStatuses, Standing,
         Undecided, Granted
<1>2. days \in SUBSET Days
  BY WorkflowAssumption DEF TypeOK, Request, Days, Span
<1>3. /\ \A d \in Span(i) :
           /\ MarkOf(d) = Tag(requests[i].status)
           /\ d \notin days => MarkOf(d)' = Tag(requests[i].status)
           /\ d \in days => MarkOf(d)' = IF awaits THEN "contested" ELSE "free"
      /\ \A d \in Days \ Span(i) : MarkOf(d)' = MarkOf(d)
  BY CancelMarks
<1>8. \A d \in Days \ days : MarkOf(d)' = MarkOf(d)
  BY <1>3
<1>9. CASE awaits
  <2>1. \A d \in days : MarkOf(d) = "granted" /\ MarkOf(d)' = "contested"
    BY <1>1, <1>3, <1>9 DEF Tag
  <2>2. DayBook!Turn(days, {"granted"}, "contested")
    BY <1>1, <1>2, <1>8, <2>1, BookTurns
  <2> QED BY <1>1, <1>2, <1>9, <2>2, BookAllows
<1>10. CASE ~awaits
  <2>1. \A d \in days : MarkOf(d) \in {"asked", "granted", "contested"} /\ MarkOf(d)' = "free"
    BY <1>1, <1>3, <1>10 DEF Tag, Standing, Granted
  <2>2. DayBook!Turn(days, {"asked", "granted", "contested"}, "free")
    BY <1>1, <1>2, <1>8, <2>1, BookTurns
  <2> QED BY <1>2, <2>2, BookAllows
<1> QED BY <1>9, <1>10

LEMMA TimeBook ==
  ASSUME TypeOK, TypeOK',
         \/ \E day \in Days : TimeIn(day) \/ FlagTimeIn(day)
         \/ \E day \in Days : \E valid \in BOOLEAN : ReviewFlagged(day, valid)
         \/ NextDay
         \/ UNCHANGED vars
  PROVE  BookStep
<1>1. requests' = requests
  BY DEF TimeIn, FlagTimeIn, ReviewFlagged, NextDay, vars
<1>2. \A d \in Days : MarkOf(d)' = MarkOf(d)
  BY <1>1 DEF MarkOf, HasStatus, Span
<1>3. [d \in Days |-> MarkOf(d)]' = [d \in Days |-> MarkOf(d)]
  BY <1>2
<1>4. ASSUME NEW day \in Days, MayTimeIn(day) PROVE [d \in Days |-> MarkOf(d)][day] # "granted"
  <2>1. ~\E i \in Ids : HasStatus(i, {"APPROVED"}) /\ day \in Span(i)
    BY <1>4 DEF MayTimeIn, OnApprovedLeave, HasStatus
  <2>2. MarkOf(day) # "granted"
    BY <2>1 DEF MarkOf
  <2> QED BY <2>2
<1> DEFINE doubted == {d \in Days : flags[d] = "pending"}
<1>5. ASSUME NEW day \in Days, TimeIn(day) PROVE BookStep
  <2>1. day \notin worked /\ worked' = worked \cup {day} /\ doubted' = doubted
    BY <1>5 DEF TimeIn, MayTimeIn
  <2>2. DayBook!Attend(day)
    BY <1>3, <1>4, <1>5, <2>1 DEF TimeIn, DayBook!Attend
  <2> QED BY <2>2 DEF BookStep, DayBook!BookNext
<1>6. ASSUME NEW day \in Days, FlagTimeIn(day) PROVE BookStep
  <2>1. /\ day \notin worked /\ worked' = worked /\ day \notin doubted
        /\ doubted' = doubted \cup {day}
    BY <1>6 DEF FlagTimeIn, MayTimeIn, TypeOK
  <2>2. DayBook!Doubt(day)
    BY <1>3, <1>4, <1>6, <2>1 DEF FlagTimeIn, DayBook!Doubt
  <2> QED BY <2>2 DEF BookStep, DayBook!BookNext
<1>7. ASSUME NEW day \in Days, NEW valid \in BOOLEAN, ReviewFlagged(day, valid) PROVE BookStep
  <2>1. /\ day \in doubted /\ doubted' = doubted \ {day}
        /\ worked' \in {worked, worked \cup {day}}
    BY <1>7 DEF ReviewFlagged, TypeOK
  <2>2. DayBook!Settle(day)
    BY <1>3, <2>1 DEF DayBook!Settle
  <2> QED BY <2>2 DEF BookStep, DayBook!BookNext
<1>8. CASE NextDay \/ UNCHANGED vars
  <2>1. worked' = worked /\ flags' = flags
    BY <1>8 DEF NextDay, vars, attendance
  <2> QED BY <1>2, <2>1, BookStutters DEF BookStep
<1> QED BY <1>5, <1>6, <1>7, <1>8

LEMMA StepBook ==
  ASSUME TypeOK, TypeOK', NoOverlap, NoOverlap', NoWorkToCome,
         OfferedToApprove \subseteq Standing, OfferedToReject \subseteq Undecided, [Next]_vars
  PROVE  BookStep
<1>1. ASSUME NEW t \in LeaveTypes, NEW pieces \in Filings, FileRequests(t, pieces) PROVE BookStep
  BY <1>1, FilingBook
<1>2. ASSUME NEW i \in Ids,
             \/ Approve(i) \/ Resubmit(i) \/ ApproveCancellation(i)
             \/ DenyCancellation(i) \/ Lapse(i)
      PROVE  BookStep
  <2>1. TRUE \in BOOLEAN
    OBVIOUS
  <2> QED BY <1>2, <2>1, DecisionBook
<1>3. ASSUME NEW i \in Ids, NEW revise \in BOOLEAN, Reject(i, revise) PROVE BookStep
  BY <1>3, DecisionBook
<1>4. ASSUME NEW i \in Ids, NEW days \in SUBSET Span(i), NEW bySelf \in BOOLEAN,
             Cancel(i, days, bySelf)
      PROVE  BookStep
  BY <1>4, CancelBook
<1>5. ASSUME NEW i \in Ids, RequestExtension(i) PROVE BookStep
  BY <1>5, ExtensionBook
<1>6. CASE \/ \E day \in Days : TimeIn(day) \/ FlagTimeIn(day)
           \/ \E day \in Days : \E valid \in BOOLEAN : ReviewFlagged(day, valid)
           \/ NextDay
           \/ UNCHANGED vars
  BY <1>6, TimeBook
<1> QED BY <1>1, <1>2, <1>3, <1>4, <1>5, <1>6 DEF Next

LEMMA NoWorkToComeKept ==
  ASSUME TypeOK, TypeOK', NoWorkToCome, [Next]_vars
  PROVE  NoWorkToCome'
<1>0. /\ today \in Nat /\ today' \in Nat /\ today <= today'
      /\ \A d \in Days : d \in Nat
      /\ worked \subseteq Days
  <2>1. today \in Nat /\ today' \in Nat
    BY WorkflowAssumption DEF TypeOK
  <2>2. today' = today \/ today' = today + 1
    <3>1. ASSUME NEW t \in LeaveTypes, NEW pieces \in Filings, FileRequests(t, pieces)
          PROVE  today' = today
      BY <3>1 DEF FileRequests
    <3>2. ASSUME NEW i \in Ids,
                 \/ Approve(i) \/ Resubmit(i) \/ ApproveCancellation(i) \/ DenyCancellation(i)
                 \/ RequestExtension(i) \/ Lapse(i)
          PROVE  today' = today
      BY <3>2 DEF Approve, Resubmit, ApproveCancellation, DenyCancellation,
                  RequestExtension, Lapse
    <3>3. ASSUME NEW i \in Ids, NEW revise \in BOOLEAN, Reject(i, revise)
          PROVE  today' = today
      BY <3>3 DEF Reject
    <3>4. ASSUME NEW i \in Ids, NEW days \in SUBSET Span(i), NEW bySelf \in BOOLEAN,
                 Cancel(i, days, bySelf)
          PROVE  today' = today
      BY <3>4 DEF Cancel
    <3>5. ASSUME \/ \E day \in Days : TimeIn(day) \/ FlagTimeIn(day)
                 \/ \E day \in Days : \E valid \in BOOLEAN : ReviewFlagged(day, valid)
                 \/ UNCHANGED vars
          PROVE  today' = today
      BY <3>5 DEF TimeIn, FlagTimeIn, ReviewFlagged, vars
    <3>6. ASSUME NextDay PROVE today' = today + 1
      BY <3>6 DEF NextDay
    <3> QED BY <3>1, <3>2, <3>3, <3>4, <3>5, <3>6 DEF Next
  <2> QED BY <2>1, <2>2 DEF TypeOK, Days
<1>1. CASE worked' = worked /\ flags' = flags
  BY <1>0, <1>1 DEF NoWorkToCome
<1>2. ASSUME NEW day \in Days, MayTimeIn(day) PROVE day <= today
  BY <1>0, <1>2 DEF MayTimeIn
<1>3. ASSUME NEW day \in Days, TimeIn(day) PROVE NoWorkToCome'
  <2>1. worked' = worked \cup {day} /\ flags' = flags /\ today' = today /\ day <= today
    BY <1>2, <1>3 DEF TimeIn
  <2> QED BY <2>1 DEF NoWorkToCome
<1>4. ASSUME NEW day \in Days, FlagTimeIn(day) PROVE NoWorkToCome'
  <2>1. /\ worked' = worked /\ today' = today /\ day <= today
        /\ \A d \in Days : d # day => flags'[d] = flags[d]
    BY <1>2, <1>4 DEF FlagTimeIn, TypeOK
  <2> QED BY <2>1 DEF NoWorkToCome
<1>5. ASSUME NEW day \in Days, NEW valid \in BOOLEAN, ReviewFlagged(day, valid)
      PROVE  NoWorkToCome'
  <2>1. /\ worked' \in {worked, worked \cup {day}} /\ today' = today /\ flags[day] = "pending"
        /\ \A d \in Days : d # day => flags'[d] = flags[d]
    BY <1>5 DEF ReviewFlagged, TypeOK
  <2> QED BY <2>1 DEF NoWorkToCome
<1>6. \/ worked' = worked /\ flags' = flags
      \/ \E day \in Days : TimeIn(day) \/ FlagTimeIn(day)
      \/ \E day \in Days : \E valid \in BOOLEAN : ReviewFlagged(day, valid)
  <2>1. ASSUME NEW type, NEW pieces, FileRequests(type, pieces)
        PROVE  worked' = worked /\ flags' = flags
    BY <2>1 DEF FileRequests, attendance
  <2>2. ASSUME NEW i, NEW revise, Approve(i) \/ Reject(i, revise) \/ Resubmit(i)
        PROVE  worked' = worked /\ flags' = flags
    BY <2>2 DEF Approve, Reject, Resubmit, attendance
  <2>3. ASSUME NEW i, NEW days, NEW bySelf, Cancel(i, days, bySelf)
        PROVE  worked' = worked /\ flags' = flags
    BY <2>3 DEF Cancel, attendance
  <2>4. ASSUME NEW i, \/ ApproveCancellation(i) \/ DenyCancellation(i)
                     \/ RequestExtension(i) \/ Lapse(i)
        PROVE  worked' = worked /\ flags' = flags
    BY <2>4 DEF ApproveCancellation, DenyCancellation, RequestExtension, Lapse, attendance
  <2>5. CASE NextDay \/ UNCHANGED vars
    BY <2>5 DEF NextDay, vars, attendance
  <2> QED BY <2>1, <2>2, <2>3, <2>4, <2>5 DEF Next
<1> QED BY <1>1, <1>3, <1>4, <1>5, <1>6

\* Every handler does to the days of its requests what the abstract book
\* allows, as long as a review decides only what the reviewers' pages offer:
\* an approval a request that keeps its days, a rejection an undecided one.
THEOREM WorkflowKeepsDayBook ==
  ASSUME OfferedToApprove \subseteq Standing, OfferedToReject \subseteq Undecided
  PROVE  Spec => KeepsDayBook
<1> DEFINE Inv == TypeOK /\ NoOverlap /\ NoWorkToCome
<1>1. Init => Inv
  <2>1. Init => NoWorkToCome
    BY DEF Init, NoWorkToCome
  <2> QED BY <2>1, InitSafe
<1>2. Inv /\ [Next]_vars => Inv'
  <2> SUFFICES ASSUME TypeOK, NoOverlap, NoWorkToCome, [Next]_vars
               PROVE  TypeOK' /\ NoOverlap' /\ NoWorkToCome'
    OBVIOUS
  <2>1. ReviewersActOnStanding
    BY DEF ReviewersActOnStanding, Standing
  <2>2. TypeOK' /\ NoOverlap'
    BY <2>1, StepSafe
  <2> QED BY <2>2, NoWorkToComeKept
<1>3. Init => DayBook!BookInit
  <2> SUFFICES ASSUME Init PROVE DayBook!BookInit
    OBVIOUS
  <2>1. \A i \in Ids : requests[i].status = "NONE"
    BY DEF Init, NoRequest
  <2>2. \A d \in Days : MarkOf(d) = "free"
    BY <2>1 DEF MarkOf, HasStatus, Undecided
  <2>3. worked = {} /\ {d \in Days : flags[d] = "pending"} = {}
    BY DEF Init
  <2> QED BY <2>2, <2>3 DEF DayBook!BookInit
<1>4. Inv /\ Inv' /\ [Next]_vars => BookStep
  BY StepBook
<1>5. BookStep <=> [DayBook!BookNext]_<<[d \in Days |-> MarkOf(d)], worked,
                                        {d \in Days : flags[d] = "pending"}>>
  BY DEF BookStep
<1> HIDE DEF Inv
<1> QED BY <1>1, <1>2, <1>3, <1>4, <1>5, PTL DEF Spec, KeepsDayBook, DayBook!BookSpec

-----------------------------------------------------------------------------
(***************************************************************************)
(* 5. Refunds.                                                             *)
(***************************************************************************)
\* Every row begins before it ends.
Ordered == \A i \in Ids : requests[i].from <= requests[i].to

\* The days of a row are as many as its totalDays.
SpansCounted ==
  /\ TotalDays \in [Ids -> Nat]
  /\ \A i \in Ids : /\ Span(i) \subseteq Days /\ IsFiniteSet(Span(i))
                    /\ Cardinality(Span(i)) = TotalDays[i]

LEMMA SpansAreCounted == TypeOK /\ Ordered => SpansCounted
<1> SUFFICES ASSUME TypeOK, Ordered PROVE SpansCounted
  OBVIOUS
<1>1. ASSUME NEW i \in Ids
      PROVE  /\ Span(i) \subseteq Days /\ IsFiniteSet(Span(i)) /\ Length(requests[i]) \in Nat
             /\ Cardinality(Span(i)) = Length(requests[i])
  <2>1. /\ requests[i].from \in Int /\ requests[i].to \in Int
        /\ requests[i].from <= requests[i].to
        /\ requests[i].from \in Days /\ requests[i].to \in Days
    BY WorkflowAssumption DEF TypeOK, Request, Days, Ordered
  <2>2. Length(requests[i]) \in Nat
    BY <2>1 DEF Length
  <2>3. IsFiniteSet(Span(i)) /\ Cardinality(Span(i)) = Length(requests[i])
    <3> DEFINE a == requests[i].from
               b == requests[i].to
    <3>1. a \in Int /\ b \in Int /\ a <= b
      BY <2>1
    <3>2. IsFiniteSet(a..b) /\ Cardinality(a..b) = b - a + 1
      <4> HIDE DEF a, b
      <4>1. IsFiniteSet(a..b) /\ Cardinality(a..b) = IF a > b THEN 0 ELSE b - a + 1
        BY <3>1, FS_Interval
      <4> QED BY <3>1, <4>1
    <3> QED BY <3>2 DEF Span, Length
  <2>4. Span(i) \subseteq Days
    BY <2>1, WorkflowAssumption DEF Span, Days
  <2> QED BY <2>2, <2>3, <2>4
<1> QED BY <1>1 DEF SpansCounted, TotalDays

LEMMA SpansAreCountedNext == TypeOK' /\ Ordered' => SpansCounted'
BY SpansAreCounted, PTL

LEMMA OrderedKept ==
  ASSUME TypeOK, TypeOK', Ordered, [Next]_vars
  PROVE  Ordered'
<1>1. ASSUME NEW pieces, NEW place \in Placements(pieces), NEW rows,
             requests' = Inserted(requests, place, rows),
             \A p \in pieces : /\ rows[p].status = "PENDING" /\ rows[p].splitFrom = NoId
                               /\ rows[p].from <= rows[p].to
      PROVE  Ordered'
  <2>1. /\ \A j \in Ids : requests[j].status # "NONE" => requests'[j] = requests[j]
        /\ \A j \in Ids : requests[j].status = "NONE" =>
             requests'[j] = requests[j] \/ \E p \in pieces : requests'[j] = rows[p]
    BY <1>1, InsertionAdvances
  <2>2. ASSUME NEW j \in Ids PROVE requests'[j].from <= requests'[j].to
    BY <1>1, <2>1, <2>2 DEF Ordered
  <2> QED BY <2>2 DEF Ordered
<1>2. ASSUME NEW type \in LeaveTypes, NEW pieces \in Filings, FileRequests(type, pieces)
      PROVE  Ordered'
  <2> DEFINE rows == [p \in pieces |-> Filed(type, p, NoId)]
  <2>1. PICK place \in Placements(pieces) : requests' = Inserted(requests, place, rows)
    BY <1>2 DEF FileRequests
  <2>2. \A p \in pieces : /\ rows[p].status = "PENDING" /\ rows[p].splitFrom = NoId
                          /\ rows[p].from <= rows[p].to
    BY DEF Filed, NoRequest, Filings, Ranges
  <2> HIDE DEF rows
  <2> QED BY <1>1, <2>1, <2>2
<1>3. ASSUME NEW i \in Ids, RequestExtension(i) PROVE Ordered'
  <2> DEFINE asked == [from |-> requests[i].to + 1, to |-> requests[i].to + ExtensionDays]
             rows  == [p \in {asked} |-> Filed(requests[i].type, p, i)]
  <2>1. PICK place \in Placements({asked}) : requests' = Inserted(requests, place, rows)
    BY <1>3 DEF RequestExtension
  <2>2. asked.from <= asked.to
    BY WorkflowAssumption DEF TypeOK, Request, Days
  <2>3. \A p \in {asked} : /\ rows[p].status = "PENDING" /\ rows[p].splitFrom = NoId
                           /\ rows[p].from <= rows[p].to
    BY <2>2 DEF Filed, NoRequest
  <2> HIDE DEF rows, asked
  <2> QED BY <1>1, <2>1, <2>3
<1>4. ASSUME NEW i \in Ids, NEW days \in SUBSET Span(i), NEW bySelf \in BOOLEAN,
             Cancel(i, days, bySelf)
      PROVE  Ordered'
  <2>1. PICK kept, owner : Cuts(i, days, bySelf, kept, owner)
    BY <1>4, CancelCuts
  <2>2. ASSUME NEW j \in Ids PROVE requests'[j].from <= requests'[j].to
    <3>1. CASE \E p \in Runs(requests[i].from, requests[i].to, days) : owner[p] = j
      <4>1. PICK p \in Runs(requests[i].from, requests[i].to, days) : owner[p] = j
        BY <3>1
      <4>2. p.from <= p.to
        BY DEF Runs
      <4>3. requests'[owner[p]].from = p.from /\ requests'[owner[p]].to = p.to
        BY <2>1 DEF Cuts
      <4> QED BY <4>1, <4>2, <4>3
    <3>2. CASE ~\E p \in Runs(requests[i].from, requests[i].to, days) : owner[p] = j
      <4>1. requests'[j] = requests[j]
        BY <2>1, <3>2 DEF Cuts
      <4> QED BY <4>1 DEF Ordered
    <3> QED BY <3>1, <3>2
  <2> QED BY <2>2 DEF Ordered
<1>5. ASSUME NEW i \in Ids, NEW revise \in BOOLEAN,
             \/ Approve(i) \/ Reject(i, revise) \/ Resubmit(i)
             \/ ApproveCancellation(i) \/ DenyCancellation(i) \/ Lapse(i)
      PROVE  Ordered'
  <2>1. \A j \in Ids : requests'[j].from = requests[j].from /\ requests'[j].to = requests[j].to
    BY <1>5 DEF Approve, Reject, Resubmit, ApproveCancellation, DenyCancellation, Lapse,
                TypeOK, Request
  <2> QED BY <2>1 DEF Ordered
<1>6. CASE \/ \E day \in Days : TimeIn(day) \/ FlagTimeIn(day)
           \/ \E day \in Days : \E valid \in BOOLEAN : ReviewFlagged(day, valid)
           \/ NextDay
           \/ UNCHANGED vars
  <2>1. requests' = requests
    BY <1>6 DEF TimeIn, FlagTimeIn, ReviewFlagged, NextDay, vars
  <2> QED BY <2>1 DEF Ordered
<1>7. TRUE \in BOOLEAN
  OBVIOUS
<1>8. ASSUME NEW i \in Ids, \/ Approve(i) \/ Resubmit(i) \/ ApproveCancellation(i)
                            \/ DenyCancellation(i) \/ Lapse(i)
      PROVE  Ordered'
  BY <1>5, <1>7, <1>8
<1>9. ASSUME NEW i \in Ids, NEW revise \in BOOLEAN, Reject(i, revise) PROVE Ordered'
  BY <1>5, <1>9
<1> QED BY <1>2, <1>3, <1>4, <1>6, <1>8, <1>9 DEF Next

-----------------------------------------------------------------------------
LEMMA YearsAdd ==
  ASSUME NEW w \in [Years -> Nat]
  PROVE  SumFunctionOnSet(w, Years) = w[1] + w[2]
<1>1. 1 \in Years /\ 2 \in Years /\ {1} \in SUBSET Years /\ {} \in SUBSET Years
  BY DEF Years
<1>2. IsFiniteSet({}) /\ IsFiniteSet({1})
  BY FS_EmptySet, FS_Singleton
<1>3. SumFunctionOnSet(w, {}) = 0
  BY SumEmpty
<1>4. SumFunctionOnSet(w, {} \cup {1}) = w[1] + SumFunctionOnSet(w, {})
  BY <1>1, <1>2, SumAdd
<1>5. SumFunctionOnSet(w, {1} \cup {2}) = w[2] + SumFunctionOnSet(w, {1})
  BY <1>1, <1>2, SumAdd
<1>6. {} \cup {1} = {1} /\ {1} \cup {2} = Years
  BY DEF Years
<1>7. w[1] \in Nat /\ w[2] \in Nat
  BY <1>1
<1>8. SumFunctionOnSet(w, {1}) = w[1]
  BY <1>3, <1>4, <1>6, <1>7
<1>9. SumFunctionOnSet(w, Years) = w[2] + w[1]
  BY <1>5, <1>6, <1>8
<1> QED BY <1>7, <1>9

\* The granted days of type t, still to come, that a step takes out of
\* granted leave.
Gone(t) == {d \in GrantedDays(t) \ GrantedDays(t)' : d > today}

RefundHolds(t) == UsedDays(t) - UsedDays(t)' <= Cardinality(Gone(t))

LEMMA RefundFits ==
  ASSUME TypeOK, TypeOK', Ordered, NEW t \in LeaveTypes, NEW a \in Nat, NEW b \in Nat,
         used'[t][1] >= used[t][1] - a, used'[t][2] >= used[t][2] - b,
         NEW R, R \subseteq Gone(t), Cardinality(R) = a + b
  PROVE  RefundHolds(t)
<1>1. Gone(t) \subseteq Days /\ IsFiniteSet(Days)
  <2>1. \A i \in Ids : Span(i) \subseteq Days
    BY SpansAreCounted DEF SpansCounted
  <2>2. GrantedDays(t) \subseteq Days
    BY <2>1 DEF GrantedDays
  <2>3. Gone(t) \subseteq Days
    BY <2>2 DEF Gone
  <2>4. IsFiniteSet(Days)
    BY FS_Interval, WorkflowAssumption DEF Days
  <2> QED BY <2>3, <2>4
<1>2. IsFiniteSet(Gone(t))
  BY <1>1, FS_Subset
<1>3. Cardinality(R) <= Cardinality(Gone(t)) /\ Cardinality(Gone(t)) \in Nat
  BY <1>2, FS_Subset, FS_CardinalityType
<1>4. used[t] \in [Years -> Nat] /\ used'[t] \in [Years -> Nat]
  BY DEF TypeOK
<1>5. UsedDays(t) = used[t][1] + used[t][2] /\ UsedDays(t)' = used'[t][1] + used'[t][2]
  BY <1>4, YearsAdd DEF UsedDays
<1>6. /\ used[t][1] \in Nat /\ used[t][2] \in Nat
      /\ used'[t][1] \in Nat /\ used'[t][2] \in Nat
  BY <1>4 DEF Years
<1> HIDE DEF Gone
<1>7. UsedDays(t) - UsedDays(t)' <= a + b
  BY <1>5, <1>6
<1>8. UsedDays(t) \in Nat /\ UsedDays(t)' \in Nat
  BY <1>5, <1>6
<1> QED BY <1>3, <1>7, <1>8 DEF RefundHolds

LEMMA NothingRefunded ==
  ASSUME TypeOK, TypeOK', Ordered, NEW t \in LeaveTypes,
         used'[t][1] >= used[t][1], used'[t][2] >= used[t][2]
  PROVE  RefundHolds(t)
<1>1. used[t][1] \in Nat /\ used[t][2] \in Nat
  BY DEF TypeOK, Years
<1>2. Cardinality({}) = 0 + 0 /\ {} \subseteq Gone(t)
  BY FS_EmptySet
<1>3. used'[t][1] >= used[t][1] - 0 /\ used'[t][2] >= used[t][2] - 0
  BY <1>1
<1> QED BY <1>2, <1>3, RefundFits

\* A granted day to come that reads as free after a step is gone.
LEMMA DayGone ==
  ASSUME TypeOK, TypeOK', NoOverlap, NoOverlap', NEW i \in Ids, NEW d \in Span(i),
         requests[i].status \in Granted, requests[i].ext = NoId, d > today, d \in Days,
         MarkOf(d)' = "free"
  PROVE  d \in Gone(requests[i].type)
<1>1. d \in GrantedDays(requests[i].type)
  BY DEF GrantedDays, HasStatus
<1>2. ASSUME NEW j \in Ids, requests'[j].status \in Granted, d \in Span(j)' PROVE FALSE
  <2>1. MarksRead' /\ Covers(j, d)'
    BY <1>2, MarksAreReadNext DEF Covers, Standing, Undecided, Granted
  <2>2. MarkOf(d)' = Tag(requests'[j].status)
    BY <2>1 DEF MarksRead, Tag, Undecided
  <2> QED BY <1>2, <2>2 DEF Tag, Granted
<1>3. d \notin GrantedDays(requests[i].type)'
  BY <1>2 DEF GrantedDays, HasStatus, Granted
<1> QED BY <1>1, <1>3 DEF Gone

\* What an adjustment of a balance by `delta` leaves in it.
LEMMA AdjustedReads ==
  ASSUME TypeOK, NEW i \in Ids, NEW delta \in Int, used' = Adjusted(i, delta),
         NEW t \in LeaveTypes, NEW y \in Years
  PROVE  used'[t][y] = IF /\ requests[i].ext = NoId /\ t = requests[i].type
                          /\ y = YearOf(requests[i].from)
                         THEN NextUsed(used[t][y], delta) ELSE used[t][y]
BY DEF Adjusted, TypeOK

LEMMA CancellationRefunds ==
  ASSUME TypeOK, TypeOK', NoOverlap, NoOverlap', Ordered, NEW i \in Ids,
         ApproveCancellation(i), NEW t \in LeaveTypes
  PROVE  RefundHolds(t)
<1> DEFINE n == TotalDays[i]
<1>0. /\ n \in Nat /\ Span(i) \subseteq Days /\ Cardinality(Span(i)) = n
      /\ n = Length(requests[i])
  BY SpansAreCounted DEF SpansCounted, TotalDays
<1>1. /\ requests[i].status = "CANCELLATION_PENDING" /\ requests'[i].status = "CANCELLED"
      /\ requests'[i].from = requests[i].from /\ requests'[i].to = requests[i].to
      /\ \A j \in Ids : j # i => requests'[j] = requests[j]
  BY DEF ApproveCancellation, TypeOK, Request
<1>2. CASE AlreadyUsed(requests[i].from)
  <2>1. used' = used
    BY <1>2 DEF ApproveCancellation
  <2>2. used[t][1] \in Nat /\ used[t][2] \in Nat
    BY DEF TypeOK, Years
  <2> QED BY <2>1, <2>2, NothingRefunded
<1>3. CASE ~AlreadyUsed(requests[i].from)
  <2>1. used' = Adjusted(i, -n) /\ -n \in Int
    BY <1>0, <1>3 DEF ApproveCancellation
  <2>2. \A y \in Years :
          used'[t][y] = IF /\ requests[i].ext = NoId /\ t = requests[i].type
                           /\ y = YearOf(requests[i].from)
                          THEN NextUsed(used[t][y], -n) ELSE used[t][y]
    BY <2>1, AdjustedReads
  <2>3. \A y \in Years : used[t][y] \in Nat /\ NextUsed(used[t][y], -n) >= used[t][y] - n
    BY <1>0 DEF TypeOK, NextUsed
  <2>4. 1 \in Years /\ 2 \in Years
    BY DEF Years
  <2>5. CASE requests[i].ext = NoId /\ t = requests[i].type
    <3>1. ASSUME NEW d \in Span(i) PROVE d \in Gone(t)
      <4>1. MarkOf(d)' = "free"
        <5>1. requests[i].status \in Standing /\ Tag(requests'[i].status) = "free"
          BY <1>1 DEF Standing, Granted, Tag, Undecided
        <5> QED BY <1>1, <5>1, RowTurns
      <4>2. d > today
        BY <1>3, WorkflowAssumption DEF AlreadyUsed, Span, TypeOK, Request, Days
      <4>3. requests[i].status \in Granted /\ d \in Days
        BY <1>0, <1>1 DEF Granted
      <4> QED BY <2>5, <4>1, <4>2, <4>3, DayGone
    <3>2. Span(i) \subseteq Gone(t)
      BY <3>1
    <3> HIDE DEF n
    <3>3. CASE YearOf(requests[i].from) = 1
      <4>1. used'[t][1] >= used[t][1] - n /\ used'[t][2] >= used[t][2] - 0
        BY <2>2, <2>3, <2>4, <2>5, <3>3
      <4>2. Cardinality(Span(i)) = n + 0
        BY <1>0
      <4> QED BY <1>0, <3>2, <4>1, <4>2, RefundFits
    <3>4. CASE YearOf(requests[i].from) = 2
      <4>1. used'[t][1] >= used[t][1] - 0 /\ used'[t][2] >= used[t][2] - n
        BY <2>2, <2>3, <2>4, <2>5, <3>4
      <4>2. Cardinality(Span(i)) = 0 + n
        BY <1>0
      <4> QED BY <1>0, <3>2, <4>1, <4>2, RefundFits
    <3> QED BY <3>3, <3>4 DEF YearOf
  <2>6. CASE ~(requests[i].ext = NoId /\ t = requests[i].type)
    <3>1. used'[t][1] >= used[t][1] /\ used'[t][2] >= used[t][2]
      BY <2>2, <2>3, <2>4, <2>6
    <3> QED BY <3>1, NothingRefunded
  <2> QED BY <2>5, <2>6
<1> QED BY <1>2, <1>3

\* The runs of a cancelled leave whose days it gives back.
Refunded(i, days, bySelf, y) ==
  {p \in Runs(requests[i].from, requests[i].to, days) :
     /\ (p.from \in days /\ ~(requests[i].status = "APPROVED" /\ bySelf))
     /\ requests[i].status = "APPROVED" /\ ~AlreadyUsed(p.from) /\ YearOf(p.from) = y}

DaysOf(pieces) == UNION {p.from..p.to : p \in pieces}

LEMMA CancelReads ==
  ASSUME TypeOK, NEW i \in Ids, NEW days \in SUBSET Span(i), NEW bySelf \in BOOLEAN,
         Cancel(i, days, bySelf), NEW t \in LeaveTypes, NEW y \in Years
  PROVE  /\ requests[i].ext = NoId /\ t = requests[i].type =>
              used'[t][y] = NextUsed(used[t][y], -Total(Refunded(i, days, bySelf, y)))
         /\ ~(requests[i].ext = NoId /\ t = requests[i].type) => used'[t][y] = used[t][y]
         /\ Total(Refunded(i, days, bySelf, y)) \in Nat
<1>1. used' = IF requests[i].ext # NoId THEN used
              ELSE [used EXCEPT ![requests[i].type] =
                      [z \in Years |-> NextUsed(@[z], -Total(Refunded(i, days, bySelf, z)))]]
  BY DEF Cancel, Refunded
<1>2. Total(Refunded(i, days, bySelf, y)) \in Nat
  <2>1. \A p \in Refunded(i, days, bySelf, y) : p.from \in Days /\ p.to \in Days
    BY WorkflowAssumption, SMTT(20) DEF Refunded, Runs, TypeOK, Request, Days
  <2> QED BY <2>1, TotalNat
<1> QED BY <1>1, <1>2 DEF TypeOK

\* The days given back lie in the cancelled days, after today, and those of
\* the two leave years are not the same.
LEMMA RefundedDays ==
  ASSUME TypeOK, Ordered, NEW i \in Ids, NEW days \in SUBSET Span(i), NEW bySelf \in BOOLEAN
  PROVE  /\ \A y \in Years : \A d \in DaysOf(Refunded(i, days, bySelf, y)) :
              /\ d \in days /\ d > today
              /\ requests[i].status = "APPROVED" /\ ~bySelf
         /\ DaysOf(Refunded(i, days, bySelf, 1)) \cap DaysOf(Refunded(i, days, bySelf, 2)) = {}
<1> DEFINE first == requests[i].from
           last  == requests[i].to
           runs  == Runs(first, last, days)
<1>1. first \in Int /\ last \in Int /\ today \in Int
  BY WorkflowAssumption DEF TypeOK, Request, Days
<1>2. ASSUME NEW y \in Years, NEW d \in DaysOf(Refunded(i, days, bySelf, y))
      PROVE  d \in days /\ d > today /\ requests[i].status = "APPROVED" /\ ~bySelf
  <2>1. PICK p \in Refunded(i, days, bySelf, y) : d \in p.from..p.to
    BY DEF DaysOf
  <2>2. /\ p \in runs /\ p.from \in days /\ requests[i].status = "APPROVED" /\ ~bySelf
        /\ ~(p.from <= today)
    BY DEF Refunded, AlreadyUsed
  <2>3. SameSide(days, d, p.from) /\ p.from \in Int
    BY <1>1, <2>1, <2>2 DEF Runs
  <2> QED BY <1>1, <2>1, <2>2, <2>3 DEF SameSide
<1>3. ASSUME NEW d \in DaysOf(Refunded(i, days, bySelf, 1)),
             d \in DaysOf(Refunded(i, days, bySelf, 2))
      PROVE  FALSE
  <2>1. PICK p \in Refunded(i, days, bySelf, 1) : d \in p.from..p.to
    BY DEF DaysOf
  <2>2. PICK q \in Refunded(i, days, bySelf, 2) : d \in q.from..q.to
    BY <1>3 DEF DaysOf
  <2>3. p \in runs /\ q \in runs /\ YearOf(p.from) = 1 /\ YearOf(q.from) = 2
    BY DEF Refunded
  <2>4. Meet(p, q)
    BY <1>1, <2>1, <2>2, <2>3 DEF Meet, Runs
  <2>5. p = q
    BY <1>1, <2>3, <2>4, RunsApart
  <2> QED BY <2>3, <2>5
<1> QED BY <1>2, <1>3

LEMMA CancelRefunds ==
  ASSUME TypeOK, TypeOK', NoOverlap, NoOverlap', Ordered, NEW i \in Ids,
         NEW days \in SUBSET Span(i), NEW bySelf \in BOOLEAN, Cancel(i, days, bySelf),
         NEW t \in LeaveTypes
  PROVE  RefundHolds(t)
<1> DEFINE F(y) == DaysOf(Refunded(i, days, bySelf, y))
           a == Total(Refunded(i, days, bySelf, 1))
           b == Total(Refunded(i, days, bySelf, 2))
<1>1. /\ \A y \in Years : \A d \in F(y) : /\ d \in days /\ d > today
                                          /\ requests[i].status = "APPROVED" /\ ~bySelf
      /\ F(1) \cap F(2) = {}
  BY RefundedDays
<1>2. 1 \in Years /\ 2 \in Years /\ used[t][1] \in Nat /\ used[t][2] \in Nat
  BY DEF TypeOK, Years
<1>3. a \in Nat /\ b \in Nat
  BY <1>2, CancelReads, ZenonT(40)
<1>4. IsFiniteSet(F(1)) /\ IsFiniteSet(F(2))
  <2>1. Span(i) \subseteq Days /\ IsFiniteSet(Span(i))
    BY SpansAreCounted DEF SpansCounted
  <2>2. F(1) \subseteq Span(i) /\ F(2) \subseteq Span(i)
    BY <1>1, <1>2
  <2> HIDE DEF F
  <2> QED BY <2>1, <2>2, FS_Subset
<1>5. Cardinality(F(1)) = a /\ Cardinality(F(2)) = b
  BY DEF Total, DaysOf
<1>6. Cardinality(F(1) \cup F(2)) = a + b
  <2> HIDE DEF F, a, b
  <2> QED BY <1>1, <1>4, <1>5, DisjointSize
<1>7. CASE requests[i].ext = NoId /\ t = requests[i].type
  <2>1. used'[t][1] = NextUsed(used[t][1], -a) /\ used'[t][2] = NextUsed(used[t][2], -b)
    <3>1. \A y \in Years :
            used'[t][y] = NextUsed(used[t][y], -Total(Refunded(i, days, bySelf, y)))
      BY <1>7, CancelReads
    <3> QED BY <1>2, <3>1
  <2> HIDE DEF a, b
  <2>2. used'[t][1] >= used[t][1] - a /\ used'[t][2] >= used[t][2] - b
    BY <1>2, <1>3, <2>1 DEF NextUsed
  <2>3. ASSUME NEW d \in F(1) \cup F(2) PROVE d \in Gone(t)
    <3>1. d \in days /\ d > today /\ requests[i].status = "APPROVED" /\ ~bySelf
      BY <1>1, <1>2
    <3>2. MarkOf(d)' = "free"
      BY <3>1, CancelMarks
    <3>3. requests[i].status \in Granted /\ d \in Days /\ d \in Span(i)
      BY <3>1, SpansAreCounted DEF SpansCounted, Granted
    <3> QED BY <1>7, <3>1, <3>2, <3>3, DayGone
  <2>4. F(1) \cup F(2) \subseteq Gone(t)
    BY <2>3
  <2> HIDE DEF F
  <2> QED BY <1>3, <1>6, <2>2, <2>4, RefundFits
<1>8. CASE ~(requests[i].ext = NoId /\ t = requests[i].type)
  <2>1. used'[t][1] = used[t][1] /\ used'[t][2] = used[t][2]
    BY <1>2, <1>8, CancelReads
  <2> QED BY <1>2, <2>1, NothingRefunded
<1> QED BY <1>7, <1>8

LEMMA ApprovalRefunds ==
  ASSUME TypeOK, TypeOK', Ordered, NEW i \in Ids, Approve(i), NEW t \in LeaveTypes
  PROVE  RefundHolds(t)
<1>1. \A y \in Years : used[t][y] \in Nat /\ used'[t][y] >= used[t][y]
  <2>1. \A y \in Years : used[t][y] \in Nat
    BY DEF TypeOK
  <2>2. CASE requests[i].status = "APPROVED"
    BY <2>1, <2>2 DEF Approve
  <2>3. CASE requests[i].status # "APPROVED"
    <3> DEFINE n == TotalDays[i]
    <3>1. n \in Nat /\ n = Length(requests[i])
      BY SpansAreCounted DEF SpansCounted, TotalDays
    <3>2. used' = Adjusted(i, n)
      BY <2>3, <3>1 DEF Approve
    <3> HIDE DEF n
    <3>3. \A y \in Years : used'[t][y] \in {NextUsed(used[t][y], n), used[t][y]}
      BY <3>1, <3>2, AdjustedReads
    <3> QED BY <2>1, <3>1, <3>3 DEF NextUsed
  <2> QED BY <2>2, <2>3
<1>2. 1 \in Years /\ 2 \in Years
  BY DEF Years
<1> QED BY <1>1, <1>2, NothingRefunded

LEMMA OthersRefund ==
  ASSUME TypeOK, TypeOK', Ordered, used' = used, NEW t \in LeaveTypes
  PROVE  RefundHolds(t)
<1>1. used[t][1] \in Nat /\ used[t][2] \in Nat
  BY DEF TypeOK, Years
<1> QED BY <1>1, NothingRefunded

LEMMA StepRefunds ==
  ASSUME TypeOK, TypeOK', NoOverlap, NoOverlap', Ordered, [Next]_vars,
         "APPROVED" \notin OfferedToReject, NEW t \in LeaveTypes
  PROVE  RefundHolds(t)
<1>1. ASSUME NEW i \in Ids, Approve(i) PROVE RefundHolds(t)
  BY <1>1, ApprovalRefunds
<1>2. ASSUME NEW i \in Ids, NEW revise \in BOOLEAN, Reject(i, revise) PROVE RefundHolds(t)
  <2>1. used' = used
    BY <1>2 DEF Reject, HasStatus
  <2> QED BY <2>1, OthersRefund
<1>3. ASSUME NEW i \in Ids, NEW days \in SUBSET Span(i), NEW bySelf \in BOOLEAN,
             Cancel(i, days, bySelf)
      PROVE  RefundHolds(t)
  BY <1>3, CancelRefunds
<1>4. ASSUME NEW i \in Ids, ApproveCancellation(i) PROVE RefundHolds(t)
  BY <1>4, CancellationRefunds
<1>5. ASSUME NEW type \in LeaveTypes, NEW pieces \in Filings, FileRequests(type, pieces)
      PROVE  RefundHolds(t)
  <2>1. used' = used
    BY <1>5 DEF FileRequests
  <2> QED BY <2>1, OthersRefund
<1>6. ASSUME NEW i \in Ids, Resubmit(i) \/ DenyCancellation(i) \/ RequestExtension(i) \/ Lapse(i)
      PROVE  RefundHolds(t)
  <2>1. used' = used
    BY <1>6 DEF Resubmit, DenyCancellation, RequestExtension, Lapse
  <2> QED BY <2>1, OthersRefund
<1>7. CASE \/ \E day \in Days : TimeIn(day) \/ FlagTimeIn(day)
           \/ \E day \in Days : \E valid \in BOOLEAN : ReviewFlagged(day, valid)
           \/ NextDay
           \/ UNCHANGED vars
  <2>1. used' = used
    BY <1>7 DEF TimeIn, FlagTimeIn, ReviewFlagged, NextDay, vars
  <2> QED BY <2>1, OthersRefund
<1> QED BY <1>1, <1>2, <1>3, <1>4, <1>5, <1>6, <1>7 DEF Next

LEMMA InitOrdered == Init => Ordered
BY DEF Init, Ordered, NoRequest

\* No step gives back more days of a leave type than it takes out of granted
\* leave, and of those only the days still to come (cancelOne,
\* approveCancellation), as long as reviewers act on standing requests and no
\* one rejects a leave already granted, which the pages do not offer.
THEOREM RefundsAreOfDaysToCome ==
  ASSUME ReviewersActOnStanding, "APPROVED" \notin OfferedToReject
  PROVE  Spec => RefundsOnlyDaysToCome
<1> DEFINE Inv == TypeOK /\ NoOverlap /\ Ordered
           A   == \A t \in LeaveTypes :
                    UsedDays(t) - UsedDays(t)'
                      <= Cardinality({d \in GrantedDays(t) \ GrantedDays(t)' : d > today})
<1>1. Init => Inv
  BY InitSafe, InitOrdered
<1>2. Inv /\ [Next]_vars => Inv'
  BY StepSafe, OrderedKept
<1>3. Inv /\ Inv' /\ [Next]_vars => A
  BY StepRefunds DEF RefundHolds, Gone
<1> HIDE DEF Inv
<1>4. Inv /\ Inv' /\ [Next]_vars => [A]_vars
  BY <1>3
<1> HIDE DEF A
<1>5. Spec => [][A]_vars
  BY <1>1, <1>2, <1>4, PTL DEF Spec
<1> QED BY <1>5 DEF A, RefundsOnlyDaysToCome

-----------------------------------------------------------------------------
(***************************************************************************)
(* 6. The ledger.                                                          *)
(***************************************************************************)
\* Only a cancelled leave is marked as taken.
OnlyCancelledSpent == \A i \in Ids : requests[i].spent => requests[i].status = "CANCELLED"

\* The rows that draw on the balance of type t and leave year y.
Bill(t, y) == {i \in Ids : Charged(i) /\ requests[i].type = t /\ YearOf(requests[i].from) = y}

Books == \A t \in LeaveTypes, y \in Years : used[t][y] = SumFunctionOnSet(TotalDays, Bill(t, y))

LEMMA BooksAreLedger == LedgerExact <=> (~SplitAcrossReset => Books)
<1>1. \A t, y : {i \in {j \in Ids : Charged(j)} :
                   requests[i].type = t /\ YearOf(requests[i].from) = y} = Bill(t, y)
  BY DEF Bill
<1>2. \A t, y : Ledger(t, y) <=> used[t][y] = SumFunctionOnSet(TotalDays, Bill(t, y))
  BY <1>1 DEF Ledger, DrawnOn
<1> QED BY <1>2 DEF LedgerExact, Books

LEMMA IdsFinite == IsFiniteSet(Ids)
BY FS_Interval, WorkflowAssumption DEF Ids

LEMMA BillFinite ==
  ASSUME NEW t, NEW y
  PROVE  Bill(t, y) \in SUBSET Ids /\ IsFiniteSet(Bill(t, y))
<1>1. Bill(t, y) \in SUBSET Ids
  BY DEF Bill
<1> QED BY <1>1, IdsFinite, FS_Subset

-----------------------------------------------------------------------------
\* A leave cut at the reset stays cut as long as no row changes its leave year.
LEMMA SplitKept ==
  ASSUME TypeOK, RowsInOrder, SplitAcrossReset,
         \A j \in Ids : requests[j].status # "NONE" =>
           /\ requests'[j].splitFrom = requests[j].splitFrom
           /\ YearOf(requests'[j].from) = YearOf(requests[j].from)
  PROVE  SplitAcrossReset'
<1>1. PICK i \in Ids : /\ requests[i].splitFrom # NoId
                       /\ YearOf(requests[i].from) # YearOf(requests[requests[i].splitFrom].from)
  BY DEF SplitAcrossReset
<1>2. PICK s \in Ids : requests[i].splitFrom = s
  BY <1>1 DEF TypeOK, Request
<1>3. requests[i].status # "NONE" /\ s < i /\ requests[s].status # "NONE"
  BY <1>1, <1>2 DEF RowsInOrder
<1>4. /\ requests'[i].splitFrom = s /\ requests'[i].splitFrom # NoId
      /\ YearOf(requests'[i].from) # YearOf(requests'[s].from)
  BY <1>1, <1>2, <1>3
<1> QED BY <1>4 DEF SplitAcrossReset, YearOf

\* A cancellation after which no leave is cut at the reset left all pieces in
\* the leave year of the request.
LEMMA CutYears ==
  ASSUME TypeOK, TypeOK', RowsInOrder, NEW i \in Ids, Ordered,
         requests[i].status \in CancellableStatuses,
         NEW days, NEW bySelf \in BOOLEAN, NEW kept, NEW owner,
         Cuts(i, days, bySelf, kept, owner), ~SplitAcrossReset'
  PROVE  /\ \A p \in Runs(requests[i].from, requests[i].to, days) :
              YearOf(p.from) = YearOf(requests[i].from)
         /\ ~SplitAcrossReset
<1> DEFINE old == requests[i]
           runs == Runs(old.from, old.to, days)
<1>0. /\ kept \in runs /\ owner \in [runs -> Ids] /\ owner[kept] = i
      /\ \A p \in runs : /\ requests'[owner[p]].from = p.from
                         /\ p # kept => requests'[owner[p]].splitFrom = i
      /\ \A p \in runs : p # kept => requests[owner[p]].status = "NONE"
      /\ \A k \in Ids : (\A p \in runs : owner[p] # k) => requests'[k] = requests[k]
  BY DEF Cuts
<1>1. /\ old.from \in Nat /\ old.to \in Nat /\ old.from <= old.to /\ i # NoId
  <2>1. i # NoId
    BY DEF Ids, NoId
  <2> QED BY <2>1, WorkflowAssumption DEF TypeOK, Request, Days, Ordered
<1>2. ASSUME NEW p \in runs PROVE YearOf(p.from) = YearOf(kept.from)
  <2>1. CASE p = kept
    BY <2>1
  <2>2. CASE p # kept
    <3>1. /\ owner[p] \in Ids /\ requests'[owner[p]].splitFrom = i
          /\ requests'[owner[p]].from = p.from /\ requests'[i].from = kept.from
      BY <1>0, <2>2
    <3> QED BY <1>1, <3>1 DEF SplitAcrossReset, YearOf
  <2> QED BY <2>1, <2>2
<1>3. YearOf(kept.from) = YearOf(old.from)
  <2>1. PICK q \in runs : old.from \in q.from..q.to
    BY <1>1, RunsCover
  <2>2. q.from = old.from
    BY <1>1, <2>1 DEF Runs
  <2> QED BY <1>2, <2>2
<1>4. ~SplitAcrossReset
  <2>1. ASSUME NEW j \in Ids, requests[j].status # "NONE"
        PROVE  /\ requests'[j].splitFrom = requests[j].splitFrom
               /\ YearOf(requests'[j].from) = YearOf(requests[j].from)
    <3>1. CASE j = i
      BY <1>0, <1>3, <3>1 DEF Cuts
    <3>2. CASE j # i
      <4>1. requests'[j] = requests[j]
        <5> HIDE DEF runs
        <5> QED BY <1>0, <2>1, <3>2
      <4> QED BY <4>1
    <3> QED BY <3>1, <3>2
  <2> QED BY <2>1, SplitKept
<1> QED BY <1>2, <1>3, <1>4

-----------------------------------------------------------------------------
\* A step that changes no more than the status and the notes of one row.
OneRow(i) ==
  /\ \A j \in Ids : j # i => requests'[j] = requests[j]
  /\ requests'[i].from = requests[i].from /\ requests'[i].to = requests[i].to
  /\ requests'[i].type = requests[i].type /\ requests'[i].ext = requests[i].ext
  /\ requests'[i].splitFrom = requests[i].splitFrom

LEMMA OneRowBill ==
  ASSUME TypeOK, TypeOK', Ordered, NEW i \in Ids, OneRow(i), NEW t, NEW y
  PROVE  /\ TotalDays' = TotalDays
         /\ (Charged(i)' <=> Charged(i)) => Bill(t, y)' = Bill(t, y)
         /\ ~(t = requests[i].type /\ y = YearOf(requests[i].from)) => Bill(t, y)' = Bill(t, y)
         /\ t = requests[i].type /\ y = YearOf(requests[i].from) =>
              /\ Charged(i)' /\ ~Charged(i) => i \notin Bill(t, y) /\ Bill(t, y)' = Bill(t, y) \cup {i}
              /\ ~Charged(i)' /\ Charged(i) => i \in Bill(t, y) /\ Bill(t, y)' = Bill(t, y) \ {i}
<1>1. TotalDays' = TotalDays
  <2>1. \A j \in Ids : Length(requests'[j]) = Length(requests[j])
    BY DEF OneRow, Length
  <2> QED BY <2>1 DEF TotalDays
<1>2. \A j \in Ids : j # i => /\ Charged(j)' <=> Charged(j)
                              /\ requests'[j].type = requests[j].type
                              /\ YearOf(requests[j].from)' = YearOf(requests[j].from)
  BY DEF OneRow, Charged, HasStatus, Granted, YearOf
<1>3. /\ requests'[i].type = requests[i].type
      /\ YearOf(requests[i].from)' = YearOf(requests[i].from)
  BY DEF OneRow, YearOf
<1>4. \A j \in Ids : /\ j \in Bill(t, y) <=> /\ Charged(j) /\ requests[j].type = t
                                             /\ YearOf(requests[j].from) = y
                     /\ j \in Bill(t, y)' <=> /\ Charged(j)' /\ requests'[j].type = t
                                              /\ YearOf(requests[j].from)' = y
  BY DEF Bill
<1>5. Bill(t, y) \subseteq Ids /\ Bill(t, y)' \subseteq Ids
  BY DEF Bill
<1>6. (Charged(i)' <=> Charged(i)) => Bill(t, y)' = Bill(t, y)
  BY <1>2, <1>3, <1>4, <1>5
<1>7. ~(t = requests[i].type /\ y = YearOf(requests[i].from)) => Bill(t, y)' = Bill(t, y)
  BY <1>2, <1>3, <1>4, <1>5
<1>8. ASSUME t = requests[i].type, y = YearOf(requests[i].from), Charged(i)', ~Charged(i)
      PROVE  i \notin Bill(t, y) /\ Bill(t, y)' = Bill(t, y) \cup {i}
  BY <1>2, <1>3, <1>4, <1>5, <1>8
<1>9. ASSUME t = requests[i].type, y = YearOf(requests[i].from), ~Charged(i)', Charged(i)
      PROVE  i \in Bill(t, y) /\ Bill(t, y)' = Bill(t, y) \ {i}
  BY <1>2, <1>3, <1>4, <1>5, <1>9
<1> QED BY <1>1, <1>6, <1>7, <1>8, <1>9

LEMMA BooksSame ==
  ASSUME TypeOK, TypeOK', Ordered, NEW i \in Ids, OneRow(i), Books, used' = used,
         Charged(i)' <=> Charged(i)
  PROVE  Books'
<1>1. ASSUME NEW t \in LeaveTypes, NEW y \in Years
      PROVE  used'[t][y] = SumFunctionOnSet(TotalDays', Bill(t, y)')
  <2>1. TotalDays' = TotalDays /\ Bill(t, y)' = Bill(t, y)
    BY OneRowBill
  <2> QED BY <2>1 DEF Books
<1> QED BY <1>1 DEF Books

LEMMA BooksCharge ==
  ASSUME TypeOK, TypeOK', Ordered, NEW i \in Ids, OneRow(i), Books,
         used' = Adjusted(i, TotalDays[i]), Charged(i)', ~Charged(i)
  PROVE  Books'
<1>0. /\ TotalDays \in [Ids -> Nat] /\ TotalDays[i] \in Nat /\ requests[i].ext = NoId
      /\ requests[i].type \in LeaveTypes
  BY SpansAreCounted DEF SpansCounted, Charged, OneRow, TypeOK, Request
<1>1. ASSUME NEW t \in LeaveTypes, NEW y \in Years
      PROVE  used'[t][y] = SumFunctionOnSet(TotalDays', Bill(t, y)')
  <2>1. TotalDays' = TotalDays
    BY OneRowBill
  <2>2. used[t][y] = SumFunctionOnSet(TotalDays, Bill(t, y)) /\ used[t][y] \in Nat
    BY DEF Books, TypeOK
  <2>3. CASE t = requests[i].type /\ y = YearOf(requests[i].from)
    <3>1. i \notin Bill(t, y) /\ Bill(t, y)' = Bill(t, y) \cup {i}
      BY <2>3, OneRowBill
    <3>2. used'[t][y] = NextUsed(used[t][y], TotalDays[i])
      BY <1>0, <2>3 DEF Adjusted, TypeOK
    <3>3. Bill(t, y) \in SUBSET Ids /\ IsFiniteSet(Bill(t, y))
      BY BillFinite
    <3>4. SumFunctionOnSet(TotalDays, Bill(t, y) \cup {i})
            = TotalDays[i] + SumFunctionOnSet(TotalDays, Bill(t, y))
      BY <1>0, <3>1, <3>3, SumAdd
    <3>5. NextUsed(used[t][y], TotalDays[i]) = TotalDays[i] + used[t][y]
      BY <1>0, <2>2 DEF NextUsed
    <3> QED BY <2>1, <2>2, <3>1, <3>2, <3>4, <3>5
  <2>4. CASE ~(t = requests[i].type /\ y = YearOf(requests[i].from))
    <3>1. Bill(t, y)' = Bill(t, y)
      BY <2>4, OneRowBill
    <3>2. used'[t][y] = used[t][y]
      BY <1>0, <2>4 DEF Adjusted, TypeOK
    <3> QED BY <2>1, <2>2, <3>1, <3>2
  <2> QED BY <2>3, <2>4
<1> QED BY <1>1 DEF Books

LEMMA BooksRefund ==
  ASSUME TypeOK, TypeOK', Ordered, NEW i \in Ids, OneRow(i), Books,
         used' = Adjusted(i, -TotalDays[i]), ~Charged(i)', Charged(i)
  PROVE  Books'
<1>0. /\ TotalDays \in [Ids -> Nat] /\ TotalDays[i] \in Nat /\ requests[i].ext = NoId
      /\ requests[i].type \in LeaveTypes
  BY SpansAreCounted DEF SpansCounted, Charged, OneRow, TypeOK, Request
<1>1. ASSUME NEW t \in LeaveTypes, NEW y \in Years
      PROVE  used'[t][y] = SumFunctionOnSet(TotalDays', Bill(t, y)')
  <2>1. TotalDays' = TotalDays
    BY OneRowBill
  <2>2. used[t][y] = SumFunctionOnSet(TotalDays, Bill(t, y)) /\ used[t][y] \in Nat
    BY DEF Books, TypeOK
  <2>3. CASE t = requests[i].type /\ y = YearOf(requests[i].from)
    <3>1. i \in Bill(t, y) /\ Bill(t, y)' = Bill(t, y) \ {i}
      BY <2>3, OneRowBill
    <3>2. used'[t][y] = NextUsed(used[t][y], -TotalDays[i])
      BY <1>0, <2>3 DEF Adjusted, TypeOK
    <3>3. Bill(t, y) \in SUBSET Ids /\ IsFiniteSet(Bill(t, y))
      BY BillFinite
    <3>4. SumFunctionOnSet(TotalDays, Bill(t, y))
            = TotalDays[i] + SumFunctionOnSet(TotalDays, Bill(t, y) \ {i})
      BY <1>0, <3>1, <3>3, SumRemove
    <3>5. SumFunctionOnSet(TotalDays, Bill(t, y) \ {i}) \in Nat
      <4>1. Bill(t, y) \ {i} \in SUBSET Ids /\ IsFiniteSet(Bill(t, y) \ {i})
        BY <3>3, FS_Subset
      <4> QED BY <4>1, <1>0, SumType
    <3>6. NextUsed(used[t][y], -TotalDays[i]) = SumFunctionOnSet(TotalDays, Bill(t, y) \ {i})
      BY <1>0, <2>2, <3>4, <3>5 DEF NextUsed
    <3> QED BY <2>1, <3>1, <3>2, <3>6
  <2>4. CASE ~(t = requests[i].type /\ y = YearOf(requests[i].from))
    <3>1. Bill(t, y)' = Bill(t, y)
      BY <2>4, OneRowBill
    <3>2. used'[t][y] = used[t][y]
      BY <1>0, <2>4 DEF Adjusted, TypeOK
    <3> QED BY <2>1, <2>2, <3>1, <3>2
  <2> QED BY <2>3, <2>4
<1> QED BY <1>1 DEF Books

\* Requests inserted as PENDING leave the books alone.
LEMMA BooksInsertion ==
  ASSUME TypeOK, TypeOK', Ordered, Ordered', Books, used' = used,
         NEW pieces, NEW place \in Placements(pieces), NEW rows,
         requests' = Inserted(requests, place, rows),
         \A p \in pieces : rows[p].status = "PENDING" /\ rows[p].splitFrom = NoId
  PROVE  Books'
<1>1. /\ \A j \in Ids : requests[j].status # "NONE" => requests'[j] = requests[j]
      /\ \A j \in Ids : requests[j].status = "NONE" =>
           requests'[j] = requests[j] \/ \E p \in pieces : requests'[j] = rows[p]
  BY InsertionAdvances
<1>2. ASSUME NEW t, NEW y, NEW j \in Ids
      PROVE  /\ j \in Bill(t, y)' <=> j \in Bill(t, y)
             /\ j \in Bill(t, y) => requests'[j] = requests[j]
  <2>1. CASE requests'[j] = requests[j]
    BY <2>1 DEF Bill, Charged, HasStatus, Granted, YearOf
  <2>2. CASE requests'[j] # requests[j]
    <3>1. requests[j].status = "NONE" /\ requests'[j].status = "PENDING"
      BY <1>1, <2>2
    <3>2. j \notin Bill(t, y) /\ j \notin Bill(t, y)'
      BY <3>1 DEF Bill, Charged, HasStatus, Granted
    <3> QED BY <3>2
  <2> QED BY <2>1, <2>2
<1>3. TotalDays \in [Ids -> Nat] /\ TotalDays' \in [Ids -> Nat]
  BY SpansAreCounted, SpansAreCountedNext DEF SpansCounted
<1>4. ASSUME NEW t \in LeaveTypes, NEW y \in Years
      PROVE  used'[t][y] = SumFunctionOnSet(TotalDays', Bill(t, y)')
  <2>1. Bill(t, y)' = Bill(t, y)
    BY <1>2 DEF Bill
  <2>2. Bill(t, y) \in SUBSET Ids /\ IsFiniteSet(Bill(t, y))
    BY BillFinite
  <2>3. \A j \in Bill(t, y) : TotalDays'[j] = TotalDays[j]
    BY <1>2, <2>2 DEF TotalDays
  <2>4. SumFunctionOnSet(TotalDays', Bill(t, y)) = SumFunctionOnSet(TotalDays, Bill(t, y))
    BY <1>3, <2>2, <2>3, SumSame
  <2> QED BY <2>1, <2>4 DEF Books
<1> QED BY <1>4 DEF Books

\* What a cancellation does to the rows the pieces went to, as the bills see it.
LEMMA CutRows ==
  ASSUME TypeOK, Ordered, NEW i \in Ids, requests[i].status \in CancellableStatuses,
         NEW days, NEW bySelf \in BOOLEAN, NEW kept, NEW owner,
         Cuts(i, days, bySelf, kept, owner),
         NEW runs, runs = Runs(requests[i].from, requests[i].to, days)
  PROVE  \A p \in runs :
           /\ owner[p] # i => ~Charged(owner[p])
           /\ requests'[owner[p]].from = p.from /\ requests'[owner[p]].to = p.to
           /\ requests'[owner[p]].type = requests[i].type
           /\ Charged(owner[p])' <=>
                /\ requests[i].ext = NoId /\ requests[i].status = "APPROVED"
                /\ \/ p.from \notin days
                   \/ requests[i].status = "APPROVED" /\ bySelf
                   \/ AlreadyUsed(p.from)
<1> DEFINE old    == requests[i]
           awaits == old.status = "APPROVED" /\ bySelf
<1>1. /\ kept \in runs /\ owner \in [runs -> Ids] /\ owner[kept] = i
      /\ \A p, q \in runs : owner[p] = owner[q] => p = q
      /\ \A p \in runs : p # kept => requests[owner[p]].status = "NONE"
      /\ \A k \in Ids : (\A p \in runs : owner[p] # k) => requests'[k] = requests[k]
  BY DEF Cuts
<1>2. ASSUME NEW p \in runs
      PROVE  /\ requests'[owner[p]].from = p.from /\ requests'[owner[p]].to = p.to
             /\ requests'[owner[p]].type = old.type /\ requests'[owner[p]].ext = old.ext
             /\ p.from \notin days => requests'[owner[p]].status = old.status
             /\ p.from \in days /\ awaits =>
                  requests'[owner[p]].status = "CANCELLATION_PENDING"
             /\ p.from \in days /\ ~awaits => requests'[owner[p]].status = "CANCELLED"
             /\ requests'[owner[p]].spent <=>
                  /\ p.from \in days /\ ~awaits /\ old.status = "APPROVED"
                  /\ AlreadyUsed(p.from)
  BY DEF Cuts
<1>4. ASSUME NEW p \in runs, owner[p] # i PROVE ~Charged(owner[p])
  <2>1. requests[owner[p]].status = "NONE"
    BY <1>1, <1>4
  <2> QED BY <2>1 DEF Charged, HasStatus, Granted
<1>5. ASSUME NEW p \in runs
      PROVE  Charged(owner[p])' <=>
               /\ old.ext = NoId /\ old.status = "APPROVED"
               /\ \/ p.from \notin days
                  \/ awaits
                  \/ AlreadyUsed(p.from)
  <2> DEFINE r == requests'[owner[p]]
  <2>1. Charged(owner[p])' <=>
          /\ r.ext = NoId
          /\ r.status \in Granted \/ (r.status = "CANCELLED" /\ r.spent)
    BY DEF Charged, HasStatus
  <2>2. /\ r.ext = old.ext
        /\ p.from \notin days => r.status = old.status
        /\ p.from \in days /\ awaits => r.status = "CANCELLATION_PENDING"
        /\ p.from \in days /\ ~awaits => r.status = "CANCELLED"
        /\ r.spent <=> /\ p.from \in days /\ ~awaits /\ old.status = "APPROVED"
                       /\ AlreadyUsed(p.from)
    BY <1>2
  <2>3. old.status \in {"PENDING", "SUPERVISOR_APPROVED", "APPROVED"}
    BY DEF CancellableStatuses
  <2>4. Granted = {"APPROVED", "CANCELLATION_PENDING"}
    BY DEF Granted
  <2> HIDE DEF r
  <2>5. CASE p.from \notin days
    BY <2>1, <2>2, <2>3, <2>4, <2>5
  <2>6. CASE p.from \in days /\ awaits
    BY <2>1, <2>2, <2>3, <2>4, <2>6
  <2>7. CASE p.from \in days /\ ~awaits
    BY <2>1, <2>2, <2>3, <2>4, <2>7
  <2> QED BY <2>5, <2>6, <2>7
<1> QED BY <1>2, <1>4, <1>5

\* A bill that none of the pieces is on, before or after.
LEMMA BillUntouched ==
  ASSUME TypeOK, TypeOK', Ordered, Ordered', NEW t, NEW y, NEW S \in SUBSET Ids,
         \A k \in S : k \notin Bill(t, y) /\ k \notin Bill(t, y)',
         \A k \in Ids \ S : requests'[k] = requests[k]
  PROVE  SumFunctionOnSet(TotalDays', Bill(t, y)') = SumFunctionOnSet(TotalDays, Bill(t, y))
<1>1. \A k \in Ids \ S : /\ k \in Bill(t, y)' <=> k \in Bill(t, y)
                         /\ TotalDays'[k] = TotalDays[k]
  <2>1. ASSUME NEW k \in Ids \ S
        PROVE  /\ k \in Bill(t, y)' <=> k \in Bill(t, y)
               /\ TotalDays'[k] = TotalDays[k]
    <3>1. requests'[k] = requests[k]
      OBVIOUS
    <3> QED BY <3>1 DEF Bill, Charged, HasStatus, Granted, YearOf, TotalDays
  <2> QED BY <2>1
<1>2. Bill(t, y) \in SUBSET Ids /\ IsFiniteSet(Bill(t, y)) /\ Bill(t, y)' \subseteq Ids
  <2>1. Bill(t, y)' \subseteq Ids
    BY DEF Bill
  <2> QED BY <2>1, BillFinite
<1>3. TotalDays \in [Ids -> Nat] /\ TotalDays' \in [Ids -> Nat]
  BY SpansAreCounted, SpansAreCountedNext DEF SpansCounted
<1>4. Bill(t, y)' = Bill(t, y) /\ \A k \in Bill(t, y) : TotalDays'[k] = TotalDays[k]
  BY <1>1, <1>2
<1> DEFINE B == Bill(t, y)
           w == TotalDays
           v == TotalDays'
<1>5. SumFunctionOnSet(v, B) = SumFunctionOnSet(w, B)
  <2>1. /\ w \in [Ids -> Nat] /\ v \in [Ids -> Nat] /\ B \in SUBSET Ids /\ IsFiniteSet(B)
        /\ \A x \in B : v[x] = w[x]
    BY <1>2, <1>3, <1>4
  <2> HIDE DEF B, w, v
  <2> QED BY <2>1, SumSame
<1> QED BY <1>4, <1>5

\* The balance stays as it was when nothing is refunded.
LEMMA NothingSubtracted ==
  ASSUME NEW u \in Nat
  PROVE  NextUsed(u, -Total({})) = u
<1>1. UNION {p.from..p.to : p \in {}} = {}
  OBVIOUS
<1>2. Total({}) = 0
  BY <1>1, FS_EmptySet DEF Total
<1> QED BY <1>2 DEF NextUsed

\* Taking some of the runs of a leave leaves the other days to the others.
LEMMA RunsPartition ==
  ASSUME NEW first \in Nat, NEW last \in Nat, NEW cancelled,
         NEW C \in SUBSET Runs(first, last, cancelled), NEW R,
         R = Runs(first, last, cancelled) \ C
  PROVE  /\ IsFiniteSet(DaysOf(C)) /\ IsFiniteSet(DaysOf(R))
         /\ Cardinality(first..last) = Cardinality(DaysOf(C)) + Cardinality(DaysOf(R))
<1> DEFINE runs == Runs(first, last, cancelled)
<1>1. \A p \in runs : p.from..p.to \subseteq first..last
  BY DEF Runs
<1>2. DaysOf(C) \subseteq first..last /\ DaysOf(R) \subseteq first..last
  BY <1>1 DEF DaysOf
<1>3. \A d \in first..last : d \in DaysOf(C) \/ d \in DaysOf(R)
  BY RunsCover DEF DaysOf
<1>4. DaysOf(C) \cap DaysOf(R) = {}
  <2>1. ASSUME NEW d \in DaysOf(C), d \in DaysOf(R) PROVE FALSE
    <3>1. PICK p \in C : d \in p.from..p.to
      BY DEF DaysOf
    <3>2. PICK q \in R : d \in q.from..q.to
      BY <2>1 DEF DaysOf
    <3>3. p \in runs /\ q \in runs /\ p # q
      OBVIOUS
    <3>4. Meet(p, q)
      BY <3>1, <3>2, <3>3 DEF Meet, Runs
    <3> QED BY <3>3, <3>4, RunsApart
  <2> QED BY <2>1
<1>5. IsFiniteSet(first..last)
  BY FS_Interval
<1>6. IsFiniteSet(DaysOf(C)) /\ IsFiniteSet(DaysOf(R))
  BY <1>2, <1>5, FS_Subset
<1>7. DaysOf(C) \cup DaysOf(R) = first..last
  BY <1>2, <1>3
<1> QED BY <1>4, <1>6, <1>7, DisjointSize

LEMMA BooksCancel ==
  ASSUME TypeOK, TypeOK', RowsInOrder, Ordered, Ordered', NEW i \in Ids,
         NEW days \in SUBSET Span(i), NEW bySelf \in BOOLEAN, Cancel(i, days, bySelf),
         ~SplitAcrossReset', Books
  PROVE  Books'
<1> DEFINE old    == requests[i]
           awaits == old.status = "APPROVED" /\ bySelf
           R(y)   == Refunded(i, days, bySelf, y)
<1>r. PICK runs : runs = Runs(requests[i].from, requests[i].to, days)
  OBVIOUS
<1>0. PICK kept, owner : Cuts(i, days, bySelf, kept, owner)
  BY CancelCuts
<1>1. old.status \in CancellableStatuses
  BY DEF Cancel, HasStatus
<1>2. \A p \in runs : YearOf(p.from) = YearOf(old.from)
  BY <1>r, <1>0, <1>1, CutYears
<1>3. /\ owner \in [runs -> Ids] /\ \E p \in runs : owner[p] = i
      /\ \A p, q \in runs : owner[p] = owner[q] => p = q
      /\ \A k \in Ids : (\A p \in runs : owner[p] # k) =>
           requests'[k] = requests[k] /\ k # i
      /\ \A p \in runs : /\ owner[p] # i => ~Charged(owner[p])
                         /\ requests'[owner[p]].from = p.from
                         /\ requests'[owner[p]].to = p.to
                         /\ requests'[owner[p]].type = old.type
                         /\ Charged(owner[p])' <=>
                              /\ old.ext = NoId /\ old.status = "APPROVED"
                              /\ p.from \notin days \/ awaits \/ AlreadyUsed(p.from)
      /\ Charged(i) <=> old.ext = NoId /\ old.status = "APPROVED"
  <2>2. /\ owner \in [runs -> Ids] /\ \E p \in runs : owner[p] = i
        /\ \A p, q \in runs : owner[p] = owner[q] => p = q
        /\ \A k \in Ids : (\A p \in runs : owner[p] # k) =>
             requests'[k] = requests[k] /\ k # i
    BY <1>r, <1>0 DEF Cuts
  <2>3. Charged(i) <=> requests[i].ext = NoId /\ requests[i].status = "APPROVED"
    BY <1>1 DEF Charged, HasStatus, Granted, CancellableStatuses
  <2>4. ASSUME NEW p \in runs
        PROVE  /\ owner[p] # i => ~Charged(owner[p])
               /\ requests'[owner[p]].from = p.from
               /\ requests'[owner[p]].to = p.to
               /\ requests'[owner[p]].type = requests[i].type
               /\ Charged(owner[p])' <=>
                    /\ requests[i].ext = NoId /\ requests[i].status = "APPROVED"
                    /\ \/ p.from \notin days
                       \/ requests[i].status = "APPROVED" /\ bySelf
                       \/ AlreadyUsed(p.from)
    BY <1>r, <1>0, <1>1, CutRows
  <2> QED BY <2>2, <2>3, <2>4
<1> DEFINE S == {owner[p] : p \in runs}
           C == {p \in runs : p.from \notin days \/ awaits \/ AlreadyUsed(p.from)}
<1>4. /\ S \in SUBSET Ids /\ i \in S
      /\ \A k \in Ids \ S : requests'[k] = requests[k]
  <2> QED BY <1>3
<1>6. ASSUME NEW t \in LeaveTypes, NEW y \in Years
      PROVE  used'[t][y] = SumFunctionOnSet(TotalDays', Bill(t, y)')
  <2>0. used[t][y] = SumFunctionOnSet(TotalDays, Bill(t, y)) /\ used[t][y] \in Nat
    BY DEF Books, TypeOK
  <2>1. /\ old.ext = NoId /\ t = old.type =>
             used'[t][y] = NextUsed(used[t][y], -Total(R(y)))
        /\ ~(old.ext = NoId /\ t = old.type) => used'[t][y] = used[t][y]
        /\ Total(R(y)) \in Nat
    BY CancelReads
  <2>2. CASE ~(/\ old.ext = NoId /\ old.status = "APPROVED"
               /\ t = old.type /\ y = YearOf(old.from))
    <3>1. R(y) = {} \/ ~(old.ext = NoId /\ t = old.type)
      <4>1. ASSUME NEW p \in R(y), old.ext = NoId, t = old.type PROVE FALSE
        <5>1. p \in runs /\ old.status = "APPROVED" /\ YearOf(p.from) = y
          BY <1>r DEF Refunded
        <5> HIDE DEF R
        <5> QED BY <1>2, <2>2, <4>1, <5>1
      <4> QED BY <4>1
    <3>2. used'[t][y] = used[t][y]
      <4>1. NextUsed(used[t][y], -Total({})) = used[t][y]
        BY <2>0, NothingSubtracted
      <4> HIDE DEF R
      <4> QED BY <2>1, <3>1, <4>1
    <3>3. ASSUME NEW k \in S PROVE k \notin Bill(t, y) /\ k \notin Bill(t, y)'
      <4>1. PICK p \in runs : k = owner[p]
        OBVIOUS
      <4>2. /\ requests'[k].from = p.from /\ requests'[k].type = old.type
            /\ YearOf(p.from) = YearOf(old.from)
            /\ Charged(k)' => old.ext = NoId /\ old.status = "APPROVED"
        <5> QED BY <1>2, <1>3, <4>1
      <4>3. k \in Bill(t, y)' => /\ Charged(k)' /\ requests'[k].type = t
                                 /\ YearOf(requests'[k].from) = y
        BY DEF Bill, YearOf
      <4>4. k \notin Bill(t, y)'
        BY <2>2, <4>2, <4>3
      <4>5. k \in Bill(t, y) => /\ Charged(k) /\ requests[k].type = t
                                /\ YearOf(requests[k].from) = y
        BY DEF Bill
      <4>6. k # i => ~Charged(k)
        <5> QED BY <1>3, <4>1
      <4>7. k \notin Bill(t, y)
        BY <1>3, <2>2, <4>5, <4>6
      <4> QED BY <4>4, <4>7
    <3>4. SumFunctionOnSet(TotalDays', Bill(t, y)') = SumFunctionOnSet(TotalDays, Bill(t, y))
      <4> HIDE DEF S
      <4> QED BY <1>4, <3>3, BillUntouched
    <3> QED BY <2>0, <3>2, <3>4
  <2>3. CASE /\ old.ext = NoId /\ old.status = "APPROVED"
             /\ t = old.type /\ y = YearOf(old.from)
    <3> DEFINE B == Bill(t, y) \ {i}
               Q == {owner[p] : p \in C}
               f == [k \in Ids |-> Span(k)']
               w == TotalDays
               v == TotalDays'
    <3>1. B \in SUBSET Ids /\ IsFiniteSet(B) /\ i \in Bill(t, y)
      <4>1. i \in Bill(t, y)
        BY <1>3, <2>3 DEF Bill
      <4>2. Bill(t, y) \in SUBSET Ids /\ IsFiniteSet(Bill(t, y))
        BY BillFinite
      <4> QED BY <4>1, <4>2, FS_Subset
    <3>2. w \in [Ids -> Nat] /\ v \in [Ids -> Nat]
      BY SpansAreCounted, SpansAreCountedNext DEF SpansCounted
    <3>3. SumFunctionOnSet(w, Bill(t, y)) = w[i] + SumFunctionOnSet(w, B)
      <4>1. Bill(t, y) \in SUBSET Ids /\ IsFiniteSet(Bill(t, y))
        BY BillFinite
      <4> HIDE DEF w
      <4> QED BY <3>1, <3>2, <4>1, SumRemove
    <3>4. Bill(t, y)' = B \cup Q /\ B \cap Q = {} /\ Q \in SUBSET Ids /\ B \cap S = {}
      <4>1. Q \in SUBSET S
        OBVIOUS
      <4>2. ASSUME NEW k \in B PROVE k \notin S
        <5>1. k \in Ids /\ Charged(k) /\ k # i
          BY DEF Bill
        <5> QED BY <1>3, <5>1
      <4>3. ASSUME NEW k \in Ids, k \notin S PROVE k \in Bill(t, y)' <=> k \in B
        <5>1. requests'[k] = requests[k] /\ k # i
          BY <1>4, <4>3
        <5> QED BY <5>1 DEF Bill, Charged, HasStatus, Granted, YearOf
      <4>4. ASSUME NEW p \in runs PROVE owner[p] \in Bill(t, y)' <=> p \in C
        <5>1. /\ requests'[owner[p]].from = p.from /\ requests'[owner[p]].type = old.type
              /\ YearOf(p.from) = y /\ owner[p] \in Ids
              /\ Charged(owner[p])' <=> p \in C
          <6> QED BY <1>2, <1>3, <2>3
        <5>2. owner[p] \in Bill(t, y)' <=> /\ Charged(owner[p])' /\ requests'[owner[p]].type = t
                                           /\ YearOf(requests'[owner[p]].from) = y
          BY <5>1 DEF Bill, YearOf
        <5> QED BY <2>3, <5>1, <5>2
      <4>5. Bill(t, y)' \subseteq Ids
        BY DEF Bill
      <4>6. ASSUME NEW k \in S PROVE k \in Bill(t, y)' <=> k \in Q
        <5>1. PICK p \in runs : k = owner[p]
          OBVIOUS
        <5>2. k \in Q <=> p \in C
          <6> QED BY <1>3, <5>1
        <5> QED BY <4>4, <5>1, <5>2
      <4> HIDE DEF S, Q, B
      <4> QED BY <1>4, <4>1, <4>2, <4>3, <4>5, <4>6, <3>1
    <3>5. IsFiniteSet(Q)
      BY <3>4, IdsFinite, FS_Subset
    <3>6. \A x \in Q : IsFiniteSet(f[x]) /\ Cardinality(f[x]) = v[x]
      BY <3>4, SpansAreCountedNext DEF SpansCounted
    <3>7. \A p \in runs : f[owner[p]] = p.from..p.to
      <4>1. ASSUME NEW p \in runs PROVE f[owner[p]] = p.from..p.to
        <5>1. /\ owner[p] \in Ids /\ requests'[owner[p]].from = p.from
              /\ requests'[owner[p]].to = p.to
          <6> QED BY <1>3
        <5> QED BY <5>1 DEF Span
      <4> QED BY <4>1
    <3>8. old.from \in Nat /\ old.to \in Nat
      BY WorkflowAssumption DEF TypeOK, Request, Days
    <3>9. ASSUME NEW x \in Q, NEW z \in Q, x # z PROVE f[x] \cap f[z] = {}
      <4>1. PICK p \in C : x = owner[p]
        OBVIOUS
      <4>2. PICK q \in C : z = owner[q]
        OBVIOUS
      <4>3. p \in runs /\ q \in runs /\ p # q
        BY <3>9, <4>1, <4>2
      <4>4. ~Meet(p, q)
        BY <1>r, <3>8, <4>3, RunsApart
      <4>5. p.from \in Int /\ p.to \in Int /\ q.from \in Int /\ q.to \in Int
        BY <1>r, <3>8, <4>3 DEF Runs
      <4>6. (p.from..p.to) \cap (q.from..q.to) = {}
        BY <4>4, <4>5 DEF Meet
      <4> HIDE DEF f
      <4> QED BY <3>7, <4>1, <4>2, <4>3, <4>6
    <3>10. Parts(f, Q) = DaysOf(C)
      <4>1. \A p \in C : p \in runs
        OBVIOUS
      <4>2. /\ \A p \in C : owner[p] \in Q
            /\ \A x \in Q : \E p \in C : x = owner[p]
        OBVIOUS
      <4> HIDE DEF f, C, Q
      <4>3. ASSUME NEW d, d \in Parts(f, Q) PROVE d \in DaysOf(C)
        <5>1. PICK x \in Q : d \in f[x]
          BY <4>3 DEF Parts
        <5>2. PICK p \in C : x = owner[p]
          BY <4>2, <5>1
        <5>3. d \in p.from..p.to
          BY <3>7, <4>1, <5>1, <5>2
        <5> QED BY <5>3 DEF DaysOf
      <4>4. ASSUME NEW d, d \in DaysOf(C) PROVE d \in Parts(f, Q)
        <5>1. PICK p \in C : d \in p.from..p.to
          BY <4>4 DEF DaysOf
        <5>2. d \in f[owner[p]] /\ owner[p] \in Q
          BY <3>7, <4>1, <4>2, <5>1
        <5> QED BY <5>2 DEF Parts
      <4> QED BY <4>3, <4>4
    <3>11. SumFunctionOnSet(v, B \cup Q) = SumFunctionOnSet(v, B) + Cardinality(DaysOf(C))
      <4>1. /\ B \cap Q = {} /\ Q \in SUBSET Ids /\ B \in SUBSET Ids /\ IsFiniteSet(B)
            /\ \A x, z \in Q : x # z => f[x] \cap f[z] = {}
        BY <3>1, <3>4, <3>9
      <4> HIDE DEF f, B, Q, v, C
      <4> QED BY <3>2, <3>5, <3>6, <3>10, <4>1, SumOfParts
    <3>12. SumFunctionOnSet(v, B) = SumFunctionOnSet(w, B)
      <4>1. \A x \in B : v[x] = w[x]
        BY <1>4, <3>1, <3>4 DEF TotalDays
      <4> HIDE DEF B, w, v
      <4> QED BY <3>1, <3>2, <4>1, SumSame
    <3>13. R(y) = runs \ C
      <4>1. \A p \in runs : p \in R(y) <=> p \notin C
        <5>1. ASSUME NEW p \in runs PROVE p \in R(y) <=> p \notin C
          BY <1>r, <1>2, <2>3 DEF Refunded
        <5> QED BY <5>1
      <4>2. R(y) \subseteq runs
        BY <1>r DEF Refunded
      <4> HIDE DEF R, C
      <4> QED BY <4>1, <4>2
    <3>14. /\ IsFiniteSet(DaysOf(C)) /\ IsFiniteSet(DaysOf(R(y)))
           /\ Cardinality(old.from..old.to)
                = Cardinality(DaysOf(C)) + Cardinality(DaysOf(R(y)))
      <4> DEFINE first  == old.from
                 last   == old.to
                 others == R(y)
      <4>1. /\ C \in SUBSET Runs(first, last, days) /\ first \in Nat /\ last \in Nat
            /\ others = Runs(first, last, days) \ C
        BY <1>r, <3>8, <3>13
      <4> HIDE DEF C, first, last, others
      <4>2. /\ IsFiniteSet(DaysOf(C)) /\ IsFiniteSet(DaysOf(others))
            /\ Cardinality(first..last) = Cardinality(DaysOf(C)) + Cardinality(DaysOf(others))
        BY <4>1, RunsPartition, SMTT(20)
      <4> QED BY <4>2 DEF first, last, others
    <3>15. Cardinality(DaysOf(R(y))) = Total(R(y)) /\ Cardinality(old.from..old.to) = w[i]
      <4>1. Cardinality(DaysOf(R(y))) = Total(R(y))
        BY DEF DaysOf, Total
      <4>2. Cardinality(Span(i)) = w[i] /\ Span(i) = old.from..old.to
        BY SpansAreCounted DEF SpansCounted, Span
      <4> QED BY <4>1, <4>2
    <3>16. /\ Cardinality(DaysOf(C)) \in Nat /\ SumFunctionOnSet(w, B) \in Nat
           /\ Total(R(y)) \in Nat /\ w[i] \in Nat
      <4>1. SumFunctionOnSet(w, B) \in Nat
        BY <3>1, <3>2, SumType
      <4> QED BY <2>1, <3>2, <3>14, <4>1, FS_CardinalityType
    <3>17. used'[t][y] = SumFunctionOnSet(w, B) + Cardinality(DaysOf(C))
      <4>1. used'[t][y] = NextUsed(used[t][y], -Total(R(y)))
        BY <2>1, <2>3
      <4>2. used[t][y] = w[i] + SumFunctionOnSet(w, B)
        BY <2>0, <3>3
      <4>3. w[i] = Cardinality(DaysOf(C)) + Total(R(y))
        BY <3>14, <3>15
      <4> DEFINE c == Cardinality(DaysOf(C))
                 r == Total(R(y))
                 b == SumFunctionOnSet(w, B)
                 u == used[t][y]
      <4>4. u = (c + r) + b /\ c \in Nat /\ r \in Nat /\ b \in Nat
        BY <3>16, <4>2, <4>3
      <4>5. NextUsed(u, -r) = b + c
        <5> HIDE DEF c, r, b, u
        <5> QED BY <4>4 DEF NextUsed
      <4> QED BY <4>1, <4>5
    <3> HIDE DEF B, Q, v, w, C, R
    <3> QED BY <3>4, <3>11, <3>12, <3>17 DEF v
  <2> QED BY <2>2, <2>3
<1> QED BY <1>6 DEF Books

\* Reviewers leave alone the requests whose cancellation is asked for or done.
ReviewersLeaveCancelled ==
  (OfferedToApprove \cup OfferedToReject) \cap {"CANCELLATION_PENDING", "CANCELLED"} = {}

LEMMA DecisionIsOneRow ==
  ASSUME TypeOK, NEW i \in Ids, NEW revise \in BOOLEAN,
         \/ Approve(i) \/ Reject(i, revise) \/ Resubmit(i)
         \/ ApproveCancellation(i) \/ DenyCancellation(i) \/ Lapse(i)
  PROVE  OneRow(i)
BY DEF Approve, Reject, Resubmit, ApproveCancellation, DenyCancellation, Lapse,
       TypeOK, Request, OneRow

LEMMA ReviewBooks ==
  ASSUME TypeOK, TypeOK', Ordered, NEW i \in Ids, NEW revise \in BOOLEAN, Books,
         ReviewersLeaveCancelled, Approve(i) \/ Reject(i, revise)
  PROVE  Books'
<1>0. OneRow(i)
  BY DecisionIsOneRow
<1>1. requests'[i].ext = requests[i].ext
  BY <1>0 DEF OneRow
<1>2. Length(requests[i]) = TotalDays[i]
  BY DEF TotalDays
<1>3. /\ Charged(i) <=> /\ requests[i].ext = NoId
                        /\ \/ requests[i].status \in {"APPROVED", "CANCELLATION_PENDING"}
                           \/ requests[i].status = "CANCELLED" /\ requests[i].spent
      /\ Charged(i)' <=> /\ requests[i].ext = NoId
                         /\ \/ requests'[i].status \in {"APPROVED", "CANCELLATION_PENDING"}
                            \/ requests'[i].status = "CANCELLED" /\ requests'[i].spent
  BY <1>1 DEF Charged, HasStatus, Granted
<1>4. requests[i].status \notin {"CANCELLATION_PENDING", "CANCELLED"}
  BY DEF ReviewersLeaveCancelled, Approve, Reject, HasStatus
<1>5. CASE Approve(i)
  <2>1. requests'[i].status = "APPROVED"
    BY <1>5 DEF Approve, TypeOK, Request
  <2>2. CASE requests[i].status = "APPROVED" \/ requests[i].ext # NoId
    <3>1. used' = used
      BY <1>5, <2>2 DEF Approve, Adjusted
    <3>2. Charged(i)' <=> Charged(i)
      BY <1>3, <2>1, <2>2
    <3> QED BY <1>0, <3>1, <3>2, BooksSame
  <2>3. CASE requests[i].status # "APPROVED" /\ requests[i].ext = NoId
    <3>1. used' = Adjusted(i, TotalDays[i])
      BY <1>2, <1>5, <2>3 DEF Approve
    <3>2. Charged(i)' /\ ~Charged(i)
      BY <1>3, <1>4, <2>1, <2>3
    <3> QED BY <1>0, <3>1, <3>2, BooksCharge
  <2> QED BY <2>2, <2>3
<1>6. CASE Reject(i, revise)
  <2>1. requests'[i].status \in {"NEEDS_REVISION", "REJECTED"}
    BY <1>6 DEF Reject, TypeOK, Request
  <2>2. CASE requests[i].status # "APPROVED" \/ requests[i].ext # NoId
    <3>1. used' = used
      BY <1>6, <2>2 DEF Reject, Adjusted
    <3>2. Charged(i)' <=> Charged(i)
      BY <1>3, <1>4, <2>1, <2>2
    <3> QED BY <1>0, <3>1, <3>2, BooksSame
  <2>3. CASE requests[i].status = "APPROVED" /\ requests[i].ext = NoId
    <3>1. used' = Adjusted(i, -TotalDays[i])
      BY <1>2, <1>6, <2>3 DEF Reject
    <3>2. ~Charged(i)' /\ Charged(i)
      BY <1>3, <1>4, <2>1, <2>3
    <3> QED BY <1>0, <3>1, <3>2, BooksRefund
  <2> QED BY <2>2, <2>3
<1> QED BY <1>5, <1>6

LEMMA OtherDecisionBooks ==
  ASSUME TypeOK, TypeOK', Ordered, NEW i \in Ids, Books,
         Resubmit(i) \/ ApproveCancellation(i) \/ DenyCancellation(i) \/ Lapse(i)
  PROVE  Books'
<1>0. OneRow(i)
  BY DecisionIsOneRow
<1>1. requests'[i].ext = requests[i].ext
  BY <1>0 DEF OneRow
<1>2. Length(requests[i]) = TotalDays[i]
  BY DEF TotalDays
<1>3. /\ Charged(i) <=> /\ requests[i].ext = NoId
                        /\ \/ requests[i].status \in {"APPROVED", "CANCELLATION_PENDING"}
                           \/ requests[i].status = "CANCELLED" /\ requests[i].spent
      /\ Charged(i)' <=> /\ requests[i].ext = NoId
                         /\ \/ requests'[i].status \in {"APPROVED", "CANCELLATION_PENDING"}
                            \/ requests'[i].status = "CANCELLED" /\ requests'[i].spent
  BY <1>1 DEF Charged, HasStatus, Granted
<1>4. CASE Resubmit(i)
  <2>1. /\ requests[i].status = "NEEDS_REVISION" /\ requests'[i].status = "PENDING"
        /\ used' = used
    BY <1>4 DEF Resubmit, TypeOK, Request
  <2> QED BY <1>0, <1>3, <2>1, BooksSame
<1>5. CASE Lapse(i)
  <2>1. /\ requests[i].status \in Undecided /\ requests'[i].status = "LAPSED"
        /\ used' = used
    BY <1>5 DEF Lapse, LapseCandidates, HasStatus, TypeOK, Request
  <2> QED BY <1>0, <1>3, <2>1, BooksSame DEF Undecided
<1>6. CASE DenyCancellation(i)
  <2>1. /\ requests[i].status = "CANCELLATION_PENDING" /\ requests'[i].status = "APPROVED"
        /\ used' = used
    BY <1>6 DEF DenyCancellation, TypeOK, Request
  <2> QED BY <1>0, <1>3, <2>1, BooksSame
<1>7. CASE ApproveCancellation(i)
  <2>1. /\ requests[i].status = "CANCELLATION_PENDING" /\ requests'[i].status = "CANCELLED"
        /\ requests'[i].spent = AlreadyUsed(requests[i].from)
    BY <1>7 DEF ApproveCancellation, TypeOK, Request
  <2>2. CASE AlreadyUsed(requests[i].from) \/ requests[i].ext # NoId
    <3>1. used' = used
      BY <1>7, <2>2 DEF ApproveCancellation, Adjusted
    <3>2. Charged(i)' <=> Charged(i)
      BY <1>3, <2>1, <2>2
    <3> QED BY <1>0, <3>1, <3>2, BooksSame
  <2>3. CASE ~AlreadyUsed(requests[i].from) /\ requests[i].ext = NoId
    <3>1. used' = Adjusted(i, -TotalDays[i])
      BY <1>2, <1>7, <2>3 DEF ApproveCancellation
    <3>2. ~Charged(i)' /\ Charged(i)
      BY <1>3, <2>1, <2>3
    <3> QED BY <1>0, <3>1, <3>2, BooksRefund
  <2> QED BY <2>2, <2>3
<1> QED BY <1>4, <1>5, <1>6, <1>7

LEMMA FilingBooks ==
  ASSUME TypeOK, TypeOK', Ordered, Ordered', Books,
         \/ \E type \in LeaveTypes : \E pieces \in Filings : FileRequests(type, pieces)
         \/ \E i \in Ids : RequestExtension(i)
  PROVE  Books'
<1>1. ASSUME NEW type \in LeaveTypes, NEW pieces \in Filings, FileRequests(type, pieces)
      PROVE  Books'
  <2> DEFINE rows == [p \in pieces |-> Filed(type, p, NoId)]
  <2>1. PICK place \in Placements(pieces) : requests' = Inserted(requests, place, rows)
    BY <1>1 DEF FileRequests
  <2>2. \A p \in pieces : rows[p].status = "PENDING" /\ rows[p].splitFrom = NoId
    BY DEF Filed, NoRequest
  <2>3. used' = used
    BY <1>1 DEF FileRequests
  <2> HIDE DEF rows
  <2> QED BY <2>1, <2>2, <2>3, BooksInsertion
<1>2. ASSUME NEW i \in Ids, RequestExtension(i) PROVE Books'
  <2> DEFINE asked == [from |-> requests[i].to + 1, to |-> requests[i].to + ExtensionDays]
             rows  == [p \in {asked} |-> Filed(requests[i].type, p, i)]
  <2>1. PICK place \in Placements({asked}) : requests' = Inserted(requests, place, rows)
    BY <1>2 DEF RequestExtension
  <2>2. \A p \in {asked} : rows[p].status = "PENDING" /\ rows[p].splitFrom = NoId
    BY DEF Filed, NoRequest
  <2>3. used' = used
    BY <1>2 DEF RequestExtension
  <2> HIDE DEF rows, asked
  <2> QED BY <2>1, <2>2, <2>3, BooksInsertion
<1> QED BY <1>1, <1>2

\* No step mends a leave that was cut at the reset.
LEMMA SplitStays ==
  ASSUME TypeOK, TypeOK', RowsInOrder, Ordered, [Next]_vars, ~SplitAcrossReset'
  PROVE  ~SplitAcrossReset
<1>1. ASSUME NEW pieces, NEW place \in Placements(pieces), NEW rows,
             requests' = Inserted(requests, place, rows),
             \A p \in pieces : rows[p].status = "PENDING" /\ rows[p].splitFrom = NoId
      PROVE  ~SplitAcrossReset
  <2>1. \A j \in Ids : requests[j].status # "NONE" => requests'[j] = requests[j]
    BY <1>1, InsertionAdvances
  <2>2. \A j \in Ids : requests[j].status # "NONE" =>
          /\ requests'[j].splitFrom = requests[j].splitFrom
          /\ YearOf(requests'[j].from) = YearOf(requests[j].from)
    BY <2>1
  <2> QED BY <2>2, SplitKept
<1>2. ASSUME NEW type \in LeaveTypes, NEW pieces \in Filings, FileRequests(type, pieces)
      PROVE  ~SplitAcrossReset
  <2> DEFINE rows == [p \in pieces |-> Filed(type, p, NoId)]
  <2>1. PICK place \in Placements(pieces) : requests' = Inserted(requests, place, rows)
    BY <1>2 DEF FileRequests
  <2>2. \A p \in pieces : rows[p].status = "PENDING" /\ rows[p].splitFrom = NoId
    BY DEF Filed, NoRequest
  <2> HIDE DEF rows
  <2> QED BY <2>1, <2>2, <1>1
<1>3. ASSUME NEW i \in Ids, RequestExtension(i) PROVE ~SplitAcrossReset
  <2> DEFINE asked == [from |-> requests[i].to + 1, to |-> requests[i].to + ExtensionDays]
             rows  == [p \in {asked} |-> Filed(requests[i].type, p, i)]
  <2>1. PICK place \in Placements({asked}) : requests' = Inserted(requests, place, rows)
    BY <1>3 DEF RequestExtension
  <2>2. \A p \in {asked} : rows[p].status = "PENDING" /\ rows[p].splitFrom = NoId
    BY DEF Filed, NoRequest
  <2> HIDE DEF rows, asked
  <2> QED BY <2>1, <2>2, <1>1
<1>4. ASSUME NEW i \in Ids, NEW days \in SUBSET Span(i), NEW bySelf \in BOOLEAN,
             Cancel(i, days, bySelf)
      PROVE  ~SplitAcrossReset
  <2>1. PICK kept, owner : Cuts(i, days, bySelf, kept, owner)
    BY <1>4, CancelCuts
  <2>2. requests[i].status \in CancellableStatuses
    BY <1>4 DEF Cancel, HasStatus
  <2> QED BY <2>1, <2>2, CutYears
<1>5. ASSUME NEW i \in Ids, NEW revise \in BOOLEAN,
             \/ Approve(i) \/ Reject(i, revise) \/ Resubmit(i)
             \/ ApproveCancellation(i) \/ DenyCancellation(i) \/ Lapse(i)
      PROVE  ~SplitAcrossReset
  <2>1. OneRow(i)
    BY <1>5, DecisionIsOneRow
  <2>2. \A j \in Ids : requests[j].status # "NONE" =>
          /\ requests'[j].splitFrom = requests[j].splitFrom
          /\ YearOf(requests'[j].from) = YearOf(requests[j].from)
    BY <2>1 DEF OneRow, YearOf
  <2> QED BY <2>2, SplitKept
<1>6. CASE \/ \E day \in Days : TimeIn(day) \/ FlagTimeIn(day)
           \/ \E day \in Days : \E valid \in BOOLEAN : ReviewFlagged(day, valid)
           \/ NextDay
           \/ UNCHANGED vars
  <2>1. requests' = requests
    BY <1>6 DEF TimeIn, FlagTimeIn, ReviewFlagged, NextDay, vars
  <2> QED BY <2>1 DEF SplitAcrossReset, YearOf
<1>7. TRUE \in BOOLEAN
  OBVIOUS
<1>8. ASSUME NEW i \in Ids, \/ Approve(i) \/ Resubmit(i) \/ ApproveCancellation(i)
                            \/ DenyCancellation(i) \/ Lapse(i)
      PROVE  ~SplitAcrossReset
  BY <1>5, <1>7, <1>8
<1>9. ASSUME NEW i \in Ids, NEW revise \in BOOLEAN, Reject(i, revise) PROVE ~SplitAcrossReset
  BY <1>5, <1>9
<1> QED BY <1>2, <1>3, <1>4, <1>6, <1>8, <1>9 DEF Next

LEMMA LedgerStep ==
  ASSUME TypeOK, TypeOK', RowsInOrder, Ordered, Ordered', ReviewersLeaveCancelled,
         LedgerExact, [Next]_vars
  PROVE  LedgerExact'
<1> SUFFICES ASSUME ~SplitAcrossReset' PROVE Books'
  <2>1. LedgerExact' <=> (~SplitAcrossReset' => Books')
    BY BooksAreLedger, PTL
  <2> QED BY <2>1
<1>0. ~SplitAcrossReset /\ Books
  BY SplitStays, BooksAreLedger
<1>1. CASE \/ \E type \in LeaveTypes : \E pieces \in Filings : FileRequests(type, pieces)
           \/ \E i \in Ids : RequestExtension(i)
  BY <1>0, <1>1, FilingBooks
<1>2. TRUE \in BOOLEAN
  OBVIOUS
<1>3. ASSUME NEW i \in Ids, \/ Approve(i) \/ Resubmit(i) \/ ApproveCancellation(i)
                            \/ DenyCancellation(i) \/ Lapse(i)
      PROVE  Books'
  BY <1>0, <1>2, <1>3, ReviewBooks, OtherDecisionBooks
<1>4. ASSUME NEW i \in Ids, NEW revise \in BOOLEAN, Reject(i, revise) PROVE Books'
  BY <1>0, <1>4, ReviewBooks
<1>5. ASSUME NEW i \in Ids, NEW days \in SUBSET Span(i), NEW bySelf \in BOOLEAN,
             Cancel(i, days, bySelf)
      PROVE  Books'
  BY <1>0, <1>5, BooksCancel
<1>6. CASE \/ \E day \in Days : TimeIn(day) \/ FlagTimeIn(day)
           \/ \E day \in Days : \E valid \in BOOLEAN : ReviewFlagged(day, valid)
           \/ NextDay
           \/ UNCHANGED vars
  <2>1. requests' = requests /\ used' = used
    BY <1>6 DEF TimeIn, FlagTimeIn, ReviewFlagged, NextDay, vars
  <2>2. SplitAcrossReset' <=> SplitAcrossReset
    BY <2>1 DEF SplitAcrossReset, YearOf
  <2>3. TotalDays' = TotalDays
    BY <2>1 DEF TotalDays, Length
  <2>4. ASSUME NEW t, NEW y PROVE Bill(t, y)' = Bill(t, y)
    BY <2>1 DEF Bill, Charged, HasStatus, YearOf
  <2> QED BY <1>0, <2>1, <2>2, <2>3, <2>4 DEF Books
<1> QED BY <1>1, <1>3, <1>4, <1>5, <1>6 DEF Next

\* What is charged to the balances is what was granted.
InLedger == Explained /\ Ordered /\ LedgerExact

LEMMA InitLedger == Init => InLedger
<1> SUFFICES ASSUME Init PROVE InLedger
  OBVIOUS
<1>1. Explained
  <2>1. TypeOK
    BY InitSafe
  <2>2. RowsInOrder
    BY DEF Init, NoRequest, RowsInOrder
  <2> QED BY <2>1, <2>2 DEF Init, NoRequest, Explained, WorkedLeaveIsExplained
<1>2. Ordered
  BY InitOrdered
<1>3. Books
  <2>1. ASSUME NEW t \in LeaveTypes, NEW y \in Years
        PROVE  used[t][y] = SumFunctionOnSet(TotalDays, Bill(t, y))
    <3>1. Bill(t, y) = {}
      BY DEF Bill, Charged, HasStatus, Granted, Init, NoRequest
    <3>2. TotalDays \in [Ids -> Nat]
      BY <1>1, <1>2, SpansAreCounted DEF SpansCounted, Explained
    <3>3. SumFunctionOnSet(TotalDays, {}) = 0
      BY <3>2, SumEmpty
    <3>4. used[t][y] = 0
      BY DEF Init
    <3> QED BY <3>1, <3>3, <3>4
  <2> QED BY <2>1 DEF Books
<1> QED BY <1>1, <1>2, <1>3, BooksAreLedger DEF InLedger

LEMMA StepLedger ==
  ASSUME ReviewersLeaveCancelled, InLedger, [Next]_vars
  PROVE  InLedger'
<1>1. Explained /\ Ordered /\ LedgerExact /\ Explained'
  BY StepExplained DEF InLedger
<1>2. TypeOK /\ TypeOK' /\ RowsInOrder
  BY <1>1 DEF Explained
<1>3. Ordered'
  BY <1>1, <1>2, OrderedKept
<1>4. LedgerExact'
  BY <1>1, <1>2, <1>3, LedgerStep
<1> QED BY <1>1, <1>3, <1>4 DEF InLedger

\* usedDays is exactly the days of the leaves granted, plus those of leaves
\* cancelled once begun, whatever is filed, approved, rejected, cut into
\* pieces, extended, contested and refunded (updateStatus,
\* approveCancellation, splitForCancellation), as long as no leave was cut at
\* the leave-year reset and nobody decides a leave whose cancellation is
\* asked for or done.
THEOREM BalancesFollowLeaves ==
  ASSUME ReviewersLeaveCancelled
  PROVE  Spec => []LedgerExact
<1>1. InLedger /\ [Next]_vars => InLedger'
  BY StepLedger
<1>2. InLedger => LedgerExact
  BY DEF InLedger
<1> QED BY <1>1, <1>2, InitLedger, PTL DEF Spec

-----------------------------------------------------------------------------
(***************************************************************************)
(* 7. What is owed.                                                        *)
(***************************************************************************)
\* Reviewers act on requests that wait for a decision, or approved ones.
ReviewersActInTurn ==
  OfferedToApprove \cup OfferedToReject \subseteq Undecided \cup {"APPROVED"}

\* The rows that draw on a balance or may still come to.
Claims(i) == Charged(i) \/ (HasStatus(i, Undecided) /\ requests[i].ext = NoId)

Owed(t, y) == {i \in Ids : Claims(i) /\ requests[i].type = t /\ YearOf(requests[i].from) = y}

OwedDays(t, y) == SumFunctionOnSet(TotalDays, Owed(t, y))

Capped == LeaveTypes \ UncappedTypes

Afford == \A t \in Capped, y \in Years : OwedDays(t, y) <= Earned[t][y]

LEMMA OwedFinite ==
  ASSUME NEW t, NEW y
  PROVE  Owed(t, y) \in SUBSET Ids /\ IsFiniteSet(Owed(t, y))
<1>1. Owed(t, y) \in SUBSET Ids
  BY DEF Owed
<1> QED BY <1>1, IdsFinite, FS_Subset

LEMMA AffordIsCover ==
  ASSUME TypeOK, Ordered, Books, ~SplitAcrossReset
  PROVE  NotOverdrawn <=> Afford
<1> DEFINE Asked(t, y) == {i \in {j \in Ids : HasStatus(j, Undecided) /\ requests[j].ext = NoId} :
                             requests[i].type = t /\ YearOf(requests[i].from) = y}
<1>1. ASSUME NEW t \in Capped, NEW y \in Years
      PROVE  OwedDays(t, y) = used[t][y] + SumFunctionOnSet(TotalDays, Asked(t, y))
  <2> DEFINE A == Asked(t, y)
  <2>1. Owed(t, y) = Bill(t, y) \cup A
    BY DEF Owed, Bill, Claims
  <2>2. Bill(t, y) \cap A = {}
    BY DEF Bill, Charged, HasStatus, Undecided, Granted
  <2>3. Bill(t, y) \in SUBSET Ids /\ IsFiniteSet(Bill(t, y)) /\ A \in SUBSET Ids
    BY BillFinite
  <2>4. IsFiniteSet(A)
    BY <2>3, IdsFinite, FS_Subset
  <2>5. TotalDays \in [Ids -> Nat]
    BY SpansAreCounted DEF SpansCounted
  <2>6. used[t][y] = SumFunctionOnSet(TotalDays, Bill(t, y))
    BY DEF Books, Capped
  <2> HIDE DEF A
  <2>7. SumFunctionOnSet(TotalDays, Bill(t, y) \cup A)
          = SumFunctionOnSet(TotalDays, Bill(t, y)) + SumFunctionOnSet(TotalDays, A)
    BY <2>2, <2>3, <2>4, <2>5, SumUnion
  <2> QED BY <2>1, <2>6, <2>7 DEF OwedDays, A
<1>2. \A t, y : DrawnOn(t, y, {j \in Ids : HasStatus(j, Undecided) /\ requests[j].ext = NoId})
                  = SumFunctionOnSet(TotalDays, Asked(t, y))
  BY DEF DrawnOn
<1> HIDE DEF Asked
<1> QED BY <1>1, <1>2 DEF NotOverdrawn, Afford, Capped

\* A step that owes no more rows of a type, and no others' days, is affordable.
LEMMA OwedShrinks ==
  ASSUME TypeOK, TypeOK', Ordered, Ordered', NEW t, NEW y,
         \A k \in Ids : k \in Owed(t, y)' => k \in Owed(t, y) /\ TotalDays'[k] = TotalDays[k]
  PROVE  OwedDays(t, y)' <= OwedDays(t, y)
<1> DEFINE S == Owed(t, y)
           R == Owed(t, y)'
           w == TotalDays
           v == TotalDays'
<1>1. /\ S \in SUBSET Ids /\ IsFiniteSet(S) /\ R \in SUBSET S
      /\ \A k \in R : v[k] = w[k]
  <2>1. R \subseteq Ids
    BY DEF Owed
  <2> QED BY <2>1, OwedFinite
<1>2. w \in [Ids -> Nat] /\ v \in [Ids -> Nat]
  BY SpansAreCounted, SpansAreCountedNext DEF SpansCounted
<1>3. SumFunctionOnSet(v, R) <= SumFunctionOnSet(w, S)
  <2> HIDE DEF S, R, w, v
  <2>1. R \in SUBSET Ids /\ IsFiniteSet(R)
    BY <1>1, FS_Subset
  <2>2. SumFunctionOnSet(v, R) = SumFunctionOnSet(w, R)
    BY <1>1, <1>2, <2>1, SumSame
  <2>3. SumFunctionOnSet(w, R) <= SumFunctionOnSet(w, S)
    BY <1>1, <1>2, SumMonotone
  <2> QED BY <2>2, <2>3
<1> QED BY <1>3 DEF OwedDays

LEMMA EarnedNat == \A t \in Capped, y \in Years : Earned[t][y] \in Nat
BY WorkflowAssumption DEF Capped

LEMMA OwedNat ==
  ASSUME TypeOK, Ordered
  PROVE  \A t, y : OwedDays(t, y) \in Nat
<1>1. ASSUME NEW t, NEW y PROVE OwedDays(t, y) \in Nat
  <2>1. TotalDays \in [Ids -> Nat]
    BY SpansAreCounted DEF SpansCounted
  <2>2. Owed(t, y) \in SUBSET Ids /\ IsFiniteSet(Owed(t, y))
    BY OwedFinite
  <2> QED BY <2>1, <2>2, SumType DEF OwedDays
<1> QED BY <1>1

LEMMA OwedNatNext == (TypeOK /\ Ordered)' => (\A t, y : OwedDays(t, y) \in Nat)'
<1>1. TypeOK /\ Ordered => \A t, y : OwedDays(t, y) \in Nat
  BY OwedNat
<1> QED BY <1>1, PTL

LEMMA AffordKept ==
  ASSUME TypeOK, TypeOK', Ordered, Ordered', Afford,
         \A t \in Capped, y \in Years :
           OwedDays(t, y)' <= OwedDays(t, y) \/ OwedDays(t, y)' <= Earned[t][y]
  PROVE  Afford'
<1>1. ASSUME NEW t \in Capped, NEW y \in Years PROVE OwedDays(t, y)' <= Earned[t][y]
  <2>1. OwedDays(t, y) \in Nat /\ OwedDays(t, y)' \in Nat /\ Earned[t][y] \in Nat
    BY OwedNat, OwedNatNext, EarnedNat
  <2>2. OwedDays(t, y) <= Earned[t][y]
    BY DEF Afford
  <2>3. OwedDays(t, y)' <= OwedDays(t, y) \/ OwedDays(t, y)' <= Earned[t][y]
    OBVIOUS
  <2> QED BY <2>1, <2>2, <2>3
<1> QED BY <1>1 DEF Afford

LEMMA DecisionAfford ==
  ASSUME TypeOK, TypeOK', Ordered, Ordered', ReviewersActInTurn, Afford,
         NEW i \in Ids, NEW revise \in BOOLEAN,
         \/ Approve(i) \/ Reject(i, revise) \/ Resubmit(i)
         \/ ApproveCancellation(i) \/ DenyCancellation(i) \/ Lapse(i)
  PROVE  Afford'
<1>1. OneRow(i)
  BY DecisionIsOneRow
<1>2. requests[i].status \in Undecided \cup {"APPROVED", "CANCELLATION_PENDING"}
  BY DEF ReviewersActInTurn, Approve, Reject, Resubmit, ApproveCancellation, DenyCancellation,
         Lapse, LapseCandidates, HasStatus, Undecided
<1>3. requests[i].ext = NoId => Claims(i)
  BY <1>2 DEF Claims, Charged, HasStatus, Granted
<1>4. requests'[i].ext # NoId => ~Claims(i)'
  BY DEF Claims, Charged, HasStatus
<1>5. ASSUME NEW k \in Ids, NEW t, NEW y, k \in Owed(t, y)'
      PROVE  k \in Owed(t, y) /\ TotalDays'[k] = TotalDays[k]
  <2>1. /\ Claims(k)' /\ requests'[k].type = t /\ YearOf(requests'[k].from) = y
    BY <1>5 DEF Owed, YearOf
  <2>2. CASE k = i
    <3>1. Claims(i) /\ requests[i].type = t /\ YearOf(requests[i].from) = y
      BY <1>1, <1>3, <1>4, <2>1, <2>2 DEF OneRow
    <3>2. TotalDays'[i] = TotalDays[i]
      BY <1>1 DEF OneRow, TotalDays, Length
    <3> QED BY <2>2, <3>1, <3>2 DEF Owed
  <2>3. CASE k # i
    <3>1. requests'[k] = requests[k]
      BY <1>1, <2>3 DEF OneRow
    <3>2. Claims(k)
      BY <2>1, <3>1 DEF Claims, Charged, HasStatus
    <3>3. requests[k].type = t /\ YearOf(requests[k].from) = y /\ TotalDays'[k] = TotalDays[k]
      BY <2>1, <3>1 DEF TotalDays
    <3> QED BY <3>2, <3>3 DEF Owed
  <2> QED BY <2>2, <2>3
<1>6. \A t \in Capped, y \in Years : OwedDays(t, y)' <= OwedDays(t, y)
  BY <1>5, OwedShrinks
<1> QED BY <1>6, AffordKept

\* Rows over days that lie in G and that they do not share add at most the
\* days of G to a sum.
LEMMA RowsAdd ==
  ASSUME TypeOK', Ordered', NEW B \in SUBSET Ids, NEW S \in SUBSET Ids, B \cap S = {},
         NEW R \in SUBSET (B \cup S), NEW G, IsFiniteSet(G),
         \A x \in S : Span(x)' \subseteq G,
         \A x, z \in S : x # z => Span(x)' \cap Span(z)' = {}
  PROVE  /\ SumFunctionOnSet(TotalDays', R) \in Nat
         /\ SumFunctionOnSet(TotalDays', B) \in Nat /\ Cardinality(G) \in Nat
         /\ SumFunctionOnSet(TotalDays', R) <= SumFunctionOnSet(TotalDays', B) + Cardinality(G)
<1> DEFINE f == [k \in Ids |-> Span(k)']
           v == TotalDays'
<1>1. v \in [Ids -> Nat] /\ \A x \in S : IsFiniteSet(f[x]) /\ Cardinality(f[x]) = v[x]
  BY SpansAreCountedNext DEF SpansCounted
<1>2. IsFiniteSet(B) /\ IsFiniteSet(S) /\ IsFiniteSet(B \cup S) /\ B \cup S \in SUBSET Ids
  <2>1. IsFiniteSet(B) /\ IsFiniteSet(S)
    BY IdsFinite, FS_Subset
  <2>2. IsFiniteSet(B \cup S)
    BY <2>1, FS_Union
  <2> QED BY <2>1, <2>2
<1>3. /\ \A x, z \in S : x # z => f[x] \cap f[z] = {}
      /\ \A x \in S : f[x] \subseteq G
  OBVIOUS
<1> HIDE DEF f, v
<1>5. /\ IsFiniteSet(Parts(f, S))
      /\ SumFunctionOnSet(v, B \cup S) = SumFunctionOnSet(v, B) + Cardinality(Parts(f, S))
  BY <1>1, <1>2, <1>3, SumOfParts
<1>6. Parts(f, S) \subseteq G
  BY <1>3 DEF Parts
<1>7. /\ Cardinality(Parts(f, S)) <= Cardinality(G)
      /\ Cardinality(Parts(f, S)) \in Nat /\ Cardinality(G) \in Nat
  BY <1>5, <1>6, FS_Subset, FS_CardinalityType
<1>8. SumFunctionOnSet(v, R) <= SumFunctionOnSet(v, B \cup S)
  BY <1>1, <1>2, SumMonotone
<1>9. SumFunctionOnSet(v, B) \in Nat
  BY <1>1, <1>2, SumType
<1>10. SumFunctionOnSet(v, R) \in Nat
  <2>1. R \in SUBSET Ids /\ IsFiniteSet(R)
    BY <1>2, FS_Subset
  <2> QED BY <1>1, <2>1, SumType
<1>11. SumFunctionOnSet(v, R) <= SumFunctionOnSet(v, B) + Cardinality(G)
  BY <1>5, <1>7, <1>8, <1>9, <1>10
<1> QED BY <1>7, <1>9, <1>10, <1>11 DEF v

\* A cancellation adds no days: the pieces have at most the days of the row
\* they were cut from.
LEMMA PiecesAddNothing ==
  ASSUME TypeOK, TypeOK', Ordered, Ordered', NEW i \in Ids,
         NEW days, NEW bySelf \in BOOLEAN, NEW kept, NEW owner,
         Cuts(i, days, bySelf, kept, owner),
         NEW runs, runs = Runs(requests[i].from, requests[i].to, days),
         NEW X \in SUBSET Ids, i \in X, \A k \in X : requests[k].status # "NONE",
         NEW Y \in SUBSET Ids,
         \A k \in Y : (\A p \in runs : owner[p] # k) => k \in X
  PROVE  SumFunctionOnSet(TotalDays', Y) <= SumFunctionOnSet(TotalDays, X)
<1> DEFINE S == {owner[p] : p \in runs}
           B == X \ {i}
           w == TotalDays
           v == TotalDays'
<1>0. /\ owner \in [runs -> Ids] /\ \E p \in runs : owner[p] = i
      /\ \A k \in Ids : (\A p \in runs : owner[p] # k) =>
           requests'[k] = requests[k] /\ k # i
      /\ \A p \in runs : owner[p] # i => requests[owner[p]].status = "NONE"
      /\ \A p \in runs : requests'[owner[p]].from = p.from /\ requests'[owner[p]].to = p.to
  BY DEF Cuts
<1>1. S \in SUBSET Ids /\ \A k \in Ids \ S : requests'[k] = requests[k] /\ k # i
  BY <1>0
<1>2. B \in SUBSET Ids /\ IsFiniteSet(B) /\ X \in SUBSET Ids /\ IsFiniteSet(X)
  BY IdsFinite, FS_Subset
<1>3. B \cap S = {}
  BY <1>0
<1>4. Y \in SUBSET (B \cup S)
  BY <1>1
<1>5. requests[i].from \in Nat /\ requests[i].to \in Nat
  BY WorkflowAssumption DEF TypeOK, Request, Days
<1>6. ASSUME NEW p \in runs
      PROVE  Span(owner[p])' = p.from..p.to /\ p.from..p.to \subseteq Span(i)
  <2>1. Span(owner[p])' = p.from..p.to
    BY <1>0 DEF Span
  <2>2. p.from..p.to \subseteq Span(i)
    BY <1>5 DEF Runs, Span
  <2> QED BY <2>1, <2>2
<1>7. \A x \in S : Span(x)' \subseteq Span(i)
  BY <1>6
<1>8. \A x, z \in S : x # z => Span(x)' \cap Span(z)' = {}
  <2>1. ASSUME NEW x \in S, NEW z \in S, x # z PROVE Span(x)' \cap Span(z)' = {}
    <3>1. PICK p \in runs : x = owner[p]
      OBVIOUS
    <3>2. PICK q \in runs : z = owner[q]
      OBVIOUS
    <3>3. p # q
      BY <2>1, <3>1, <3>2
    <3>4. ~Meet(p, q)
      BY <1>5, <3>3, RunsApart
    <3>5. p.from \in Int /\ p.to \in Int /\ q.from \in Int /\ q.to \in Int
      BY <1>5 DEF Runs
    <3>6. (p.from..p.to) \cap (q.from..q.to) = {}
      BY <3>4, <3>5 DEF Meet
    <3> QED BY <1>6, <3>1, <3>2, <3>6
  <2> QED BY <2>1
<1>9. IsFiniteSet(Span(i)) /\ Cardinality(Span(i)) = w[i] /\ w[i] \in Nat
  BY SpansAreCounted DEF SpansCounted
<1>10. /\ SumFunctionOnSet(v, Y) \in Nat
       /\ SumFunctionOnSet(v, B) \in Nat /\ Cardinality(Span(i)) \in Nat
       /\ SumFunctionOnSet(v, Y) <= SumFunctionOnSet(v, B) + Cardinality(Span(i))
  <2> DEFINE G == Span(i)
  <2>1. IsFiniteSet(G) /\ \A x \in S : Span(x)' \subseteq G
    BY <1>7, <1>9
  <2> HIDE DEF S, B, G
  <2>2. /\ SumFunctionOnSet(TotalDays', Y) \in Nat
        /\ SumFunctionOnSet(TotalDays', B) \in Nat /\ Cardinality(G) \in Nat
        /\ SumFunctionOnSet(TotalDays', Y) <= SumFunctionOnSet(TotalDays', B) + Cardinality(G)
    BY <1>1, <1>2, <1>3, <1>4, <1>8, <2>1, RowsAdd
  <2> QED BY <2>2 DEF G
<1>11. v \in [Ids -> Nat] /\ w \in [Ids -> Nat]
  BY SpansAreCounted, SpansAreCountedNext DEF SpansCounted
<1>12. SumFunctionOnSet(v, B) = SumFunctionOnSet(w, B)
  <2>1. \A x \in B : v[x] = w[x]
    BY <1>1, <1>2, <1>3 DEF TotalDays
  <2> HIDE DEF B, v, w
  <2> QED BY <1>2, <1>11, <2>1, SumSame
<1>13. SumFunctionOnSet(w, X) = w[i] + SumFunctionOnSet(w, B)
  <2> HIDE DEF w
  <2> QED BY <1>2, <1>11, SumRemove
<1> HIDE DEF B, v, w
<1> QED BY <1>9, <1>10, <1>12, <1>13 DEF v, w

LEMMA CancelAfford ==
  ASSUME TypeOK, TypeOK', RowsInOrder, Ordered, Ordered', NEW i \in Ids,
         NEW days \in SUBSET Span(i), NEW bySelf \in BOOLEAN, Cancel(i, days, bySelf),
         ~SplitAcrossReset', Afford
  PROVE  Afford'
<1> DEFINE old == requests[i]
<1>r. PICK runs : runs = Runs(requests[i].from, requests[i].to, days)
  OBVIOUS
<1>0. PICK kept, owner : Cuts(i, days, bySelf, kept, owner)
  BY CancelCuts
<1>1. old.status \in CancellableStatuses
  BY DEF Cancel, HasStatus
<1>2. \A p \in runs : YearOf(p.from) = YearOf(old.from)
  BY <1>r, <1>0, <1>1, CutYears
<1>3. /\ owner \in [runs -> Ids] /\ \E p \in runs : owner[p] = i
      /\ \A p, q \in runs : owner[p] = owner[q] => p = q
      /\ \A k \in Ids : (\A p \in runs : owner[p] # k) =>
           requests'[k] = requests[k] /\ k # i
      /\ \A p \in runs : owner[p] # i => requests[owner[p]].status = "NONE"
  BY <1>r, <1>0 DEF Cuts
<1>4. \A p \in runs : /\ requests'[owner[p]].from = p.from /\ requests'[owner[p]].to = p.to
                      /\ requests'[owner[p]].type = old.type /\ requests'[owner[p]].ext = old.ext
  BY <1>r, <1>0 DEF Cuts
<1> DEFINE S == {owner[p] : p \in runs}
<1>5. S \in SUBSET Ids /\ \A k \in Ids \ S : requests'[k] = requests[k] /\ k # i
  BY <1>3
<1>6. ASSUME NEW t, NEW y, NEW k \in Ids \ S
      PROVE  /\ k \in Owed(t, y)' <=> k \in Owed(t, y)
             /\ TotalDays'[k] = TotalDays[k]
  <2>1. requests'[k] = requests[k]
    BY <1>5
  <2> QED BY <2>1 DEF Owed, Claims, Charged, HasStatus, YearOf, TotalDays
<1>7. ASSUME NEW t, NEW y, NEW k \in S, k \in Owed(t, y)'
      PROVE  old.ext = NoId /\ t = old.type /\ y = YearOf(old.from)
  <2>1. PICK p \in runs : k = owner[p]
    OBVIOUS
  <2>2. /\ requests'[k].ext = NoId /\ requests'[k].type = t /\ YearOf(requests'[k].from) = y
    BY <1>7 DEF Owed, Claims, Charged, YearOf
  <2> QED BY <1>2, <1>4, <2>1, <2>2
<1>8. ASSUME NEW t \in Capped, NEW y \in Years
      PROVE  OwedDays(t, y)' <= OwedDays(t, y)
  <2>1. CASE ~(old.ext = NoId /\ t = old.type /\ y = YearOf(old.from))
    <3>1. \A k \in Ids : k \in Owed(t, y)' => k \in Owed(t, y) /\ TotalDays'[k] = TotalDays[k]
      BY <1>6, <1>7, <2>1
    <3> QED BY <3>1, OwedShrinks
  <2>2. CASE old.ext = NoId /\ t = old.type /\ y = YearOf(old.from)
    <3>1. i \in Owed(t, y)
      BY <1>1, <2>2 DEF Owed, Claims, Charged, HasStatus, CancellableStatuses, Undecided, Granted
    <3>2. Owed(t, y) \in SUBSET Ids /\ Owed(t, y)' \in SUBSET Ids
      BY DEF Owed
    <3>3. \A k \in Owed(t, y) : requests[k].status # "NONE"
      BY DEF Owed, Claims, Charged, HasStatus, Undecided, Granted
    <3>4. \A k \in Owed(t, y)' : (\A p \in runs : owner[p] # k) => k \in Owed(t, y)
      BY <1>6, <3>2
    <3> QED BY <1>r, <1>0, <3>1, <3>2, <3>3, <3>4, PiecesAddNothing DEF OwedDays
  <2> QED BY <2>1, <2>2
<1> QED BY <1>8, AffordKept

LEMMA FilingAfford ==
  ASSUME TypeOK, TypeOK', Ordered, Ordered', Books, Afford,
         NEW type \in LeaveTypes, NEW pieces \in Filings, FileRequests(type, pieces)
  PROVE  Afford'
<1> DEFINE rows == [p \in pieces |-> Filed(type, p, NoId)]
<1>1. PICK place \in Placements(pieces) : requests' = Inserted(requests, place, rows)
  BY DEF FileRequests
<1>2. ASSUME NEW p \in pieces
      PROVE  /\ rows[p].status = "PENDING" /\ rows[p].type = type /\ rows[p].ext = NoId
             /\ rows[p].from = p.from /\ rows[p].to = p.to
             /\ p.from \in Days /\ p.to \in Days
  BY DEF Filed, NoRequest, Filings, Ranges
<1>3. \A p, q \in pieces : p # q => (p.from..p.to) \cap (q.from..q.to) = {}
  <2>1. ASSUME NEW p \in pieces, NEW q \in pieces, p # q
        PROVE  (p.from..p.to) \cap (q.from..q.to) = {}
    <3>1. /\ p \in [from : Days, to : Days] /\ q \in [from : Days, to : Days]
          /\ p.from = p.to /\ q.from = q.to
      BY <2>1 DEF Filings, Ranges
    <3>2. p.from # q.from /\ p.from \in Int /\ q.from \in Int
      BY <2>1, <3>1, WorkflowAssumption DEF Days
    <3> QED BY <3>1, <3>2
  <2> QED BY <2>1
<1>4. ~AwaitsReview(type) /\ BalanceCovers(type, pieces)
  BY DEF FileRequests
<1>5. /\ place \in [pieces -> Ids]
      /\ \A p \in pieces : requests[place[p]].status = "NONE" /\ requests'[place[p]] = rows[p]
      /\ \A p, q \in pieces : place[p] = place[q] => p = q
      /\ \A k \in Ids : (\A p \in pieces : place[p] # k) => requests'[k] = requests[k]
  <2> HIDE DEF rows
  <2> QED BY <1>1, InsertedAt
<1> HIDE DEF rows
<1>6. ASSUME NEW t, NEW y, NEW k \in Ids, \A p \in pieces : place[p] # k
      PROVE  /\ k \in Owed(t, y)' <=> k \in Owed(t, y)
             /\ TotalDays'[k] = TotalDays[k]
  <2>1. requests'[k] = requests[k]
    BY <1>5, <1>6
  <2> QED BY <2>1 DEF Owed, Claims, Charged, HasStatus, YearOf, TotalDays
<1>7. ASSUME NEW t \in Capped, NEW y \in Years
      PROVE  OwedDays(t, y)' <= OwedDays(t, y) \/ OwedDays(t, y)' <= Earned[t][y]
  <2> DEFINE drawn == {p \in pieces : YearOf(p.from) = y}
  <2>1. ASSUME NEW p \in pieces, place[p] \in Owed(t, y)' PROVE t = type /\ p \in drawn
    <3>1. requests'[place[p]].type = t /\ YearOf(requests'[place[p]].from) = y
      BY <2>1 DEF Owed, YearOf
    <3> QED BY <1>2, <1>5, <3>1
  <2>2. CASE t # type \/ drawn = {}
    <3>1. \A k \in Ids : k \in Owed(t, y)' => k \in Owed(t, y) /\ TotalDays'[k] = TotalDays[k]
      BY <1>6, <2>1, <2>2
    <3> QED BY <3>1, OwedShrinks
  <2>3. CASE t = type /\ drawn # {}
    <3> DEFINE S == {place[p] : p \in drawn}
               B == Bill(t, y)
               G == DaysOf(drawn)
               w == TotalDays
               v == TotalDays'
    <3>1. Total(drawn) <= Earned[t][y] - used[t][y]
      BY <1>4, <2>3 DEF BalanceCovers, Capped
    <3>2. B \in SUBSET Ids /\ IsFiniteSet(B)
      BY BillFinite
    <3>3. S \in SUBSET Ids
      BY <1>5
    <3>4. B \cap S = {}
      BY <1>5 DEF Bill, Charged, HasStatus, Granted
    <3>5. ASSUME NEW k, k \in Owed(t, y)' PROVE k \in B \cup S
      <4>1. k \in Ids
        BY <3>5 DEF Owed
      <4>2. CASE \E p \in pieces : place[p] = k
        BY <2>1, <3>5, <4>2
      <4>3. CASE \A p \in pieces : place[p] # k
        <5>1. k \in Owed(t, y)
          BY <1>6, <3>5, <4>1, <4>3
        <5>2. ~HasStatus(k, Undecided)
          BY <1>4, <2>3, <5>1 DEF AwaitsReview, Owed
        <5> QED BY <5>1, <5>2 DEF Owed, Claims, Bill
      <4> QED BY <4>2, <4>3
    <3>6. \A p \in pieces : Span(place[p])' = p.from..p.to
      BY <1>2, <1>5 DEF Span
    <3>7. \A x \in S : Span(x)' \subseteq G
      BY <3>6 DEF DaysOf
    <3>8. \A x, z \in S : x # z => Span(x)' \cap Span(z)' = {}
      <4>1. ASSUME NEW x \in S, NEW z \in S, x # z PROVE Span(x)' \cap Span(z)' = {}
        <5>1. PICK p \in drawn : x = place[p]
          OBVIOUS
        <5>2. PICK q \in drawn : z = place[q]
          OBVIOUS
        <5>3. p # q /\ p \in pieces /\ q \in pieces
          BY <4>1, <5>1, <5>2
        <5>4. (p.from..p.to) \cap (q.from..q.to) = {}
          BY <1>3, <5>3
        <5> QED BY <3>6, <5>1, <5>2, <5>3, <5>4
      <4> QED BY <4>1
    <3>9. IsFiniteSet(G) /\ Cardinality(G) = Total(drawn)
      <4>1. G \subseteq Days
        BY <1>2, WorkflowAssumption DEF DaysOf, Days
      <4>2. IsFiniteSet(Days)
        BY FS_Interval, WorkflowAssumption DEF Days
      <4>3. Cardinality(G) = Total(drawn)
        BY DEF DaysOf, Total
      <4> HIDE DEF G
      <4> QED BY <4>1, <4>2, <4>3, FS_Subset
    <3>10. /\ SumFunctionOnSet(v, B) \in Nat /\ Cardinality(G) \in Nat
           /\ OwedDays(t, y)' <= SumFunctionOnSet(v, B) + Cardinality(G)
      <4> DEFINE R == Owed(t, y)'
      <4>1. R \in SUBSET (B \cup S)
        BY <3>5
      <4> HIDE DEF S, B, G, R
      <4>2. /\ SumFunctionOnSet(v, B) \in Nat /\ Cardinality(G) \in Nat
            /\ SumFunctionOnSet(v, R) <= SumFunctionOnSet(v, B) + Cardinality(G)
        BY <3>2, <3>3, <3>4, <3>7, <3>8, <3>9, <4>1, RowsAdd
      <4> QED BY <4>2 DEF OwedDays, R
    <3>11. v \in [Ids -> Nat] /\ w \in [Ids -> Nat]
      BY SpansAreCounted, SpansAreCountedNext DEF SpansCounted
    <3>12. SumFunctionOnSet(v, B) = SumFunctionOnSet(w, B)
      <4>1. ASSUME NEW x \in B PROVE v[x] = w[x]
        <5>1. x \in Ids /\ requests[x].status # "NONE"
          BY DEF Bill, Charged, HasStatus, Granted
        <5>2. \A p \in pieces : place[p] # x
          BY <1>5, <5>1
        <5> QED BY <1>6, <5>1, <5>2
      <4> HIDE DEF B, v, w
      <4> QED BY <3>2, <3>11, <4>1, SumSame
    <3>13. SumFunctionOnSet(w, B) = used[t][y] /\ used[t][y] \in Nat /\ Earned[t][y] \in Nat
      BY EarnedNat DEF Books, Capped, TypeOK
    <3>14. OwedDays(t, y)' \in Nat
      BY OwedNatNext
    <3> HIDE DEF B, G, v, w
    <3> QED BY <3>1, <3>9, <3>10, <3>12, <3>13, <3>14
  <2> QED BY <2>2, <2>3
<1> QED BY <1>7, AffordKept

LEMMA ExtensionAfford ==
  ASSUME TypeOK, TypeOK', Ordered, Ordered', Afford, NEW i \in Ids, RequestExtension(i)
  PROVE  Afford'
<1> DEFINE asked == [from |-> requests[i].to + 1, to |-> requests[i].to + ExtensionDays]
           rows  == [p \in {asked} |-> Filed(requests[i].type, p, i)]
<1>1. PICK place \in Placements({asked}) : requests' = Inserted(requests, place, rows)
  BY DEF RequestExtension
<1>2. \A p \in {asked} : /\ rows[p].status = "PENDING" /\ rows[p].splitFrom = NoId
                         /\ rows[p].ext = i
  BY DEF Filed, NoRequest
<1>3. /\ \A j \in Ids : requests[j].status # "NONE" => requests'[j] = requests[j]
      /\ \A j \in Ids : requests[j].status = "NONE" =>
           requests'[j] = requests[j] \/ \E p \in {asked} : requests'[j] = rows[p]
  <2> HIDE DEF rows, asked
  <2> QED BY <1>1, <1>2, InsertionAdvances
<1>4. i # NoId
  BY DEF Ids, NoId
<1> HIDE DEF rows, asked
<1>5. ASSUME NEW t, NEW y, NEW k \in Ids, k \in Owed(t, y)'
      PROVE  k \in Owed(t, y) /\ TotalDays'[k] = TotalDays[k]
  <2>1. requests'[k] = requests[k]
    <3>1. requests'[k].ext = NoId
      BY <1>5 DEF Owed, Claims, Charged
    <3> QED BY <1>2, <1>3, <1>4, <3>1
  <2> QED BY <1>5, <2>1 DEF Owed, Claims, Charged, HasStatus, YearOf, TotalDays
<1>6. \A t \in Capped, y \in Years : OwedDays(t, y)' <= OwedDays(t, y)
  BY <1>5, OwedShrinks
<1> QED BY <1>6, AffordKept

\* What is owed is affordable, as long as no leave was cut at the reset.
InMeans == InLedger /\ (~SplitAcrossReset => Afford)

LEMMA MeansAreCover == InMeans => NotOverdrawn
<1> SUFFICES ASSUME InMeans PROVE NotOverdrawn
  OBVIOUS
<1>1. TypeOK /\ Ordered /\ LedgerExact /\ (~SplitAcrossReset => Afford)
  BY DEF InMeans, InLedger, Explained
<1>2. CASE SplitAcrossReset
  BY <1>2 DEF NotOverdrawn
<1>3. CASE ~SplitAcrossReset
  BY <1>1, <1>3, BooksAreLedger, AffordIsCover
<1> QED BY <1>2, <1>3

LEMMA AffordStep ==
  ASSUME TypeOK, TypeOK', RowsInOrder, Ordered, Ordered', ReviewersActInTurn, Books, Afford,
         ~SplitAcrossReset', [Next]_vars
  PROVE  Afford'
<1>1. ASSUME NEW type \in LeaveTypes, NEW pieces \in Filings, FileRequests(type, pieces)
      PROVE  Afford'
  BY <1>1, FilingAfford
<1>2. ASSUME NEW i \in Ids, RequestExtension(i) PROVE Afford'
  BY <1>2, ExtensionAfford
<1>3. TRUE \in BOOLEAN
  OBVIOUS
<1>4. ASSUME NEW i \in Ids, \/ Approve(i) \/ Resubmit(i) \/ ApproveCancellation(i)
                            \/ DenyCancellation(i) \/ Lapse(i)
      PROVE  Afford'
  BY <1>3, <1>4, DecisionAfford
<1>5. ASSUME NEW i \in Ids, NEW revise \in BOOLEAN, Reject(i, revise) PROVE Afford'
  BY <1>5, DecisionAfford
<1>6. ASSUME NEW i \in Ids, NEW days \in SUBSET Span(i), NEW bySelf \in BOOLEAN,
             Cancel(i, days, bySelf)
      PROVE  Afford'
  BY <1>6, CancelAfford
<1>7. CASE \/ \E day \in Days : TimeIn(day) \/ FlagTimeIn(day)
           \/ \E day \in Days : \E valid \in BOOLEAN : ReviewFlagged(day, valid)
           \/ NextDay
           \/ UNCHANGED vars
  <2>1. requests' = requests
    BY <1>7 DEF TimeIn, FlagTimeIn, ReviewFlagged, NextDay, vars
  <2>2. TotalDays' = TotalDays
    BY <2>1 DEF TotalDays, Length
  <2>3. ASSUME NEW t, NEW y PROVE Owed(t, y)' = Owed(t, y)
    BY <2>1 DEF Owed, Claims, Charged, HasStatus, YearOf
  <2> QED BY <2>2, <2>3 DEF Afford, OwedDays
<1> QED BY <1>1, <1>2, <1>4, <1>5, <1>6, <1>7 DEF Next

\* The days of a capped leave type that are charged or may still be granted
\* fit in what was earned, although the balance is looked at only when leave
\* is filed (fileRequests) and several ranges and two leave years draw on it,
\* as long as no leave was cut at the reset and reviewers decide only
\* requests that wait for a decision or were approved.
THEOREM NothingIsOverdrawn ==
  ASSUME ReviewersActInTurn
  PROVE  Spec => []NotOverdrawn
<1>0. ReviewersLeaveCancelled
  BY DEF ReviewersActInTurn, ReviewersLeaveCancelled, Undecided
<1>1. Init => InMeans
  <2> SUFFICES ASSUME Init PROVE InMeans
    OBVIOUS
  <2>1. InLedger
    BY InitLedger
  <2>2. Afford
    <3>1. ASSUME NEW t \in Capped, NEW y \in Years PROVE OwedDays(t, y) <= Earned[t][y]
      <4>1. Owed(t, y) = {}
        BY DEF Owed, Claims, Charged, HasStatus, Undecided, Granted, Init, NoRequest
      <4>2. TotalDays \in [Ids -> Nat]
        BY <2>1, SpansAreCounted DEF SpansCounted, InLedger, Explained
      <4>3. SumFunctionOnSet(TotalDays, {}) = 0
        BY <4>2, SumEmpty
      <4>4. Earned[t][y] \in Nat
        BY EarnedNat
      <4> QED BY <4>1, <4>3, <4>4 DEF OwedDays
    <3> QED BY <3>1 DEF Afford
  <2> QED BY <2>1, <2>2 DEF InMeans
<1>2. InMeans /\ [Next]_vars => InMeans'
  <2> SUFFICES ASSUME InMeans, [Next]_vars PROVE InMeans'
    OBVIOUS
  <2>1. InLedger /\ InLedger'
    BY <1>0, StepLedger DEF InMeans
  <2>2. /\ TypeOK /\ TypeOK' /\ RowsInOrder /\ Ordered /\ Ordered' /\ LedgerExact
    BY <2>1 DEF InLedger, Explained
  <2>3. ASSUME ~SplitAcrossReset' PROVE Afford'
    <3>1. ~SplitAcrossReset
      BY <2>2, <2>3, SplitStays
    <3>2. Books /\ Afford
      BY <2>2, <3>1, BooksAreLedger DEF InMeans
    <3> QED BY <2>2, <2>3, <3>2, AffordStep
  <2> QED BY <2>1, <2>3 DEF InMeans
<1>3. InMeans => NotOverdrawn
  BY MeansAreCover
<1> QED BY <1>1, <1>2, <1>3, PTL DEF Spec

-----------------------------------------------------------------------------
(***************************************************************************)
(* 8. Extensions.                                                          *)
(***************************************************************************)
\* An extension points at a request that exists.
ExtensionsHang ==
  \A e \in Ids : requests[e].ext # NoId => requests[requests[e].ext].status # "NONE"

\* The standing extensions of the leave whose first row is r.
Exts(r) == {e \in Ids : /\ HasStatus(e, Standing) /\ requests[e].ext # NoId
                        /\ Root(requests[e].ext) = r}

ExtensionsFit == \A r : SumFunctionOnSet(TotalDays, Exts(r)) <= ExtensionDays

LEMMA ExtRootStays ==
  ASSUME TypeOK, TypeOK', RowsInOrder, RowsAdvance, ExtensionsHang, NEW e \in Ids,
         NEW x \in Ids, requests[e].ext = x, requests'[e].ext = x
  PROVE  Root(requests[e].ext)' = Root(requests[e].ext)
<1>1. x # NoId
  BY DEF Ids, NoId
<1>2. requests[x].status # "NONE"
  BY <1>1 DEF ExtensionsHang
<1>3. Root(x)' = Root(x)
  BY <1>2, RootsStay
<1> QED BY <1>3

\* A row that hung from the same request and stood stays where it was.
LEMMA SameExts ==
  ASSUME TypeOK, TypeOK', RowsInOrder, RowsAdvance, ExtensionsHang, NEW k \in Ids, NEW r,
         requests'[k].ext = requests[k].ext, k \in Exts(r)',
         requests[k].status \in Standing
  PROVE  k \in Exts(r)
<1>1. requests'[k].ext # NoId /\ Root(requests[k].ext)' = r
  BY DEF Exts
<1>2. PICK x \in Ids : requests[k].ext = x
  BY <1>1 DEF TypeOK, Request
<1>3. Root(requests[k].ext)' = Root(requests[k].ext)
  BY <1>2, ExtRootStays
<1> QED BY <1>1, <1>3 DEF Exts, HasStatus

LEMMA ExtsFinite ==
  ASSUME NEW r
  PROVE  Exts(r) \in SUBSET Ids /\ IsFiniteSet(Exts(r))
<1>1. Exts(r) \in SUBSET Ids
  BY DEF Exts
<1> QED BY <1>1, IdsFinite, FS_Subset

LEMMA ExtsShrink ==
  ASSUME TypeOK, TypeOK', Ordered, Ordered', ExtensionsFit, NEW r,
         \A k \in Ids : k \in Exts(r)' => k \in Exts(r) /\ TotalDays'[k] = TotalDays[k]
  PROVE  SumFunctionOnSet(TotalDays, Exts(r))' <= ExtensionDays
<1> DEFINE S == Exts(r)
           R == Exts(r)'
           w == TotalDays
           v == TotalDays'
<1>1. /\ S \in SUBSET Ids /\ IsFiniteSet(S) /\ R \in SUBSET S
      /\ \A k \in R : v[k] = w[k]
  <2>1. R \subseteq Ids
    BY DEF Exts
  <2> QED BY <2>1, ExtsFinite
<1>2. w \in [Ids -> Nat] /\ v \in [Ids -> Nat]
  BY SpansAreCounted, SpansAreCountedNext DEF SpansCounted
<1>3. SumFunctionOnSet(w, S) <= ExtensionDays /\ ExtensionDays \in Nat
  BY WorkflowAssumption DEF ExtensionsFit
<1>4. SumFunctionOnSet(v, R) <= ExtensionDays
  <2> HIDE DEF S, R, w, v
  <2>1. R \in SUBSET Ids /\ IsFiniteSet(R)
    BY <1>1, FS_Subset
  <2>2. SumFunctionOnSet(v, R) = SumFunctionOnSet(w, R)
    BY <1>1, <1>2, <2>1, SumSame
  <2>3. SumFunctionOnSet(w, R) <= SumFunctionOnSet(w, S)
    BY <1>1, <1>2, SumMonotone
  <2>4. SumFunctionOnSet(w, R) \in Nat /\ SumFunctionOnSet(w, S) \in Nat
    BY <1>1, <1>2, <2>1, SumType
  <2> QED BY <1>3, <2>2, <2>3, <2>4
<1> QED BY <1>4

\* What every step of the module needs to keep: the rows hang, and the
\* extensions of each leave fit.
ExtensionsKept == ExtensionsHang' /\ ExtensionsFit'

LEMMA DecisionExtends ==
  ASSUME TypeOK, TypeOK', RowsInOrder, RowsAdvance, Ordered, Ordered',
         ReviewersActOnStanding, ExtensionsHang, ExtensionsFit,
         NEW i \in Ids, NEW revise \in BOOLEAN,
         \/ Approve(i) \/ Reject(i, revise) \/ Resubmit(i)
         \/ ApproveCancellation(i) \/ DenyCancellation(i) \/ Lapse(i)
  PROVE  ExtensionsKept
<1>1. OneRow(i)
  BY DecisionIsOneRow
<1>2. requests[i].status \in Standing
  BY DEF ReviewersActOnStanding, Approve, Reject, Resubmit, ApproveCancellation,
         DenyCancellation, Lapse, LapseCandidates, HasStatus, Standing, Undecided, Granted
<1>3. \A k \in Ids : /\ requests'[k].ext = requests[k].ext /\ TotalDays'[k] = TotalDays[k]
                     /\ requests'[k].status \in Standing => requests[k].status \in Standing
  <2>1. ASSUME NEW k \in Ids
        PROVE  /\ requests'[k].ext = requests[k].ext /\ TotalDays'[k] = TotalDays[k]
               /\ requests'[k].status \in Standing => requests[k].status \in Standing
    BY <1>1, <1>2 DEF OneRow, TotalDays, Length
  <2> QED BY <2>1
<1>4. ExtensionsHang'
  <2>1. ASSUME NEW e \in Ids, requests'[e].ext # NoId
        PROVE  requests'[requests'[e].ext].status # "NONE"
    <3>1. PICK x \in Ids : requests[e].ext = x
      BY <1>3, <2>1 DEF TypeOK, Request
    <3>2. requests[x].status # "NONE"
      BY <1>3, <2>1, <3>1 DEF ExtensionsHang
    <3>3. requests'[x].status # "NONE"
      BY <3>2 DEF RowsAdvance
    <3> QED BY <1>3, <3>1, <3>3
  <2> QED BY <2>1 DEF ExtensionsHang
<1>5. ASSUME NEW r PROVE SumFunctionOnSet(TotalDays, Exts(r))' <= ExtensionDays
  <2>1. ASSUME NEW k \in Ids, k \in Exts(r)' PROVE k \in Exts(r) /\ TotalDays'[k] = TotalDays[k]
    <3>1. requests[k].status \in Standing
      BY <1>3, <2>1 DEF Exts, HasStatus
    <3> QED BY <1>3, <2>1, <3>1, SameExts
  <2> QED BY <2>1, ExtsShrink
<1> QED BY <1>4, <1>5 DEF ExtensionsKept, ExtensionsFit

LEMMA FilingExtends ==
  ASSUME TypeOK, TypeOK', RowsInOrder, Ordered, Ordered', ExtensionsHang, ExtensionsFit,
         NEW type \in LeaveTypes, NEW pieces \in Filings, FileRequests(type, pieces)
  PROVE  ExtensionsKept
<1> DEFINE rows == [p \in pieces |-> Filed(type, p, NoId)]
<1>1. PICK place \in Placements(pieces) : requests' = Inserted(requests, place, rows)
  BY DEF FileRequests
<1>2. \A p \in pieces : /\ rows[p].status = "PENDING" /\ rows[p].splitFrom = NoId
                        /\ rows[p].ext = NoId
  BY DEF Filed, NoRequest
<1> HIDE DEF rows
<1>3. /\ RowsAdvance
      /\ \A j \in Ids : requests[j].status # "NONE" => requests'[j] = requests[j]
      /\ \A j \in Ids : requests[j].status = "NONE" =>
           requests'[j] = requests[j] \/ \E p \in pieces : requests'[j] = rows[p]
  BY <1>1, <1>2, InsertionAdvances
<1>4. \A k \in Ids : requests'[k].ext # NoId => requests'[k] = requests[k]
  BY <1>2, <1>3
<1>5. ExtensionsHang'
  <2>1. ASSUME NEW e \in Ids, requests'[e].ext # NoId
        PROVE  requests'[requests'[e].ext].status # "NONE"
    <3>1. requests'[e] = requests[e]
      BY <1>4, <2>1
    <3>2. PICK x \in Ids : requests[e].ext = x
      BY <2>1, <3>1 DEF TypeOK, Request
    <3>3. requests[x].status # "NONE"
      BY <2>1, <3>1, <3>2 DEF ExtensionsHang
    <3> QED BY <1>3, <3>1, <3>2, <3>3
  <2> QED BY <2>1 DEF ExtensionsHang
<1>6. ASSUME NEW r PROVE SumFunctionOnSet(TotalDays, Exts(r))' <= ExtensionDays
  <2>1. ASSUME NEW k \in Ids, k \in Exts(r)' PROVE k \in Exts(r) /\ TotalDays'[k] = TotalDays[k]
    <3>1. requests'[k] = requests[k]
      BY <1>4, <2>1 DEF Exts
    <3>2. requests[k].status \in Standing
      BY <2>1, <3>1 DEF Exts, HasStatus
    <3>3. k \in Exts(r)
      BY <1>3, <2>1, <3>1, <3>2, SameExts
    <3> QED BY <3>1, <3>3 DEF TotalDays
  <2> QED BY <2>1, ExtsShrink
<1> QED BY <1>5, <1>6 DEF ExtensionsKept, ExtensionsFit

LEMMA TimeExtends ==
  ASSUME requests' = requests, ExtensionsHang, ExtensionsFit
  PROVE  ExtensionsKept
<1>1. TotalDays' = TotalDays
  BY DEF TotalDays, Length
<1>3. \A e \in Ids : Root(requests[e].ext)' = Root(requests[e].ext)
  BY DEF Root
<1>4. ASSUME NEW r PROVE Exts(r)' = Exts(r)
  BY <1>3 DEF Exts, HasStatus
<1>5. ExtensionsHang'
  BY DEF ExtensionsHang
<1> QED BY <1>1, <1>4, <1>5 DEF ExtensionsKept, ExtensionsFit

LEMMA ExtensionExtends ==
  ASSUME TypeOK, TypeOK', RowsInOrder, Ordered, Ordered', ExtensionsHang, ExtensionsFit,
         NEW i \in Ids, RequestExtension(i)
  PROVE  ExtensionsKept
<1> DEFINE asked == [from |-> requests[i].to + 1, to |-> requests[i].to + ExtensionDays]
           rows  == [p \in {asked} |-> Filed(requests[i].type, p, i)]
<1>1. PICK place \in Placements({asked}) : requests' = Inserted(requests, place, rows)
  BY DEF RequestExtension
<1>2. /\ \A p \in {asked} : /\ rows[p].status = "PENDING" /\ rows[p].splitFrom = NoId
                            /\ rows[p].ext = i
      /\ Length(rows[asked]) = ExtensionDays
  <2>1. Length(rows[asked]) = ExtensionDays
    <3>1. requests[i].to \in Int /\ ExtensionDays \in Int
      BY WorkflowAssumption DEF TypeOK, Request, Days
    <3>2. /\ rows[asked].from = requests[i].to + 1
          /\ rows[asked].to = requests[i].to + ExtensionDays
      BY DEF Filed, NoRequest
    <3> HIDE DEF rows
    <3> QED BY <3>1, <3>2 DEF Length
  <2> QED BY <2>1 DEF Filed, NoRequest
<1>3. i # NoId
  BY DEF Ids, NoId
<1>4. /\ requests[i].status = "APPROVED"
      /\ \A j \in Family(i) : ~HasStandingExtension(j)
  BY DEF RequestExtension
<1> HIDE DEF rows
<1>5. /\ place[asked] \in Ids /\ requests[place[asked]].status = "NONE"
      /\ requests'[place[asked]] = rows[asked]
      /\ \A k \in Ids : k # place[asked] => requests'[k] = requests[k]
  <2> HIDE DEF asked
  <2>1. /\ place \in [{asked} -> Ids]
        /\ \A p \in {asked} : requests[place[p]].status = "NONE" /\ requests'[place[p]] = rows[p]
        /\ \A k \in Ids : (\A p \in {asked} : place[p] # k) => requests'[k] = requests[k]
    BY <1>1, InsertedAt
  <2> QED BY <2>1
<1>6. PICK new \in Ids : new = place[asked]
  BY <1>5
<1>7. /\ requests[new].status = "NONE" /\ requests'[new].ext = i
      /\ Length(requests'[new]) = ExtensionDays
      /\ \A k \in Ids : k # new => requests'[k] = requests[k]
  BY <1>2, <1>5, <1>6
<1>8. RowsAdvance
  <2> HIDE DEF asked
  <2> QED BY <1>1, <1>2, InsertionAdvances
<1> HIDE DEF asked
<1>9. Root(i)' = Root(i) /\ requests'[i].status # "NONE"
  BY <1>4, <1>8, RootsStay DEF RowsAdvance
<1>10. ExtensionsHang'
  <2>1. ASSUME NEW e \in Ids, requests'[e].ext # NoId
        PROVE  requests'[requests'[e].ext].status # "NONE"
    <3>1. CASE e = new
      BY <1>7, <1>9, <3>1
    <3>2. CASE e # new
      <4>1. requests'[e] = requests[e]
        BY <1>7, <3>2
      <4>2. PICK x \in Ids : requests[e].ext = x
        BY <2>1, <4>1 DEF TypeOK, Request
      <4>3. requests[x].status # "NONE"
        BY <2>1, <4>1, <4>2 DEF ExtensionsHang
      <4> QED BY <1>8, <4>1, <4>2, <4>3 DEF RowsAdvance
    <3> QED BY <3>1, <3>2
  <2> QED BY <2>1 DEF ExtensionsHang
<1>11. ASSUME NEW r, NEW k \in Ids, k \in Exts(r)', k # new
       PROVE  k \in Exts(r) /\ TotalDays'[k] = TotalDays[k]
  <2>1. requests'[k] = requests[k]
    BY <1>7, <1>11
  <2>2. requests[k].status \in Standing
    BY <1>11, <2>1 DEF Exts, HasStatus
  <2>3. k \in Exts(r)
    BY <1>8, <1>11, <2>1, <2>2, SameExts
  <2> QED BY <2>1, <2>3 DEF TotalDays
<1>12. ASSUME NEW r, new \in Exts(r)' PROVE Exts(r) = {}
  <2>1. Root(requests[new].ext)' = r
    BY <1>12 DEF Exts
  <2>2. r = Root(i)
    BY <1>7, <1>9, <2>1
  <2>3. ASSUME NEW e \in Exts(r) PROVE FALSE
    <3>1. /\ e \in Ids /\ HasStatus(e, Standing) /\ requests[e].ext # NoId
          /\ Root(requests[e].ext) = r
      BY DEF Exts
    <3>2. PICK j \in Ids : requests[e].ext = j
      BY <3>1 DEF TypeOK, Request
    <3>3. requests[j].status # "NONE"
      BY <3>1, <3>2 DEF ExtensionsHang
    <3>4. j \in Family(i)
      BY <2>2, <3>1, <3>2, <3>3 DEF Family
    <3> QED BY <1>4, <3>1, <3>2, <3>4 DEF HasStandingExtension
  <2> QED BY <2>3
<1>13. ASSUME NEW r PROVE SumFunctionOnSet(TotalDays, Exts(r))' <= ExtensionDays
  <2>1. CASE new \notin Exts(r)'
    <3>1. \A k \in Ids : k \in Exts(r)' => k \in Exts(r) /\ TotalDays'[k] = TotalDays[k]
      BY <1>11, <2>1
    <3> QED BY <3>1, ExtsShrink
  <2>2. CASE new \in Exts(r)'
    <3>1. Exts(r)' \subseteq Ids
      BY DEF Exts
    <3>2. Exts(r)' = {} \cup {new}
      BY <1>11, <1>12, <2>2, <3>1
    <3> DEFINE v == TotalDays'
    <3>3. v \in [Ids -> Nat] /\ v[new] = ExtensionDays
      BY <1>7, SpansAreCountedNext DEF SpansCounted, TotalDays
    <3> HIDE DEF v
    <3>4. IsFiniteSet({}) /\ {} \in SUBSET Ids
      BY FS_EmptySet
    <3>5. SumFunctionOnSet(v, {} \cup {new}) = v[new] + SumFunctionOnSet(v, {})
      BY <3>3, <3>4, SumAdd
    <3>6. SumFunctionOnSet(v, {}) = 0
      BY <3>3, SumEmpty
    <3>7. SumFunctionOnSet(v, Exts(r)') <= ExtensionDays
      BY <3>2, <3>3, <3>5, <3>6, WorkflowAssumption
    <3> QED BY <3>7 DEF v
  <2> QED BY <2>1, <2>2
<1> QED BY <1>10, <1>13 DEF ExtensionsKept, ExtensionsFit

LEMMA CancelExtends ==
  ASSUME TypeOK, TypeOK', RowsInOrder, Ordered, Ordered', ExtensionsHang, ExtensionsFit,
         NEW i \in Ids, NEW days \in SUBSET Span(i), NEW bySelf \in BOOLEAN,
         Cancel(i, days, bySelf)
  PROVE  ExtensionsKept
<1>r. PICK runs : runs = Runs(requests[i].from, requests[i].to, days)
  OBVIOUS
<1>0. PICK kept, owner : Cuts(i, days, bySelf, kept, owner)
  BY CancelCuts
<1>1. requests[i].status \in CancellableStatuses /\ requests[i].status \in Standing
  BY DEF Cancel, HasStatus, CancellableStatuses, Standing, Undecided, Granted
<1>2. RowsAdvance
  BY <1>0, <1>1, CutsAdvance
<1>3. /\ owner \in [runs -> Ids] /\ \E p \in runs : owner[p] = i
      /\ \A k \in Ids : (\A p \in runs : owner[p] # k) =>
           requests'[k] = requests[k] /\ k # i
      /\ \A p \in runs : requests'[owner[p]].ext = requests[i].ext
  BY <1>r, <1>0 DEF Cuts
<1>4. ASSUME NEW e \in Ids, requests'[e].ext # NoId
      PROVE  \E k \in Ids, x \in Ids :
               /\ requests[k].ext = x /\ requests'[e].ext = x
               /\ requests[x].status # "NONE" /\ requests'[x].status # "NONE"
               /\ k = e \/ k = i
               /\ (\A p \in runs : owner[p] # e) => k = e /\ requests'[e] = requests[e]
               /\ Root(x)' = Root(x)
  <2>1. \E k \in Ids : /\ requests[k].ext = requests'[e].ext /\ (k = e \/ k = i)
                       /\ (\A p \in runs : owner[p] # e) => k = e /\ requests'[e] = requests[e]
    BY <1>3
  <2>2. PICK k \in Ids : /\ requests[k].ext = requests'[e].ext /\ (k = e \/ k = i)
                         /\ (\A p \in runs : owner[p] # e) => k = e /\ requests'[e] = requests[e]
    BY <2>1
  <2>3. PICK x \in Ids : requests[k].ext = x
    BY <1>4, <2>2 DEF TypeOK, Request
  <2>4. requests[x].status # "NONE"
    BY <1>4, <2>2, <2>3 DEF ExtensionsHang
  <2>5. requests'[x].status # "NONE"
    BY <1>2, <2>4 DEF RowsAdvance
  <2>6. Root(x)' = Root(x)
    BY <1>2, <2>4, RootsStay
  <2> QED BY <2>2, <2>3, <2>4, <2>5, <2>6
<1>5. ExtensionsHang'
  BY <1>4 DEF ExtensionsHang
<1>6. ASSUME NEW r, NEW k \in Ids, k \in Exts(r)', \A p \in runs : owner[p] # k
      PROVE  k \in Exts(r) /\ TotalDays'[k] = TotalDays[k]
  <2>1. requests'[k] = requests[k]
    BY <1>3, <1>6
  <2>2. requests[k].status \in Standing
    BY <1>6, <2>1 DEF Exts, HasStatus
  <2>3. k \in Exts(r)
    BY <1>2, <1>6, <2>1, <2>2, SameExts
  <2> QED BY <2>1, <2>3 DEF TotalDays
<1>7. ASSUME NEW r PROVE SumFunctionOnSet(TotalDays, Exts(r))' <= ExtensionDays
  <2>1. CASE i \in Exts(r)
    <3>1. Exts(r) \in SUBSET Ids /\ Exts(r)' \in SUBSET Ids
      BY DEF Exts
    <3>2. \A k \in Exts(r) : requests[k].status # "NONE"
      BY DEF Exts, HasStatus, Standing, Undecided, Granted
    <3>3. \A k \in Exts(r)' : (\A p \in runs : owner[p] # k) => k \in Exts(r)
      BY <1>6, <3>1
    <3>4. SumFunctionOnSet(TotalDays', Exts(r)') <= SumFunctionOnSet(TotalDays, Exts(r))
      BY <1>r, <1>0, <2>1, <3>1, <3>2, <3>3, PiecesAddNothing
    <3>5. SumFunctionOnSet(TotalDays, Exts(r)) <= ExtensionDays /\ ExtensionDays \in Nat
      BY WorkflowAssumption DEF ExtensionsFit
    <3>6. /\ SumFunctionOnSet(TotalDays', Exts(r)') \in Nat
          /\ SumFunctionOnSet(TotalDays, Exts(r)) \in Nat
      <4>1. TotalDays \in [Ids -> Nat] /\ TotalDays' \in [Ids -> Nat]
        BY SpansAreCounted, SpansAreCountedNext DEF SpansCounted
      <4>2. IsFiniteSet(Exts(r)) /\ IsFiniteSet(Exts(r)')
        BY <3>1, IdsFinite, FS_Subset
      <4>3. SumFunctionOnSet(TotalDays, Exts(r)) \in Nat
        BY <3>1, <4>1, <4>2, SumType
      <4> DEFINE v == TotalDays'
                 R == Exts(r)'
      <4>4. v \in [Ids -> Nat] /\ R \in SUBSET Ids /\ IsFiniteSet(R)
        BY <3>1, <4>1, <4>2
      <4>5. SumFunctionOnSet(v, R) \in Nat
        <5> HIDE DEF v, R
        <5> QED BY <4>4, SumType
      <4> QED BY <4>3, <4>5
    <3> DEFINE a == SumFunctionOnSet(TotalDays', Exts(r)')
               b == SumFunctionOnSet(TotalDays, Exts(r))
    <3>7. a <= ExtensionDays
      <4>1. a \in Nat /\ b \in Nat /\ a <= b /\ b <= ExtensionDays /\ ExtensionDays \in Nat
        BY <3>4, <3>5, <3>6
      <4> HIDE DEF a, b
      <4> QED BY <4>1
    <3> QED BY <3>7
  <2>2. CASE i \notin Exts(r)
    <3>1. ASSUME NEW k \in Ids, k \in Exts(r)' PROVE \A p \in runs : owner[p] # k
      <4>1. requests'[k].ext # NoId /\ Root(requests[k].ext)' = r
        BY <3>1 DEF Exts
      <4>2. PICK j \in Ids, x \in Ids :
               /\ requests[j].ext = x /\ requests'[k].ext = x
               /\ Root(x)' = Root(x)
        BY <1>4, <4>1
      <4>3. Root(x) = r
        BY <4>1, <4>2
      <4>4. requests[i].ext # x
        <5>1. CASE requests[i].ext = x
          BY <1>1, <2>2, <4>1, <4>2, <4>3, <5>1 DEF Exts, HasStatus
        <5> QED BY <5>1
      <4> QED BY <1>3, <4>2, <4>4
    <3>2. \A k \in Ids : k \in Exts(r)' => k \in Exts(r) /\ TotalDays'[k] = TotalDays[k]
      BY <1>6, <3>1
    <3> QED BY <3>2, ExtsShrink
  <2> QED BY <2>1, <2>2
<1> QED BY <1>5, <1>7 DEF ExtensionsKept, ExtensionsFit

\* The extensions of every leave fit in one.
OneExtension == Explained /\ Ordered /\ ExtensionsHang /\ ExtensionsFit

LEMMA StepExtends ==
  ASSUME Explained, Explained', Ordered, Ordered', ReviewersActOnStanding,
         ExtensionsHang, ExtensionsFit, [Next]_vars
  PROVE  ExtensionsKept
<1>0. TypeOK /\ TypeOK' /\ RowsInOrder
  BY DEF Explained
<1>1. ASSUME NEW type \in LeaveTypes, NEW pieces \in Filings, FileRequests(type, pieces)
      PROVE  ExtensionsKept
  BY <1>0, <1>1, FilingExtends
<1>2. ASSUME NEW i \in Ids, RequestExtension(i) PROVE ExtensionsKept
  BY <1>0, <1>2, ExtensionExtends
<1>3. ASSUME NEW i \in Ids, NEW revise \in BOOLEAN,
             \/ Approve(i) \/ Reject(i, revise) \/ Resubmit(i)
             \/ ApproveCancellation(i) \/ DenyCancellation(i) \/ Lapse(i)
      PROVE  ExtensionsKept
  <2>1. OneRow(i)
    BY <1>0, <1>3, DecisionIsOneRow
  <2>2. requests[i].status # "NONE"
    BY <1>3 DEF Approve, Reject, Resubmit, ApproveCancellation, DenyCancellation, Lapse,
       LapseCandidates, HasStatus, ReviewersActOnStanding, Standing, Undecided, Granted
  <2>5. requests'[i].status \in {"APPROVED", "NEEDS_REVISION", "REJECTED", "PENDING",
                                "CANCELLED", "LAPSED"}
    BY <1>0, <1>3 DEF Approve, Reject, Resubmit, ApproveCancellation, DenyCancellation, Lapse,
       TypeOK, Request
  <2>3. \A j \in Ids : /\ requests'[j].splitFrom = requests[j].splitFrom
                       /\ requests[j].status # "NONE" => requests'[j].status # "NONE"
                       /\ requests[j].status = "NONE" => requests'[j] = requests[j]
    BY <2>1, <2>2, <2>5 DEF OneRow
  <2>4. RowsAdvance
    BY <1>0, <2>3, StatusAdvances
  <2> QED BY <1>0, <1>3, <2>4, DecisionExtends
<1>4. ASSUME NEW i \in Ids, NEW days \in SUBSET Span(i), NEW bySelf \in BOOLEAN,
             Cancel(i, days, bySelf)
      PROVE  ExtensionsKept
  BY <1>0, <1>4, CancelExtends
<1>5. CASE \/ \E day \in Days : TimeIn(day) \/ FlagTimeIn(day)
           \/ \E day \in Days : \E valid \in BOOLEAN : ReviewFlagged(day, valid)
           \/ NextDay
           \/ UNCHANGED vars
  <2>1. requests' = requests
    BY <1>5 DEF TimeIn, FlagTimeIn, ReviewFlagged, NextDay, vars
  <2> QED BY <2>1, TimeExtends
<1>6. TRUE \in BOOLEAN
  OBVIOUS
<1>7. ASSUME NEW i \in Ids, \/ Approve(i) \/ Resubmit(i) \/ ApproveCancellation(i)
                            \/ DenyCancellation(i) \/ Lapse(i)
      PROVE  ExtensionsKept
  BY <1>3, <1>6, <1>7
<1>8. ASSUME NEW i \in Ids, NEW revise \in BOOLEAN, Reject(i, revise) PROVE ExtensionsKept
  BY <1>3, <1>8
<1> QED BY <1>1, <1>2, <1>4, <1>5, <1>7, <1>8 DEF Next

LEMMA InitExtends == Init => OneExtension
<1> SUFFICES ASSUME Init PROVE OneExtension
  OBVIOUS
<1>1. Explained /\ Ordered
  BY InitLedger DEF InLedger
<1>2. ExtensionsHang
  BY DEF Init, NoRequest, ExtensionsHang
<1>3. ASSUME NEW r PROVE SumFunctionOnSet(TotalDays, Exts(r)) <= ExtensionDays
  <2>1. Exts(r) = {}
    BY DEF Exts, Init, NoRequest
  <2>2. TotalDays \in [Ids -> Nat]
    BY <1>1, SpansAreCounted DEF SpansCounted, Explained
  <2>3. SumFunctionOnSet(TotalDays, {}) = 0
    BY <2>2, SumEmpty
  <2> QED BY <2>1, <2>3, WorkflowAssumption
<1> QED BY <1>1, <1>2, <1>3 DEF OneExtension, ExtensionsFit

\* The extensions that stand of one Maternity leave, however it was cut into
\* pieces and its extension itself cut, refused and asked for again, never add
\* up to more than one extension (getExtensionEligibility looks at the whole
\* family of a split leave), as long as reviewers act on requests that stand.
THEOREM LeaveIsExtendedOnce ==
  ASSUME ReviewersActOnStanding
  PROVE  Spec => []ExtensionOnce
<1>1. OneExtension /\ [Next]_vars => OneExtension'
  <2> SUFFICES ASSUME OneExtension, [Next]_vars PROVE OneExtension'
    OBVIOUS
  <2>1. Explained /\ Explained' /\ Ordered /\ ExtensionsHang /\ ExtensionsFit
    BY StepExplained DEF OneExtension
  <2>2. Ordered'
    BY <2>1, OrderedKept DEF Explained
  <2>3. ExtensionsKept
    BY <2>1, <2>2, StepExtends
  <2> QED BY <2>1, <2>2, <2>3 DEF OneExtension, ExtensionsKept
<1>2. OneExtension => ExtensionOnce
  <2> SUFFICES ASSUME OneExtension, NEW i \in Ids
               PROVE  SumFunctionOnSet(TotalDays, Exts(Root(i))) <= ExtensionDays
    BY DEF ExtensionOnce, Exts
  <2> QED BY DEF OneExtension, ExtensionsFit
<1> QED BY <1>1, <1>2, InitExtends, PTL DEF Spec
=============================================================================
