------------------------- MODULE LeaveReview_proofs -------------------------
(***************************************************************************)
(* Proofs about LeaveReview for any number of requests and callers: every  *)
(* state is well formed, and the lapse job never overwrites a decision.    *)
(* With one client at a time beside the lapse job, the balance ends up     *)
(* with what was granted, and a day is covered by one leave unless a        *)
(* lapsed one is approved late.                                            *)
(***************************************************************************)
EXTENDS LeaveReview, FiniteSetTheorems, TLAPS

\* A lapse in progress has loaded an undecided request.
LapseLoadedUndecided ==
  \A c \in Callers : call[c].at = "guarded" => call[c].seen \in Undecided

LEMMA OutcomeIsAStatus ==
  ASSUME NEW k
  PROVE  Outcome(k) \in LeaveStatus \ {"LAPSED"}
BY DEF Outcome, LeaveStatus, Standing, Undecided, Granted, Closed

LEMMA BalanceChangeIsOne ==
  ASSUME NEW k
  PROVE  BalanceChange(k) \in {-1, 0, 1}
BY DEF BalanceChange

\* Only the lapse job goes to the guarded update.
LEMMA FirstStepType ==
  ASSUME NEW op \in Operations, NEW status
  PROVE  /\ FirstStep(op, status) \in
              {"insert", "attendance", "reload", "update", "guarded", "balance", "stamp"}
         /\ FirstStep(op, status) = "guarded" => op = "lapse"
BY DEF FirstStep, Operations

LEMMA IdleType == Idle \in Call
BY ReviewAssumption DEF Idle, Call, Operations

-----------------------------------------------------------------------------
LEMMA LoadKeepsType ==
  ASSUME TypeOK, NEW c \in Callers, NEW op \in Operations, NEW r \in Reqs, Load(c, op, r)
  PROVE  TypeOK'
<1> DEFINE next == [Idle EXCEPT !.op = op, !.req = r, !.seen = row[r], !.first = row[r],
                                !.at = FirstStep(op, row[r]),
                                !.delta = IF op = "approveCancellation" /\ ~Begun
                                            THEN -1 ELSE 0]
<1>1. row[r] \in LeaveStatus \cup {"NONE"}
  BY DEF TypeOK
<1>2. FirstStep(op, row[r]) \in
        {"insert", "attendance", "reload", "update", "guarded", "balance", "stamp"}
  BY FirstStepType
<1>3. next \in Call
  BY <1>1, <1>2, IdleType, ZenonT(40) DEF Call
<1> QED
  BY <1>3 DEF Load, Goes, stored, TypeOK

LEMMA ReadsKeepType ==
  ASSUME TypeOK, NEW c \in Callers,
         ReadAttendance(c) \/ Reload(c) \/ ReadBalance(c) \/ BreakOff(c)
  PROVE  TypeOK'
<1> DEFINE k == call[c]
<1>1. k \in Call
  BY DEF TypeOK
<1>2. k.req \in Reqs /\ row[k.req] \in LeaveStatus \cup {"NONE"}
  BY <1>1 DEF Call, TypeOK
<1>3. CASE ReadAttendance(c)
  <2>1. [k EXCEPT !.at = "update"] \in Call
    BY <1>1 DEF Call
  <2> QED
    BY <1>3, <2>1, IdleType DEF ReadAttendance, Goes, stored, TypeOK
<1>4. CASE Reload(c)
  <2>1. (k.first = "APPROVED" /\ Begun) \in BOOLEAN
    BY DEF Begun
  <2>2. \A b \in BOOLEAN : [k EXCEPT !.at = "update", !.seen = row[k.req], !.skip = b] \in Call
    BY <1>1, <1>2 DEF Call
  <2>3. [k EXCEPT !.at = "update", !.seen = row[k.req],
                  !.skip = k.first = "APPROVED" /\ Begun] \in Call
    BY <2>1, <2>2
  <2> QED
    BY <1>4, <2>3 DEF Reload, Goes, stored, TypeOK
<1>5. CASE ReadBalance(c)
  <2>1. [k EXCEPT !.at = "store", !.stash = used] \in Call
    BY <1>1 DEF Call, TypeOK
  <2> QED
    BY <1>5, <2>1 DEF ReadBalance, Goes, stored, TypeOK
<1>6. CASE BreakOff(c)
  BY <1>6, IdleType DEF BreakOff, Goes, stored, TypeOK
<1> QED
  BY <1>3, <1>4, <1>5, <1>6

LEMMA WritesKeepType ==
  ASSUME TypeOK, NEW c \in Callers,
         \/ \E r \in Reqs : Insert(c, r)
         \/ Update(c) \/ GuardedLapse(c) \/ StoreBalance(c) \/ StampTimeIn(c)
  PROVE  TypeOK'
<1> DEFINE k == call[c]
<1>1. k \in Call /\ k.req \in Reqs
  BY DEF TypeOK, Call
<1>2. {"PENDING", "LAPSED"} \subseteq LeaveStatus
  BY DEF LeaveStatus, Standing, Undecided, Closed
<1>3. ASSUME NEW r \in Reqs, Insert(c, r) PROVE TypeOK'
  BY <1>2, <1>3, IdleType DEF Insert, Goes, TypeOK
<1>4. CASE Update(c)
  <2>1. Outcome(k) \in LeaveStatus
    BY OutcomeIsAStatus
  <2>2. row' \in [Reqs -> LeaveStatus \cup {"NONE"}]
    BY <1>4, <2>1 DEF Update, TypeOK
  <2>3. taken' \subseteq Reqs /\ denied' \subseteq Reqs /\ doubled' \subseteq Reqs
    BY <1>1, <1>4 DEF Update, TypeOK
  <2>4. \A d \in {-1, 0, 1} : [k EXCEPT !.at = "balance", !.delta = d] \in Call
    BY <1>1 DEF Call
  <2>5. [k EXCEPT !.at = "balance", !.delta = BalanceChange(k)] \in Call
    BY <2>4, BalanceChangeIsOne
  <2>6. call' \in [Callers -> Call]
    BY <1>4, <2>5, IdleType DEF Update, Goes, TypeOK
  <2> QED
    BY <1>4, <2>2, <2>3, <2>6 DEF Update, TypeOK
<1>5. CASE GuardedLapse(c)
  BY <1>2, <1>5, IdleType DEF GuardedLapse, Goes, TypeOK
<1>6. CASE StoreBalance(c)
  <2>1. k.stash \in Nat /\ k.delta \in Int
    BY <1>1 DEF Call
  <2>2. used' \in Nat
    BY <1>6, <2>1 DEF StoreBalance, NextUsed
  <2>3. [k EXCEPT !.at = "update", !.stash = 0] \in Call
    BY <1>1 DEF Call
  <2> QED
    BY <1>6, <2>2, <2>3, IdleType DEF StoreBalance, Goes, TypeOK
<1>7. CASE StampTimeIn(c)
  BY <1>7, IdleType DEF StampTimeIn, Goes, TypeOK
<1> QED
  BY <1>3, <1>4, <1>5, <1>6, <1>7

LEMMA StepKeepsType ==
  ASSUME TypeOK, [Next]_vars
  PROVE  TypeOK'
<1>1. CASE Midnight
  BY <1>1 DEF Midnight, stored, TypeOK
<1>2. CASE UNCHANGED vars
  BY <1>2 DEF vars, stored, TypeOK
<1> QED
  BY <1>1, <1>2, LoadKeepsType, ReadsKeepType, WritesKeepType DEF Next

LEMMA InitType == Init => TypeOK
<1> SUFFICES ASSUME Init PROVE TypeOK
  OBVIOUS
<1>1. call \in [Callers -> Call]
  BY IdleType DEF Init
<1>2. row \in [Reqs -> LeaveStatus \cup {"NONE"}]
  BY DEF Init
<1> QED
  BY <1>1, <1>2 DEF Init, TypeOK

\* Every row, balance and call stays well formed; usedDays in particular is
\* never negative, whichever calls interleave or break off.
THEOREM ReviewTypeOK == Spec => []TypeOK
<1>1. TypeOK /\ [Next]_vars => TypeOK'
  BY StepKeepsType
<1> QED
  BY <1>1, InitType, PTL DEF Spec

-----------------------------------------------------------------------------
LEMMA LapseLoadedInductive ==
  ASSUME TypeOK, LapseLoadedUndecided, [Next]_vars
  PROVE  LapseLoadedUndecided'
<1> SUFFICES ASSUME NEW d \in Callers, call'[d].at = "guarded"
             PROVE  call'[d].seen \in Undecided
  BY DEF LapseLoadedUndecided
<1>1. ASSUME call'[d] = call[d] PROVE call'[d].seen \in Undecided
  BY <1>1 DEF LapseLoadedUndecided
<1>2. Idle.at = "idle"
  BY DEF Idle
<1>3. ASSUME NEW c \in Callers, NEW op \in Operations, NEW r \in Reqs, Load(c, op, r)
      PROVE  call'[d].seen \in Undecided
  <2>1. CASE c # d
    BY <1>1, <1>3, <2>1 DEF Load, Goes, TypeOK
  <2>2. CASE c = d
    <3>1. FirstStep(op, row[r]) = "guarded" /\ call'[d].seen = row[r]
      BY <1>3, <2>2 DEF Load, Goes, TypeOK, Idle
    <3>2. op = "lapse"
      BY <3>1, FirstStepType
    <3>3. row[r] \in Undecided
      BY <1>3, <3>2 DEF Load, Accepts
    <3> QED
      BY <3>1, <3>3
  <2> QED
    BY <2>1, <2>2
<1>4. ASSUME NEW c \in Callers,
             \/ \E r \in Reqs : Insert(c, r)
             \/ ReadAttendance(c) \/ Reload(c) \/ Update(c) \/ GuardedLapse(c)
             \/ ReadBalance(c) \/ StoreBalance(c) \/ StampTimeIn(c) \/ BreakOff(c)
      PROVE  call'[d].seen \in Undecided
  <2>1. CASE c # d
    <3>1. call'[d] = call[d]
      BY <1>4, <2>1 DEF Insert, ReadAttendance, Reload, Update, GuardedLapse, ReadBalance,
                        StoreBalance, StampTimeIn, BreakOff, Goes, TypeOK
    <3> QED
      BY <1>1, <3>1
  <2>2. CASE c = d
    <3>1. call[d] \in Call
      BY DEF TypeOK
    <3>2. call'[d].at # "guarded"
      <4>1. CASE ReadAttendance(c)
        BY <1>2, <2>2, <3>1, <4>1 DEF ReadAttendance, Goes, TypeOK, Call
      <4>2. CASE ReadBalance(c)
        BY <2>2, <3>1, <4>2 DEF ReadBalance, Goes, TypeOK, Call
      <4>3. CASE Reload(c)
        BY <2>2, <3>1, <4>3 DEF Reload, Goes, TypeOK, Call
      <4>4. CASE Update(c)
        BY <1>2, <2>2, <3>1, <4>4 DEF Update, Goes, TypeOK, Call
      <4>5. CASE StoreBalance(c)
        BY <1>2, <2>2, <3>1, <4>5 DEF StoreBalance, Goes, TypeOK, Call
      <4>6. CASE (\E q \in Reqs : Insert(c, q)) \/ GuardedLapse(c) \/ StampTimeIn(c)
                   \/ BreakOff(c)
        BY <1>2, <2>2, <4>6 DEF Insert, GuardedLapse, StampTimeIn, BreakOff, Goes, TypeOK
      <4> QED
        BY <1>4, <4>1, <4>2, <4>3, <4>4, <4>5, <4>6
    <3> QED
      BY <3>2
  <2> QED
    BY <2>1, <2>2
<1>5. CASE Midnight
  BY <1>1, <1>5 DEF Midnight
<1>6. CASE UNCHANGED vars
  BY <1>1, <1>6 DEF vars
<1> QED
  BY <1>3, <1>4, <1>5, <1>6 DEF Next

\* No step turns a decided request into a lapsed one.
LEMMA NoDecisionLapses ==
  ASSUME TypeOK, LapseLoadedUndecided, [Next]_vars, NEW r \in Reqs,
         row[r] \in Granted \cup Closed, row[r] # "LAPSED"
  PROVE  row'[r] # "LAPSED"
<1>1. row[r] \notin Undecided
  BY DEF Undecided, Granted, Closed
<1>2. ASSUME NEW c \in Callers, NEW q \in Reqs, Insert(c, q) PROVE row'[r] # "LAPSED"
  BY <1>2 DEF Insert, TypeOK
<1>3. ASSUME NEW c \in Callers, Update(c) PROVE row'[r] # "LAPSED"
  <2>1. Outcome(call[c]) # "LAPSED"
    BY OutcomeIsAStatus
  <2> QED
    BY <1>3, <2>1 DEF Update, TypeOK
<1>4. ASSUME NEW c \in Callers, GuardedLapse(c) PROVE row'[r] # "LAPSED"
  <2>1. call[c].seen \in Undecided
    BY <1>4 DEF GuardedLapse, LapseLoadedUndecided
  <2> QED
    BY <1>1, <1>4, <2>1 DEF GuardedLapse, StillAsLoaded, TypeOK
<1>5. ASSUME row' = row PROVE row'[r] # "LAPSED"
  BY <1>5
<1> QED
  BY <1>2, <1>3, <1>4, <1>5
     DEF Next, Load, ReadAttendance, Reload, ReadBalance, StoreBalance, StampTimeIn,
         BreakOff, Midnight, vars, stored

\* The lapse job never overwrites a decision written while it was looking
\* (lapseUndecided: "a reviewer deciding the request at the same moment
\* always wins over the automatic lapse"), whoever calls what.
THEOREM ReviewDecisionOutlivesLapse == Spec => DecisionOutlivesLapse
<1> DEFINE Inv  == TypeOK /\ LapseLoadedUndecided
           Keep == \A r \in Reqs : row[r] \in Granted \cup Closed /\ row[r] # "LAPSED"
                                     => row'[r] # "LAPSED"
<1>1. Init => Inv
  BY InitType DEF Init, LapseLoadedUndecided, Idle
<1>2. Inv /\ [Next]_vars => Inv'
  BY StepKeepsType, LapseLoadedInductive
<1>3. Inv /\ [Next]_vars => [Keep]_vars
  BY NoDecisionLapses
<1> QED
  BY <1>1, <1>2, <1>3, PTL DEF Spec, DecisionOutlivesLapse

-----------------------------------------------------------------------------
(***************************************************************************)
(* One client at a time, whose calls come to their end, beside the lapse   *)
(* job.                                                                    *)
(***************************************************************************)
IsClient(c) == Duties[c] \ {"lapse"} # {}

OneClient == \A c, d \in Callers : IsClient(c) /\ IsClient(d) => c = d

ClientsFinish == \A c \in MayFail : ~IsClient(c)

\* Where a call can stand, and what it can have loaded.
Stages(op) ==
  CASE op = "lapse"   -> {"guarded"}
    [] op = "file"    -> {"insert"}
    [] op = "timeIn"  -> {"stamp"}
    [] op = "approve" -> {"attendance", "update", "balance", "store"}
    [] op \in {"override", "cancel"} -> {"reload", "update", "balance", "store"}
    [] op = "approveCancellation" -> {"balance", "store", "update"}
    [] OTHER -> {"update"}

Loads(op) ==
  CASE op = "lapse" -> Undecided
    [] op = "approve" -> {"PENDING", "LAPSED"}
    [] op \in {"reject", "return"} -> {"PENDING"}
    [] op \in {"override", "cancel"} -> CancellableStatuses \cup {"LAPSED"}
    [] op \in {"approveCancellation", "denyCancellation"} -> {"CANCELLATION_PENDING"}
    [] op = "resubmit" -> {"NEEDS_REVISION"}
    [] OTHER -> LeaveStatus \cup {"NONE"}

\* Until it writes it, the call knows its request's status: only the lapse job
\* may have changed it.
Knows(k) == row[k.req] = k.seen \/ (k.seen \in Undecided /\ row[k.req] = "LAPSED")

\* The request keeps the day alone, or the day was doubled before, or the
\* request lapsed.
KeepsAlone(k) ==
  \A q \in Reqs \ {k.req} :
    row[q] \in Standing => {q, k.req} \cap doubled # {} \/ k.seen = "LAPSED"

Fits(k) ==
  /\ k.at \in Stages(k.op) /\ k.seen \in Loads(k.op)
  /\ k.op = "cancel" => (k.first = "APPROVED" <=> k.seen = "APPROVED")
  /\ k.at \in {"attendance", "reload", "update"} \/ k.op = "approveCancellation" => Knows(k)
  /\ k.op \notin {"file", "timeIn", "lapse"} => KeepsAlone(k)
  /\ k.op = "file" => \A q \in Reqs : row[q] \notin Standing
  /\ k.op = "approveCancellation" => k.delta \in (IF k.at = "update" THEN {0, -1} ELSE {-1})
  /\ k.op # "approveCancellation" /\ k.at \in {"balance", "store"} => k.delta \in {-1, 1}
  /\ k.at = "store" => k.stash = used

CallsFit ==
  \A c \in Callers, k \in Call :
    k = call[c] /\ k.at # "idle" => Fits(k) /\ (k.op # "lapse" => IsClient(c))

\* A leave cancelled without a refund stays cancelled.
TakenIsCancelled == \A r \in taken : row[r] = "CANCELLED"

Charged == {r \in Reqs : row[r] \in Granted \/ r \in taken}

\* What a call under way still adds to usedDays, or has taken from it too early.
Owes(k) ==
  CASE k.op = "approveCancellation" /\ k.at = "update" -> 0 - k.delta
    [] k.op # "approveCancellation" /\ k.at \in {"balance", "store"} -> k.delta
    [] OTHER -> 0

LedgerInHand ==
  \A n : n = Cardinality(Charged) =>
    /\ \A c \in Callers : Owes(call[c]) # 0 => used + Owes(call[c]) = n
    /\ (\A c \in Callers : Owes(call[c]) = 0) => used = n

ReviewInv ==
  TypeOK /\ CallsFit /\ TakenIsCancelled /\ OneLeavePerDay /\ LedgerInHand

LEMMA ChargedIsCounted ==
  IsFiniteSet(Charged) /\ Cardinality(Charged) \in Nat
<1>1. Charged \in SUBSET Reqs
  BY DEF Charged
<1> QED BY <1>1, ReviewAssumption, FS_Subset, FS_CardinalityType

LEMMA ChargedIsCountedNext ==
  IsFiniteSet(Charged') /\ Cardinality(Charged') \in Nat
<1>1. Charged' \in SUBSET Reqs
  BY DEF Charged
<1> QED BY <1>1, ReviewAssumption, FS_Subset, FS_CardinalityType

\* Only a client's call owes anything.
LEMMA OnlyClientsOwe ==
  ASSUME TypeOK, CallsFit, NEW c \in Callers, ~IsClient(c)
  PROVE  Owes(call[c]) = 0 /\ (call[c].at # "idle" => call[c].op = "lapse" /\ call[c].at = "guarded")
<1>1. PICK k \in Call : k = call[c]
  BY DEF TypeOK
<1>2. k.at # "idle" => k.op = "lapse" /\ k.at \in Stages(k.op)
  BY <1>1 DEF CallsFit, Fits
<1>3. k.at # "idle" => k.at = "guarded"
  BY <1>2 DEF Stages
<1> QED BY <1>1, <1>2, <1>3 DEF Owes

\* What the ledger says while a client is in a call.
LEMMA LedgerOfClient ==
  ASSUME ReviewInv, OneClient, NEW c \in Callers, IsClient(c)
  PROVE  used + Owes(call[c]) = Cardinality(Charged)
<1>1. \A d \in Callers : d # c => Owes(call[d]) = 0
  BY OnlyClientsOwe DEF OneClient, ReviewInv
<1>2. PICK n : n = Cardinality(Charged)
  OBVIOUS
<1>3. CASE Owes(call[c]) # 0
  BY <1>2, <1>3 DEF ReviewInv, LedgerInHand
<1>4. CASE Owes(call[c]) = 0
  <2>1. used = n
    BY <1>1, <1>2, <1>4 DEF ReviewInv, LedgerInHand
  <2> QED BY <1>2, <1>4, <2>1 DEF ReviewInv, TypeOK
<1> QED BY <1>3, <1>4

LEMMA LedgerAfterClient ==
  ASSUME ReviewInv, OneClient, NEW c \in Callers, IsClient(c),
         \A d \in Callers : d # c => call'[d] = call[d],
         used' \in Nat,
         used' + Owes(call'[c]) = Cardinality(Charged')
  PROVE  LedgerInHand'
<1>1. \A d \in Callers : d # c => Owes(call[d])' = 0
  <2> SUFFICES ASSUME NEW d \in Callers, d # c PROVE Owes(call[d])' = 0
    OBVIOUS
  <2>1. Owes(call[d]) = 0
    BY OnlyClientsOwe DEF OneClient, ReviewInv
  <2> QED BY <2>1 DEF Owes
<1>2. Owes(call[c])' = Owes(call'[c])
  BY DEF Owes
<1> SUFFICES ASSUME NEW n, n = Cardinality(Charged')
             PROVE  /\ \A d \in Callers : Owes(call[d])' # 0 => used' + Owes(call[d])' = n
                    /\ (\A d \in Callers : Owes(call[d])' = 0) => used' = n
  BY DEF LedgerInHand
<1> QED BY <1>1, <1>2

\* The requests of a step that writes none, or lapses an undecided one.
RowsMayLapse ==
  /\ \A r \in Reqs : row'[r] = row[r] \/ (row[r] \in Undecided /\ row'[r] = "LAPSED")
  /\ taken' = taken /\ doubled' = doubled

LEMMA LapsedIsNot ==
  /\ "LAPSED" \notin Standing /\ "LAPSED" \notin Granted /\ "LAPSED" \notin Undecided
  /\ "CANCELLED" \notin Undecided /\ "CANCELLED" \notin Granted /\ "CANCELLED" \notin Standing
  /\ Undecided \cap Granted = {} /\ Undecided \subseteq Standing /\ Granted \subseteq Standing
BY DEF Standing, Granted, Undecided

LEMMA LapseKeepsCharges ==
  ASSUME ReviewInv, RowsMayLapse
  PROVE  Charged' = Charged /\ OneLeavePerDay' /\ TakenIsCancelled'
<1>1. TypeOK /\ TakenIsCancelled /\ OneLeavePerDay
  BY DEF ReviewInv
<1>2. ASSUME NEW r \in Reqs PROVE row'[r] \in Granted <=> row[r] \in Granted
  BY LapsedIsNot DEF RowsMayLapse
<1>3. Charged' = Charged
  BY <1>2 DEF Charged, RowsMayLapse
<1>4. OneLeavePerDay'
  BY <1>1, LapsedIsNot DEF OneLeavePerDay, RowsMayLapse
<1>5. TakenIsCancelled'
  BY <1>1, LapsedIsNot DEF TakenIsCancelled, RowsMayLapse, TypeOK
<1> QED BY <1>3, <1>4, <1>5

LEMMA LapseKeepsFit ==
  ASSUME RowsMayLapse, used' = used, NEW k \in Call, Fits(k)
  PROVE  Fits(k)'
<1>1. k.req \in Reqs
  BY DEF Call
<1>2. Knows(k) => Knows(k)'
  BY <1>1, LapsedIsNot DEF Knows, RowsMayLapse
<1>3. \A q \in Reqs : row'[q] \in Standing => row[q] \in Standing
  BY LapsedIsNot DEF RowsMayLapse
<1>4. KeepsAlone(k) => KeepsAlone(k)'
  BY <1>3 DEF KeepsAlone, RowsMayLapse
<1> QED BY <1>2, <1>3, <1>4 DEF Fits

\* One call moves; what it knows is enough, if nobody wrote behind another
\* client's back.
LEMMA CallsFitAfter ==
  ASSUME ReviewInv, OneClient, NEW c \in Callers, NEW m \in Call,
         call' = [call EXCEPT ![c] = m],
         m.at # "idle" => Fits(m)' /\ (m.op # "lapse" => IsClient(c)),
         IsClient(c) \/ (RowsMayLapse /\ used' = used)
  PROVE  CallsFit'
<1>1. call'[c] = m /\ \A d \in Callers : d # c => call'[d] = call[d]
  BY DEF ReviewInv, TypeOK
<1> SUFFICES ASSUME NEW d \in Callers, NEW k \in Call, k = call'[d], k.at # "idle"
             PROVE  Fits(k)' /\ (k.op # "lapse" => IsClient(d))
  BY DEF CallsFit
<1>2. CASE d = c
  BY <1>1, <1>2
<1>3. CASE d # c
  <2>1. k = call[d]
    BY <1>1, <1>3
  <2>2. Fits(k) /\ (k.op # "lapse" => IsClient(d))
    BY <2>1 DEF ReviewInv, CallsFit
  <2>3. CASE IsClient(c)
    <3>1. ~IsClient(d)
      BY <1>3, <2>3 DEF OneClient
    <3>2. k.op = "lapse" /\ k.at = "guarded"
      BY <2>1, <3>1, OnlyClientsOwe DEF ReviewInv
    <3> QED BY <2>2, <3>2 DEF Fits
  <2>4. CASE RowsMayLapse /\ used' = used
    BY <2>2, <2>4, LapseKeepsFit
  <2> QED BY <2>2, <2>3, <2>4
<1> QED BY <1>2, <1>3

\* A step that leaves the rows, the charges and the balance, and what the
\* moving call owes.
LEMMA QuietStep ==
  ASSUME ReviewInv, OneClient, TypeOK', NEW c \in Callers, NEW m \in Call,
         call' = [call EXCEPT ![c] = m], RowsMayLapse, used' = used,
         m.at # "idle" => Fits(m)' /\ (m.op # "lapse" => IsClient(c)),
         Owes(m) = Owes(call[c])
  PROVE  ReviewInv'
<1>1. call'[c] = m /\ \A d \in Callers : d # c => call'[d] = call[d]
  BY DEF ReviewInv, TypeOK
<1>2. CallsFit'
  BY CallsFitAfter
<1>3. Charged' = Charged /\ OneLeavePerDay' /\ TakenIsCancelled'
  BY LapseKeepsCharges
<1>4. \A d \in Callers : Owes(call[d])' = Owes(call[d])
  BY <1>1 DEF Owes
<1>5. LedgerInHand'
  <2> SUFFICES ASSUME NEW n, n = Cardinality(Charged')
               PROVE  /\ \A d \in Callers : Owes(call[d])' # 0 => used' + Owes(call[d])' = n
                      /\ (\A d \in Callers : Owes(call[d])' = 0) => used' = n
    BY DEF LedgerInHand
  <2>1. n = Cardinality(Charged)
    BY <1>3
  <2> QED BY <1>4, <2>1 DEF ReviewInv, LedgerInHand
<1> QED BY <1>2, <1>3, <1>5 DEF ReviewInv

\* A client's write.
LEMMA ClientStep ==
  ASSUME ReviewInv, OneClient, TypeOK', NEW c \in Callers, NEW m \in Call, IsClient(c),
         call' = [call EXCEPT ![c] = m],
         m.at # "idle" => Fits(m)',
         OneLeavePerDay', TakenIsCancelled',
         used' + Owes(m) = Cardinality(Charged')
  PROVE  ReviewInv'
<1>1. call'[c] = m /\ \A d \in Callers : d # c => call'[d] = call[d]
  BY DEF ReviewInv, TypeOK
<1>2. CallsFit'
  BY CallsFitAfter
<1>3. used' \in Nat
  BY DEF TypeOK
<1>4. LedgerInHand'
  BY <1>1, <1>3, LedgerAfterClient
<1> QED BY <1>2, <1>4 DEF ReviewInv

LEMMA LoadFits ==
  ASSUME ReviewInv, OneClient, TypeOK', NEW c \in Callers, NEW op \in Operations, NEW r \in Reqs,
         Load(c, op, r)
  PROVE  ReviewInv'
<1>1. TypeOK /\ OneLeavePerDay
  BY DEF ReviewInv
<1> DEFINE delta == IF op = "approveCancellation" /\ ~Begun THEN -1 ELSE 0
<1>2. PICK m : m = [Idle EXCEPT !.op = op, !.req = r, !.seen = row[r], !.first = row[r],
                                !.at = FirstStep(op, row[r]), !.delta = delta]
  OBVIOUS
<1>3. call' = [call EXCEPT ![c] = m] /\ call[c].at = "idle" /\ op \in Duties[c] /\ Accepts(op, r)
      /\ UNCHANGED <<stored, phase>>
  BY <1>2 DEF Load, Goes
<1>4. m.op = op /\ m.req = r /\ m.seen = row[r] /\ m.first = row[r] /\ m.at = FirstStep(op, row[r])
      /\ m.delta = delta
  BY <1>2 DEF Idle
<1>5. m \in Call
  BY <1>1, <1>3 DEF TypeOK
<1>6. delta \in {0, -1} /\ (FirstStep(op, row[r]) = "balance" => delta = -1)
      /\ (op = "approveCancellation" /\ FirstStep(op, row[r]) = "update" => delta = 0)
  BY DEF FirstStep
<1> HIDE DEF delta
<1>7. UNCHANGED <<row, taken, used, doubled>>
  BY <1>3 DEF stored
<1>8. RowsMayLapse
  BY <1>7 DEF RowsMayLapse
<1>9. m.op # "lapse" => IsClient(c)
  BY <1>3, <1>4 DEF IsClient
<1>10. op \in {"file", "approve", "reject", "return", "override", "cancel",
   "approveCancellation", "denyCancellation", "resubmit", "lapse", "timeIn"}
  BY DEF Operations
<1>11. FirstStep(op, row[r]) \in Stages(op)
  BY <1>10 DEF FirstStep, Stages
<1>12. row[r] \in Loads(op)
  BY <1>1, <1>3, <1>10 DEF Accepts, Loads, TypeOK
<1>13. op \notin {"file", "timeIn", "lapse"} => row[r] \in Standing \/ row[r] = "LAPSED"
  BY <1>3, <1>10 DEF Accepts, CancellableStatuses, Standing, Undecided, Granted
<1>14. op \notin {"file", "timeIn", "lapse"} => KeepsAlone(m)
  BY <1>1, <1>4, <1>13 DEF OneLeavePerDay, KeepsAlone
<1>15. op = "file" => \A q \in Reqs : row[q] \notin Standing
  BY <1>3 DEF Accepts, KeepsItsDay
<1>16. FirstStep(op, row[r]) \notin {"store", "idle"}
       /\ (FirstStep(op, row[r]) = "balance" => op = "approveCancellation")
  BY DEF FirstStep
<1>17. Fits(m)
  <2>1. op = "approveCancellation" => m.delta \in (IF m.at = "update" THEN {0, -1} ELSE {-1})
    BY <1>4, <1>6, <1>11, <1>16 DEF Stages
  <2>2. Knows(m)
    BY <1>4 DEF Knows
  <2>3. m.at \in Stages(op) /\ m.seen \in Loads(op) /\ m.at # "store"
    BY <1>4, <1>11, <1>12, <1>16
  <2>4. op # "approveCancellation" => m.at # "balance"
    BY <1>4, <1>16
  <2> QED BY <1>4, <1>14, <1>15, <2>1, <2>2, <2>3, <2>4 DEF Fits
<1>18. Fits(m)'
  BY <1>5, <1>7, <1>8, <1>17, LapseKeepsFit
<1>19. Owes(call[c]) = 0
  BY <1>3 DEF Owes
<1>20. Owes(m) = 0
  BY <1>4, <1>6, <1>16 DEF Owes
<1> QED BY <1>3, <1>5, <1>7, <1>8, <1>9, <1>18, <1>19, <1>20, QuietStep

\* The facts every step of a call starts from.
LEMMA CallIs ==
  ASSUME ReviewInv, NEW c \in Callers, call[c].at # "idle"
  PROVE  \E k \in Call : /\ k = call[c] /\ Fits(k) /\ k.req \in Reqs
                         /\ row[k.req] \in LeaveStatus \cup {"NONE"}
                         /\ k.at \in Stages(k.op) /\ k.seen \in Loads(k.op)
                         /\ k.op # "lapse" => IsClient(c)
<1>1. PICK k \in Call : k = call[c]
  BY DEF ReviewInv, TypeOK
<1>2. Fits(k) /\ (k.op # "lapse" => IsClient(c))
  BY <1>1 DEF ReviewInv, CallsFit
<1>3. k.req \in Reqs /\ row[k.req] \in LeaveStatus \cup {"NONE"}
  BY DEF ReviewInv, TypeOK, Call
<1> QED BY <1>1, <1>2, <1>3 DEF Fits

LEMMA IdleOwesNothing == Idle.at = "idle" /\ Owes(Idle) = 0
  BY DEF Idle, Owes

LEMMA InsertFits ==
  ASSUME ReviewInv, OneClient, TypeOK', NEW c \in Callers, NEW r \in Reqs, Insert(c, r)
  PROVE  ReviewInv'
<1>1. TypeOK /\ TakenIsCancelled /\ OneLeavePerDay
  BY DEF ReviewInv
<1>2. call[c].at = "insert" /\ row[r] = "NONE" /\ row' = [row EXCEPT ![r] = "PENDING"]
      /\ call' = [call EXCEPT ![c] = Idle] /\ UNCHANGED <<taken, used, doubled>>
  BY DEF Insert, Goes
<1>3. PICK k \in Call : k = call[c] /\ Fits(k) /\ k.at \in Stages(k.op) /\ (k.op # "lapse" => IsClient(c))
  BY <1>2, CallIs
<1>4. k.op = "file"
  BY <1>2, <1>3 DEF Stages
<1>5. IsClient(c) /\ \A q \in Reqs : row[q] \notin Standing
  BY <1>3, <1>4 DEF Fits
<1>6. row'[r] = "PENDING" /\ \A q \in Reqs : q # r => row'[q] = row[q]
  BY <1>1, <1>2 DEF TypeOK
<1>7. OneLeavePerDay'
  BY <1>5, <1>6 DEF OneLeavePerDay
<1>8. r \notin taken
  BY <1>1, <1>2 DEF TakenIsCancelled
<1>9. TakenIsCancelled'
  BY <1>1, <1>2, <1>6, <1>8 DEF TakenIsCancelled, TypeOK
<1>10. row[r] \notin Granted /\ row'[r] \notin Granted
  BY <1>2, <1>6 DEF Granted
<1>11. Charged' = Charged
  BY <1>2, <1>6, <1>10 DEF Charged
<1>12. Owes(call[c]) = 0
  BY <1>2 DEF Owes
<1>13. used + 0 = Cardinality(Charged)
  BY <1>5, <1>12, LedgerOfClient
<1>14. used' + Owes(Idle) = Cardinality(Charged')
  BY <1>2, <1>11, <1>13, IdleOwesNothing
<1> QED BY <1>2, <1>5, <1>7, <1>9, <1>14, IdleType, IdleOwesNothing, ClientStep

LEMMA ReadAttendanceFits ==
  ASSUME ReviewInv, OneClient, TypeOK', NEW c \in Callers, ReadAttendance(c)
  PROVE  ReviewInv'
<1>1. call[c].at = "attendance" /\ UNCHANGED <<row, taken, used, doubled>>
  BY DEF ReadAttendance, stored
<1>2. PICK k \in Call : k = call[c] /\ Fits(k) /\ k.at \in Stages(k.op) /\ (k.op # "lapse" => IsClient(c))
  BY <1>1, CallIs
<1>3. k.op = "approve"
  BY <1>1, <1>2 DEF Stages
<1>4. Owes(k) = 0
  BY <1>1, <1>2 DEF Owes
<1>5. RowsMayLapse
  BY <1>1 DEF RowsMayLapse
<1>6. CASE worked
  <2>1. call' = [call EXCEPT ![c] = Idle]
    BY <1>6 DEF ReadAttendance, Goes
  <2> QED BY <1>1, <1>2, <1>4, <1>5, <2>1, IdleType, IdleOwesNothing, QuietStep
<1>7. CASE ~worked
  <2>1. PICK m : m = [k EXCEPT !.at = "update"]
    OBVIOUS
  <2>2. m \in Call /\ m.at = "update" /\ m.op = k.op /\ m.req = k.req /\ m.seen = k.seen
        /\ m.first = k.first /\ m.delta = k.delta /\ m.stash = k.stash
    BY <2>1 DEF Call
  <2>3. call' = [call EXCEPT ![c] = m]
    BY <1>2, <1>7, <2>1 DEF ReadAttendance, Goes
  <2>4. Fits(m)
    BY <1>1, <1>2, <1>3, <2>2 DEF Fits, Stages, Knows, KeepsAlone
  <2>5. Fits(m)'
    BY <1>1, <1>5, <2>2, <2>4, LapseKeepsFit
  <2>6. Owes(m) = 0
    BY <1>3, <2>2 DEF Owes
  <2> QED BY <1>1, <1>2, <1>4, <1>5, <2>2, <2>3, <2>5, <2>6, QuietStep
<1> QED BY <1>6, <1>7

LEMMA ReloadFits ==
  ASSUME ReviewInv, OneClient, TypeOK', NEW c \in Callers, Reload(c)
  PROVE  ReviewInv'
<1>1. call[c].at = "reload" /\ UNCHANGED <<row, taken, used, doubled>>
  BY DEF Reload, stored
<1>2. PICK k \in Call :
        /\ k = call[c] /\ Fits(k) /\ k.at \in Stages(k.op) /\ k.seen \in Loads(k.op)
        /\ k.req \in Reqs /\ row[k.req] \in LeaveStatus \cup {"NONE"}
        /\ k.op # "lapse" => IsClient(c)
  BY <1>1, CallIs
<1>3. Knows(k)
  BY <1>1, <1>2 DEF Fits
<1>4. Owes(k) = 0
  BY <1>1, <1>2 DEF Owes
<1>5. RowsMayLapse
  BY <1>1 DEF RowsMayLapse
<1> DEFINE skip == k.first = "APPROVED" /\ Begun
<1>6. skip \in BOOLEAN
  BY DEF Begun
<1>7. call' = [call EXCEPT ![c] = [k EXCEPT !.at = "update", !.seen = row[k.req], !.skip = skip]]
  BY <1>2 DEF Reload, Goes
<1> HIDE DEF skip
<1>8. PICK m : m = [k EXCEPT !.at = "update", !.seen = row[k.req], !.skip = skip]
  OBVIOUS
<1>9. m \in Call /\ m.at = "update" /\ m.op = k.op /\ m.req = k.req /\ m.seen = row[k.req]
      /\ m.first = k.first /\ m.delta = k.delta /\ m.stash = k.stash
  BY <1>2, <1>6, <1>8 DEF Call
<1>10. k.op \in {"override", "cancel"}
  BY <1>1, <1>2 DEF Stages
<1>11. row[k.req] \in {k.seen, "LAPSED"} /\ (k.seen = "APPROVED" => row[k.req] = "APPROVED")
  BY <1>3 DEF Knows, Undecided
<1>12. m.seen \in Loads(m.op)
  BY <1>2, <1>9, <1>10, <1>11 DEF Loads
<1>13. m.op = "cancel" => (m.first = "APPROVED" <=> m.seen = "APPROVED")
  BY <1>2, <1>9, <1>11 DEF Fits
<1>19. KeepsAlone(m)
  BY <1>2, <1>9, <1>10, <1>11 DEF Fits, KeepsAlone
<1>14. Fits(m)
  BY <1>1, <1>2, <1>9, <1>10, <1>12, <1>13, <1>19 DEF Fits, Stages, Knows
<1>15. Fits(m)'
  BY <1>1, <1>5, <1>9, <1>14, LapseKeepsFit
<1>16. Owes(m) = 0
  BY <1>9, <1>10 DEF Owes
<1>17. m.op # "lapse" => IsClient(c)
  BY <1>2, <1>9
<1>18. call' = [call EXCEPT ![c] = m] /\ used' = used /\ Owes(m) = Owes(call[c])
  BY <1>1, <1>2, <1>4, <1>7, <1>8, <1>16
<1> QED BY <1>5, <1>9, <1>15, <1>17, <1>18, QuietStep

\* Two finite sets that differ in r at most.
LEMMA OneMoreOrLess ==
  ASSUME NEW S, NEW T, NEW r, IsFiniteSet(S), IsFiniteSet(T),
         \A q : q # r => (q \in S <=> q \in T)
  PROVE  Cardinality(T) = Cardinality(S) + (IF r \in T THEN 1 ELSE 0) - (IF r \in S THEN 1 ELSE 0)
<1>1. S \ {r} = T \ {r}
  OBVIOUS
<1>2. /\ Cardinality(S) \in Nat /\ Cardinality(T) \in Nat
      /\ Cardinality(S \ {r}) = (IF r \in S THEN Cardinality(S) - 1 ELSE Cardinality(S))
      /\ Cardinality(T \ {r}) = (IF r \in T THEN Cardinality(T) - 1 ELSE Cardinality(T))
  BY FS_CardinalityType, FS_RemoveElement
<1>3. PICK s \in Nat, t \in Nat, u \in Int :
        /\ s = Cardinality(S) /\ t = Cardinality(T) /\ u = Cardinality(S \ {r})
        /\ (r \in S => u + 1 = s) /\ (r \notin S => u = s)
        /\ (r \in T => u + 1 = t) /\ (r \notin T => u = t)
  <2>1. Cardinality(S \ {r}) \in Int
    BY <1>2
  <2>2. r \in S => Cardinality(S \ {r}) + 1 = Cardinality(S)
    BY <1>2
  <2>3. r \in T => Cardinality(S \ {r}) + 1 = Cardinality(T)
    BY <1>1, <1>2
  <2> QED BY <1>1, <1>2, <2>1, <2>2, <2>3
<1>4. t = s + (IF r \in T THEN 1 ELSE 0) - (IF r \in S THEN 1 ELSE 0)
  BY <1>3
<1> QED BY <1>3, <1>4

\* What a decision adds to the balance is what it changes in the charges.
LEMMA DecisionBalances ==
  ASSUME NEW k \in Call, Fits(k), k.at = "update"
  PROVE  /\ BalanceChange(k) - Owes(k) =
              (IF Outcome(k) \in Granted \/ KeepsCharge(k) THEN 1 ELSE 0)
                - (IF k.seen \in Granted THEN 1 ELSE 0)
         /\ BalanceChange(k) # 0 => k.op \in {"approve", "override"}
<1>1. k.op \in {"approve", "reject", "return", "override", "cancel", "approveCancellation",
                "denyCancellation", "resubmit"}
  BY DEF Fits, Stages, Call, Operations
<1>2. CASE k.op = "approve"
  BY <1>2 DEF Fits, Loads, BalanceChange, Owes, Outcome, Granted
<1>3. CASE k.op \in {"reject", "return"}
  BY <1>3 DEF Fits, Loads, BalanceChange, Owes, Outcome, Granted, KeepsCharge
<1>4. CASE k.op = "override"
  <2>1. k.seen \in {"PENDING", "SUPERVISOR_APPROVED", "APPROVED", "LAPSED"} /\ k.skip \in BOOLEAN
    BY <1>4 DEF Fits, Loads, CancellableStatuses, Call
  <2>2. Outcome(k) = "CANCELLED" /\ Owes(k) = 0
    BY <1>4 DEF Outcome, Owes
  <2>3. BalanceChange(k) = IF k.seen = "APPROVED" /\ ~k.skip THEN -1 ELSE 0
    BY <1>4, <2>1, <2>2 DEF BalanceChange
  <2>4. KeepsCharge(k) <=> k.seen = "APPROVED" /\ k.skip
    BY <1>4, <2>1, <2>2 DEF KeepsCharge, Granted
  <2> QED BY <1>4, <2>1, <2>2, <2>3, <2>4 DEF Granted
<1>5. CASE k.op = "cancel"
  <2>1. k.seen \in {"PENDING", "SUPERVISOR_APPROVED", "APPROVED", "LAPSED"}
        /\ (k.first = "APPROVED" <=> k.seen = "APPROVED")
    BY <1>5 DEF Fits, Loads, CancellableStatuses
  <2>2. Owes(k) = 0 /\ Outcome(k) = IF k.seen = "APPROVED" THEN "CANCELLATION_PENDING" ELSE "CANCELLED"
    BY <1>5, <2>1 DEF Outcome, Owes
  <2>3. BalanceChange(k) = 0
    BY <1>5, <2>2 DEF BalanceChange
  <2>4. ~KeepsCharge(k)
    BY <2>1, <2>2 DEF KeepsCharge, Granted
  <2> QED BY <2>1, <2>2, <2>3, <2>4 DEF Granted
<1>6. CASE k.op = "approveCancellation"
  <2>1. k.seen = "CANCELLATION_PENDING" /\ k.delta \in {0, -1}
    BY <1>6 DEF Fits, Loads
  <2>2. Outcome(k) = "CANCELLED" /\ Owes(k) = 0 - k.delta /\ BalanceChange(k) = 0
    BY <1>6 DEF Outcome, Owes, BalanceChange
  <2>3. KeepsCharge(k) <=> k.delta = 0
    BY <1>6, <2>1, <2>2 DEF KeepsCharge, Granted
  <2> QED BY <2>1, <2>2, <2>3 DEF Granted
<1>7. CASE k.op \in {"denyCancellation", "resubmit"}
  BY <1>7 DEF Fits, Loads, BalanceChange, Owes, Outcome, Granted, KeepsCharge
<1> QED BY <1>1, <1>2, <1>3, <1>4, <1>5, <1>6, <1>7

LEMMA UpdateFits ==
  ASSUME ReviewInv, OneClient, TypeOK', NEW c \in Callers, Update(c)
  PROVE  ReviewInv'
<1>1. TypeOK /\ TakenIsCancelled /\ OneLeavePerDay /\ call[c].at = "update"
  BY DEF ReviewInv, Update
<1>2. PICK k \in Call :
        /\ k = call[c] /\ Fits(k) /\ k.at \in Stages(k.op) /\ k.seen \in Loads(k.op)
        /\ k.req \in Reqs /\ (k.op # "lapse" => IsClient(c))
  BY <1>1, CallIs
<1>0. PICK r, out : r \in Reqs /\ r = k.req /\ out = Outcome(k)
  BY <1>2
<1>3. k.op \notin {"file", "timeIn", "lapse"} /\ k.at = "update" /\ IsClient(c)
  BY <1>1, <1>2 DEF Stages
<1>4. Knows(k) /\ KeepsAlone(k)
  BY <1>0, <1>2, <1>3 DEF Fits
<1>5. /\ row' = [row EXCEPT ![r] = out] /\ used' = used
      /\ taken' = IF KeepsCharge(k) THEN taken \cup {r} ELSE taken \ {r}
      /\ call' = [call EXCEPT ![c] = IF BalanceChange(k) = 0 THEN Idle
                 ELSE [k EXCEPT !.at = "balance", !.delta = BalanceChange(k)]]
      /\ doubled' = IF ApprovesOverAnother(k) THEN doubled \cup {r} ELSE doubled
  BY <1>0, <1>2 DEF Update, Goes
<1>6. row'[r] = out /\ \A q \in Reqs : q # r => row'[q] = row[q]
  BY <1>1, <1>2, <1>5 DEF TypeOK
<1>7. k.seen \notin {"CANCELLED", "NONE"}
  BY <1>2, <1>3 DEF Loads, Undecided, CancellableStatuses, Call, Operations
<1>8. row[r] # "CANCELLED" /\ (row[r] \in Granted <=> k.seen \in Granted)
  BY <1>0, <1>4, <1>7, LapsedIsNot DEF Knows
<1>9. r \in Charged <=> k.seen \in Granted
  BY <1>0, <1>1, <1>8 DEF Charged, TakenIsCancelled
<1>10. r \in Charged' <=> out \in Granted \/ KeepsCharge(k)
  BY <1>0, <1>5, <1>6 DEF Charged
<1>11. \A q : q # r => (q \in Charged <=> q \in Charged')
  BY <1>5, <1>6 DEF Charged
<1>12. Cardinality(Charged') = Cardinality(Charged) + (IF r \in Charged' THEN 1 ELSE 0)
                                 - (IF r \in Charged THEN 1 ELSE 0)
  BY <1>11, OneMoreOrLess, ChargedIsCounted, ChargedIsCountedNext
<1>13. used + Owes(k) = Cardinality(Charged)
  BY <1>2, <1>3, LedgerOfClient
<1>14. /\ BalanceChange(k) - Owes(k) =
            (IF out \in Granted \/ KeepsCharge(k) THEN 1 ELSE 0)
              - (IF k.seen \in Granted THEN 1 ELSE 0)
       /\ BalanceChange(k) # 0 => k.op \in {"approve", "override"}
  BY <1>0, <1>2, <1>3, DecisionBalances
<1>15. Owes(k) \in Int /\ used \in Nat /\ BalanceChange(k) \in {-1, 0, 1}
  BY <1>1, <1>2, BalanceChangeIsOne DEF Owes, Call, TypeOK
<1>16. used' + BalanceChange(k) = Cardinality(Charged')
  <2> DEFINE n == Cardinality(Charged)
             m == Cardinality(Charged')
             x == IF k.seen \in Granted THEN 1 ELSE 0
             y == IF out \in Granted \/ KeepsCharge(k) THEN 1 ELSE 0
             b == BalanceChange(k)
             o == Owes(k)
  <2>1. m = n + y - x /\ used + o = n /\ b - o = y - x /\ used' = used
    BY <1>5, <1>9, <1>10, <1>12, <1>13, <1>14
  <2>2. b \in Int /\ o \in Int /\ x \in Int /\ y \in Int /\ used \in Int
    BY <1>15
  <2> HIDE DEF n, m, x, y, b, o
  <2>3. used' + b = m
    BY <2>1, <2>2
  <2> QED BY <2>3 DEF b, m
<1>22. k.seen = "LAPSED" => out \notin Standing \/ k.op = "approve"
  BY <1>0, <1>2, <1>3 DEF Loads, Outcome, Standing, Undecided, Granted, CancellableStatuses,
                          Call, Operations, Fits
<1>23. ASSUME out \in Standing, NEW q \in Reqs, q # r, row[q] \in Standing
       PROVE  {q, r} \cap doubled' # {}
  <2>1. CASE {q, r} \cap doubled # {}
    BY <1>5, <2>1
  <2>2. CASE k.seen = "LAPSED"
    BY <1>0, <1>5, <1>22, <1>23, <2>2 DEF ApprovesOverAnother, Closed
  <2> QED BY <1>0, <1>4, <1>23, <2>1, <2>2 DEF KeepsAlone
<1>24. doubled \subseteq doubled'
  BY <1>5
<1>17. OneLeavePerDay'
  <2> SUFFICES ASSUME NEW q \in Reqs, NEW p \in Reqs, q # p,
                      row'[q] \in Standing, row'[p] \in Standing
               PROVE  {q, p} \cap doubled' # {}
    BY DEF OneLeavePerDay
  <2>1. CASE q = r
    BY <1>6, <1>23, <2>1
  <2>2. CASE p = r
    BY <1>6, <1>23, <2>2
  <2>3. CASE q # r /\ p # r
    BY <1>1, <1>6, <1>24, <2>3 DEF OneLeavePerDay
  <2> QED BY <2>1, <2>2, <2>3
<1>18. KeepsCharge(k) => out = "CANCELLED"
  BY <1>0 DEF KeepsCharge
<1>19. TakenIsCancelled'
  BY <1>1, <1>5, <1>6, <1>18 DEF TakenIsCancelled, TypeOK
<1>20. CASE BalanceChange(k) = 0
  <2>1. call' = [call EXCEPT ![c] = Idle] /\ used' + Owes(Idle) = Cardinality(Charged')
    BY <1>5, <1>16, <1>20, IdleOwesNothing
  <2> QED BY <1>3, <1>17, <1>19, <2>1, IdleType, IdleOwesNothing, ClientStep
<1>21. CASE BalanceChange(k) # 0
  <2>1. PICK m : m = [k EXCEPT !.at = "balance", !.delta = BalanceChange(k)]
    OBVIOUS
  <2>2. m \in Call /\ m.at = "balance" /\ m.op = k.op /\ m.req = k.req /\ m.seen = k.seen
        /\ m.first = k.first /\ m.delta = BalanceChange(k)
    BY <1>15, <2>1 DEF Call
  <2>3. call' = [call EXCEPT ![c] = m]
    BY <1>5, <1>21, <2>1
  <2>4. k.op \in {"approve", "override"}
    BY <1>14, <1>21
  <2>5. KeepsAlone(m)'
    BY <1>0, <1>4, <1>6, <1>24, <2>2 DEF KeepsAlone
  <2>6. m.at \in Stages(m.op)
    BY <2>2, <2>4 DEF Stages
  <2>7. Fits(m)'
    BY <1>2, <1>15, <1>21, <2>2, <2>4, <2>5, <2>6 DEF Fits
  <2>8. Owes(m) = BalanceChange(k)
    BY <2>2, <2>4 DEF Owes
  <2>9. used' + Owes(m) = Cardinality(Charged')
    BY <1>16, <2>8
  <2> QED BY <1>3, <1>17, <1>19, <2>2, <2>3, <2>7, <2>9, ClientStep
<1> QED BY <1>20, <1>21

LEMMA LapseFits ==
  ASSUME ReviewInv, OneClient, TypeOK', NEW c \in Callers, GuardedLapse(c)
  PROVE  ReviewInv'
<1>1. TypeOK /\ call[c].at = "guarded"
  BY DEF ReviewInv, GuardedLapse
<1>2. PICK k \in Call :
        /\ k = call[c] /\ k.at \in Stages(k.op) /\ k.seen \in Loads(k.op) /\ k.req \in Reqs
  BY <1>1, CallIs
<1>3. k.op = "lapse"
  BY <1>1, <1>2 DEF Stages
<1>4. k.seen \in Undecided
  BY <1>2, <1>3 DEF Loads
<1>5. /\ row' = IF row[k.req] = k.seen THEN [row EXCEPT ![k.req] = "LAPSED"] ELSE row
      /\ call' = [call EXCEPT ![c] = Idle] /\ taken' = taken /\ used' = used /\ doubled' = doubled
  BY <1>2 DEF GuardedLapse, StillAsLoaded, Goes
<1>6. RowsMayLapse
  BY <1>1, <1>2, <1>4, <1>5 DEF RowsMayLapse, TypeOK
<1>7. Owes(call[c]) = 0
  BY <1>1 DEF Owes
<1> QED BY <1>5, <1>6, <1>7, IdleType, IdleOwesNothing, QuietStep

LEMMA ReadBalanceFits ==
  ASSUME ReviewInv, OneClient, TypeOK', NEW c \in Callers, ReadBalance(c)
  PROVE  ReviewInv'
<1>1. TypeOK /\ call[c].at = "balance" /\ UNCHANGED <<row, taken, used, doubled>>
  BY DEF ReviewInv, ReadBalance, stored
<1>2. PICK k \in Call :
        /\ k = call[c] /\ Fits(k) /\ k.at \in Stages(k.op) /\ (k.op # "lapse" => IsClient(c))
  BY <1>1, CallIs
<1>3. PICK m : m = [k EXCEPT !.at = "store", !.stash = used]
  OBVIOUS
<1>4. m \in Call /\ m.at = "store" /\ m.op = k.op /\ m.req = k.req /\ m.seen = k.seen
      /\ m.first = k.first /\ m.delta = k.delta /\ m.stash = used
  BY <1>1, <1>3 DEF Call, TypeOK
<1>5. call' = [call EXCEPT ![c] = m]
  BY <1>2, <1>3 DEF ReadBalance, Goes
<1>6. m.at \in Stages(m.op)
  BY <1>1, <1>2, <1>4 DEF Stages
<1>7. Fits(m)
  BY <1>1, <1>2, <1>4, <1>6 DEF Fits, Knows, KeepsAlone
<1>8. RowsMayLapse
  BY <1>1 DEF RowsMayLapse
<1>9. Fits(m)'
  BY <1>1, <1>4, <1>7, <1>8, LapseKeepsFit
<1>10. Owes(m) = Owes(k)
  BY <1>1, <1>2, <1>4 DEF Owes
<1> QED BY <1>1, <1>2, <1>4, <1>5, <1>8, <1>9, <1>10, QuietStep

LEMMA StoreBalanceFits ==
  ASSUME ReviewInv, OneClient, TypeOK', NEW c \in Callers, StoreBalance(c)
  PROVE  ReviewInv'
<1>1. TypeOK /\ TakenIsCancelled /\ OneLeavePerDay /\ call[c].at = "store"
      /\ UNCHANGED <<row, taken, doubled>>
  BY DEF ReviewInv, StoreBalance
<1>2. PICK k \in Call :
        /\ k = call[c] /\ Fits(k) /\ k.at \in Stages(k.op) /\ k.seen \in Loads(k.op)
        /\ k.req \in Reqs /\ (k.op # "lapse" => IsClient(c))
  BY <1>1, CallIs
<1>3. k.op # "lapse" /\ IsClient(c) /\ k.stash = used /\ k.at = "store"
  BY <1>1, <1>2 DEF Stages, Fits
<1>4. used + Owes(k) = Cardinality(Charged) /\ Cardinality(Charged) \in Nat /\ used \in Nat
  BY <1>1, <1>2, <1>3, LedgerOfClient, ChargedIsCounted DEF TypeOK
<1>5. RowsMayLapse
  BY <1>1 DEF RowsMayLapse
<1>6. Charged' = Charged /\ OneLeavePerDay' /\ TakenIsCancelled'
  BY <1>5, LapseKeepsCharges
<1>7. used' = NextUsed(used, k.delta)
  BY <1>2, <1>3 DEF StoreBalance
<1>8. CASE k.op = "approveCancellation"
  <2>1. k.delta = -1 /\ k.seen = "CANCELLATION_PENDING" /\ Knows(k) /\ Owes(k) = 0
    BY <1>2, <1>3, <1>8 DEF Fits, Loads, Owes
  <2>2. row[k.req] = "CANCELLATION_PENDING"
    BY <2>1 DEF Knows, Undecided
  <2>3. k.req \in Charged
    BY <1>2, <2>2 DEF Charged, Granted
  <2>4. Cardinality(Charged) # 0
    BY <2>3, ChargedIsCounted, FS_EmptySet
  <2>5. used # 0
    BY <1>4, <2>1, <2>4
  <2>6. used' = used - 1
    BY <1>4, <1>7, <2>1, <2>5 DEF NextUsed
  <2>7. PICK m : m = [k EXCEPT !.at = "update", !.stash = 0]
    OBVIOUS
  <2>8. m \in Call /\ m.at = "update" /\ m.op = k.op /\ m.req = k.req /\ m.seen = k.seen
        /\ m.first = k.first /\ m.delta = k.delta
    BY <2>7 DEF Call
  <2>9. call' = [call EXCEPT ![c] = m]
    BY <1>2, <1>8, <2>7 DEF StoreBalance, Goes
  <2>10. m.at \in Stages(m.op)
    BY <1>8, <2>8 DEF Stages
  <2>11. KeepsAlone(m)'
    BY <1>1, <1>2, <1>8, <2>8 DEF Fits, KeepsAlone
  <2>12. Knows(m)'
    BY <1>1, <2>2, <2>1, <2>8 DEF Knows
  <2>13. Fits(m)'
    BY <1>2, <1>8, <2>1, <2>8, <2>10, <2>11, <2>12 DEF Fits
  <2>14. Owes(m) = 1
    BY <1>8, <2>1, <2>8 DEF Owes
  <2>15. used' + Owes(m) = Cardinality(Charged')
    BY <1>4, <1>6, <2>1, <2>6, <2>14
  <2> QED BY <1>3, <1>6, <2>8, <2>9, <2>13, <2>15, ClientStep
<1>9. CASE k.op # "approveCancellation"
  <2>1. Owes(k) = k.delta /\ k.delta \in {-1, 1}
    BY <1>2, <1>3, <1>9 DEF Fits, Owes
  <2>2. used' = used + k.delta
    BY <1>4, <1>7, <2>1 DEF NextUsed
  <2>3. call' = [call EXCEPT ![c] = Idle]
    BY <1>2, <1>9 DEF StoreBalance, Goes
  <2>4. used' + Owes(Idle) = Cardinality(Charged')
    BY <1>4, <1>6, <2>1, <2>2, IdleOwesNothing
  <2> QED BY <1>3, <1>6, <2>3, <2>4, IdleType, IdleOwesNothing, ClientStep
<1> QED BY <1>8, <1>9

\* A Time In is stamped, or a call of the lapse job breaks off.
LEMMA EndFits ==
  ASSUME ReviewInv, OneClient, ClientsFinish, TypeOK', NEW c \in Callers,
         StampTimeIn(c) \/ BreakOff(c)
  PROVE  ReviewInv'
<1>1. TypeOK /\ UNCHANGED <<row, taken, used, doubled>> /\ call' = [call EXCEPT ![c] = Idle]
  BY DEF ReviewInv, StampTimeIn, BreakOff, stored, Goes
<1>2. RowsMayLapse
  BY <1>1 DEF RowsMayLapse
<1>3. Owes(call[c]) = 0
  <2>1. CASE StampTimeIn(c)
    BY <2>1 DEF StampTimeIn, Owes
  <2>2. CASE BreakOff(c)
    BY <1>1, <2>2, OnlyClientsOwe DEF BreakOff, ClientsFinish, ReviewInv
  <2> QED BY <2>1, <2>2
<1> QED BY <1>1, <1>2, <1>3, IdleType, IdleOwesNothing, QuietStep

LEMMA NothingStored ==
  ASSUME ReviewInv, TypeOK', UNCHANGED <<stored, call>>
  PROVE  ReviewInv'
<1>1. UNCHANGED <<row, taken, used, doubled, call>>
  BY DEF stored
<1>2. \A k : Fits(k)' <=> Fits(k)
  BY <1>1 DEF Fits, Knows, KeepsAlone
<1>3. Charged' = Charged /\ \A c : Owes(call[c])' = Owes(call[c])
  BY <1>1 DEF Charged, Owes
<1>4. CallsFit'
  BY <1>1, <1>2 DEF ReviewInv, CallsFit
<1>5. TakenIsCancelled' /\ OneLeavePerDay'
  BY <1>1 DEF ReviewInv, TakenIsCancelled, OneLeavePerDay
<1>6. LedgerInHand'
  <2> SUFFICES ASSUME NEW n, n = Cardinality(Charged')
               PROVE  /\ \A d \in Callers : Owes(call[d])' # 0 => used' + Owes(call[d])' = n
                      /\ (\A d \in Callers : Owes(call[d])' = 0) => used' = n
    BY DEF LedgerInHand
  <2> QED BY <1>1, <1>3 DEF ReviewInv, LedgerInHand
<1> QED BY <1>4, <1>5, <1>6 DEF ReviewInv

LEMMA ReviewInvStays ==
  ASSUME OneClient, ClientsFinish PROVE ReviewInv /\ [Next]_vars => ReviewInv'
<1> SUFFICES ASSUME ReviewInv, [Next]_vars PROVE ReviewInv'
  OBVIOUS
<1>1. TypeOK'
  BY StepKeepsType DEF ReviewInv
<1>2. ASSUME NEW c \in Callers, NEW op \in Operations, NEW r \in Reqs, Load(c, op, r)
      PROVE  ReviewInv'
  BY <1>1, <1>2, LoadFits
<1>3. ASSUME NEW c \in Callers, NEW r \in Reqs, Insert(c, r) PROVE ReviewInv'
  BY <1>1, <1>3, InsertFits
<1>4. ASSUME NEW c \in Callers, ReadAttendance(c) PROVE ReviewInv'
  BY <1>1, <1>4, ReadAttendanceFits
<1>5. ASSUME NEW c \in Callers, Reload(c) PROVE ReviewInv'
  BY <1>1, <1>5, ReloadFits
<1>6. ASSUME NEW c \in Callers, Update(c) PROVE ReviewInv'
  BY <1>1, <1>6, UpdateFits
<1>7. ASSUME NEW c \in Callers, GuardedLapse(c) PROVE ReviewInv'
  BY <1>1, <1>7, LapseFits
<1>8. ASSUME NEW c \in Callers, ReadBalance(c) PROVE ReviewInv'
  BY <1>1, <1>8, ReadBalanceFits
<1>9. ASSUME NEW c \in Callers, StoreBalance(c) PROVE ReviewInv'
  BY <1>1, <1>9, StoreBalanceFits
<1>10. ASSUME NEW c \in Callers, StampTimeIn(c) \/ BreakOff(c) PROVE ReviewInv'
  BY <1>1, <1>10, EndFits
<1>11. CASE Midnight \/ UNCHANGED vars
  BY <1>1, <1>11, NothingStored DEF Midnight, vars
<1> QED BY <1>2, <1>3, <1>4, <1>5, <1>6, <1>7, <1>8, <1>9, <1>10, <1>11 DEF Next

LEMMA ReviewInvAtFirst == Init => ReviewInv
<1> SUFFICES ASSUME Init PROVE ReviewInv
  OBVIOUS
<1>1. TypeOK
  BY InitType
<1>2. \A r \in Reqs : row[r] = "NONE"
  BY DEF Init
<1>3. \A c \in Callers : call[c].at = "idle"
  BY IdleOwesNothing DEF Init
<1>4. "NONE" \notin Standing /\ "NONE" \notin Granted
  BY DEF Standing, Undecided, Granted
<1>5. Charged = {}
  BY <1>2, <1>4 DEF Charged, Init
<1>6. Cardinality(Charged) = 0 /\ used = 0
  BY <1>5, FS_EmptySet DEF Init
<1>7. \A c \in Callers : Owes(call[c]) = 0
  BY <1>3 DEF Owes
<1> QED BY <1>1, <1>2, <1>3, <1>4, <1>6, <1>7
        DEF ReviewInv, CallsFit, TakenIsCancelled, OneLeavePerDay, LedgerInHand, Init

LEMMA AlwaysReviewInv == ASSUME OneClient, ClientsFinish PROVE Spec => []ReviewInv
<1>1. ReviewInv /\ [Next]_vars => ReviewInv'
  BY ReviewInvStays
<1> QED BY <1>1, ReviewInvAtFirst, PTL DEF Spec

\* With one client at a time beside the lapse job, usedDays is the number of
\* leaves granted, or cancelled too late, whenever every call has returned
\* (updateStatus, approveCancellation, adjustLeaveBalance).
THEOREM BooksSettle == ASSUME OneClient, ClientsFinish PROVE Spec => []LedgerSettles
<1>1. ReviewInv => LedgerSettles
  <2> SUFFICES ASSUME ReviewInv, Settled PROVE used = Cardinality(Charged)
    BY DEF LedgerSettles, Charged
  <2>1. \A c \in Callers : Owes(call[c]) = 0
    BY DEF Settled, Owes
  <2> QED BY <2>1 DEF ReviewInv, LedgerInHand
<1> QED BY <1>1, AlwaysReviewInv, PTL

\* With one client at a time, and whatever the lapse job does meanwhile, two
\* leaves that stand are for the same day only if one was approved late, after
\* it had lapsed, over the other (assertNoOverlap, updateStatus).
THEOREM OneLeaveForTheDay == ASSUME OneClient, ClientsFinish PROVE Spec => []OneLeavePerDay
<1>1. ReviewInv => OneLeavePerDay
  BY DEF ReviewInv
<1> QED BY <1>1, AlwaysReviewInv, PTL
=============================================================================
