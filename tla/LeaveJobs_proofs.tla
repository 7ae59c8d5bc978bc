-------------------------- MODULE LeaveJobs_proofs --------------------------
(***************************************************************************)
(* Why the jobs that run on their own beside the leave pages keep the      *)
(* books: the monthly credit (LeaveAccrual), the payout of an ended year   *)
(* (LeavePayout) and the reminders (OverdueReminders).  Each starts again  *)
(* and again, overlaps itself and may stop half-way; what it has read may  *)
(* be old when it writes.                                                  *)
(*                                                                         *)
(* The credit.  What an evaluation finds is defined by recursion over the  *)
(* days: that it is a row of periods, each a complete month or the days up *)
(* to an absence, is shown by induction over how many days are left        *)
(* (FoundIsRow).  A period is added once, whatever runs overlap, so each   *)
(* month is credited once (Base).  That the periods follow one another     *)
(* without a gap needs that every run stands at a period saved already or  *)
(* at the next one to come (Chain), and so that what a run has read stays  *)
(* as it was.                                                              *)
(*                                                                         *)
(* The payout (section 5) works from what it has read.  Until somebody has *)
(* paid, that is still so when it pays (ReadingsHold); after that it pays  *)
(* nothing.                                                                *)
(*                                                                         *)
(* The reminders (section 6) are claimed before they are sent.             *)
(*                                                                         *)
(* The three have no variable in common: nothing is said about the jobs    *)
(* together.                                                               *)
(***************************************************************************)
EXTENDS LeaveAccrual, LeavePayout, OverdueReminders, SequenceTheorems, SumLemmas

-----------------------------------------------------------------------------
(***************************************************************************)
(* 1. What an evaluation of days finds.                                    *)
(***************************************************************************)
Far == LastDay + Month

Absences(c, now) == {d \in missed : c <= d /\ d < now /\ d < c + Month}

\* The periods from day c on, when f says which follow later days.
Follow(f, c, now) ==
  IF c >= now THEN <<>>
  ELSE IF Absences(c, now) # {}
    THEN <<[start |-> c, end |-> Min(Absences(c, now)), outcome |-> "VIOLATED"]>>
           \o f[Min(Absences(c, now)) + 1]
  ELSE IF Complete(c, now)
    THEN <<[start |-> c, end |-> c + Month, outcome |-> "PERFECT"]>> \o f[c + Month]
  ELSE <<>>

Found(now) == CHOOSE f : f = [c \in 0..(LastDay + Month) |-> Follow(f, c, now)]

LEMMA PeriodsAreFound ==
  ASSUME NEW first, NEW now
  PROVE  PeriodsFrom(first, now) = Capped(Found(now)[first])
BY DEF PeriodsFrom, Found, Follow, Absences

LEMMA LeastAbsence ==
  ASSUME missed \subseteq Days, NEW c \in Nat, NEW now \in Days, Absences(c, now) # {}
  PROVE  /\ Min(Absences(c, now)) \in missed \cap Nat
         /\ c <= Min(Absences(c, now)) /\ Min(Absences(c, now)) < now
         /\ Min(Absences(c, now)) < c + Month
         /\ \A d \in missed : ~(c <= d /\ d < Min(Absences(c, now)))
<1>1. Absences(c, now) \subseteq Nat
  <2>1. Absences(c, now) \subseteq Days
    BY DEF Absences
  <2>2. Days \subseteq Nat
    BY AccrualAssumption DEF Days
  <2> QED BY <2>1, <2>2
<1>2. PICK n \in Absences(c, now) : \A m \in Absences(c, now) : n <= m
  BY <1>1, LeastNumber
<1>3. Min(Absences(c, now)) \in Absences(c, now)
      /\ \A m \in Absences(c, now) : Min(Absences(c, now)) <= m
  BY <1>2 DEF Min
<1>4. PICK x : x = Min(Absences(c, now))
  OBVIOUS
<1>5. x \in missed /\ x \in Nat /\ c <= x /\ x < now /\ x < c + Month
  BY <1>1, <1>3, <1>4 DEF Absences
<1>6. ASSUME NEW d \in missed, c <= d, d < x PROVE FALSE
  <2>1. d \in Int /\ now \in Int /\ c + Month \in Int
    BY AccrualAssumption DEF Days
  <2>2. d \in Absences(c, now)
    BY <1>5, <1>6, <2>1 DEF Absences
  <2> QED BY <1>3, <1>4, <1>5, <1>6, <2>1, <2>2
<1> QED BY <1>4, <1>5, <1>6

\* Only later days matter.
LEMMA FollowLooksAhead ==
  ASSUME missed \subseteq Days, NEW c \in 0..Far, NEW now \in Days, NEW f, NEW g,
         \A e \in 0..Far : c < e => f[e] = g[e]
  PROVE  Follow(f, c, now) = Follow(g, c, now)
<1>1. c \in Nat /\ now \in Nat /\ now <= LastDay /\ LastDay \in Nat /\ Month \in Nat \ {0}
  BY AccrualAssumption DEF Days, Far
<1>2. CASE c >= now
  BY <1>2 DEF Follow
<1>3. CASE ~(c >= now) /\ Absences(c, now) # {}
  <2>1. PICK x : x = Min(Absences(c, now))
    OBVIOUS
  <2>2. x \in Nat /\ c <= x /\ x < now
    BY <1>1, <1>3, <2>1, LeastAbsence
  <2>3. x + 1 \in 0..Far /\ c < x + 1
    BY <1>1, <2>2 DEF Far
  <2> QED BY <1>3, <2>1, <2>3 DEF Follow
<1>4. CASE ~(c >= now) /\ Absences(c, now) = {}
  <2>1. c + Month \in 0..Far /\ c < c + Month
    BY <1>1, <1>4 DEF Far
  <2> QED BY <1>4, <2>1 DEF Follow
<1> QED BY <1>2, <1>3, <1>4

LEMMA FoundExists ==
  ASSUME missed \subseteq Days, NEW now \in Days
  PROVE  \E f : f = [c \in 0..Far |-> Follow(f, c, now)]
<1> DEFINE Solved(f, n) == /\ f = [c \in 0..Far |-> f[c]]
                           /\ \A c \in 0..Far : Far - c < n => f[c] = Follow(f, c, now)
           T == {n \in Nat : \E f : Solved(f, n)}
<1>0. Far \in Nat
  BY AccrualAssumption DEF Far
<1>1. 0 \in T
  <2> DEFINE f == [c \in 0..Far |-> <<>>]
  <2>1. Solved(f, 0)
    BY <1>0
  <2> QED BY <2>1
<1>2. ASSUME NEW n \in T PROVE n + 1 \in T
  <2>1. PICK f : Solved(f, n)
    BY <1>2
  <2> DEFINE g == [c \in 0..Far |-> IF Far - c = n THEN Follow(f, c, now) ELSE f[c]]
  <2>2. ASSUME NEW c \in 0..Far, Far - c < n + 1 PROVE g[c] = Follow(g, c, now)
    <3>1. \A e \in 0..Far : c < e => f[e] = g[e]
      BY <2>2, <1>0, <1>2
    <3>2. Follow(f, c, now) = Follow(g, c, now)
      <4> HIDE DEF g
      <4> QED BY <3>1, FollowLooksAhead
    <3>3. CASE Far - c = n
      BY <3>2, <3>3
    <3>4. CASE Far - c # n
      <4>1. Far - c < n
        BY <1>0, <1>2, <2>2, <3>4
      <4>2. f[c] = Follow(f, c, now)
        BY <2>1, <4>1
      <4> QED BY <3>2, <3>4, <4>2
    <3> QED BY <3>3, <3>4
  <2>3. g = [c \in 0..Far |-> g[c]]
    OBVIOUS
  <2> HIDE DEF g
  <2>4. Solved(g, n + 1)
    BY <2>2, <2>3
  <2>5. n + 1 \in Nat
    BY <1>2
  <2> HIDE DEF Solved
  <2> QED BY <2>4, <2>5
<1>3. T = Nat
  <2> HIDE DEF T
  <2>1. T \subseteq Nat
    BY DEF T
  <2> QED BY <1>1, <1>2, <2>1, AllNumbers
<1>4. PICK f : Solved(f, Far + 1)
  <2>1. Far + 1 \in T
    BY <1>0, <1>3
  <2> HIDE DEF Solved
  <2> QED BY <2>1
<1>5. \A c \in 0..Far : f[c] = Follow(f, c, now)
  BY <1>0, <1>4
<1>6. f = [c \in 0..Far |-> Follow(f, c, now)]
  BY <1>4, <1>5
<1> QED BY <1>6

LEMMA FoundUnfolds ==
  ASSUME missed \subseteq Days, NEW now \in Days
  PROVE  \A c \in 0..Far : Found(now)[c] = Follow(Found(now), c, now)
<1>1. \E f : f = [c \in 0..Far |-> Follow(f, c, now)]
  BY FoundExists
<1> DEFINE F == Found(now)
<1>2. F = [c \in 0..Far |-> Follow(F, c, now)]
  BY <1>1 DEF Found, Far
<1> HIDE DEF F
<1>3. \A c \in 0..Far : F[c] = Follow(F, c, now)
  BY <1>2
<1> QED BY <1>3 DEF F

-----------------------------------------------------------------------------
\* No absence from one day up to another.
Clear(first, next) == \A d \in missed : ~(first <= d /\ d < next)

\* A period as it must be, seen from day now: a complete month without an
\* absence, or the days up to the first absence.
Sound(p, now) ==
  \/ /\ p.outcome = "PERFECT" /\ p.end = p.start + Month /\ p.end <= now
     /\ Clear(p.start, p.end)
  \/ /\ p.outcome = "VIOLATED" /\ p.start <= p.end /\ p.end < p.start + Month /\ p.end < now
     /\ p.end \in missed /\ Clear(p.start, p.end)

\* Periods one after the other, from day c on.
Row(s, c, now) ==
  /\ s \in Seq(Period)
  /\ s # <<>> => s[1].start = c
  /\ \A i \in 1..Len(s) : Sound(s[i], now)
  /\ \A i \in 1..Len(s) - 1 : s[i + 1].start = CursorAfter(s[i])

LEMMA RowGrows ==
  ASSUME NEW p \in Period, NEW now, Sound(p, now), NEW s, Row(s, CursorAfter(p), now)
  PROVE  Row(<<p>> \o s, p.start, now)
<1>1. s \in Seq(Period) /\ <<p>> \in Seq(Period) /\ Len(<<p>>) = 1 /\ <<p>>[1] = p
  BY DEF Row
<1>2. PICK t : t = <<p>> \o s
  OBVIOUS
<1>3. PICK n \in Nat : n = Len(s)
  BY <1>1
<1>4. t \in Seq(Period) /\ Len(t) = 1 + n
      /\ \A i \in 1..1 + n : t[i] = IF i <= 1 THEN <<p>>[i] ELSE s[i - 1]
  BY <1>1, <1>2, <1>3, ConcatProperties
<1>5. t[1] = p /\ \A i \in 1..n : t[i + 1] = s[i]
  BY <1>1, <1>3, <1>4
<1>6. \A i \in 1..1 + n : Sound(t[i], now)
  <2> SUFFICES ASSUME NEW i \in 1..1 + n PROVE Sound(t[i], now)
    OBVIOUS
  <2>1. CASE i = 1
    BY <1>5, <2>1
  <2>2. CASE i # 1
    <3>1. i - 1 \in 1..n /\ t[i] = s[i - 1]
      BY <1>3, <1>5, <2>2
    <3> QED BY <1>3, <3>1 DEF Row
  <2> QED BY <2>1, <2>2
<1>7. \A i \in 1..n : t[i + 1].start = CursorAfter(t[i])
  <2> SUFFICES ASSUME NEW i \in 1..n PROVE t[i + 1].start = CursorAfter(t[i])
    OBVIOUS
  <2>1. CASE i = 1
    <3>1. s # <<>>
      BY <1>3, <2>1
    <3> QED BY <1>5, <2>1, <3>1 DEF Row
  <2>2. CASE i # 1
    <3>1. i - 1 \in 1..n - 1 /\ t[i] = s[i - 1] /\ t[i + 1] = s[i]
      BY <1>3, <1>5, <2>2
    <3> QED BY <1>3, <3>1 DEF Row
  <2> QED BY <2>1, <2>2
<1> QED BY <1>2, <1>3, <1>4, <1>5, <1>6, <1>7 DEF Row

LEMMA NoRowIsRow == ASSUME NEW c, NEW now PROVE Row(<<>>, c, now)
BY DEF Row

\* Whatever was found from day c on is a row of sound periods.
LEMMA FoundIsRow ==
  ASSUME missed \subseteq Days, NEW now \in Days
  PROVE  \A c \in 0..Far : Row(Found(now)[c], c, now)
<1> DEFINE T == {n \in Nat : \A c \in 0..Far : Far - c < n => Row(Found(now)[c], c, now)}
<1>0. /\ Far \in Nat /\ Far = LastDay + Month /\ LastDay \in Nat /\ Month \in Nat \ {0}
      /\ now \in Nat /\ now <= LastDay
  BY AccrualAssumption DEF Far, Days
<1>1. 0 \in T
  BY <1>0
<1>2. ASSUME NEW n \in T PROVE n + 1 \in T
  <2>1. n \in Nat /\ \A c \in 0..Far : Far - c < n => Row(Found(now)[c], c, now)
    BY <1>2
  <2> HIDE DEF T
  <2>2. ASSUME NEW c \in 0..Far, Far - c < n + 1 PROVE Row(Found(now)[c], c, now)
    <3>1. PICK f : f = Found(now)
      OBVIOUS
    <3>2. f[c] = Follow(f, c, now) /\ c \in Nat
      BY <1>0, <3>1, FoundUnfolds
    <3>3. \A e \in 0..Far : c < e => Row(f[e], e, now)
      BY <1>0, <2>1, <2>2, <3>1
    <3>4. CASE c >= now
      <4>1. f[c] = <<>>
        BY <3>2, <3>4 DEF Follow
      <4> QED BY <3>1, <4>1, NoRowIsRow
    <3>5. CASE ~(c >= now) /\ Absences(c, now) # {}
      <4>1. PICK x : x = Min(Absences(c, now))
        OBVIOUS
      <4>2. /\ x \in missed /\ x \in Nat /\ c <= x /\ x < now /\ x < c + Month
            /\ \A d \in missed : ~(c <= d /\ d < x)
        BY <3>2, <3>5, <4>1, LeastAbsence
      <4>3. PICK p : p = [start |-> c, end |-> x, outcome |-> "VIOLATED"]
        OBVIOUS
      <4>4. f[c] = <<p>> \o f[x + 1]
        BY <3>2, <3>5, <4>1, <4>3 DEF Follow
      <4>5. p \in Period
        BY <1>0, <3>2, <3>5, <4>2, <4>3 DEF Period, Days, Outcomes
      <4>6. Sound(p, now) /\ p.start = c /\ CursorAfter(p) = x + 1
        BY <4>2, <4>3 DEF Sound, Clear, CursorAfter
      <4>7. x + 1 \in 0..Far /\ c < x + 1
        BY <1>0, <3>2, <4>2
      <4>8. Row(f[x + 1], CursorAfter(p), now)
        BY <3>3, <4>6, <4>7
      <4> QED BY <3>1, <4>4, <4>5, <4>6, <4>8, RowGrows
    <3>6. CASE ~(c >= now) /\ Absences(c, now) = {} /\ Complete(c, now)
      <4>1. PICK p : p = [start |-> c, end |-> c + Month, outcome |-> "PERFECT"]
        OBVIOUS
      <4>2. f[c] = <<p>> \o f[c + Month]
        BY <3>2, <3>6, <4>1 DEF Follow
      <4>3. p \in Period
        BY <1>0, <3>2, <3>6, <4>1 DEF Period, Days, Outcomes
      <4>4. c + Month <= now
        BY <1>0, <3>2, <3>6 DEF Complete
      <4>5. Clear(c, c + Month)
        <5> SUFFICES ASSUME NEW d \in missed, c <= d, d < c + Month PROVE FALSE
          BY DEF Clear
        <5>1. d \in Nat
          BY <1>0 DEF Days
        <5>2. d \in Absences(c, now)
          BY <1>0, <3>2, <4>4, <5>1 DEF Absences
        <5> QED BY <3>6, <5>2
      <4>6. Sound(p, now) /\ p.start = c /\ CursorAfter(p) = c + Month
        BY <4>1, <4>4, <4>5 DEF Sound, CursorAfter
      <4>7. c + Month \in 0..Far /\ c < c + Month
        BY <1>0, <3>2, <3>6
      <4>8. Row(f[c + Month], CursorAfter(p), now)
        BY <3>3, <4>6, <4>7
      <4> QED BY <3>1, <4>2, <4>3, <4>6, <4>8, RowGrows
    <3>7. CASE ~(c >= now) /\ Absences(c, now) = {} /\ ~Complete(c, now)
      <4>1. f[c] = <<>>
        BY <3>2, <3>7 DEF Follow
      <4> QED BY <3>1, <4>1, NoRowIsRow
    <3> QED BY <3>4, <3>5, <3>6, <3>7
  <2>3. n + 1 \in Nat
    BY <2>1
  <2> QED BY <2>2, <2>3 DEF T
<1>3. T = Nat
  <2> HIDE DEF T
  <2>1. T \subseteq Nat
    BY DEF T
  <2> QED BY <1>1, <1>2, <2>1, AllNumbers
<1>4. Far + 1 \in T
  <2> HIDE DEF T
  <2> QED BY <1>0, <1>3
<1> QED BY <1>0, <1>4

\* What a run saves, too.
LEMMA PeriodsAreRow ==
  ASSUME missed \subseteq Days, NEW now \in Days, NEW c \in 0..Far
  PROVE  Row(PeriodsFrom(c, now), c, now)
<1>1. PICK s : s = Found(now)[c]
  OBVIOUS
<1>2. Row(s, c, now)
  BY <1>1, FoundIsRow
<1>3. PICK n : n = IF Len(s) < MaxCyclesPerRun THEN Len(s) ELSE MaxCyclesPerRun
  OBVIOUS
<1>4. s \in Seq(Period) /\ Len(s) \in Nat /\ MaxCyclesPerRun \in Nat
  BY <1>2, AccrualAssumption DEF Row
<1>5. n \in Nat /\ n <= Len(s)
  BY <1>3, <1>4
<1>6. PICK t : t = SubSeq(s, 1, n)
  OBVIOUS
<1>7. \A i \in 1..n : s[i] \in Period
  BY <1>4, <1>5
<1>8. t \in Seq(Period) /\ Len(t) = (IF 1 <= n THEN n - 1 + 1 ELSE 0)
      /\ \A i \in 1..n - 1 + 1 : t[i] = s[1 + i - 1]
  BY <1>5, <1>6, <1>7, SubSeqProperties
<1>9. Len(t) = n /\ \A i \in 1..n : t[i] = s[i]
  BY <1>5, <1>8
<1>10. t # <<>> => s # <<>> /\ t[1] = s[1]
  BY <1>4, <1>5, <1>8, <1>9
<1>11. \A i \in 1..n : Sound(t[i], now)
  BY <1>2, <1>4, <1>5, <1>9 DEF Row
<1>12. \A i \in 1..n - 1 : t[i + 1].start = CursorAfter(t[i])
  <2> SUFFICES ASSUME NEW i \in 1..n - 1 PROVE t[i + 1].start = CursorAfter(t[i])
    OBVIOUS
  <2>1. i \in 1..Len(s) - 1 /\ t[i + 1] = s[i + 1] /\ t[i] = s[i]
    BY <1>4, <1>5, <1>9
  <2> QED BY <1>2, <2>1 DEF Row
<1>13. Row(t, c, now)
  BY <1>2, <1>8, <1>9, <1>10, <1>11, <1>12 DEF Row
<1>14. PeriodsFrom(c, now) = t
  BY <1>1, <1>3, <1>6, PeriodsAreFound DEF Capped
<1> QED BY <1>13, <1>14

-----------------------------------------------------------------------------
(***************************************************************************)
(* 2. What is credited, whatever runs overlap, stop or read what has      *)
(* changed.                                                                *)
(***************************************************************************)
RunForms ==
  [pc : {"idle"}]
    \cup [pc : {"reading"}, cursor : 0..Far, today : Days]
    \cup [pc : {"saving"}, found : Seq(Period) \ {<<>>}]

Statuses == {"PROBATIONARY_SEASONAL", "PERMANENT_SEASONAL", "REGULAR", "SEPARATED"}

Typed ==
  /\ today \in Days /\ missed \subseteq Days
  /\ employment \in [status : Statuses, since : Days \cup {-1}, seeding : BOOLEAN]
  /\ employment.status # "PROBATIONARY_SEASONAL" => employment.since \in Days
  /\ records \subseteq Period /\ IsFiniteSet(records)
  /\ balance \in [LeaveYears -> [row : BOOLEAN, months : Nat]]
  /\ run \in [AccrualRuns -> RunForms]

\* No absence from one day up to another, but for those that came too late.
ClearSoFar(first, next) == \A d \in missed \ late : ~(first <= d /\ d < next)

\* A month that is complete, without an absence when it was found.
WasEarned(p) == p.outcome = "PERFECT" => p.end <= today /\ ClearSoFar(p.start, p.end)

RunFits(c) ==
  /\ c.pc = "reading" => c.today <= today
  /\ c.pc = "saving" => \A i \in 1..Len(c.found) : WasEarned(c.found[i])

Base ==
  /\ Typed /\ CreditsMatchPeriods
  /\ \A p \in records : WasEarned(p)
  /\ \A r \in AccrualRuns : RunFits(run[r])

CreditsOf(y) == {p \in records : p.outcome = "PERFECT" /\ LeaveYearOf(p.end) = y}

LEMMA SoundIsEarned ==
  ASSUME Typed, NEW p, NEW now \in Days, Sound(p, now), now <= today, p \in Period
  PROVE  WasEarned(p)
<1>1. p.end \in Int /\ today \in Int /\ now \in Int
  BY AccrualAssumption DEF Typed, Period, Days
<1> QED BY <1>1 DEF Sound, Clear, WasEarned, ClearSoFar

LEMMA IdleFits == Idle \in RunForms /\ RunFits(Idle)
BY DEF Idle, RunForms, RunFits

\* The rows and balances stay, one run goes on.
LEMMA RunGoesOn ==
  ASSUME Base, NEW r \in AccrualRuns, NEW d \in RunForms, RunFits(d),
         run' = [run EXCEPT ![r] = d], UNCHANGED <<today, missed, employment, records, balance, late>>
  PROVE  Base'
<1>1. run' \in [AccrualRuns -> RunForms] /\ \A o \in AccrualRuns : run'[o] = IF o = r THEN d ELSE run[o]
  BY DEF Base, Typed
<1>2. Typed'
  BY <1>1 DEF Base, Typed
<1>3. \A o \in AccrualRuns : RunFits(run'[o])
  BY <1>1 DEF Base
<1>4. (\A o \in AccrualRuns : RunFits(run[o]))'
  BY <1>3 DEF RunFits, WasEarned, ClearSoFar
<1>5. CreditsMatchPeriods' /\ (\A p \in records : WasEarned(p))'
  BY DEF Base, CreditsMatchPeriods, WasEarned, ClearSoFar
<1> QED BY <1>2, <1>4, <1>5 DEF Base

\* The days that end are too late for any period found before.
LEMMA TickKeepsBase == ASSUME Base, Tick PROVE Base'
<1>1. /\ today \in Nat /\ today < LastDay /\ today' = today + 1 /\ missed \subseteq Days
      /\ missed' \in {missed, missed \cup {today}} /\ LastDay \in Nat
      /\ UNCHANGED <<employment, records, balance, run, late>>
  BY AccrualAssumption DEF Tick, Base, Typed, Days
<1>2. Typed'
  <2>1. today' \in Days /\ missed' \subseteq Days
    BY <1>1 DEF Days
  <2> QED BY <1>1, <2>1 DEF Base, Typed
<1>3. ASSUME NEW p \in Period, WasEarned(p) PROVE WasEarned(p)'
  <2>1. p.end \in Int
    BY AccrualAssumption DEF Period
  <2>2. \A d \in missed' : d \in missed \/ d = today
    BY <1>1
  <2> QED BY <1>1, <1>3, <2>1, <2>2 DEF WasEarned, ClearSoFar
<1>4. ASSUME NEW o \in AccrualRuns PROVE RunFits(run[o])'
  <2>1. PICK c \in RunForms : c = run[o] /\ c = run'[o]
    BY <1>1 DEF Base, Typed
  <2>2. RunFits(c)
    BY <2>1 DEF Base
  <2>3. c.pc = "reading" => c.today <= today'
    <3>1. c.pc = "reading" => c.today \in Int
      BY DEF RunForms, Days
    <3> QED BY <1>1, <2>2, <3>1 DEF RunFits
  <2>4. ASSUME c.pc = "saving", NEW i \in 1..Len(c.found) PROVE WasEarned(c.found[i])'
    <3>1. c.found[i] \in Period /\ WasEarned(c.found[i])
      BY <2>2, <2>4 DEF RunForms, RunFits
    <3> QED BY <1>3, <3>1
  <2>5. RunFits(c)'
    BY <2>3, <2>4 DEF RunFits
  <2> QED BY <2>1, <2>5 DEF RunFits, WasEarned, ClearSoFar
<1>5. \A p \in records' : WasEarned(p)'
  BY <1>1, <1>3 DEF Base, Typed
<1>6. CreditsMatchPeriods'
  BY <1>1 DEF Base, CreditsMatchPeriods
<1> QED BY <1>2, <1>4, <1>5, <1>6 DEF Base

\* Fewer absences and other employments change nothing that was credited.
LEMMA OutsideKeepsBase ==
  ASSUME Base, missed' \subseteq Days, missed' \ late' \subseteq missed \ late,
         UNCHANGED <<today, records, run>>,
         balance' \in [LeaveYears -> [row : BOOLEAN, months : Nat]],
         \A y \in LeaveYears : balance'[y].months = balance[y].months,
         employment' \in [status : Statuses, since : Days \cup {-1}, seeding : BOOLEAN],
         employment'.status # "PROBATIONARY_SEASONAL" => employment'.since \in Days
  PROVE  Base'
<1>1. Typed'
  BY DEF Base, Typed
<1>2. \A p : WasEarned(p) => WasEarned(p)'
  BY DEF WasEarned, ClearSoFar
<1>3. (\A o \in AccrualRuns : RunFits(run[o]))'
  <2> SUFFICES ASSUME NEW o \in AccrualRuns PROVE RunFits(run[o])'
    OBVIOUS
  <2>1. PICK c : c = run[o] /\ c = run'[o]
    OBVIOUS
  <2>2. RunFits(c)
    BY <2>1 DEF Base
  <2>3. RunFits(c)'
    BY <1>2, <2>2 DEF RunFits
  <2> QED BY <2>1, <2>3 DEF RunFits, WasEarned, ClearSoFar
<1>4. (\A p \in records : WasEarned(p))'
  BY <1>2 DEF Base
<1>5. CreditsMatchPeriods'
  BY DEF Base, CreditsMatchPeriods
<1> QED BY <1>1, <1>3, <1>4, <1>5 DEF Base

LEMMA ExcuseKeepsBase == ASSUME Base, NEW d \in Days, Excuse(d) PROVE Base'
<1>1. /\ missed' \subseteq missed /\ missed' \ late' \subseteq missed \ late
      /\ missed' \subseteq Days
      /\ UNCHANGED <<today, employment, records, balance, run>>
  BY DEF Excuse, Corrects, Base, Typed
<1>2. /\ balance' \in [LeaveYears -> [row : BOOLEAN, months : Nat]]
      /\ \A y \in LeaveYears : balance'[y].months = balance[y].months
      /\ employment' \in [status : Statuses, since : Days \cup {-1}, seeding : BOOLEAN]
      /\ employment'.status # "PROBATIONARY_SEASONAL" => employment'.since \in Days
  BY <1>1 DEF Base, Typed
<1> QED BY <1>1, <1>2, OutsideKeepsBase

\* A day that becomes an absence is one that came too late, or not in a month.
LEMMA MissKeepsBase == ASSUME Base, NEW d \in Days, Miss(d) PROVE Base'
<1>1. /\ missed' = missed \cup {d}
      /\ late' = IF d \in SavedDays \cup FoundDays THEN late \cup {d} ELSE late
      /\ UNCHANGED <<today, employment, records, balance, run>>
  BY DEF Miss, Corrects
<1>2. Typed' /\ CreditsMatchPeriods'
  BY <1>1 DEF Base, Typed, CreditsMatchPeriods
<1>3. ASSUME NEW p \in Period, WasEarned(p), DaysOf(p) \subseteq SavedDays \cup FoundDays
      PROVE  WasEarned(p)'
  <2> SUFFICES ASSUME p.outcome = "PERFECT", NEW e \in missed' \ late',
                      p.start <= e, e < p.end
               PROVE  FALSE
    BY <1>1, <1>3 DEF WasEarned, ClearSoFar
  <2>1. e \in missed \/ e = d
    BY <1>1
  <2>2. e \in missed => e \notin late
    BY <1>1
  <2>3. e = d
    BY <2>1, <2>2, <1>3 DEF WasEarned, ClearSoFar
  <2>4. e \in Int /\ p.start \in Int /\ p.end \in Int
    BY <2>3, AccrualAssumption DEF Days, Period
  <2>5. e \in DaysOf(p)
    BY <2>4 DEF DaysOf
  <2> QED BY <1>1, <1>3, <2>3, <2>5
<1>4. ASSUME NEW p \in records' PROVE WasEarned(p)'
  <2>1. p \in Period /\ WasEarned(p) /\ p \in records
    BY <1>1 DEF Base, Typed
  <2>2. DaysOf(p) \subseteq SavedDays
    BY <2>1 DEF SavedDays
  <2> QED BY <2>1, <2>2, <1>3
<1>5. ASSUME NEW o \in AccrualRuns PROVE RunFits(run[o])'
  <2>1. PICK c \in RunForms : c = run[o] /\ c = run'[o]
    BY <1>1 DEF Base, Typed
  <2>2. RunFits(c)
    BY <2>1 DEF Base
  <2>3. ASSUME c.pc = "saving", NEW i \in 1..Len(c.found) PROVE WasEarned(c.found[i])'
    <3>1. c.found[i] \in Period /\ WasEarned(c.found[i])
      BY <2>2, <2>3 DEF RunForms, RunFits
    <3>2. o \in {x \in AccrualRuns : run[x].pc = "saving"} /\ i \in 1..Len(run[o].found)
      BY <2>1, <2>3
    <3>3. DaysOf(run[o].found[i]) \subseteq FoundDays
      BY <3>2 DEF FoundDays
    <3>4. DaysOf(c.found[i]) \subseteq SavedDays \cup FoundDays
      BY <2>1, <3>3
    <3> QED BY <3>1, <3>4, <1>3
  <2>4. RunFits(c)'
    BY <1>1, <2>2, <2>3 DEF RunFits
  <2> QED BY <2>1, <2>4 DEF RunFits, WasEarned, ClearSoFar
<1> QED BY <1>2, <1>4, <1>5 DEF Base

\* A change of employment, from a day on that the employee has been permanent.
LEMMA MoveKeepsBase ==
  ASSUME Base, NEW standing \in Statuses, NEW since \in Days, NEW seeding \in BOOLEAN,
         Move(standing, since, seeding)
  PROVE  Base'
<1>1. /\ UNCHANGED <<today, missed, records, balance, run, late>> /\ missed \subseteq Days
      /\ employment' = [status |-> standing, since |-> since, seeding |-> seeding]
  BY DEF Move, Base, Typed
<1>2. /\ balance' \in [LeaveYears -> [row : BOOLEAN, months : Nat]]
      /\ \A y \in LeaveYears : balance'[y].months = balance[y].months
  BY <1>1 DEF Base, Typed
<1> QED BY <1>1, <1>2, OutsideKeepsBase

LEMMA EmploymentKeepsBase ==
  ASSUME Base, Convert \/ MakeRegular \/ Archive \/ Restore
  PROVE  Base'
<1>1. /\ today \in Days /\ "PERMANENT_SEASONAL" \in Statuses /\ "REGULAR" \in Statuses
      /\ "SEPARATED" \in Statuses
      /\ employment.status # "PROBATIONARY_SEASONAL" => employment.since \in Days
  BY DEF Base, Typed, Statuses
<1>2. CASE Convert
  BY <1>1, <1>2, MoveKeepsBase DEF Convert
<1>3. CASE MakeRegular
  BY <1>1, <1>3, MoveKeepsBase DEF MakeRegular, Seasonal
<1>4. CASE Archive
  BY <1>1, <1>4, MoveKeepsBase DEF Archive, Seasonal
<1>5. CASE Restore
  BY <1>1, <1>5, MoveKeepsBase DEF Restore
<1> QED BY <1>2, <1>3, <1>4, <1>5

LEMMA SeedBalanceKeepsBase == ASSUME Base, SeedBalance PROVE Base'
<1>1. /\ balance' = [balance EXCEPT ![LeaveYearOf(today)].row = TRUE]
      /\ employment' = [employment EXCEPT !.seeding = FALSE]
      /\ UNCHANGED <<today, missed, records, run, late>> /\ missed \subseteq Days
  BY DEF SeedBalance, Base, Typed
<1>2. balance \in [LeaveYears -> [row : BOOLEAN, months : Nat]]
      /\ employment \in [status : Statuses, since : Days \cup {-1}, seeding : BOOLEAN]
      /\ (employment.status # "PROBATIONARY_SEASONAL" => employment.since \in Days)
  BY DEF Base, Typed
<1>3. PICK y0 : y0 = LeaveYearOf(today)
  OBVIOUS
<1>4. /\ balance' \in [LeaveYears -> [row : BOOLEAN, months : Nat]]
      /\ \A y \in LeaveYears : balance'[y].months = balance[y].months
  BY <1>1, <1>2, <1>3
<1>5. /\ employment' \in [status : Statuses, since : Days \cup {-1}, seeding : BOOLEAN]
      /\ employment'.status # "PROBATIONARY_SEASONAL" => employment'.since \in Days
  BY <1>1, <1>2
<1> QED BY <1>1, <1>4, <1>5, OutsideKeepsBase

\* A place to go on from is a day, and not after the next to be taken.
LEMMA CursorIsNat ==
  ASSUME Typed, Seasonal, NEW c \in Cursors
  PROVE  c \in Nat
<1>1. CASE records = {}
  BY <1>1, AccrualAssumption DEF Typed, Seasonal, Cursors, Days
<1>2. CASE records # {}
  <2>1. PICK p \in records : c = CursorAfter(p)
    BY <1>2 DEF Cursors, Latest
  <2>2. p.end \in Nat
    BY AccrualAssumption DEF Typed, Period
  <2> QED BY <2>1, <2>2 DEF CursorAfter
<1> QED BY <1>1, <1>2

LEMMA BeginRunKeepsBase == ASSUME Base, NEW r \in AccrualRuns, BeginRun(r) PROVE Base'
<1>1. PICK c \in Cursors :
        /\ c < today
        /\ run' = [run EXCEPT ![r] = [pc |-> "reading", cursor |-> c, today |-> today]]
  BY DEF BeginRun
<1>2. UNCHANGED <<today, missed, employment, records, balance, late>>
  BY DEF BeginRun
<1>3. c \in Nat /\ today \in Days
  BY CursorIsNat DEF BeginRun, Base, Typed
<1>4. c \in 0..Far /\ today <= today
  BY <1>1, <1>3, AccrualAssumption DEF Days, Far
<1>5. PICK d : d = [pc |-> "reading", cursor |-> c, today |-> today]
  OBVIOUS
<1>6. d \in RunForms /\ RunFits(d)
  BY <1>3, <1>4, <1>5 DEF RunForms, RunFits
<1> QED BY <1>1, <1>2, <1>5, <1>6, RunGoesOn

LEMMA ReadDaysKeepsBase == ASSUME Base, NEW r \in AccrualRuns, ReadDays(r) PROVE Base'
<1>1. PICK c : c = run[r]
  OBVIOUS
<1>2. c.pc = "reading" /\ c \in RunForms /\ RunFits(c)
  BY <1>1 DEF ReadDays, Base, Typed
<1>3. c.cursor \in 0..Far /\ c.today \in Days /\ c.today <= today
  BY <1>2 DEF RunForms, RunFits
<1>4. PICK s : s = PeriodsFrom(c.cursor, c.today)
  OBVIOUS
<1>5. Row(s, c.cursor, c.today)
  BY <1>3, <1>4, PeriodsAreRow DEF Base, Typed
<1>6. /\ UNCHANGED <<today, missed, employment, records, balance, late>>
      /\ run' = [run EXCEPT ![r] = IF s = <<>> THEN Idle ELSE [pc |-> "saving", found |-> s]]
  BY <1>1, <1>4 DEF ReadDays
<1>7. PICK d : d = IF s = <<>> THEN Idle ELSE [pc |-> "saving", found |-> s]
  OBVIOUS
<1>8. d \in RunForms /\ RunFits(d)
  <2>1. CASE s = <<>>
    BY <1>7, <2>1, IdleFits
  <2>2. CASE s # <<>>
    <3>1. ASSUME NEW i \in 1..Len(s) PROVE WasEarned(s[i])
      <4>1. Sound(s[i], c.today) /\ s[i] \in Period
        BY <1>5 DEF Row
      <4> QED BY <1>3, <4>1, SoundIsEarned DEF Base
    <3>2. d = [pc |-> "saving", found |-> s] /\ s \in Seq(Period) \ {<<>>}
      BY <1>5, <1>7, <2>2 DEF Row
    <3> QED BY <3>1, <3>2 DEF RunForms, RunFits
  <2> QED BY <2>1, <2>2
<1> QED BY <1>6, <1>7, <1>8, RunGoesOn

LEMMA StopRunKeepsBase == ASSUME Base, NEW r \in AccrualRuns, StopRun(r) PROVE Base'
<1>1. run' = [run EXCEPT ![r] = Idle] /\ UNCHANGED <<today, missed, employment, records, balance, late>>
  BY DEF StopRun
<1> QED BY <1>1, IdleFits, RunGoesOn

\* A month saved for the first time is one month more in its year.
LEMMA NewMonthIsCredited ==
  ASSUME Base, NEW p \in Period, NewPeriod(p), p.outcome = "PERFECT",
         records' = records \cup {p},
         balance' = [balance EXCEPT ![LeaveYearOf(p.end)] = [row |-> TRUE, months |-> @.months + 1]]
  PROVE  CreditsMatchPeriods'
<1> SUFFICES ASSUME NEW y \in LeaveYears PROVE balance'[y].months = Cardinality(CreditsOf(y)')
  BY DEF CreditsMatchPeriods, CreditsOf
<1>1. PICK z : z = LeaveYearOf(p.end)
  OBVIOUS
<1>2. balance \in [LeaveYears -> [row : BOOLEAN, months : Nat]]
      /\ balance[y].months = Cardinality(CreditsOf(y)) /\ balance[y].months \in Nat
  BY DEF Base, Typed, CreditsMatchPeriods, CreditsOf
<1>3. IsFiniteSet(CreditsOf(y)) /\ p \notin CreditsOf(y)
  <2>1. CreditsOf(y) \subseteq records /\ p \notin records
    BY DEF CreditsOf, NewPeriod
  <2> QED BY <2>1, FS_Subset DEF Base, Typed
<1>4. CASE y = z
  <2>1. CreditsOf(y)' = CreditsOf(y) \cup {p}
    BY <1>1, <1>4 DEF CreditsOf
  <2>2. Cardinality(CreditsOf(y) \cup {p}) = Cardinality(CreditsOf(y)) + 1
    BY <1>3, FS_AddElement
  <2>3. balance'[y].months = balance[y].months + 1
    BY <1>1, <1>2, <1>4
  <2> QED BY <1>2, <2>1, <2>2, <2>3
<1>5. CASE y # z
  <2>1. CreditsOf(y)' = CreditsOf(y)
    BY <1>1, <1>5 DEF CreditsOf
  <2>2. balance'[y].months = balance[y].months
    BY <1>1, <1>2, <1>5
  <2> QED BY <1>2, <2>1, <2>2
<1> QED BY <1>4, <1>5

LEMMA SaveKeepsBase == ASSUME Base, NEW r \in AccrualRuns, Save(r) PROVE Base'
<1>1. PICK c : c = run[r]
  OBVIOUS
<1>2. c.pc = "saving" /\ c \in RunForms /\ RunFits(c)
  BY <1>1 DEF Save, Base, Typed
<1>3. PICK s : s = c.found
  OBVIOUS
<1>4. s \in Seq(Period) /\ s # <<>> /\ \A i \in 1..Len(s) : WasEarned(s[i])
  BY <1>2, <1>3 DEF RunForms, RunFits
<1>5. PICK p : p = Head(s)
  OBVIOUS
<1>6. PICK t : t = Tail(s)
  OBVIOUS
<1>7. /\ p \in Period /\ t \in Seq(Period) /\ Len(t) = Len(s) - 1 /\ p = s[1]
      /\ \A i \in 1..Len(t) : t[i] = s[i + 1]
  BY <1>4, <1>5, <1>6, HeadTailProperties
<1>8. WasEarned(p) /\ \A i \in 1..Len(t) : WasEarned(t[i])
  <2>1. Len(s) \in Nat /\ Len(s) # 0
    BY <1>4
  <2> QED BY <1>4, <1>7, <2>1
<1>9. /\ records' = IF NewPeriod(p) THEN records \cup {p} ELSE records
      /\ balance' = IF NewPeriod(p) /\ p.outcome = "PERFECT"
                      THEN [balance EXCEPT ![LeaveYearOf(p.end)] =
                              [row |-> TRUE, months |-> @.months + 1]]
                      ELSE balance
      /\ run' = [run EXCEPT ![r] =
                   IF t = <<>> THEN Idle ELSE [pc |-> "saving", found |-> t]]
      /\ UNCHANGED <<today, missed, employment, late>>
  BY <1>1, <1>3, <1>5, <1>6 DEF Save
<1>10. PICK d : d = IF t = <<>> THEN Idle ELSE [pc |-> "saving", found |-> t]
  OBVIOUS
<1>11. d \in RunForms /\ RunFits(d)
  <2>1. CASE t = <<>>
    BY <1>10, <2>1, IdleFits
  <2>2. CASE t # <<>>
    BY <1>7, <1>8, <1>10, <2>2 DEF RunForms, RunFits
  <2> QED BY <2>1, <2>2
<1>12. Typed'
  <2>1. records' \subseteq Period /\ IsFiniteSet(records')
    BY <1>7, <1>9, FS_AddElement DEF Base, Typed
  <2>2. balance' \in [LeaveYears -> [row : BOOLEAN, months : Nat]]
    <3>1. PICK z : z = LeaveYearOf(p.end)
      OBVIOUS
    <3>2. balance \in [LeaveYears -> [row : BOOLEAN, months : Nat]]
      BY DEF Base, Typed
    <3>3. balance' = balance
          \/ balance' = [balance EXCEPT ![z] = [row |-> TRUE, months |-> @.months + 1]]
      BY <1>9, <3>1
    <3>4. CASE z \notin LeaveYears
      BY <3>2, <3>3, <3>4
    <3>5. CASE z \in LeaveYears
      <4>1. balance[z].months + 1 \in Nat
        BY <3>2, <3>5
      <4>2. [row |-> TRUE, months |-> balance[z].months + 1] \in [row : BOOLEAN, months : Nat]
        BY <4>1
      <4> QED BY <3>2, <3>3, <3>5, <4>2
    <3> QED BY <3>4, <3>5
  <2>3. run' \in [AccrualRuns -> RunForms]
    BY <1>9, <1>10, <1>11 DEF Base, Typed
  <2> QED BY <1>9, <2>1, <2>2, <2>3 DEF Base, Typed
<1>13. \A o \in AccrualRuns : RunFits(run'[o])
  BY <1>9, <1>10, <1>11 DEF Base, Typed
<1>14. (\A o \in AccrualRuns : RunFits(run[o]))'
  BY <1>9, <1>13 DEF RunFits, WasEarned, ClearSoFar
<1>15. (\A q \in records : WasEarned(q))'
  <2>1. \A q \in records' : WasEarned(q)
    BY <1>8, <1>9 DEF Base
  <2> QED BY <1>9, <2>1 DEF WasEarned, ClearSoFar
<1>16. CreditsMatchPeriods'
  <2>1. CASE NewPeriod(p) /\ p.outcome = "PERFECT"
    BY <1>7, <1>9, <2>1, NewMonthIsCredited
  <2>2. CASE ~(NewPeriod(p) /\ p.outcome = "PERFECT")
    <3>1. balance' = balance /\ \A q \in records' : q \in records \/ q.outcome # "PERFECT"
      BY <1>9, <2>2
    <3>2. records \subseteq records'
      BY <1>9
    <3>3. \A y \in LeaveYears : CreditsOf(y)' = CreditsOf(y)
      BY <3>1, <3>2 DEF CreditsOf
    <3> QED BY <3>1, <3>3 DEF Base, CreditsMatchPeriods, CreditsOf
  <2> QED BY <2>1, <2>2
<1> QED BY <1>12, <1>14, <1>15, <1>16 DEF Base

LEMMA InitIsBase == ASSUME Init PROVE Base
<1>1. 0 \in Days
  BY AccrualAssumption DEF Days
<1>2. Typed
  <2>1. records \subseteq Period /\ IsFiniteSet(records)
    BY FS_EmptySet DEF Init
  <2>2. balance \in [LeaveYears -> [row : BOOLEAN, months : Nat]]
    BY DEF Init
  <2>3. run \in [AccrualRuns -> RunForms]
    BY IdleFits DEF Init
  <2>4. /\ employment \in [status : Statuses, since : Days \cup {-1}, seeding : BOOLEAN]
        /\ employment.status # "PROBATIONARY_SEASONAL" => employment.since \in Days
    <3>1. CASE employment = [status |-> "PERMANENT_SEASONAL", since |-> 0, seeding |-> TRUE]
      BY <1>1, <3>1 DEF Statuses
    <3>2. CASE employment = [status |-> "PROBATIONARY_SEASONAL", since |-> -1, seeding |-> FALSE]
      BY <3>2 DEF Statuses
    <3> QED BY <3>1, <3>2 DEF Init
  <2> QED BY <1>1, <2>1, <2>2, <2>3, <2>4 DEF Init, Typed
<1>3. \A r \in AccrualRuns : RunFits(run[r])
  BY IdleFits DEF Init
<1>4. CreditsMatchPeriods
  <2>1. \A y \in LeaveYears : CreditsOf(y) = {} /\ balance[y].months = 0
    BY DEF Init, CreditsOf
  <2> QED BY <2>1, FS_EmptySet DEF CreditsMatchPeriods, CreditsOf
<1> QED BY <1>2, <1>3, <1>4 DEF Init, Base

LEMMA StepKeepsBase == Base /\ [Next]_vars => Base'
<1> SUFFICES ASSUME Base, [Next]_vars PROVE Base'
  OBVIOUS
<1>1. CASE Tick
  BY <1>1, TickKeepsBase
<1>2. ASSUME NEW d \in Days, Excuse(d) PROVE Base'
  BY <1>2, ExcuseKeepsBase
<1>10. ASSUME NEW d \in Days, Miss(d) PROVE Base'
  BY <1>10, MissKeepsBase
<1>3. CASE Convert \/ MakeRegular \/ Archive \/ Restore
  BY <1>3, EmploymentKeepsBase
<1>4. CASE SeedBalance
  BY <1>4, SeedBalanceKeepsBase
<1>5. ASSUME NEW r \in AccrualRuns, BeginRun(r) PROVE Base'
  BY <1>5, BeginRunKeepsBase
<1>6. ASSUME NEW r \in AccrualRuns, ReadDays(r) PROVE Base'
  BY <1>6, ReadDaysKeepsBase
<1>7. ASSUME NEW r \in AccrualRuns, Save(r) PROVE Base'
  BY <1>7, SaveKeepsBase
<1>8. ASSUME NEW r \in AccrualRuns, StopRun(r) PROVE Base'
  BY <1>8, StopRunKeepsBase
<1>9. CASE UNCHANGED vars
  BY <1>9 DEF vars, Base, Typed, CreditsMatchPeriods, WasEarned, ClearSoFar, RunFits
<1> QED BY <1>1, <1>2, <1>3, <1>4, <1>5, <1>6, <1>7, <1>8, <1>9, <1>10 DEF Next, RunStep

LEMMA BaseHolds == Spec => []Base
<1>1. Init => Base
  BY InitIsBase
<1> QED BY <1>1, StepKeepsBase, PTL DEF Spec

-----------------------------------------------------------------------------
\* processAccruals: however the runs overlap, stop half-way or read days that
\* have changed since, a leave year's balance holds one credit for each
\* complete month saved in it.
THEOREM CreditsAreExact == Spec => []CreditsMatchPeriods
<1>1. Base => CreditsMatchPeriods
  BY DEF Base
<1> QED BY <1>1, BaseHolds, PTL

\* processAccruals: no absence is inside a month that was credited, whatever was
\* excused or cancelled beside the runs, unless it became one after the month was
\* found.
THEOREM AbsencesEarnNothing == Spec => []NoAbsenceCredited
<1>1. Base => NoAbsenceCredited
  <2> SUFFICES ASSUME Base, NEW p \in records, p.outcome = "PERFECT", NEW d \in DaysOf(p),
                      d \in missed
               PROVE  d \in late
    BY DEF NoAbsenceCredited
  <2>1. WasEarned(p) /\ p.end \in Nat /\ p.start \in Nat
    BY AccrualAssumption DEF Base, Typed, Period, Days
  <2>2. p.start <= d /\ d < p.end
    BY <2>1 DEF DaysOf
  <2> QED BY <2>1, <2>2 DEF WasEarned, ClearSoFar
<1> QED BY <1>1, BaseHolds, PTL

-----------------------------------------------------------------------------
(***************************************************************************)
(* 3. The chain of periods, until what a run has read is rewritten.  A     *)
(* saved period need not stay sound: a correction may fall into it.  Only  *)
(* where an evaluation may start over it does, since two runs that look at *)
(* the same days must find the same.                                       *)
(***************************************************************************)
\* The day after the last of some periods.
DayAfter(rs) == Max({CursorAfter(q) : q \in rs})

LEMMA CursorType ==
  ASSUME NEW p \in Period
  PROVE  CursorAfter(p) \in Nat /\ CursorAfter(p) <= Far + 1 /\ p.start \in Nat /\ p.end \in Nat
<1>1. p.end \in 0..Far /\ Far \in Nat /\ p.start \in Nat
  BY AccrualAssumption DEF Period, Far, Days
<1> QED BY <1>1 DEF CursorAfter

LEMMA LastCursor ==
  ASSUME NEW rs, rs \subseteq Period, rs # {}
  PROVE  /\ \E q \in rs : DayAfter(rs) = CursorAfter(q)
         /\ \A q \in rs : CursorAfter(q) <= DayAfter(rs)
         /\ DayAfter(rs) \in Nat
<1> DEFINE T == {CursorAfter(q) : q \in rs}
<1>1. T \subseteq Nat /\ T # {} /\ \A m \in T : m <= Far + 1
  BY CursorType
<1>2. Far + 1 \in Nat
  BY AccrualAssumption DEF Far
<1>3. Max(T) \in T /\ \A m \in T : m <= Max(T)
  <2> HIDE DEF T
  <2>1. PICK y \in T : \A m \in T : y >= m
    BY <1>1, <1>2, GreatestNumber
  <2>2. Max(T) \in T /\ \A m \in T : Max(T) >= m
    BY <2>1 DEF Max
  <2> QED BY <1>1, <2>2
<1>4. PICK x : x = Max(T)
  OBVIOUS
<1>5. x \in T /\ \A m \in T : m <= x
  BY <1>3, <1>4
<1>6. x = DayAfter(rs) /\ x \in Nat
  BY <1>1, <1>4, <1>5 DEF DayAfter
<1> QED BY <1>5, <1>6

\* A period that begins where the last one ended is the last one then.
LEMMA LastGrows ==
  ASSUME NEW rs, rs \subseteq Period, NEW p \in Period, NEW now, Sound(p, now),
         rs = {} \/ p.start = DayAfter(rs)
  PROVE  DayAfter(rs \cup {p}) = CursorAfter(p)
<1>1. p.start < CursorAfter(p)
  BY CursorType, AccrualAssumption DEF Sound, CursorAfter
<1>2. \A q \in rs \cup {p} : CursorAfter(q) <= CursorAfter(p)
  <2> SUFFICES ASSUME NEW q \in rs \cup {p} PROVE CursorAfter(q) <= CursorAfter(p)
    OBVIOUS
  <2>1. CursorAfter(q) \in Nat /\ CursorAfter(p) \in Nat /\ p.start \in Nat
    BY CursorType
  <2>2. CASE q = p
    BY <2>1, <2>2
  <2>3. CASE q # p
    <3>1. q \in rs /\ p.start = DayAfter(rs)
      BY <2>3
    <3>2. CursorAfter(q) <= p.start
      BY <3>1, LastCursor
    <3> QED BY <1>1, <2>1, <3>2
  <2> QED BY <2>2, <2>3
<1>3. PICK rt : rt = rs \cup {p}
  OBVIOUS
<1>4. rt \subseteq Period /\ rt # {} /\ p \in rt
  BY <1>3
<1>5. /\ \E q \in rt : DayAfter(rt) = CursorAfter(q)
      /\ CursorAfter(p) <= DayAfter(rt)
      /\ DayAfter(rt) \in Nat
  BY <1>4, LastCursor
<1>6. DayAfter(rt) <= CursorAfter(p)
  BY <1>2, <1>3, <1>5
<1>7. DayAfter(rt) = CursorAfter(p)
  BY <1>5, <1>6, CursorType
<1> QED BY <1>3, <1>7

\* Two periods that begin on one day, both as the days are, end on one day.
LEMMA OneWayOn ==
  ASSUME missed \subseteq Days, NEW p \in Period, NEW q \in Period, p.start = q.start,
         NEW now, Sound(p, now), Sound(q, now)
  PROVE  CursorAfter(p) = CursorAfter(q)
<1>1. p.start \in Nat /\ p.end \in Nat /\ q.end \in Nat /\ Month \in Nat \ {0}
  BY CursorType, AccrualAssumption
<1>2. CASE p.outcome = "PERFECT" /\ q.outcome = "PERFECT"
  BY <1>2 DEF Sound, CursorAfter
<1>3. CASE p.outcome = "PERFECT" /\ q.outcome = "VIOLATED"
  BY <1>1, <1>3 DEF Sound, Clear
<1>4. CASE p.outcome = "VIOLATED" /\ q.outcome = "PERFECT"
  BY <1>1, <1>4 DEF Sound, Clear
<1>5. CASE p.outcome = "VIOLATED" /\ q.outcome = "VIOLATED"
  <2>1. p.end = q.end
    BY <1>1, <1>5 DEF Sound, Clear
  <2> QED BY <1>5, <2>1 DEF CursorAfter
<1> QED BY <1>2, <1>3, <1>4, <1>5 DEF Sound

\* What is sound stays sound while days end.
LEMMA SoundLater ==
  ASSUME NEW p \in Period, NEW now \in Days, NEW later \in Days, now <= later, Sound(p, now)
  PROVE  Sound(p, later)
<1>1. p.end \in Nat /\ now \in Nat /\ later \in Nat
  BY CursorType, AccrualAssumption DEF Days
<1> QED BY <1>1 DEF Sound

-----------------------------------------------------------------------------
\* Where a run may stand: at a period saved already, or at the next one.
Places == {q.start : q \in records} \cup {NextDay}

\* A period as long as its outcome says.
Formed(p) ==
  \/ p.outcome = "PERFECT" /\ p.end = p.start + Month
  \/ p.outcome = "VIOLATED" /\ p.start <= p.end /\ p.end < p.start + Month

\* The periods saved from a day on are as the days are.
SoundFrom(c) == \A p \in records : c <= p.start => Sound(p, today)

OnItsWay(c) ==
  /\ c.pc = "reading" => c.cursor \in Places /\ SoundFrom(c.cursor)
  /\ c.pc = "saving" => /\ c.found[1].start \in Places /\ SoundFrom(c.found[1].start)
                        /\ \A i \in 1..Len(c.found) : Sound(c.found[i], today)
                        /\ \A i \in 1..Len(c.found) - 1 :
                             c.found[i + 1].start = CursorAfter(c.found[i])

Chain ==
  /\ \A p \in records : Formed(p) /\ CursorAfter(p) \in Places
  /\ records # {} => \A c \in Cursors : SoundFrom(c)
  /\ \A r \in AccrualRuns : OnItsWay(run[r])

LEMMA SoundIsFormed == \A p, now : Sound(p, now) => Formed(p)
BY DEF Sound, Formed

LEMMA IdleIsOnItsWay == OnItsWay(Idle)
BY DEF Idle, OnItsWay

LEMMA NextDayIs ==
  NextDay = IF records = {} THEN employment.since ELSE DayAfter(records)
BY DEF NextDay, DayAfter

\* The rows stay, and where the next period begins: one run goes on.
LEMMA RunGoesOnItsWay ==
  ASSUME Chain, NEW r \in AccrualRuns, NEW d, OnItsWay(d), run \in [AccrualRuns -> RunForms],
         run' = [run EXCEPT ![r] = d], UNCHANGED <<today, missed, employment, records>>
  PROVE  Chain'
<1>1. \A o \in AccrualRuns : OnItsWay(run'[o])
  BY DEF Chain
<1>2. Places' = Places /\ Cursors' = Cursors
  BY DEF Places, NextDay, Cursors, Latest
<1>3. (\A o \in AccrualRuns : OnItsWay(run[o]))'
  BY <1>1, <1>2 DEF OnItsWay, SoundFrom, Sound, Clear
<1>4. (\A p \in records : Formed(p) /\ CursorAfter(p) \in Places)'
  BY <1>2 DEF Chain
<1>5. (records # {} => \A c \in Cursors : SoundFrom(c))'
  BY <1>2 DEF Chain, SoundFrom, Sound, Clear
<1> QED BY <1>3, <1>4, <1>5 DEF Chain

\* No run under way: only what may be evaluated again matters.
LEMMA NoRunKeepsChain ==
  ASSUME Chain, Typed, NoRunUnderWay, UNCHANGED <<today, records, run>>,
         records # {} => UNCHANGED <<NextDay, Cursors>>,
         \A c \in Cursors, p \in records :
           c <= p.start /\ Sound(p, today) => Sound(p, today)'
  PROVE  Chain'
<1>1. ASSUME NEW p \in records PROVE Formed(p) /\ CursorAfter(p) \in Places'
  <2>1. Formed(p) /\ CursorAfter(p) \in Places
    BY <1>1 DEF Chain
  <2>2. Places' = Places
    BY <1>1 DEF Places
  <2> QED BY <2>1, <2>2
<1>2. \A r \in AccrualRuns : run'[r] = Idle
  BY DEF NoRunUnderWay
<1>3. (\A r \in AccrualRuns : OnItsWay(run[r]))'
  BY <1>2 DEF OnItsWay, Idle
<1>4. (records # {} => \A c \in Cursors : SoundFrom(c))'
  BY DEF Chain, SoundFrom
<1> QED BY <1>1, <1>3, <1>4 DEF Chain

LEMMA TickKeepsChain == ASSUME Base, Chain, Tick PROVE Chain'
<1>1. /\ today \in Nat /\ today < LastDay /\ today' = today + 1 /\ missed \subseteq Days
      /\ missed \subseteq missed' /\ \A d \in missed' : d \in missed \/ d = today
      /\ LastDay \in Nat /\ UNCHANGED <<employment, records, balance, run>>
  BY AccrualAssumption DEF Tick, Base, Typed, Days
<1>2. ASSUME NEW p \in Period, Sound(p, today) PROVE Sound(p, today)'
  <2>1. p.end \in Nat
    BY CursorType
  <2> QED BY <1>1, <1>2, <2>1 DEF Sound, Clear
<1>3. Places' = Places /\ Cursors' = Cursors
  BY <1>1 DEF Places, NextDay, Cursors, Latest
<1>4. ASSUME NEW p \in records' PROVE Formed(p) /\ CursorAfter(p) \in Places'
  BY <1>1, <1>3, <1>4 DEF Chain
<1>6. \A c : SoundFrom(c) => SoundFrom(c)'
  BY <1>1, <1>2 DEF SoundFrom, Base, Typed
<1>7. (records # {} => \A c \in Cursors : SoundFrom(c))'
  BY <1>1, <1>3, <1>6 DEF Chain
<1>5. ASSUME NEW o \in AccrualRuns PROVE OnItsWay(run[o])'
  <2>1. PICK c \in RunForms : c = run[o] /\ c = run'[o]
    BY <1>1 DEF Base, Typed
  <2>2. OnItsWay(c)
    BY <2>1 DEF Chain
  <2>3. ASSUME c.pc = "saving", NEW i \in 1..Len(c.found) PROVE Sound(c.found[i], today)'
    <3>1. c.found[i] \in Period /\ Sound(c.found[i], today)
      BY <2>2, <2>3 DEF RunForms, OnItsWay
    <3> QED BY <1>2, <3>1
  <2>4. OnItsWay(c)'
    BY <1>3, <1>6, <2>2, <2>3 DEF OnItsWay
  <2>5. c = run[o]'
    BY <2>1
  <2> QED BY <2>4, <2>5
<1> QED BY <1>4, <1>5, <1>7 DEF Chain

\* A correction between runs, of a day no evaluation starts over from.
LEMMA CorrectionKeepsChain ==
  ASSUME Base, Chain, NEW d \in Days, Corrects(d), ~rewritten',
         missed' = missed \cup {d} \/ missed' = missed \ {d}
  PROVE  Chain'
<1>1. /\ NoRunUnderWay /\ ~SeenAgain(d) /\ Typed /\ records \subseteq Period
      /\ UNCHANGED <<today, employment, records, balance, run>>
  BY DEF Corrects, Base, Typed
<1>2. UNCHANGED <<NextDay, Cursors>>
  BY <1>1 DEF NextDay, Cursors, Latest
<1>3. ASSUME NEW c \in Cursors, NEW p \in records, c <= p.start, Sound(p, today)
      PROVE  Sound(p, today)'
  <2>1. p.start \in Nat /\ p.end \in Nat /\ d \in Int /\ Month \in Nat
    BY <1>1, CursorType, AccrualAssumption DEF Days
  <2>2. CASE records # {}
    <3>1. PICK l \in records : c = CursorAfter(l)
      BY <2>2 DEF Cursors, Latest
    <3>2. c \in Int
      BY <1>1, <3>1, CursorType
    <3>3. d \notin DaysOf(p) \/ ~(c <= d)
      BY <1>1 DEF SeenAgain
    <3>4. ~(p.start <= d /\ d < p.end)
      BY <1>3, <2>1, <3>2, <3>3 DEF DaysOf, Sound
    <3>5. p.outcome = "VIOLATED" => p.end # d
      BY <1>3, <2>1, <3>2, <3>3 DEF DaysOf, Sound
    <3>6. \A x \in missed' : x \in missed \/ x = d
      OBVIOUS
    <3>7. Clear(p.start, p.end) => Clear(p.start, p.end)'
      BY <3>4, <3>6 DEF Clear
    <3>8. p.outcome = "VIOLATED" => p.end \in missed'
      BY <1>3, <3>5 DEF Sound
    <3> QED BY <1>1, <1>3, <3>7, <3>8 DEF Sound
  <2> QED BY <2>2
<1> QED BY <1>1, <1>2, <1>3, NoRunKeepsChain

LEMMA ExcuseKeepsChain ==
  ASSUME Base, Chain, NEW d \in Days, Excuse(d) \/ Miss(d), ~rewritten'
  PROVE  Chain'
BY CorrectionKeepsChain DEF Excuse, Miss

LEMMA MoveKeepsChain ==
  ASSUME Base, Chain, NEW standing, NEW since, NEW seeding, Move(standing, since, seeding),
         ~rewritten'
  PROVE  Chain'
<1>1. UNCHANGED <<today, missed, records, balance, run>> /\ employment'.since = since
  BY DEF Move
<1>2. CASE since = employment.since
  <2>1. Places' = Places /\ (records # {} => Cursors' = Cursors)
    BY <1>1, <1>2 DEF Places, NextDay, Cursors, Latest
  <2> QED BY <1>1, <2>1 DEF Chain, OnItsWay, SoundFrom, Sound, Clear
<1>3. CASE since # employment.since
  <2>1. NoRunUnderWay
    BY <1>3 DEF Move
  <2>2. /\ records # {} => UNCHANGED <<NextDay, Cursors>>
        /\ Typed
        /\ \A p : Sound(p, today) => Sound(p, today)'
    BY <1>1 DEF NextDay, Cursors, Latest, Base, Sound, Clear
  <2> QED BY <1>1, <2>1, <2>2, NoRunKeepsChain
<1> QED BY <1>2, <1>3

LEMMA SeedBalanceKeepsChain == ASSUME Base, Chain, SeedBalance PROVE Chain'
<1>1. /\ UNCHANGED <<today, missed, records, run>> /\ employment'.since = employment.since
  BY DEF SeedBalance, Base, Typed
<1>2. Places' = Places /\ Cursors' = Cursors
  BY <1>1 DEF Places, NextDay, Cursors, Latest
<1> QED BY <1>1, <1>2 DEF Chain, OnItsWay, SoundFrom, Sound, Clear

LEMMA BeginRunKeepsChain == ASSUME Base, Chain, NEW r \in AccrualRuns, BeginRun(r) PROVE Chain'
<1>1. PICK c \in Cursors :
        run' = [run EXCEPT ![r] = [pc |-> "reading", cursor |-> c, today |-> today]]
  BY DEF BeginRun
<1>2. UNCHANGED <<today, missed, employment, records>> /\ run \in [AccrualRuns -> RunForms]
  BY DEF BeginRun, Base, Typed
<1>3. c \in Places
  <2>1. CASE records = {}
    BY <2>1 DEF Cursors, Places, NextDay
  <2>2. CASE records # {}
    BY <2>2 DEF Cursors, Latest, Chain
  <2> QED BY <2>1, <2>2
<1>4. PICK d : d = [pc |-> "reading", cursor |-> c, today |-> today]
  OBVIOUS
<1>5. SoundFrom(c)
  BY DEF Chain, SoundFrom
<1>6. OnItsWay(d)
  BY <1>3, <1>4, <1>5 DEF OnItsWay
<1> QED BY <1>1, <1>2, <1>4, <1>6, RunGoesOnItsWay

LEMMA ReadDaysKeepsChain == ASSUME Base, Chain, NEW r \in AccrualRuns, ReadDays(r) PROVE Chain'
<1>1. PICK c : c = run[r]
  OBVIOUS
<1>2. c.pc = "reading" /\ c \in RunForms /\ RunFits(c) /\ OnItsWay(c)
  BY <1>1 DEF ReadDays, Base, Typed, Chain
<1>3. /\ c.cursor \in 0..Far /\ c.today \in Days /\ c.today <= today /\ today \in Days
      /\ c.cursor \in Places /\ SoundFrom(c.cursor)
  BY <1>2 DEF RunForms, RunFits, OnItsWay, Base, Typed
<1>4. PICK s : s = PeriodsFrom(c.cursor, c.today)
  OBVIOUS
<1>5. Row(s, c.cursor, c.today)
  BY <1>3, <1>4, PeriodsAreRow DEF Base, Typed
<1>6. /\ UNCHANGED <<today, missed, employment, records>> /\ run \in [AccrualRuns -> RunForms]
      /\ run' = [run EXCEPT ![r] = IF s = <<>> THEN Idle ELSE [pc |-> "saving", found |-> s]]
  BY <1>1, <1>4 DEF ReadDays, Base, Typed
<1>7. PICK d : d = IF s = <<>> THEN Idle ELSE [pc |-> "saving", found |-> s]
  OBVIOUS
<1>8. OnItsWay(d)
  <2>1. CASE s = <<>>
    BY <1>7, <2>1, IdleIsOnItsWay
  <2>2. CASE s # <<>>
    <3>1. ASSUME NEW i \in 1..Len(s) PROVE Sound(s[i], today)
      <4>1. Sound(s[i], c.today) /\ s[i] \in Period
        BY <1>5 DEF Row
      <4> QED BY <1>3, <4>1, SoundLater
    <3>2. d = [pc |-> "saving", found |-> s] /\ s[1].start \in Places
          /\ SoundFrom(s[1].start)
          /\ \A i \in 1..Len(s) - 1 : s[i + 1].start = CursorAfter(s[i])
      BY <1>3, <1>5, <1>7, <2>2 DEF Row
    <3> QED BY <3>1, <3>2 DEF OnItsWay
  <2> QED BY <2>1, <2>2
<1> QED BY <1>6, <1>7, <1>8, RunGoesOnItsWay

LEMMA StopRunKeepsChain == ASSUME Base, Chain, NEW r \in AccrualRuns, StopRun(r) PROVE Chain'
<1>1. /\ run' = [run EXCEPT ![r] = Idle] /\ UNCHANGED <<today, missed, employment, records>>
      /\ run \in [AccrualRuns -> RunForms]
  BY DEF StopRun, Base, Typed
<1> QED BY <1>1, IdleIsOnItsWay, RunGoesOnItsWay

\* What a save does to the rows: nothing, or the next period is added.
LEMMA SaveTakesNextDay ==
  ASSUME Base, Chain, NEW p \in Period, Sound(p, today), p.start \in Places,
         SoundFrom(p.start), UNCHANGED employment,
         records' = IF NewPeriod(p) THEN records \cup {p} ELSE records
  PROVE  /\ Places \subseteq Places'
         /\ CursorAfter(p) \in Places'
         /\ NewPeriod(p) => p.start = NextDay /\ NextDay' = CursorAfter(p)
<1>0. records \subseteq Period /\ missed \subseteq Days
  BY DEF Base, Typed
<1>1. CASE ~NewPeriod(p)
  <2>1. PICK q \in records : q.start = p.start
    BY <1>1 DEF NewPeriod
  <2>2. Sound(q, today) /\ CursorAfter(q) \in Places /\ q \in Period
    BY <1>0, <2>1, CursorType DEF Chain, SoundFrom
  <2>3. CursorAfter(p) \in Places
    BY <1>0, <2>1, <2>2, OneWayOn
  <2>4. Places' = Places
    BY <1>1 DEF Places, NextDay
  <2> QED BY <1>1, <2>3, <2>4
<1>2. CASE NewPeriod(p)
  <2>1. p.start = NextDay
    BY <1>2 DEF NewPeriod, Places
  <2>2. records = {} \/ p.start = DayAfter(records)
    BY <2>1, NextDayIs
  <2>3. DayAfter(records \cup {p}) = CursorAfter(p)
    BY <1>0, <2>2, LastGrows
  <2>4. records' = records \cup {p} /\ records' # {}
    BY <1>2
  <2>5. NextDay' = CursorAfter(p)
    BY <2>3, <2>4 DEF NextDay, DayAfter
  <2>6. Places \subseteq Places' /\ CursorAfter(p) \in Places'
    BY <2>1, <2>4, <2>5 DEF Places
  <2> QED BY <2>1, <2>5, <2>6
<1> QED BY <1>1, <1>2

LEMMA SavedPeriod ==
  ASSUME Base, Chain, NEW r \in AccrualRuns, Save(r)
  PROVE  \E p \in Period, t \in Seq(Period) :
           /\ Sound(p, today) /\ p.start \in Places /\ SoundFrom(p.start)
           /\ t # <<>> => t[1].start = CursorAfter(p)
           /\ \A i \in 1..Len(t) : Sound(t[i], today)
           /\ \A i \in 1..Len(t) - 1 : t[i + 1].start = CursorAfter(t[i])
           /\ records' = IF NewPeriod(p) THEN records \cup {p} ELSE records
           /\ run' = [run EXCEPT ![r] =
                        IF t = <<>> THEN Idle ELSE [pc |-> "saving", found |-> t]]
<1>1. PICK c : c = run[r]
  OBVIOUS
<1>2. c.pc = "saving" /\ c \in RunForms /\ OnItsWay(c)
  BY <1>1 DEF Save, Base, Typed, Chain
<1>3. PICK s : s = c.found
  OBVIOUS
<1>4. /\ s \in Seq(Period) /\ s # <<>> /\ s[1].start \in Places /\ SoundFrom(s[1].start)
      /\ \A i \in 1..Len(s) : Sound(s[i], today)
      /\ \A i \in 1..Len(s) - 1 : s[i + 1].start = CursorAfter(s[i])
  BY <1>2, <1>3 DEF RunForms, OnItsWay
<1>5. PICK p : p = Head(s)
  OBVIOUS
<1>6. PICK t : t = Tail(s)
  OBVIOUS
<1>7. /\ p \in Period /\ t \in Seq(Period) /\ Len(t) = Len(s) - 1 /\ p = s[1]
      /\ \A i \in 1..Len(t) : t[i] = s[i + 1]
  BY <1>4, <1>5, <1>6, HeadTailProperties
<1>8. Len(s) \in Nat /\ Len(s) # 0 /\ Len(t) \in Nat
  BY <1>4, <1>7
<1>9. Sound(p, today) /\ \A i \in 1..Len(t) : Sound(t[i], today)
  BY <1>4, <1>7, <1>8
<1>10. t # <<>> => t[1].start = CursorAfter(p)
  <2>1. t # <<>> => 1 \in 1..Len(t) /\ 1 \in 1..Len(s) - 1
    BY <1>7, <1>8
  <2> QED BY <1>4, <1>7, <2>1
<1>11. ASSUME NEW i \in 1..Len(t) - 1 PROVE t[i + 1].start = CursorAfter(t[i])
  <2>1. i + 1 \in 1..Len(s) - 1 /\ t[i] = s[i + 1] /\ t[i + 1] = s[(i + 1) + 1]
    BY <1>7, <1>8
  <2> QED BY <1>4, <2>1
<1>12. /\ records' = IF NewPeriod(p) THEN records \cup {p} ELSE records
       /\ run' = [run EXCEPT ![r] =
                    IF t = <<>> THEN Idle ELSE [pc |-> "saving", found |-> t]]
  BY <1>1, <1>3, <1>5, <1>6 DEF Save
<1> QED BY <1>4, <1>7, <1>9, <1>10, <1>11, <1>12

\* Where an evaluation may start over after a save, it could before, or starts
\* after the period just saved, or at that period.
LEMMA SaveMovesCursors ==
  ASSUME Base, Chain, NEW p \in Period, Sound(p, today), p.start \in Places,
         SoundFrom(p.start), UNCHANGED <<today, missed, employment>>,
         records' = IF NewPeriod(p) THEN records \cup {p} ELSE records,
         NEW c \in Cursors'
  PROVE  SoundFrom(c)'
<1>0. records \subseteq Period /\ records' \subseteq Period
  BY DEF Base, Typed
<1> SUFFICES ASSUME NEW q \in records', c <= q.start PROVE Sound(q, today)
  BY DEF SoundFrom, Sound, Clear
<1>1. CASE ~NewPeriod(p)
  <2>1. Cursors' = Cursors /\ records' = records
    BY <1>1 DEF Cursors, Latest
  <2> QED BY <2>1 DEF Chain, SoundFrom
<1>2. CASE NewPeriod(p)
  <2>1. p.start = NextDay
    BY <1>2 DEF NewPeriod, Places
  <2>2. CASE q = p
    BY <2>2
  <2>3. CASE q # p
    <3>1. q \in records /\ Formed(q) /\ q \in Period /\ NextDay = DayAfter(records)
      BY <1>0, <1>2, <2>3, NextDayIs DEF Chain
    <3>2. CursorAfter(q) <= NextDay /\ q.start < CursorAfter(q)
      BY <1>0, <3>1, LastCursor, CursorType, AccrualAssumption DEF Formed, CursorAfter
    <3>3. PICK l \in records' : c = CursorAfter(l) /\ \A x \in records' : x.end <= l.end
      BY <1>2 DEF Cursors, Latest
    <3>4. p.end <= l.end /\ p.start <= p.end
      BY <1>2, <3>3, CursorType, AccrualAssumption DEF Sound
    <3>5. /\ l.end <= CursorAfter(l) /\ l.end \in Nat /\ p.start \in Nat /\ p.end \in Nat
          /\ CursorAfter(l) \in Nat /\ q.start \in Nat /\ CursorAfter(q) \in Nat
      BY <1>0, <3>1, <3>3, CursorType DEF CursorAfter
    <3> QED BY <2>1, <3>2, <3>3, <3>4, <3>5
  <2> QED BY <2>2, <2>3
<1> QED BY <1>1, <1>2

LEMMA SaveKeepsChain == ASSUME Base, Chain, NEW r \in AccrualRuns, Save(r) PROVE Chain'
<1>1. PICK p \in Period, t \in Seq(Period) :
        /\ Sound(p, today) /\ p.start \in Places /\ SoundFrom(p.start)
        /\ t # <<>> => t[1].start = CursorAfter(p)
        /\ \A i \in 1..Len(t) : Sound(t[i], today)
        /\ \A i \in 1..Len(t) - 1 : t[i + 1].start = CursorAfter(t[i])
        /\ records' = IF NewPeriod(p) THEN records \cup {p} ELSE records
        /\ run' = [run EXCEPT ![r] =
                     IF t = <<>> THEN Idle ELSE [pc |-> "saving", found |-> t]]
  BY SavedPeriod
<1>2. UNCHANGED <<today, missed, employment>> /\ run \in [AccrualRuns -> RunForms]
  BY DEF Save, Base, Typed
<1>3. Places \subseteq Places' /\ CursorAfter(p) \in Places'
  BY <1>1, <1>2, SaveTakesNextDay
<1>4. ASSUME NEW q \in records' PROVE Formed(q) /\ CursorAfter(q) \in Places'
  BY <1>1, <1>3, <1>4, SoundIsFormed DEF Chain
<1>6. ASSUME NEW c, SoundFrom(c) PROVE SoundFrom(c)'
  <2> SUFFICES ASSUME NEW q \in records', c <= q.start PROVE Sound(q, today)'
    BY DEF SoundFrom
  <2>1. Sound(q, today)
    BY <1>1, <1>6 DEF SoundFrom
  <2> QED BY <1>2, <2>1 DEF Sound, Clear
<1>7. ASSUME NEW c \in Cursors' PROVE SoundFrom(c)'
  BY <1>1, <1>2, <1>6, <1>7, SaveMovesCursors
<1>5. ASSUME NEW o \in AccrualRuns PROVE OnItsWay(run[o])'
  <2>1. CASE o = r
    <3>1. PICK d : d = IF t = <<>> THEN Idle ELSE [pc |-> "saving", found |-> t]
      OBVIOUS
    <3>2. run'[o] = d
      BY <1>1, <1>2, <2>1, <3>1
    <3>3. CASE t = <<>>
      BY <3>1, <3>2, <3>3 DEF OnItsWay, Idle
    <3>4. CASE t # <<>>
      <4>1. d = [pc |-> "saving", found |-> t]
        BY <3>1, <3>4
      <4>2. t[1].start \in Places' /\ SoundFrom(t[1].start)'
        <5>1. t[1].start = CursorAfter(p) /\ p.start < CursorAfter(p)
              /\ CursorAfter(p) \in Nat /\ p.start \in Nat
          BY <1>1, <3>4, CursorType, AccrualAssumption DEF Sound, CursorAfter
        <5>2. records \subseteq Period
          BY DEF Base, Typed
        <5>3. SoundFrom(t[1].start)
          BY <1>1, <5>1, <5>2, CursorType DEF SoundFrom
        <5> QED BY <1>3, <1>6, <5>1, <5>3
      <4>3. \A i \in 1..Len(t) : Sound(t[i], today)'
        BY <1>1, <1>2 DEF Sound, Clear
      <4> QED BY <1>1, <3>2, <4>1, <4>2, <4>3, SMTT(20) DEF OnItsWay
    <3> QED BY <3>3, <3>4
  <2>2. CASE o # r
    <3>1. run'[o] = run[o] /\ OnItsWay(run[o])
      BY <1>1, <1>2, <2>2 DEF Chain
    <3> QED BY <1>2, <1>3, <1>6, <3>1 DEF OnItsWay, Sound, Clear
  <2> QED BY <2>1, <2>2
<1> QED BY <1>4, <1>5, <1>7 DEF Chain

LEMMA InitIsChained == ASSUME Init PROVE Chain
BY IdleIsOnItsWay DEF Init, Chain

LEMMA StepKeepsChain ==
  ASSUME Base, Chain, [Next]_vars, ~rewritten'
  PROVE  Chain'
<1>1. CASE Tick
  BY <1>1, TickKeepsChain
<1>2. ASSUME NEW d \in Days, Excuse(d) \/ Miss(d) PROVE Chain'
  BY <1>2, ExcuseKeepsChain
<1>3. CASE Convert \/ MakeRegular \/ Archive \/ Restore
  BY <1>3, MoveKeepsChain DEF Convert, MakeRegular, Archive, Restore
<1>4. CASE SeedBalance
  BY <1>4, SeedBalanceKeepsChain
<1>5. ASSUME NEW r \in AccrualRuns, BeginRun(r) PROVE Chain'
  BY <1>5, BeginRunKeepsChain
<1>6. ASSUME NEW r \in AccrualRuns, ReadDays(r) PROVE Chain'
  BY <1>6, ReadDaysKeepsChain
<1>7. ASSUME NEW r \in AccrualRuns, Save(r) PROVE Chain'
  BY <1>7, SaveKeepsChain
<1>8. ASSUME NEW r \in AccrualRuns, StopRun(r) PROVE Chain'
  BY <1>8, StopRunKeepsChain
<1>9. CASE UNCHANGED vars
  <2>1. UNCHANGED <<today, missed, employment, records, run>>
    BY <1>9 DEF vars
  <2>2. Places' = Places /\ Cursors' = Cursors
    BY <2>1 DEF Places, NextDay, Cursors, Latest
  <2> QED BY <2>1, <2>2 DEF Chain, OnItsWay, SoundFrom, Sound, Clear
<1> QED BY <1>1, <1>2, <1>3, <1>4, <1>5, <1>6, <1>7, <1>8, <1>9 DEF Next, RunStep

\* Once rewritten, it stays so.
LEMMA RewrittenStays == [Next]_vars /\ ~rewritten' => ~rewritten
BY DEF Next, vars, Tick, Excuse, Miss, Corrects, Convert, MakeRegular, Archive, Restore, Move,
       SeedBalance, RunStep, BeginRun, ReadDays, Save, StopRun

Unbroken == Base /\ rewritten \in BOOLEAN /\ (~rewritten => Chain)

LEMMA StepKeepsUnbroken == Unbroken /\ [Next]_vars => Unbroken'
<1>1. rewritten \in BOOLEAN /\ [Next]_vars => rewritten' \in BOOLEAN
  BY DEF Next, vars, Tick, Excuse, Miss, Corrects, Convert, MakeRegular, Archive, Restore, Move,
         SeedBalance, RunStep, BeginRun, ReadDays, Save, StopRun
<1> QED BY <1>1, StepKeepsBase, StepKeepsChain, RewrittenStays DEF Unbroken

LEMMA ChainHolds == Spec => []Unbroken
<1>1. Init => Unbroken
  BY InitIsBase, InitIsChained DEF Unbroken, Init
<1> QED BY <1>1, StepKeepsUnbroken, PTL DEF Spec

\* A period ends no later than the next one begins.
LEMMA PeriodsGoOn ==
  ASSUME Base, Chain, NEW p \in records
  PROVE  /\ p \in Period /\ p.start < CursorAfter(p) /\ CursorAfter(p) <= NextDay
         /\ NextDay \in Nat
         /\ \A d \in Nat : p.start <= d /\ d < CursorAfter(p) => d \in DaysOf(p)
<1>1. p \in Period /\ Formed(p) /\ records \subseteq Period
  BY DEF Base, Typed, Chain
<1>2. p.start \in Nat /\ p.end \in Nat /\ Month \in Nat \ {0}
  BY <1>1, CursorType, AccrualAssumption
<1>3. p.start < CursorAfter(p)
  BY <1>1, <1>2 DEF Formed, CursorAfter
<1>4. CursorAfter(p) <= NextDay /\ NextDay \in Nat
  BY <1>1, LastCursor, NextDayIs
<1>5. \A d \in Nat : p.start <= d /\ d < CursorAfter(p) => d \in DaysOf(p)
  BY <1>1, <1>2 DEF Formed, CursorAfter, DaysOf
<1> QED BY <1>1, <1>3, <1>4, <1>5

\* processAccruals: the periods of an employee leave no day out between them,
\* whichever runs overlap or stop and whatever is corrected between the runs, in
\* saved periods and outside them; only days rewritten under a run, or where an
\* evaluation starts over, can be lost.
THEOREM PeriodsLeaveNoGap == Spec => []NoDayLeftOut
<1>1. Unbroken => NoDayLeftOut
  <2> SUFFICES ASSUME ~rewritten, Base, Chain, NEW d \in Days, NEW p \in records, NEW q \in records,
                      p.start <= d, d <= q.start
               PROVE  \E o \in records : d \in DaysOf(o)
    BY DEF NoDayLeftOut, Unbroken
  <2>1. d \in Nat
    BY AccrualAssumption DEF Days
  <2> DEFINE T == {n \in Nat : n <= d /\ \E o \in records : n = o.start}
  <2>2. \A o \in records : o.start \in Nat
    BY PeriodsGoOn, CursorType
  <2>3. T \subseteq Nat /\ p.start \in T /\ \A n \in T : n <= d
    BY <2>2
  <2>4. Max(T) \in T /\ \A n \in T : n <= Max(T)
    <3>1. T # {}
      BY <2>3
    <3> HIDE DEF T
    <3>2. PICK y \in T : \A m \in T : y >= m
      BY <2>1, <2>3, <3>1, GreatestNumber
    <3>3. Max(T) \in T /\ \A m \in T : Max(T) >= m
      BY <3>2 DEF Max
    <3> QED BY <2>3, <3>3
  <2>5. PICK o \in records : o.start <= d /\ o.start = Max(T)
    BY <2>4
  <2>6. \A r \in records : r.start <= d => r.start <= o.start
    BY <2>2, <2>4, <2>5
  <2> HIDE DEF T
  <2>7. PICK c \in Nat : c = CursorAfter(o)
    BY PeriodsGoOn, CursorType
  <2>8. o.start < c /\ c <= NextDay /\ c \in Places
    BY <2>7, PeriodsGoOn DEF Chain
  <2>9. CASE d < c
    BY <2>1, <2>5, <2>7, <2>9, PeriodsGoOn
  <2>10. CASE ~(d < c)
    <3>1. c <= d /\ c <= q.start
      BY <2>1, <2>2, <2>7, <2>10
    <3>2. CASE \E r \in records : c = r.start
      BY <2>2, <2>6, <2>8, <3>1, <3>2
    <3>3. CASE c = NextDay
      <4>1. q.start < CursorAfter(q) /\ CursorAfter(q) <= NextDay /\ CursorAfter(q) \in Nat
        BY PeriodsGoOn, CursorType
      <4> QED BY <2>2, <3>1, <3>3, <4>1
    <3> QED BY <2>8, <3>2, <3>3 DEF Places
  <2> QED BY <2>9, <2>10
<1> QED BY <1>1, ChainHolds, PTL

-----------------------------------------------------------------------------
(***************************************************************************)
(* 4. A step of the service is a step of the promise, or none.             *)
(***************************************************************************)
Credited == {p \in records : p.outcome = "PERFECT"}

PromiseStep ==
  [Promise!Begin \/ Promise!Break \/ Promise!Complete \/ Promise!Rewritten]_<<
     records # {}, NextDay, Cardinality(Credited), rewritten>>

LEMMA NoPeriodNoStep ==
  ASSUME Base, UNCHANGED <<records, employment, rewritten>>
  PROVE  PromiseStep
<1>1. UNCHANGED <<records # {}, NextDay, Cardinality(Credited), rewritten>>
  BY DEF NextDay, Credited
<1> QED BY <1>1 DEF PromiseStep

LEMMA EmploymentIsPromised ==
  ASSUME Base, UNCHANGED <<records, rewritten>>, employment'.since \in Int
  PROVE  PromiseStep
<1>1. CASE records # {}
  <2>1. UNCHANGED <<records # {}, NextDay, Cardinality(Credited), rewritten>>
    BY <1>1 DEF NextDay, Credited
  <2> QED BY <2>1 DEF PromiseStep
<1>2. CASE records = {}
  <2>1. NextDay' \in Int
    BY <1>2 DEF NextDay
  <2>2. Credited' = {}
    BY <1>2 DEF Credited
  <2>3. Cardinality(Credited') = 0
    BY <2>2, FS_EmptySet
  <2>4. Promise!Begin
    BY <1>2, <2>1, <2>3 DEF Promise!Begin, Credited
  <2> QED BY <2>4 DEF PromiseStep
<1> QED BY <1>1, <1>2

LEMMA SaveIsPromised ==
  ASSUME Base, Chain, ~rewritten, NEW r \in AccrualRuns, Save(r)
  PROVE  PromiseStep
<1>1. PICK p \in Period :
        /\ Sound(p, today) /\ p.start \in Places /\ SoundFrom(p.start)
        /\ records' = IF NewPeriod(p) THEN records \cup {p} ELSE records
  BY SavedPeriod
<1>2. UNCHANGED <<employment, rewritten>>
  BY DEF Save
<1>3. CASE ~NewPeriod(p)
  <2>1. UNCHANGED records
    BY <1>1, <1>3
  <2> QED BY <1>2, <2>1, NoPeriodNoStep
<1>4. CASE NewPeriod(p)
  <2>1. p.start = NextDay /\ NextDay' = CursorAfter(p)
    BY <1>1, <1>2, <1>4, SaveTakesNextDay
  <2>2. p.start \in Nat /\ p.end \in Nat /\ Month \in Nat \ {0}
    BY CursorType, AccrualAssumption
  <2>3. (records # {})' = TRUE /\ (records # {}) \in BOOLEAN /\ p \notin records
    BY <1>1, <1>4 DEF NewPeriod
  <2>4. IsFiniteSet(Credited) /\ p \notin Credited
    <3>1. Credited \subseteq records
      BY DEF Credited
    <3> QED BY <2>3, <3>1, FS_Subset DEF Base, Typed
  <2>5. CASE p.outcome = "PERFECT"
    <3>1. Credited' = Credited \cup {p}
      BY <1>1, <1>4, <2>5 DEF Credited
    <3>2. Cardinality(Credited') = Cardinality(Credited) + 1
      BY <2>4, <3>1, FS_AddElement
    <3>3. NextDay' = NextDay + Month
      BY <1>1, <2>1, <2>5 DEF Sound, CursorAfter
    <3>4. CASE records # {}
      <4>1. Promise!Complete
        BY <1>2, <2>3, <3>2, <3>3, <3>4 DEF Promise!Complete, Credited
      <4> QED BY <4>1 DEF PromiseStep
    <3>5. CASE records = {}
      <4>1. Cardinality(Credited) = 0
        BY <3>5, FS_EmptySet DEF Credited
      <4>2. NextDay' \in Int /\ Cardinality(Credited') \in 0..1
        BY <2>1, <2>2, <3>2, <3>3, <4>1
      <4>3. Promise!Begin
        BY <1>2, <2>3, <3>5, <4>2 DEF Promise!Begin, Credited
      <4> QED BY <4>3 DEF PromiseStep
    <3> QED BY <3>4, <3>5
  <2>6. CASE p.outcome = "VIOLATED"
    <3>1. Credited' = Credited
      BY <1>1, <1>4, <2>6 DEF Credited
    <3>2. NextDay' \in NextDay + 1 .. NextDay + Month
      BY <1>1, <2>1, <2>2, <2>6 DEF Sound, CursorAfter
    <3>3. CASE records # {}
      <4>1. Promise!Break
        BY <1>2, <2>3, <3>1, <3>2, <3>3 DEF Promise!Break, Credited
      <4> QED BY <4>1 DEF PromiseStep
    <3>4. CASE records = {}
      <4>1. Cardinality(Credited') = 0
        BY <3>1, <3>4, FS_EmptySet DEF Credited
      <4>2. NextDay' \in Int
        BY <2>1, CursorType
      <4>3. Promise!Begin
        BY <1>2, <2>3, <3>4, <4>1, <4>2 DEF Promise!Begin, Credited
      <4> QED BY <4>3 DEF PromiseStep
    <3> QED BY <3>3, <3>4
  <2> QED BY <2>5, <2>6 DEF Period, Outcomes
<1> QED BY <1>3, <1>4

\* Where the next period begins is a day, or nobody has been converted.
LEMMA NextDayType == ASSUME Typed' PROVE NextDay' \in Int
<1>1. CASE records' = {}
  BY <1>1, AccrualAssumption DEF Typed, NextDay, Days
<1>2. CASE records' # {}
  <2>1. records' \subseteq Period /\ DayAfter(records') \in Nat
    BY <1>2, LastCursor DEF Typed
  <2>2. NextDay' = DayAfter(records')
    BY <1>2 DEF NextDay, DayAfter
  <2> QED BY <2>1, <2>2
<1> QED BY <1>1, <1>2

\* Once rewritten, a transaction is still one period, and at most one credit.
LEMMA SaveAddsOne ==
  ASSUME Base, Base', NEW r \in AccrualRuns, Save(r), rewritten = TRUE
  PROVE  PromiseStep
<1>1. PICK p : records' = records \cup {p} \/ records' = records
  BY DEF Save
<1>2. IsFiniteSet(Credited)
  BY FS_Subset DEF Base, Typed, Credited
<1>3. Credited' = Credited \/ Credited' = Credited \cup {p}
  BY <1>1 DEF Credited
<1>4. Cardinality(Credited') \in Cardinality(Credited) .. Cardinality(Credited) + 1
  BY <1>2, <1>3, FS_AddElement, FS_CardinalityType
<1>5. rewritten' = TRUE
  BY DEF Save, Base
<1>6. NextDay' \in Int
  BY NextDayType DEF Base
<1>7. Promise!Rewritten
  BY <1>4, <1>5, <1>6 DEF Promise!Rewritten, Credited
<1> QED BY <1>7 DEF PromiseStep

\* What rewrites saves nothing.
LEMMA RewritingIsPromised ==
  ASSUME Base, Base', UNCHANGED records, rewritten' = TRUE
  PROVE  PromiseStep
<1>1. Cardinality(Credited') = Cardinality(Credited) /\ Cardinality(Credited) \in Nat
  <2>1. IsFiniteSet(Credited) /\ Credited' = Credited
    BY FS_Subset DEF Base, Typed, Credited
  <2> QED BY <2>1, FS_CardinalityType
<1>2. NextDay' \in Int
  BY NextDayType DEF Base
<1>3. Promise!Rewritten
  BY <1>1, <1>2 DEF Promise!Rewritten, Credited
<1> QED BY <1>3 DEF PromiseStep

LEMMA StepIsPromised ==
  ASSUME Unbroken, Base', [Next]_vars
  PROVE  PromiseStep
<1> USE DEF Unbroken
<1>1. CASE Tick \/ (\E r \in AccrualRuns : BeginRun(r) \/ ReadDays(r) \/ StopRun(r)) \/ UNCHANGED vars
  <2>1. UNCHANGED <<records, employment, rewritten>>
    BY <1>1 DEF Tick, BeginRun, ReadDays, StopRun, vars
  <2> QED BY <2>1, NoPeriodNoStep
<1>2. CASE \E d \in Days : Excuse(d) \/ Miss(d)
  <2>1. PICK d \in Days : Excuse(d) \/ Miss(d)
    BY <1>2
  <2>2. UNCHANGED <<records, employment>>
    BY <2>1 DEF Excuse, Miss, Corrects
  <2>3. rewritten' = TRUE \/ rewritten' = rewritten
    BY <2>1 DEF Excuse, Miss, Corrects
  <2> QED BY <2>2, <2>3, NoPeriodNoStep, RewritingIsPromised
<1>3. CASE Convert \/ MakeRegular \/ Archive \/ Restore \/ SeedBalance
  <2>1. UNCHANGED records
    BY <1>3 DEF Convert, MakeRegular, Archive, Restore, Move, SeedBalance
  <2>2. employment'.since \in Int
    BY AccrualAssumption DEF Base, Typed, Days
  <2>3. rewritten' = TRUE \/ rewritten' = rewritten
    BY <1>3 DEF Convert, MakeRegular, Archive, Restore, Move, SeedBalance
  <2> QED BY <2>1, <2>2, <2>3, EmploymentIsPromised, RewritingIsPromised
<1>4. ASSUME NEW r \in AccrualRuns, Save(r) PROVE PromiseStep
  <2>1. rewritten = TRUE \/ ~rewritten
    OBVIOUS
  <2> QED BY <1>4, <2>1, SaveIsPromised, SaveAddsOne
<1> QED BY <1>1, <1>2, <1>3, <1>4 DEF Next, RunStep

\* LeaveAccrualService keeps the promise however runs overlap and stop and
\* whatever is corrected between them: the days since the conversion are taken
\* one after another, each once.  A correction under a run may break the order
\* for good, but no transaction ever credits more than one month.
THEOREM AccrualKeepsPromise == Spec => KeepsPromise
<1>1. Init => Unbroken
  BY InitIsBase, InitIsChained DEF Unbroken, Init
<1>2. Unbroken /\ [Next]_vars => Unbroken'
  BY StepKeepsUnbroken
<1>3. Init => Promise!Init
  <2> SUFFICES ASSUME Init PROVE Promise!Init
    OBVIOUS
  <2>1. records = {} /\ NextDay \in Int
    BY DEF Init, NextDay
  <2>2. Cardinality({p \in records : p.outcome = "PERFECT"}) = 0
    BY <2>1, FS_EmptySet
  <2> QED BY <2>1, <2>2 DEF Promise!Init, Init
<1>4. Unbroken /\ Unbroken' /\ [Next]_vars => PromiseStep
  BY StepIsPromised DEF Unbroken
<1>5. PromiseStep <=>
        [Promise!Begin \/ Promise!Break \/ Promise!Complete \/ Promise!Rewritten]_<<
            records # {}, NextDay,
            Cardinality({p \in records : p.outcome = "PERFECT"}), rewritten>>
  BY DEF PromiseStep, Credited
<1> QED BY <1>1, <1>2, <1>3, <1>4, <1>5, PTL DEF Spec, KeepsPromise, Promise!Spec, Promise!promise

-----------------------------------------------------------------------------
(***************************************************************************)
(* 5. However many payouts of an ended year overlap, stop or come back,    *)
(* and whatever is filed and decided beside them: until a decision goes    *)
(* astray the days paid and the days granted are on the balance once each, *)
(* and a payout that saw nothing change pays no day an open request holds. *)
(***************************************************************************)
Adjusting == [pc : {"reading"}, delta : Int]
Balances == [row : BOOLEAN, earned : Nat, used : Nat]
Storing == [pc : {"storing"}, delta : Int, seen : Balances]
Reading == [pc : {"reading"}, remaining : Int, undecided : Int, known : Int]

PayoutTyped ==
  /\ status \in [Reqs -> LeaveStatus \cup {"NONE"}]
  /\ leaveBalance \in [row : BOOLEAN, earned : Nat, used : Nat]
  /\ leaveBalance.row \/ leaveBalance.used = 0
  /\ \A n \in paid : n \in Nat /\ paid = {n}
  /\ payout \in [Payouts -> {AtRest} \cup Reading]
  /\ decision \in {AtRest} \cup Adjusting \cup Storing

GrantedDays == Sum(InStatus(Granted))

\* The days a decision has still to charge or give back.
ToAdjust == IF decision = AtRest THEN 0 ELSE decision.delta

LedgerHolds == ~astray => leaveBalance.used + ToAdjust = GrantedDays + DaysPaid

\* What a payout has read is still so, until one has paid or it saw a change.
ReadingsHold ==
  paid = {} => \A p \in Payouts \ beside : payout[p] # AtRest =>
                 /\ payout[p].remaining \in {Unread, Remaining}
                 /\ payout[p].undecided \in {Unread, UndecidedDays}

PayoutInv == PayoutTyped /\ LedgerHolds /\ ReadingsHold

-----------------------------------------------------------------------------
LEMMA SomeReqsFinite ==
  \A S : /\ InStatus(S) \in SUBSET Reqs /\ IsFiniteSet(InStatus(S))
               /\ Sum(InStatus(S)) \in Nat
<1> TAKE S
<1>1. InStatus(S) \in SUBSET Reqs
  BY DEF InStatus
<1>2. IsFiniteSet(InStatus(S))
  BY <1>1, FS_Subset, PayoutAssumption
<1>3. TotalDays \in [Reqs -> Nat]
  BY PayoutAssumption
<1> QED BY <1>1, <1>2, <1>3, SumType DEF Sum

LEMMA SumOfOneRow ==
  ASSUME NEW n \in Nat
  PROVE  SumFunctionOnSet([d \in {n} |-> d], {n}) = n
<1> DEFINE w == [d \in {n} |-> d]
<1>1. /\ w \in [{n} -> Nat] /\ w[n] = n /\ IsFiniteSet({n})
      /\ {n} \in SUBSET {n} /\ n \in {n} /\ {n} \ {n} = {}
  BY FS_Singleton
<1> HIDE DEF w
<1>2. SumFunctionOnSet(w, {n}) = w[n] + SumFunctionOnSet(w, {n} \ {n})
  BY <1>1, SumRemove
<1>3. SumFunctionOnSet(w, {}) = 0
  BY <1>1, SumEmpty
<1> QED BY <1>1, <1>2, <1>3 DEF w

LEMMA DaysPaidIs ==
  /\ paid = {} => DaysPaid = 0
  /\ \A n \in Nat : paid' = {n} => DaysPaid' = n
<1>1. [d \in {} |-> d] \in [{} -> Nat]
  OBVIOUS
<1> QED BY <1>1, SumEmpty, SumOfOneRow DEF DaysPaid

LEMMA DaysPaidType == PayoutTyped => DaysPaid \in Nat
<1> SUFFICES ASSUME PayoutTyped PROVE DaysPaid \in Nat
  OBVIOUS
<1>1. paid = {} \/ \E n \in Nat : paid = {n}
  BY DEF PayoutTyped
<1>2. [d \in {} |-> d] \in [{} -> Nat]
  OBVIOUS
<1> QED BY <1>1, <1>2, SumEmpty, SumOfOneRow DEF DaysPaid

\* What granting or taking back a request does to the days granted.
LEMMA GrantedSum ==
  ASSUME PayoutTyped, NEW q \in Reqs, NEW s \in LeaveStatus,
         status' = [status EXCEPT ![q] = s]
  PROVE  /\ (status[q] \in Granted <=> s \in Granted) => GrantedDays' = GrantedDays
         /\ status[q] \notin Granted /\ s \in Granted
              => GrantedDays' = GrantedDays + TotalDays[q]
         /\ status[q] \in Granted /\ s \notin Granted
              => GrantedDays' = GrantedDays - TotalDays[q]
<1> DEFINE G == InStatus(Granted)
           H == InStatus(Granted)'
<1>0. /\ status \in [Reqs -> LeaveStatus \cup {"NONE"}]
      /\ TotalDays \in [Reqs -> Nat] /\ TotalDays[q] \in Nat
  BY PayoutAssumption DEF PayoutTyped
<1>1. G \in SUBSET Reqs /\ IsFiniteSet(G) /\ GrantedDays = SumFunctionOnSet(TotalDays, G)
      /\ SumFunctionOnSet(TotalDays, G) \in Nat
  BY SomeReqsFinite DEF GrantedDays, Sum, PayoutTyped
<1>2. GrantedDays' = SumFunctionOnSet(TotalDays, H)
  BY DEF GrantedDays, Sum
<1>3. (q \in G <=> status[q] \in Granted) /\ (q \in H <=> s \in Granted)
      /\ \A x \in Reqs : x # q => (x \in G <=> x \in H)
  BY <1>0 DEF InStatus
<1>4. H \in SUBSET Reqs
  BY DEF InStatus
<1> HIDE DEF G, H
<1>5. CASE status[q] \in Granted <=> s \in Granted
  <2>1. G = H
    BY <1>1, <1>3, <1>4, <1>5
  <2> QED BY <2>1, <1>1, <1>2, <1>5
<1>6. CASE status[q] \notin Granted /\ s \in Granted
  <2>1. H = G \cup {q} /\ q \notin G
    BY <1>1, <1>3, <1>4, <1>6
  <2>2. SumFunctionOnSet(TotalDays, G \cup {q}) = TotalDays[q] + SumFunctionOnSet(TotalDays, G)
    BY <2>1, <1>0, <1>1, SumAdd
  <2> QED BY <2>1, <2>2, <1>0, <1>1, <1>2, <1>6
<1>7. CASE status[q] \in Granted /\ s \notin Granted
  <2>1. H = G \ {q} /\ q \in G
    BY <1>1, <1>3, <1>4, <1>7
  <2>2. SumFunctionOnSet(TotalDays, G) = TotalDays[q] + SumFunctionOnSet(TotalDays, G \ {q})
    BY <2>1, <1>0, <1>1, SumRemove
  <2>3. SumFunctionOnSet(TotalDays, G \ {q}) \in Nat
    BY <2>1, <1>0, <1>1, FS_Subset, SumType
  <2> QED BY <2>1, <2>2, <2>3, <1>0, <1>1, <1>2, <1>7
<1> QED BY <1>5, <1>6, <1>7

-----------------------------------------------------------------------------
LEMMA PayoutBegins == ASSUME PayoutInit PROVE PayoutInv
<1>1. PayoutTyped
  BY DEF PayoutInit, PayoutTyped, AtRest
<1>2. GrantedDays = 0
  <2>1. InStatus(Granted) = {} /\ TotalDays \in [Reqs -> Nat]
    BY PayoutAssumption DEF PayoutInit, InStatus, Granted
  <2> QED BY <2>1, SumEmpty DEF GrantedDays, Sum
<1>3. LedgerHolds
  BY <1>2, DaysPaidIs DEF PayoutInit, LedgerHolds, ToAdjust
<1>4. ReadingsHold
  BY DEF PayoutInit, ReadingsHold
<1> QED BY <1>1, <1>3, <1>4 DEF PayoutInv

\* What the open requests hold, what remains and what is granted are read off
\* the requests and the balance.
LEMMA SameRequests ==
  ASSUME UNCHANGED status
  PROVE  GrantedDays' = GrantedDays /\ UndecidedDays' = UndecidedDays
  BY DEF GrantedDays, UndecidedDays, Sum, InStatus

LEMMA SamePaid ==
  ASSUME UNCHANGED paid
  PROVE  DaysPaid' = DaysPaid
  BY DEF DaysPaid

LEMMA BeginKeeps ==
  ASSUME PayoutInv, NEW p \in Payouts, BeginPayout(p)
  PROVE  PayoutInv'
<1> DEFINE begun == [pc |-> "reading", remaining |-> Unread,
                     undecided |-> Unread, known |-> Unread]
<1>1. /\ payout' = [payout EXCEPT ![p] = begun] /\ beside' = beside \ {p}
      /\ payout[p] = AtRest /\ UNCHANGED <<status, paid, decision, astray>>
  BY DEF BeginPayout
<1>2. begun \in Reading
  BY DEF Reading, Unread
<1> HIDE DEF begun
<1>3. /\ leaveBalance' \in [row : BOOLEAN, earned : Nat, used : Nat]
      /\ leaveBalance'.row \/ leaveBalance'.used = 0
      /\ leaveBalance'.used = leaveBalance.used /\ Remaining' = Remaining
  BY PayoutAssumption DEF BeginPayout, PayoutInv, PayoutTyped, Remaining, Earned
<1>4. PayoutTyped'
  BY <1>1, <1>2, <1>3 DEF PayoutInv, PayoutTyped
<1>5. LedgerHolds'
  BY <1>1, <1>3, SameRequests, SamePaid DEF PayoutInv, LedgerHolds, ToAdjust
<1>6. ReadingsHold'
  <2> SUFFICES ASSUME paid' = {}, NEW x \in Payouts \ beside', payout'[x] # AtRest
               PROVE  /\ payout'[x].remaining \in {Unread, Remaining'}
                      /\ payout'[x].undecided \in {Unread, UndecidedDays'}
    BY DEF ReadingsHold
  <2>1. CASE x = p
    BY <2>1, <1>1 DEF PayoutInv, PayoutTyped, begun
  <2>2. CASE x # p
    <3>1. x \in Payouts \ beside /\ payout'[x] = payout[x] /\ paid = {}
      BY <2>2, <1>1 DEF PayoutInv, PayoutTyped
    <3> QED BY <3>1, <1>1, <1>3, SameRequests DEF PayoutInv, ReadingsHold
  <2> QED BY <2>1, <2>2
<1> QED BY <1>4, <1>5, <1>6 DEF PayoutInv

LEMMA ReadKeeps ==
  ASSUME PayoutInv, NEW p \in Payouts, NEW field \in {"remaining", "undecided", "known"},
         NEW value \in Int, Reads(p, field, value),
         field = "remaining" => value = Remaining,
         field = "undecided" => value = UndecidedDays
  PROVE  PayoutInv'
<1>1. /\ payout[p] # AtRest /\ payout' = [payout EXCEPT ![p][field] = value]
      /\ UNCHANGED <<status, leaveBalance, paid, decision, beside, astray>>
  BY DEF Reads, AtRest
<1>2. payout[p] \in Reading
  BY <1>1 DEF PayoutInv, PayoutTyped
<1>3. /\ payout'[p] \in Reading
      /\ \A f \in {"remaining", "undecided", "known"} :
           payout'[p][f] = IF f = field THEN value ELSE payout[p][f]
  BY <1>1, <1>2 DEF Reading, PayoutInv, PayoutTyped
<1>4. /\ payout' \in [Payouts -> {AtRest} \cup Reading]
      /\ \A x \in Payouts : x # p => payout'[x] = payout[x]
  BY <1>1, <1>3 DEF PayoutInv, PayoutTyped
<1>5. PayoutTyped'
  BY <1>1, <1>4 DEF PayoutInv, PayoutTyped
<1>6. LedgerHolds'
  BY <1>1, SameRequests, SamePaid DEF PayoutInv, LedgerHolds, ToAdjust
<1>7. Remaining' = Remaining
  BY <1>1 DEF Remaining, Earned
<1>8. ReadingsHold'
  BY <1>1, <1>3, <1>4, <1>7, SameRequests DEF PayoutInv, ReadingsHold
<1> QED BY <1>5, <1>6, <1>8 DEF PayoutInv

\* The days free to be paid out come off what remains, above what is held.
LEMMA PaymentSpares ==
  ASSUME PayoutInv, NEW p \in Payouts, Pay(p), paid' # paid
  PROVE  /\ paid = {} /\ leaveBalance.used + Due(payout[p]) = leaveBalance'.used
         /\ Due(payout[p]) \in Nat /\ paid' = {Due(payout[p])}
         /\ leaveBalance' \in [row : {TRUE}, earned : Nat, used : Nat]
         /\ p \notin beside => Remaining' >= UndecidedDays
<1> DEFINE r == payout[p]
           due == Due(r)
<1>1. /\ due > 0 /\ paid = {} /\ paid' = {due} /\ r.pc = "reading"
      /\ r.remaining # Unread /\ r.undecided # Unread
      /\ leaveBalance' = [row |-> TRUE, earned |-> Earned, used |-> leaveBalance.used + due]
  BY DEF Pay, Unpaid
<1>2. r # AtRest
  BY <1>1 DEF AtRest
<1>3. /\ leaveBalance.used \in Nat /\ Earned \in Nat /\ UndecidedDays \in Nat
      /\ MaxDays \in Nat
  BY SomeReqsFinite, PayoutAssumption DEF PayoutInv, PayoutTyped, Earned, UndecidedDays
<1>4. /\ r \in Reading
      /\ r.remaining \in Int /\ r.undecided \in Int
  BY <1>2 DEF PayoutInv, PayoutTyped, Reading
<1>5. due \in Nat /\ due <= AtLeastZero(r.remaining - r.undecided)
  BY <1>1, <1>3, <1>4 DEF Due, AtLeastZero
<1>6. Remaining' = AtLeastZero(Earned - (leaveBalance.used + due))
  BY <1>1 DEF Remaining, Earned, AtLeastZero
<1>7. leaveBalance' \in [row : {TRUE}, earned : Nat, used : Nat]
  BY <1>1, <1>3, <1>5
<1>8. ASSUME p \notin beside PROVE Remaining' >= UndecidedDays
  <2>1. r.remaining = Remaining /\ r.undecided = UndecidedDays
    BY <1>1, <1>2, <1>8 DEF PayoutInv, ReadingsHold
  <2> HIDE DEF due, r
  <2>2. due <= Earned - leaveBalance.used - UndecidedDays
    BY <2>1, <1>1, <1>3, <1>5 DEF AtLeastZero, Remaining
  <2> QED BY <2>2, <1>3, <1>5, <1>6 DEF AtLeastZero
<1> QED BY <1>1, <1>3, <1>5, <1>7, <1>8

LEMMA PayKeeps ==
  ASSUME PayoutInv, NEW p \in Payouts, Pay(p)
  PROVE  PayoutInv'
<1>1. /\ payout' = [payout EXCEPT ![p] = AtRest] /\ payout[p] # AtRest
      /\ UNCHANGED <<status, decision, beside, astray>>
  BY DEF Pay, AtRest
<1>2. ToAdjust' = ToAdjust /\ ToAdjust \in Int
  BY <1>1 DEF ToAdjust, PayoutInv, PayoutTyped, AtRest, Adjusting, Storing
<1>3. CASE paid' = paid
  <2>1. leaveBalance' = leaveBalance
    BY <1>3 DEF Pay, Unpaid
  <2>2. PayoutTyped'
    BY <1>1, <1>2, <1>3, <2>1 DEF PayoutInv, PayoutTyped
  <2>3. LedgerHolds'
    BY <1>1, <1>3, <2>1, SameRequests, SamePaid DEF PayoutInv, LedgerHolds, ToAdjust
  <2>4. Remaining' = Remaining
    BY <2>1 DEF Remaining, Earned
  <2>5. ReadingsHold'
    BY <1>1, <1>3, <2>4, SameRequests DEF PayoutInv, PayoutTyped, ReadingsHold
  <2> QED BY <2>2, <2>3, <2>5 DEF PayoutInv
<1>4. CASE paid' # paid
  <2> DEFINE due == Due(payout[p])
  <2>1. /\ paid = {} /\ leaveBalance.used + due = leaveBalance'.used
        /\ due \in Nat /\ paid' = {due}
        /\ leaveBalance' \in [row : {TRUE}, earned : Nat, used : Nat]
    BY <1>4, PaymentSpares
  <2> HIDE DEF due
  <2>2. leaveBalance' \in [row : BOOLEAN, earned : Nat, used : Nat] /\ leaveBalance'.row
    BY <2>1
  <2>3. PayoutTyped'
    BY <1>1, <1>2, <2>1, <2>2 DEF PayoutInv, PayoutTyped
  <2>4. DaysPaid = 0 /\ DaysPaid' = due
    BY <2>1, DaysPaidIs
  <2>5. leaveBalance.used \in Nat /\ GrantedDays \in Nat /\ GrantedDays' = GrantedDays
    BY <1>1, SameRequests, SomeReqsFinite DEF PayoutInv, PayoutTyped, GrantedDays
  <2>6. LedgerHolds'
    BY <1>1, <1>2, <2>1, <2>4, <2>5 DEF PayoutInv, LedgerHolds
  <2>7. ReadingsHold'
    BY <2>1 DEF ReadingsHold
  <2> QED BY <2>3, <2>6, <2>7 DEF PayoutInv
<1> QED BY <1>3, <1>4

LEMMA StopKeeps ==
  ASSUME PayoutInv, NEW p \in Payouts, StopPayout(p)
  PROVE  PayoutInv'
<1>1. /\ payout' = [payout EXCEPT ![p] = AtRest]
      /\ UNCHANGED <<status, leaveBalance, paid, decision, beside, astray>>
  BY DEF StopPayout
<1>2. PayoutTyped'
  <2>1. payout' \in [Payouts -> {AtRest} \cup Reading]
    BY <1>1 DEF PayoutInv, PayoutTyped
  <2> QED BY <1>1, <2>1 DEF PayoutInv, PayoutTyped
<1>3. LedgerHolds'
  BY <1>1, SameRequests, SamePaid DEF PayoutInv, LedgerHolds, ToAdjust
<1>4. Remaining' = Remaining
  BY <1>1 DEF Remaining, Earned
<1>5. ReadingsHold'
  BY <1>1, <1>4, SameRequests DEF PayoutInv, PayoutTyped, ReadingsHold
<1> QED BY <1>2, <1>3, <1>5 DEF PayoutInv

\* Filing, deciding and charging touch what the payouts under way have read,
\* and each of them is then marked as having seen a change.
LEMMA AllMarked ==
  ASSUME beside' = beside \cup Underway, UNCHANGED payout
  PROVE  ReadingsHold'
<1> SUFFICES ASSUME NEW x \in Payouts \ beside', payout'[x] # AtRest
             PROVE  FALSE
  BY DEF ReadingsHold
<1> QED BY DEF Underway

LEMMA FileKeeps ==
  ASSUME PayoutInv, NEW q \in Reqs, File(q)
  PROVE  PayoutInv'
<1>1. /\ status' = [status EXCEPT ![q] = "PENDING"] /\ status[q] = "NONE"
      /\ beside' = beside \cup Underway
      /\ UNCHANGED <<leaveBalance, paid, payout, decision, astray>>
  BY DEF File
<1>2. "PENDING" \in LeaveStatus /\ "PENDING" \notin Granted /\ "NONE" \notin Granted
  BY DEF LeaveStatus, Standing, Undecided, Granted
<1>3. PayoutTyped'
  BY <1>1, <1>2 DEF PayoutInv, PayoutTyped
<1>4. GrantedDays' = GrantedDays
  BY <1>1, <1>2, GrantedSum DEF PayoutInv
<1>5. LedgerHolds'
  BY <1>1, <1>4, SamePaid DEF PayoutInv, LedgerHolds, ToAdjust
<1>6. ReadingsHold'
  BY <1>1, AllMarked
<1> QED BY <1>3, <1>5, <1>6 DEF PayoutInv

LEMMA DecidesKeeps ==
  ASSUME PayoutInv, NEW q \in Reqs, NEW from \in SUBSET LeaveStatus,
         NEW to \in LeaveStatus,
         NEW delta \in Int, Decides(q, from, to, delta),
         GrantedDays' = GrantedDays + delta
  PROVE  PayoutInv'
<1>1. /\ decision = AtRest
      /\ status' = [status EXCEPT ![q] = to]
      /\ decision' = IF delta = 0 THEN AtRest ELSE [pc |-> "reading", delta |-> delta]
      /\ beside' = beside \cup Underway
      /\ UNCHANGED <<leaveBalance, paid, payout, astray>>
  BY DEF Decides
<1>2. decision' \in {AtRest} \cup Adjusting /\ ToAdjust' = delta
  BY <1>1 DEF Adjusting, ToAdjust, AtRest
<1>3. PayoutTyped'
  BY <1>1, <1>2 DEF PayoutInv, PayoutTyped
<1>4. leaveBalance.used \in Nat /\ GrantedDays \in Nat /\ DaysPaid \in Nat
      /\ ToAdjust = 0
  BY <1>1, SomeReqsFinite, DaysPaidType DEF PayoutInv, ToAdjust, PayoutTyped, GrantedDays
<1>5. LedgerHolds'
  BY <1>1, <1>2, <1>4, SamePaid DEF PayoutInv, LedgerHolds
<1>6. ReadingsHold'
  BY <1>1, AllMarked
<1> QED BY <1>3, <1>5, <1>6 DEF PayoutInv

LEMMA DecisionsKeep ==
  ASSUME PayoutInv, NEW q \in Reqs,
         \/ Approve(q) \/ Return(q) \/ Reject(q)
         \/ \E outcome \in {"REJECTED", "NEEDS_REVISION"} : TakeBack(q, outcome)
  PROVE  PayoutInv'
<1>1. /\ TotalDays[q] \in Int /\ -TotalDays[q] \in Int /\ 0 \in Int /\ GrantedDays \in Int
      /\ status[q] \in LeaveStatus \cup {"NONE"} /\ PayoutTyped
  BY SomeReqsFinite, PayoutAssumption DEF PayoutInv, PayoutTyped, GrantedDays
<1>2. /\ "APPROVED" \in LeaveStatus /\ "REJECTED" \in LeaveStatus
      /\ "NEEDS_REVISION" \in LeaveStatus
      /\ Undecided \in SUBSET LeaveStatus /\ {"APPROVED"} \in SUBSET LeaveStatus
      /\ {"PENDING"} \in SUBSET LeaveStatus
      /\ "APPROVED" \in Granted /\ "REJECTED" \notin Granted
      /\ "NEEDS_REVISION" \notin Granted
      /\ \A s \in Undecided : s \notin Granted
      /\ "PENDING" \notin Granted
  BY DEF LeaveStatus, Standing, Undecided, Granted, Closed
<1>3. CASE Approve(q)
  <2>1. status' = [status EXCEPT ![q] = "APPROVED"] /\ status[q] \in Undecided
    BY <1>3 DEF Approve, Decides
  <2>2. GrantedDays' = GrantedDays + TotalDays[q]
    BY <2>1, <1>1, <1>2, GrantedSum
  <2> QED BY <2>2, <1>1, <1>2, <1>3, DecidesKeeps DEF Approve
<1>4. CASE Return(q)
  <2>1. status' = [status EXCEPT ![q] = "NEEDS_REVISION"] /\ status[q] = "PENDING"
    BY <1>4 DEF Return, Decides
  <2>2. GrantedDays' = GrantedDays
    BY <2>1, <1>1, <1>2, GrantedSum
  <2>3. GrantedDays' = GrantedDays + 0
    BY <2>2, <1>1
  <2> QED BY <2>3, <1>1, <1>2, <1>4, DecidesKeeps DEF Return
<1>5. CASE Reject(q)
  <2>1. status' = [status EXCEPT ![q] = "REJECTED"] /\ status[q] \in Undecided
    BY <1>5 DEF Reject, Decides
  <2>2. GrantedDays' = GrantedDays
    BY <2>1, <1>1, <1>2, GrantedSum
  <2>3. GrantedDays' = GrantedDays + 0
    BY <2>2, <1>1
  <2> QED BY <2>3, <1>1, <1>2, <1>5, DecidesKeeps DEF Reject
<1>6. ASSUME NEW outcome \in {"REJECTED", "NEEDS_REVISION"}, TakeBack(q, outcome)
      PROVE  PayoutInv'
  <2>1. status' = [status EXCEPT ![q] = outcome] /\ status[q] = "APPROVED"
    BY <1>6 DEF TakeBack, Decides
  <2>2. outcome \in LeaveStatus /\ outcome \notin Granted
    BY <1>2
  <2>3. GrantedDays' = GrantedDays + (-TotalDays[q])
    BY <2>1, <2>2, <1>1, <1>2, GrantedSum
  <2> QED BY <2>2, <2>3, <1>1, <1>2, <1>6, DecidesKeeps DEF TakeBack
<1> QED BY <1>3, <1>4, <1>5, <1>6

LEMMA AdjustReadsKeeps ==
  ASSUME PayoutInv, AdjustReads
  PROVE  PayoutInv'
<1>1. /\ decision.pc = "reading"
      /\ decision' = [pc |-> "storing", delta |-> decision.delta, seen |-> leaveBalance]
      /\ UNCHANGED <<status, leaveBalance, paid, payout, beside, astray>>
  BY DEF AdjustReads
<1>2. decision # AtRest /\ decision.delta \in Int
  BY <1>1 DEF PayoutInv, PayoutTyped, AtRest, Adjusting, Storing
<1>3. decision' \in Storing /\ decision' # AtRest /\ ToAdjust' = ToAdjust
  BY <1>1, <1>2 DEF PayoutInv, PayoutTyped, Balances, Storing, AtRest, ToAdjust
<1>4. PayoutTyped'
  BY <1>1, <1>3 DEF PayoutInv, PayoutTyped
<1>5. LedgerHolds'
  BY <1>1, <1>3, SameRequests, SamePaid DEF PayoutInv, LedgerHolds
<1>6. Remaining' = Remaining
  BY <1>1 DEF Remaining, Earned
<1>7. ReadingsHold'
  BY <1>1, <1>6, SameRequests DEF PayoutInv, ReadingsHold
<1> QED BY <1>4, <1>5, <1>7 DEF PayoutInv

\* Over the balance it was read from, what is stored is not cut off at zero: it
\* is what has been granted and paid.
LEMMA AdjustStoresKeeps ==
  ASSUME PayoutInv, AdjustStores
  PROVE  PayoutInv'
<1>1. /\ decision.pc = "storing" /\ decision' = AtRest
      /\ leaveBalance' = [row |-> TRUE,
                     earned |-> IF leaveBalance.row THEN leaveBalance.earned ELSE DefaultDays,
                     used |-> NextUsed(IF decision.seen.row THEN decision.seen.used ELSE 0,
                                       decision.delta)]
      /\ astray' = (astray \/ decision.seen # leaveBalance)
      /\ beside' = beside \cup Underway
      /\ UNCHANGED <<status, paid, payout>>
  BY DEF AdjustStores
<1>2. /\ decision # AtRest /\ decision.delta \in Int /\ decision.seen \in Balances
      /\ leaveBalance \in Balances
      /\ leaveBalance.row \/ leaveBalance.used = 0
  BY <1>1 DEF PayoutInv, PayoutTyped, AtRest, Adjusting, Storing, Balances
<1>3. leaveBalance' \in Balances /\ leaveBalance'.row
  <2>1. NextUsed(IF decision.seen.row THEN decision.seen.used ELSE 0, decision.delta) \in Nat
    BY <1>2 DEF NextUsed, Balances
  <2> QED BY <2>1, <1>1, <1>2, PayoutAssumption DEF Balances
<1>4. PayoutTyped'
  BY <1>1, <1>3 DEF PayoutInv, PayoutTyped, Balances
<1>5. LedgerHolds'
  <2> SUFFICES ASSUME ~astray, decision.seen = leaveBalance
               PROVE  leaveBalance'.used + ToAdjust' = GrantedDays' + DaysPaid'
    BY <1>1 DEF LedgerHolds
  <2>1. GrantedDays \in Nat /\ DaysPaid \in Nat
    BY SomeReqsFinite, DaysPaidType DEF PayoutInv, PayoutTyped, GrantedDays
  <2>2. leaveBalance.used + decision.delta = GrantedDays + DaysPaid
    BY <1>2 DEF PayoutInv, LedgerHolds, ToAdjust
  <2>3. /\ (IF leaveBalance.row THEN leaveBalance.used ELSE 0) = leaveBalance.used
        /\ leaveBalance.used \in Nat
    BY <1>2 DEF Balances
  <2>4. leaveBalance'.used = GrantedDays + DaysPaid
    BY <1>1, <1>2, <2>1, <2>2, <2>3 DEF NextUsed
  <2>5. ToAdjust' = 0
    BY <1>1 DEF ToAdjust
  <2> QED BY <1>1, <2>1, <2>4, <2>5, SameRequests, SamePaid
<1>6. ReadingsHold'
  BY <1>1, AllMarked
<1> QED BY <1>4, <1>5, <1>6 DEF PayoutInv

LEMMA AdjustFailsKeeps ==
  ASSUME PayoutInv, AdjustFails
  PROVE  PayoutInv'
<1>1. /\ decision' = AtRest /\ astray' = TRUE
      /\ UNCHANGED <<status, leaveBalance, paid, payout, beside>>
  BY DEF AdjustFails
<1>2. PayoutTyped' /\ LedgerHolds'
  BY <1>1 DEF PayoutInv, PayoutTyped, LedgerHolds
<1>3. Remaining' = Remaining
  BY <1>1 DEF Remaining, Earned
<1>4. ReadingsHold'
  BY <1>1, <1>3, SameRequests DEF PayoutInv, ReadingsHold
<1> QED BY <1>2, <1>4 DEF PayoutInv

-----------------------------------------------------------------------------
LEMMA PayoutStepKeeps ==
  ASSUME PayoutInv, [PayoutNext]_payoutVars
  PROVE  PayoutInv'
<1>1. ASSUME NEW p \in Payouts,
             ReadBalance(p) \/ ReadUndecided(p) \/ ReadPaid(p)
      PROVE  PayoutInv'
  <2>1. Remaining \in Int /\ UndecidedDays \in Int
    BY SomeReqsFinite, PayoutAssumption
    DEF PayoutInv, PayoutTyped, UndecidedDays, Remaining,
        AtLeastZero, Earned
  <2>2. Cardinality(paid) \in Int
    <3>1. paid = {} \/ \E n \in Nat : paid = {n}
      BY DEF PayoutInv, PayoutTyped
    <3>2. \A n \in Nat : Cardinality({n}) = 1
      BY FS_Singleton
    <3> QED BY <3>1, <3>2, FS_EmptySet
  <2> QED BY <1>1, <2>1, <2>2, ReadKeeps
          DEF ReadBalance, ReadUndecided, ReadPaid, HeldDays
<1>2. CASE PayoutNext
  BY <1>1, <1>2, BeginKeeps, PayKeeps, StopKeeps, FileKeeps, DecisionsKeep,
     AdjustReadsKeeps, AdjustStoresKeeps, AdjustFailsKeeps DEF PayoutNext
<1>3. CASE UNCHANGED payoutVars
  <2>1. Remaining' = Remaining
    BY <1>3 DEF payoutVars, Remaining, Earned
  <2>2. PayoutTyped'
    BY <1>3 DEF payoutVars, PayoutInv, PayoutTyped
  <2>3. LedgerHolds'
    BY <1>3, SameRequests, SamePaid DEF payoutVars, PayoutInv, LedgerHolds, ToAdjust
  <2>4. ReadingsHold'
    BY <1>3, <2>1, SameRequests DEF payoutVars, PayoutInv, ReadingsHold
  <2> QED BY <2>2, <2>3, <2>4 DEF PayoutInv
<1> QED BY <1>2, <1>3

LEMMA PayoutInvHolds == PayoutSpec => []PayoutInv
<1>1. PayoutInit => PayoutInv
  BY PayoutBegins
<1>2. PayoutInv /\ [PayoutNext]_payoutVars => PayoutInv'
  BY PayoutStepKeeps
<1> QED BY <1>1, <1>2, PTL DEF PayoutSpec

\* Whatever payouts and decisions overlap, are repeated or stop, at every point
\* between the two halves of an adjustment and the three reads of a payout: until
\* an adjustment fails or is stored over a newer balance, the days on the balance
\* are those of approved leave and those paid out, each once.
THEOREM PayoutsKeepTheBooks == PayoutSpec => []PaidDaysStay
<1>1. PayoutInv => PaidDaysStay
  <2> SUFFICES ASSUME PayoutInv, decision = AtRest, ~astray
               PROVE  leaveBalance.used = Sum(InStatus(Granted)) + DaysPaid
    BY DEF PaidDaysStay
  <2> QED BY DEF PayoutInv, PayoutTyped, LedgerHolds, ToAdjust, GrantedDays
<1> QED BY <1>1, PayoutInvHolds, PTL

\* A payment leaves every open request the days it holds, although what it pays
\* was worked out from readings made before, in any order, while other payouts
\* did the same and decisions were half way through: only a request filed, decided
\* or charged since that payout began can be paid out from under.
THEOREM PayoutsSpareHeldDays == PayoutSpec => PayoutSparesHeldDays
<1>1. ASSUME PayoutInv, NEW p \in Payouts \ beside, Pay(p), paid' # paid
      PROVE  Remaining' >= UndecidedDays
  BY <1>1, PaymentSpares
<1>2. PayoutInv /\ [PayoutNext]_payoutVars
        => [\A p \in Payouts \ beside :
              Pay(p) /\ paid' # paid => Remaining' >= UndecidedDays]_payoutVars
  BY <1>1
<1> QED BY <1>2, PayoutInvHolds, PTL DEF PayoutSpec, PayoutSparesHeldDays
-----------------------------------------------------------------------------
(***************************************************************************)
(* 6. Reminders.  Whoever is not listed has no reminder and none on its    *)
(* way; a claim lists those it is about to remind, and only one claim      *)
(* succeeds on what it has read, so a reminder on its way is the only one  *)
(* of its round.                                                           *)
(***************************************************************************)
RoundsPass ==
  /\ round \in Nat /\ DOMAIN job = Jobs
  /\ \A n \in Jobs : job[n].pc = "send" => job[n].round \in Nat /\ job[n].round <= round

ClaimsAreNew == \A n \in Jobs : job[n].pc = "claim" => job[n].ready \cap job[n].listed = {}

OneReminder ==
  /\ sent \in [Reviewers -> {0, 1}]
  /\ \A r \in Reviewers : r \notin listed => sent[r] = 0
  /\ \A n \in Jobs, r \in Reviewers : Coming(n, r) =>
       /\ r \in listed /\ sent[r] = 0
       /\ \A m \in Jobs : Coming(m, r) => m = n

RemindInv == RoundsPass /\ ClaimsAreNew /\ OneReminder /\ ClaimsAreKept

LEMMA ClaimKeeps ==
  ASSUME RemindInv, NEW n \in Jobs, Claim(n)
  PROVE  RemindInv'
<1>1. PICK c : c = job[n]
  OBVIOUS
<1>2. c.pc = "claim" /\ c.ready \cap c.listed = {} /\ UNCHANGED <<round, sent, lost>>
  BY <1>1 DEF Claim, RemindInv, ClaimsAreNew
<1>3. \/ /\ c.listed = listed /\ listed' = listed \cup c.ready
         /\ job' = [job EXCEPT ![n] = IF c.ready = {} THEN NotRunning
                                      ELSE [pc |-> "send", to |-> c.ready, round |-> round]]
      \/ job' = [job EXCEPT ![n] = NotRunning] /\ listed' = listed
  BY <1>1 DEF Claim, StillAsRead
<1>4. DOMAIN job = Jobs /\ round \in Nat
  BY DEF RemindInv, RoundsPass
<1>5. CASE job' = [job EXCEPT ![n] = NotRunning] /\ listed' = listed
  <2>1. /\ job'[n] = NotRunning /\ \A m \in Jobs : m # n => job'[m] = job[m]
        /\ DOMAIN job' = Jobs
    BY <1>4, <1>5
  <2>2. job'[n].pc = "idle"
    BY <2>1 DEF NotRunning
  <2>3. RoundsPass' /\ ClaimsAreNew'
    BY <1>2, <2>1, <2>2 DEF RemindInv, RoundsPass, ClaimsAreNew
  <2>4. OneReminder'
    BY <1>2, <1>5, <2>1, <2>2 DEF RemindInv, OneReminder, Coming
  <2>5. ClaimsAreKept'
    <3>1. \A m \in Jobs, r \in Reviewers : Coming(m, r) => Coming(m, r)'
      BY <1>1, <1>2, <2>1 DEF Coming
    <3> QED BY <1>2, <1>5, <3>1 DEF RemindInv, ClaimsAreKept
  <2> QED BY <2>3, <2>4, <2>5 DEF RemindInv
<1>6. CASE /\ c.listed = listed /\ listed' = listed \cup c.ready
           /\ job' = [job EXCEPT ![n] = [pc |-> "send", to |-> c.ready, round |-> round]]
  <2>1. /\ \A m \in Jobs : m # n => job'[m] = job[m]
        /\ job'[n].pc = "send" /\ job'[n].to = c.ready /\ job'[n].round = round
        /\ DOMAIN job' = Jobs
    BY <1>4, <1>6
  <2>2. RoundsPass' /\ ClaimsAreNew'
    BY <1>2, <1>4, <2>1 DEF RemindInv, RoundsPass, ClaimsAreNew
  <2>3. ASSUME NEW r \in Reviewers, r \in c.ready
        PROVE  sent[r] = 0 /\ \A m \in Jobs : ~Coming(m, r)
    BY <1>2, <1>6, <2>3 DEF RemindInv, OneReminder
  <2>4. \A m \in Jobs, r \in Reviewers :
          Coming(m, r)' <=> IF m = n THEN r \in c.ready ELSE Coming(m, r)
    BY <1>2, <2>1 DEF Coming
  <2>5. OneReminder'
    BY <1>2, <1>6, <2>3, <2>4 DEF RemindInv, OneReminder
  <2>6. ClaimsAreKept'
    <3>1. \A m \in Jobs, r \in Reviewers : Coming(m, r) => m # n
      BY <1>1, <1>2 DEF Coming
    <3>2. \A m \in Jobs, r \in Reviewers : Coming(m, r) => Coming(m, r)'
      BY <1>2, <2>1, <3>1 DEF Coming
    <3>3. \A r \in c.ready : Coming(n, r)'
      BY <1>2, <2>1 DEF Coming
    <3> QED BY <1>2, <1>6, <3>2, <3>3 DEF RemindInv, ClaimsAreKept
  <2> QED BY <2>2, <2>5, <2>6 DEF RemindInv
<1> QED BY <1>3, <1>5, <1>6

LEMMA SendKeeps ==
  ASSUME RemindInv, NEW n \in Jobs, Send(n)
  PROVE  RemindInv'
<1>1. /\ job[n].pc = "send" /\ job' = [job EXCEPT ![n] = NotRunning]
      /\ sent' = [r \in Reviewers |->
                    sent[r] + (IF r \in job[n].to /\ job[n].round = round THEN 1 ELSE 0)]
      /\ UNCHANGED <<listed, round, lost>>
  BY DEF Send, request
<1>2. DOMAIN job = Jobs /\ sent \in [Reviewers -> {0, 1}]
  BY DEF RemindInv, RoundsPass, OneReminder
<1>3. /\ job'[n] = NotRunning /\ \A m \in Jobs : m # n => job'[m] = job[m]
      /\ DOMAIN job' = Jobs
  BY <1>1, <1>2
<1>4. job'[n].pc = "idle"
  BY <1>3 DEF NotRunning
<1>5. RoundsPass' /\ ClaimsAreNew'
  BY <1>1, <1>3, <1>4 DEF RemindInv, RoundsPass, ClaimsAreNew
<1>6. \A r \in Reviewers : IF Coming(n, r) THEN sent[r] = 0 /\ sent'[r] = 1 /\ r \in listed
                           ELSE sent'[r] = sent[r]
  BY <1>1, <1>2 DEF RemindInv, OneReminder, Coming
<1>7. \A m \in Jobs, r \in Reviewers : Coming(m, r)' <=> m # n /\ Coming(m, r)
  BY <1>1, <1>3, <1>4 DEF Coming
<1>8. sent' \in [Reviewers -> {0, 1}]
  <2>1. \A r \in Reviewers : sent'[r] \in {0, 1}
    BY <1>2, <1>6
  <2> QED BY <1>1, <2>1
<1>9. OneReminder'
  BY <1>1, <1>6, <1>7, <1>8 DEF RemindInv, OneReminder
<1>10. ClaimsAreKept'
  <2> SUFFICES ASSUME NEW r \in Reviewers, r \in listed, r \notin lost
               PROVE  sent'[r] = 1 \/ \E m \in Jobs : Coming(m, r)'
    BY <1>1 DEF ClaimsAreKept
  <2>1. CASE Coming(n, r)
    <3>1. sent[r] = 0 /\ r \in job[n].to /\ job[n].round = round
      BY <2>1 DEF RemindInv, OneReminder, Coming
    <3> QED BY <1>1, <3>1
  <2>2. CASE ~Coming(n, r)
    <3>1. ~(r \in job[n].to /\ job[n].round = round)
      BY <1>1, <2>2 DEF Coming
    <3>2. sent'[r] = sent[r]
      BY <1>1, <3>1 DEF RemindInv, OneReminder
    <3>3. sent[r] = 1 \/ \E m \in Jobs : m # n /\ Coming(m, r)
      BY <2>2 DEF RemindInv, ClaimsAreKept
    <3>4. ASSUME NEW m \in Jobs, m # n, Coming(m, r)
          PROVE  Coming(m, r)'
      BY <1>7, <3>4
    <3> QED BY <3>2, <3>3, <3>4
  <2> QED BY <2>1, <2>2
<1> QED BY <1>5, <1>9, <1>10 DEF RemindInv

\* A resubmission begins a round in which nothing is on its way.
LEMMA ResubmitKeeps ==
  ASSUME RemindInv, Resubmit
  PROVE  RemindInv'
<1>1. /\ round' = round + 1 /\ listed' = {} /\ sent' = [r \in Reviewers |-> 0]
      /\ UNCHANGED job
  BY DEF Resubmit, Emptied
<1>2. RoundsPass' /\ ClaimsAreNew'
  BY <1>1 DEF RemindInv, RoundsPass, ClaimsAreNew
<1>3. \A n \in Jobs, r \in Reviewers : ~Coming(n, r)'
  BY <1>1 DEF RemindInv, RoundsPass, Coming
<1>4. OneReminder' /\ ClaimsAreKept'
  BY <1>1, <1>3 DEF OneReminder, ClaimsAreKept
<1> QED BY <1>2, <1>4 DEF RemindInv

\* A run begins or is broken off: what was on its way with it is lost.
LEMMA JobKeeps ==
  ASSUME RemindInv, NEW n \in Jobs, BeginJob(n) \/ StopJob(n)
  PROVE  RemindInv'
<1>1. /\ UNCHANGED <<listed, round, sent>> /\ DOMAIN job = Jobs
      /\ lost \subseteq lost' /\ \A r \in Reviewers : Coming(n, r) => r \in lost'
  BY DEF BeginJob, StopJob, request, NotRunning, RemindInv, RoundsPass, Coming
<1>2. PICK d : job' = [job EXCEPT ![n] = d] /\ d.pc # "send"
                /\ (d.pc = "claim" => d.ready \cap d.listed = {})
  <2>1. CASE BeginJob(n)
    <3>1. PICK d : d = [ pc |-> "claim", listed |-> listed, to |-> recipients,
                         ready |-> {r \in recipients \ listed : hour \in OnDuty[r]} ]
      OBVIOUS
    <3>2. job' = [job EXCEPT ![n] = d]
      BY <2>1, <3>1 DEF BeginJob
    <3>3. d.pc # "send" /\ d.ready \cap d.listed = {}
      BY <3>1
    <3> QED BY <3>2, <3>3
  <2>2. CASE StopJob(n)
    <3>1. PICK d : d = NotRunning
      OBVIOUS
    <3>2. job' = [job EXCEPT ![n] = d]
      BY <2>2, <3>1 DEF StopJob
    <3>3. d.pc # "send" /\ d.pc # "claim"
      BY <3>1 DEF NotRunning
    <3> QED BY <3>2, <3>3
  <2> QED BY <2>1, <2>2
<1>3. job'[n] = d /\ DOMAIN job' = Jobs /\ \A m \in Jobs : m # n => job'[m] = job[m]
  BY <1>1, <1>2
<1>4. RoundsPass' /\ ClaimsAreNew'
  BY <1>1, <1>2, <1>3 DEF RemindInv, RoundsPass, ClaimsAreNew
<1>5. \A m \in Jobs, r \in Reviewers : Coming(m, r)' <=> m # n /\ Coming(m, r)
  BY <1>1, <1>2, <1>3 DEF Coming
<1>6. OneReminder'
  BY <1>1, <1>5 DEF RemindInv, OneReminder
<1>7. ClaimsAreKept'
  <2> SUFFICES ASSUME NEW r \in Reviewers, r \in listed, sent[r] # 1, r \notin lost'
               PROVE  \E m \in Jobs : Coming(m, r)'
    BY <1>1 DEF ClaimsAreKept
  <2>1. PICK m \in Jobs : Coming(m, r)
    BY <1>1 DEF RemindInv, ClaimsAreKept
  <2>2. m # n
    BY <1>1, <2>1 DEF RemindInv, OneReminder
  <2> QED BY <1>5, <2>1, <2>2
<1> QED BY <1>4, <1>6, <1>7 DEF RemindInv

LEMMA RemindStepKeeps ==
  ASSUME RemindInv, [RemindNext]_remindVars
  PROVE  RemindInv'
<1>1. CASE \/ HourPasses
           \/ (\E outcome \in {"NEEDS_REVISION", "DECIDED"} : Decide(outcome))
           \/ (\E S \in SUBSET Reviewers : Reroute(S)) \/ UNCHANGED remindVars
  <2>1. UNCHANGED <<listed, round, sent, lost, job>>
    BY <1>1 DEF HourPasses, Decide, Reroute, remindVars, request
  <2> QED BY <2>1 DEF RemindInv, RoundsPass, ClaimsAreNew, OneReminder, ClaimsAreKept, Coming
<1>2. CASE Resubmit
  BY <1>2, ResubmitKeeps
<1>3. ASSUME NEW n \in Jobs,
             BeginJob(n) \/ Claim(n) \/ Send(n) \/ StopJob(n)
      PROVE  RemindInv'
  BY <1>3, JobKeeps, ClaimKeeps, SendKeeps
<1> QED BY <1>1, <1>2, <1>3 DEF RemindNext

LEMMA RemindInvHolds == RemindSpec => []RemindInv
<1>1. RemindInit => RemindInv
  <2> SUFFICES ASSUME RemindInit PROVE RemindInv
    OBVIOUS
  <2>1. /\ round = 0 /\ listed = {} /\ sent = [r \in Reviewers |-> 0]
        /\ job = [n \in Jobs |-> NotRunning]
    BY DEF RemindInit
  <2>2. \A n \in Jobs : job[n].pc = "idle"
    BY <2>1 DEF NotRunning
  <2> QED BY <2>1, <2>2
          DEF RemindInv, RoundsPass, ClaimsAreNew, OneReminder, ClaimsAreKept, Coming
<1>2. RemindInv /\ [RemindNext]_remindVars => RemindInv'
  BY RemindStepKeeps
<1> QED BY <1>1, <1>2, PTL DEF RemindSpec

\* remindOverdue: no reviewer is reminded twice of the same wait, however many
\* runs overlap or are broken off and whatever is resubmitted between their
\* steps.
THEOREM NobodyIsRemindedTwice == RemindSpec => []RemindedOnce
<1>1. RemindInv => RemindedOnce
  BY DEF RemindInv, OneReminder, RemindedOnce
<1> QED BY <1>1, RemindInvHolds, PTL

\* remindOverdue: the claim written before the reminder is sent is honoured,
\* except by a run that was broken off between the two.
THEOREM ClaimedAreReminded == RemindSpec => []ClaimsAreKept
<1>1. RemindInv => ClaimsAreKept
  BY DEF RemindInv
<1> QED BY <1>1, RemindInvHolds, PTL
=============================================================================
