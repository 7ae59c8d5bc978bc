---------------------------- MODULE LeaveAccrual ----------------------------
(***************************************************************************)
(* The monthly leave credit of one Permanent Seasonal employee             *)
(* (LeaveAccrualService).  A run starts with the server and every night;   *)
(* it reads the latest period saved, then the days since, and then saves   *)
(* the periods it found one transaction at a time, so two runs may overlap *)
(* and a run may stop between two periods.  No run reads one employee's    *)
(* rows for another.                                                       *)
(***************************************************************************)
EXTENDS Integers, SequencesExt

CONSTANTS
  Month,             \* addOneMonth, in days
  YearLength,        \* days between two resets of the leave year
  LastDay,           \* bound: last day of the clock
  AccrualRuns,       \* runs under way at the same time
  MaxCyclesPerRun,   \* MAX_CYCLES_PER_RUN
  MaxStops,          \* bound: runs that end early
  MaxMoves,          \* bound: changes of employment
  MaxCorrections     \* bound: absences that come or go after the fact

ASSUME AccrualAssumption ==
  /\ Month \in Nat \ {0} /\ YearLength \in Nat \ {0} /\ LastDay \in Nat
  /\ MaxCyclesPerRun \in Nat \ {0}
  /\ MaxStops \in Nat /\ MaxMoves \in Nat /\ MaxCorrections \in Nat

Days == 0..LastDay
LeaveYearOf(d) == d \div YearLength
LeaveYears == 0..LeaveYearOf(LastDay + Month)
Outcomes == {"PERFECT", "VIOLATED"}
Period == [start : Days, end : 0..(LastDay + Month), outcome : Outcomes]

VARIABLES
  today,
  missed,     \* past days isAbsentOnDate holds for
  employment, \* employmentStatus, permanentSeasonalSince, and whether the
              \* balance rows of a conversion are still to be seeded
  records,    \* leave_accrual_records of the employee
  balance,    \* of each leave year: whether its row exists, months credited
  run,        \* where each run stands
  bounds,     \* stops, moves and corrections so far
  late,       \* history: absences that became one after their period was found
  rewritten   \* history: something a run had read, or will read again, has changed

vars == <<today, missed, employment, records, balance, run, bounds, late, rewritten>>

Idle == [pc |-> "idle"]
Seasonal == employment.status = "PERMANENT_SEASONAL"

-----------------------------------------------------------------------------
(***************************************************************************)
(* Evaluating days.                                                        *)
(***************************************************************************)
\* The records the query may return as the latest: the greatest cycleEnd.  A
\* complete month and an absence on the day after it have the same one.
Latest == {r \in records : \A q \in records : q.end <= r.end}

\* Mutant: the day after the latest period, a complete one too.
CursorDayAfter(r) == r.end + 1

CursorAfter(r) == IF r.outcome = "VIOLATED" THEN r.end + 1 ELSE r.end

\* The days a period takes: a broken one takes its absence too.
DaysOf(p) == p.start .. (IF p.outcome = "PERFECT" THEN p.end - 1 ELSE p.end)

\* Where an evaluation may begin.
Cursors ==
  IF records = {} THEN {employment.since} ELSE {CursorAfter(r) : r \in Latest}

\* Mutant: a month is complete a day early.
CompleteEarly(first, now) == now + 1 >= first + Month

Complete(first, now) == now >= first + Month

Capped(found) ==
  SubSeq(found, 1, IF Len(found) < MaxCyclesPerRun THEN Len(found) ELSE MaxCyclesPerRun)

\* The periods of the days from first to the day before now.
PeriodsFrom(first, now) ==
  LET f[c \in 0..(LastDay + Month)] ==
        LET absences == {d \in missed : c <= d /\ d < now /\ d < c + Month}
        IN  IF c >= now THEN <<>>
            ELSE IF absences # {}
              THEN <<[start |-> c, end |-> Min(absences), outcome |-> "VIOLATED"]>>
                     \o f[Min(absences) + 1]
            ELSE IF Complete(c, now)
              THEN <<[start |-> c, end |-> c + Month, outcome |-> "PERFECT"]>>
                     \o f[c + Month]
            ELSE <<>>
  IN  Capped(f[first])

-----------------------------------------------------------------------------
Init ==
  /\ today = 0 /\ missed = {} /\ records = {}
  /\ \/ employment = [status |-> "PERMANENT_SEASONAL", since |-> 0, seeding |-> TRUE]
     \/ employment = [status |-> "PROBATIONARY_SEASONAL", since |-> -1, seeding |-> FALSE]
  /\ balance = [y \in LeaveYears |-> [row |-> FALSE, months |-> 0]]
  /\ run = [r \in AccrualRuns |-> Idle]
  /\ bounds = [stops |-> 0, moves |-> 0, corrections |-> 0]
  /\ late = {} /\ rewritten = FALSE

\* A day ends with attendance or leave, on a day off, or absent.
Tick ==
  /\ today < LastDay
  /\ today' = today + 1
  /\ missed' \in {missed, missed \cup {today}}
  /\ UNCHANGED <<employment, records, balance, run, bounds, late, rewritten>>

NoRunUnderWay == \A r \in AccrualRuns : run[r] = Idle

\* Days of the periods saved, and of those a run has found and not yet saved.
SavedDays == UNION {DaysOf(p) : p \in records}

FoundDays ==
  UNION {UNION {DaysOf(run[r].found[i]) : i \in 1..Len(run[r].found)} :
           r \in {x \in AccrualRuns : run[x].pc = "saving"}}

\* A saved day from which an evaluation may start over.
SeenAgain(d) == \E p \in records, c \in Cursors : d \in DaysOf(p) /\ c <= d

\* Whether d is an absence changes after the fact.
Corrects(d) ==
  /\ bounds.corrections < MaxCorrections
  /\ bounds' = [bounds EXCEPT !.corrections = @ + 1]
  /\ rewritten' = (rewritten \/ ~NoRunUnderWay \/ SeenAgain(d))
  /\ UNCHANGED <<today, employment, records, balance, run>>

\* A leave of past days is approved, or a flagged scan of one validated.
Excuse(d) ==
  /\ d \in missed /\ Corrects(d)
  /\ missed' = missed \ {d} /\ late' = late \ {d}

\* An approved leave of past days is cancelled: only APPROVED leave is read.
Miss(d) ==
  /\ d < today /\ d \notin missed /\ Corrects(d)
  /\ missed' = missed \cup {d}
  /\ late' = IF d \in SavedDays \cup FoundDays THEN late \cup {d} ELSE late

Move(status, since, seeding) ==
  /\ bounds.moves < MaxMoves
  /\ bounds' = [bounds EXCEPT !.moves = @ + 1]
  /\ employment' = [status |-> status, since |-> since, seeding |-> seeding]
  /\ rewritten' = (rewritten \/ (since # employment.since /\ ~NoRunUnderWay))
  /\ UNCHANGED <<today, missed, records, balance, run, late>>

\* EmployeesService.update
Convert ==
  /\ employment.status \in {"PROBATIONARY_SEASONAL", "REGULAR"}
  /\ Move("PERMANENT_SEASONAL", today, TRUE)

MakeRegular == Seasonal /\ Move("REGULAR", employment.since, FALSE)

Archive == Seasonal /\ Move("SEPARATED", employment.since, FALSE)

Restore ==
  employment.status = "SEPARATED" /\ Move("PERMANENT_SEASONAL", employment.since, FALSE)

\* startAccrualForNewlyPermanentSeasonal: the current leave year only.
SeedBalance ==
  /\ employment.seeding
  /\ balance' = [balance EXCEPT ![LeaveYearOf(today)].row = TRUE]
  /\ employment' = [employment EXCEPT !.seeding = FALSE]
  /\ UNCHANGED <<today, missed, records, run, bounds, late, rewritten>>

\* processAccruals as far as the latest period saved.
BeginRun(r) ==
  /\ run[r] = Idle /\ Seasonal
  /\ \E c \in Cursors :
       /\ c < today
       /\ run' = [run EXCEPT ![r] = [pc |-> "reading", cursor |-> c, today |-> today]]
  /\ UNCHANGED <<today, missed, employment, records, balance, bounds, late, rewritten>>

\* Attendance, schedules and leaves are read; the periods follow.
ReadDays(r) ==
  /\ run[r].pc = "reading"
  /\ LET found == PeriodsFrom(run[r].cursor, run[r].today)
     IN  run' = [run EXCEPT ![r] =
                   IF found = <<>> THEN Idle ELSE [pc |-> "saving", found |-> found]]
  /\ UNCHANGED <<today, missed, employment, records, balance, bounds, late, rewritten>>

\* Mutant: a period already saved is credited all the same.
NewPeriodAlways(p) == TRUE

\* Mutant: unique by employee and cycleEnd.
NewPeriodByEnd(p) == \A q \in records : q.end # p.end

\* createMany with skipDuplicates, unique by employee and cycleStart.
NewPeriod(p) == \A q \in records : q.start # p.start

\* One transaction.
Save(r) ==
  /\ run[r].pc = "saving"
  /\ LET p == Head(run[r].found)
         rest == Tail(run[r].found)
     IN  /\ records' = IF NewPeriod(p) THEN records \cup {p} ELSE records
         /\ balance' = IF NewPeriod(p) /\ p.outcome = "PERFECT"
                         THEN [balance EXCEPT ![LeaveYearOf(p.end)] =
                                 [row |-> TRUE, months |-> @.months + 1]]
                         ELSE balance
         /\ run' = [run EXCEPT ![r] =
                      IF rest = <<>> THEN Idle ELSE [pc |-> "saving", found |-> rest]]
  /\ UNCHANGED <<today, missed, employment, bounds, late, rewritten>>

\* A query throws, or the server stops.
StopRun(r) ==
  /\ run[r] # Idle /\ bounds.stops < MaxStops
  /\ run' = [run EXCEPT ![r] = Idle]
  /\ bounds' = [bounds EXCEPT !.stops = @ + 1]
  /\ UNCHANGED <<today, missed, employment, records, balance, late, rewritten>>

RunStep(r) == BeginRun(r) \/ ReadDays(r) \/ Save(r)

Next ==
  \/ Tick
  \/ \E d \in Days : Excuse(d) \/ Miss(d)
  \/ Convert \/ MakeRegular \/ Archive \/ Restore \/ SeedBalance
  \/ \E r \in AccrualRuns : RunStep(r) \/ StopRun(r)

Spec == Init /\ [][Next]_vars

\* The scheduler starts a run every night, and a run that is not stopped ends.
FairSpec == Spec /\ WF_vars(Tick) /\ \A r \in AccrualRuns : WF_vars(RunStep(r))

-----------------------------------------------------------------------------
RunState ==
  {Idle}
    \cup [pc : {"reading"}, cursor : 0..(LastDay + Month), today : Days]
    \cup [pc : {"saving"}, found : BoundedSeq(Period, MaxCyclesPerRun)]

TypeOK ==
  /\ today \in Days /\ missed \in SUBSET Days
  /\ employment \in [ status : {"PROBATIONARY_SEASONAL", "PERMANENT_SEASONAL",
                                "REGULAR", "SEPARATED"},
                      since : Days \cup {-1}, seeding : BOOLEAN ]
  /\ records \subseteq Period
  /\ balance \in [LeaveYears -> [row : BOOLEAN, months : Nat]]
  /\ run \in [AccrualRuns -> RunState]
  /\ bounds \in [stops : 0..MaxStops, moves : 0..MaxMoves, corrections : 0..MaxCorrections]
  /\ late \in SUBSET Days /\ rewritten \in BOOLEAN

\* A year's balance holds exactly the complete months that ended in it,
\* whichever runs overlapped or stopped half-way (processAccruals: at most
\* once a period, and a credit with every complete one).
CreditsMatchPeriods ==
  \A y \in LeaveYears :
    balance[y].months =
      Cardinality({p \in records : p.outcome = "PERFECT" /\ LeaveYearOf(p.end) = y})

\* No absence is inside a month that was credited, however old what a run reads
\* is when it saves, unless it became one after the month was found (processAccruals).
NoAbsenceCredited ==
  \A p \in records : p.outcome = "PERFECT" => DaysOf(p) \cap missed \subseteq late

\* No day between two periods is left out, unless absences came or went, or the
\* employee was converted again, while a run was under way, or on a saved day
\* that an evaluation starts over from (processAccruals).
NoDayLeftOut ==
  rewritten \/
  \A d \in Days :
    (\E p, q \in records : p.start <= d /\ d <= q.start)
      => \E p \in records : d \in DaysOf(p)

\* Where the next period begins.
NextDay == IF records = {} THEN employment.since ELSE Max({CursorAfter(r) : r \in records})

\* Whatever stopped a run, the days of an employee who stays Permanent
\* Seasonal are saved in the end, unless what a run had read was rewritten:
\* every complete month, every absence.
EventuallySaved ==
  <>[]Seasonal /\ []~rewritten => <>[](NextDay + Month > LastDay /\ \A d \in missed : d < NextDay)

\* "a duplicate run (e.g. the cron firing twice, or a manual reprocess) safely
\* no-ops here instead of double-crediting" (processAccruals): no day is inside
\* two credited months.
NoDayCreditedTwice ==
  \A p, q \in records :
    p.outcome = "PERFECT" /\ q.outcome = "PERFECT" /\ p # q => DaysOf(p) \cap DaysOf(q) = {}

\* Until the first complete month, a Permanent Seasonal employee has a balance
\* row in the current leave year: without one, the type's whole allotment is
\* theirs (startAccrualForNewlyPermanentSeasonal).
SeasonalStartsFromZero ==
  /\ Seasonal /\ ~employment.seeding
  /\ \A p \in records : p.outcome = "VIOLATED"
  => balance[LeaveYearOf(today)].row

\* Overlapping runs and runs that stop keep the promise, whatever is corrected
\* between them, until what a run has read is rewritten.
Promise ==
  INSTANCE AccrualPromise WITH
    broken <- rewritten,
    begun <- records # {},
    next <- NextDay,
    credits <- Cardinality({p \in records : p.outcome = "PERFECT"})

KeepsPromise == Promise!Spec
=============================================================================
