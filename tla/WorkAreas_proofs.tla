-------------------------- MODULE WorkAreas_proofs --------------------------
(***************************************************************************)
(* Why the three rules of work areas hold for any number of employees,     *)
(* departments and areas, as long as one request is handled at a time and  *)
(* the default area stays an active office.  What a rule lacks in the      *)
(* middle of a request is remembered by the request, or mended when the    *)
(* server starts.                                                          *)
(***************************************************************************)
EXTENDS WorkAreas, TLAPS

OneAtATime == HomeStays /\ \A c, d \in Callers : c = d

CallState ==
  [pc : {"idle"}]
    \cup [pc : {"return"}, former : SUBSET Employees, who : SUBSET Employees]
    \cup [pc : {"sync", "hired"}, who : SUBSET Employees]
    \cup [pc : {"write"}, due : SUBSET (Employees \X Modes)]
    \cup [pc : {"edit"}, emp : Employees, dept : Departments]
    \cup [pc : {"dept"}, dept : Departments, mode : Modes \cup {"BOTH"},
          old : Modes \cup {"BOTH"}]

Person == [status : {"none", "active", "separated"}, dept : Departments \cup {None}, mode : Modes]

Typed ==
  /\ kind \in [Areas -> Kinds \cup {"none"}]
  /\ active \in SUBSET Areas
  /\ roster \in [Areas -> SUBSET Employees]
  /\ allows \in [Departments -> Modes \cup {"BOTH"}]
  /\ staff \in [Employees -> Person]
  /\ call \in [Callers -> CallState]
  /\ starting \in {"home", "sync", "up"}
  /\ failed \in SUBSET {"home", "sync"} /\ strayed \in SUBSET Employees

HomeIsOffice == Home \in active /\ kind[Home] = "OFFICE"

RostersAreReal ==
  \A l \in Areas : /\ \A e \in roster[l] : IsHired(e)
                   /\ kind[l] = "none" => roster[l] = {}

StartsIdle == starting # "up" => \A c \in Callers : call[c] = Idle

\* What the checks before a write have established still holds at the write.
ChecksHold ==
  \A c \in Callers :
    /\ call[c].pc = "hired" => \A e \in call[c].who : IsActive(e)
    /\ call[c].pc = "edit" =>
         IsHired(call[c].emp) /\ (allows[call[c].dept] = "FIXED" => ~OnFieldArea(call[c].emp))
    /\ call[c].pc = "dept" /\ call[c].mode = "FIXED" =>
         \A e \in Slice(call[c].dept) : ~OnFieldArea(e)
    /\ call[c].pc = "write" => \A p \in call[c].due : p[2] = ModeOf(p[1])

\* Whoever is not in the default area has strayed, or is about to be there, or
\* would be had the repair not failed.
GoingHome(e) ==
  \/ starting = "home" \/ "home" \in failed
  \/ \E c \in Callers : call[c].pc = "hired" /\ e \in call[c].who
HomeSoon ==
  \A e \in Employees : IsHired(e) =>
    e \in roster[Home] \/ e \in strayed \/ (IsActive(e) /\ GoingHome(e))

\* Whoever's mode is out of step is about to be brought in line, or would have
\* been.
Remembered(c, e) ==
  \/ call[c].pc \in {"return", "sync"} /\ e \in call[c].who
  \/ call[c].pc = "write" /\ <<e, ModeOf(e)>> \in call[c].due
InStepSoon ==
  \A e \in Employees : e \in OutOfStep(Employees) /\ starting = "up" /\ "sync" \notin failed =>
    \E c \in Callers : Remembered(c, e)

IInv ==
  /\ Typed /\ HomeIsOffice /\ RostersAreReal /\ StartsIdle /\ ChecksHold
  /\ FieldAreasAreAllowed /\ HomeSoon /\ InStepSoon

-----------------------------------------------------------------------------
LEMMA InitHolds == Init => IInv
  BY WorkAreasAssumption
  DEF Init, IInv, Typed, HomeIsOffice, RostersAreReal, StartsIdle, ChecksHold,
      FieldAreasAreAllowed, HomeSoon, InStepSoon, CallState, Person, Kinds, Modes, Idle,
      IsHired, IsActive, Slice, OnFieldArea, OutOfStep

\* Only a change to one of their own areas can change someone's mode.
LEMMA SameAreas ==
  ASSUME NEW x \in Employees,
         \A m \in Areas \ {Home} : x \in roster'[m] <=> x \in roster[m],
         \A m \in Areas \ {Home} : x \in roster[m] =>
           kind'[m] = kind[m] /\ (m \in active' <=> m \in active)
  PROVE  Placed(x)' = Placed(x) /\ ModeOf(x)' = ModeOf(x)
<1>1. Placed(x)' = Placed(x)
  BY DEF Placed, AreasOf
<1>2. \A m \in Placed(x) : m \in Areas \ {Home} /\ x \in roster[m]
  BY DEF Placed, AreasOf
<1> QED BY <1>1, <1>2 DEF ModeOf

\* While a caller is free nobody's mode is out of step and no hire is open.
LEMMA FreeIsSettled ==
  ASSUME IInv, OneAtATime, NEW c \in Callers, Free(c)
  PROVE  /\ \A d \in Callers : d = c /\ call[d].pc = "idle"
         /\ "sync" \notin failed => OutOfStep(Employees) = {}
         /\ \A e \in Employees : IsHired(e) =>
              e \in roster[Home] \/ e \in strayed \/ (IsActive(e) /\ "home" \in failed)
<1>1. \A d \in Callers : d = c /\ call[d].pc = "idle"
  BY DEF OneAtATime, Free, Idle
<1>2. "sync" \notin failed => OutOfStep(Employees) = {}
  <2>1. "sync" \notin failed => \A e \in Employees : e \notin OutOfStep(Employees)
    BY <1>1 DEF IInv, InStepSoon, Remembered, Free
  <2> QED BY <2>1 DEF OutOfStep
<1>3. \A e \in Employees : IsHired(e) =>
        e \in roster[Home] \/ e \in strayed \/ (IsActive(e) /\ "home" \in failed)
  BY <1>1 DEF IInv, HomeSoon, GoingHome, Free
<1> QED BY <1>1, <1>2, <1>3

\* Every write to an area and its roster: `who` is the new roster and the call
\* remembers everyone whose areas it changes.
LEMMA AreaWritten ==
  ASSUME IInv, OneAtATime, NEW c \in Callers, Free(c),
         NEW l \in Areas, NEW t \in Kinds \cup {"none"}, NEW who \in SUBSET Employees,
         NEW left \in SUBSET Employees, NEW touched \in SUBSET Employees,
         kind' = [kind EXCEPT ![l] = t],
         active' \in {active, active \cup {l}, active \ {l}},
         roster' = [roster EXCEPT ![l] = who],
         ThenReturn(c, left, touched) \/ ThenSync(c, touched),
         UNCHANGED <<allows, staff, starting, failed>>, Strays,
         l = Home => t = "OFFICE" /\ Home \in active' /\ \A e \in roster[Home] \ who : ~IsActive(e),
         t = "none" => who = {},
         FieldAllowed(l, t, who),
         \A e \in who : IsHired(e),
         roster[l] \ who \subseteq touched, who \ roster[l] \subseteq touched,
         (t = kind[l] /\ active' = active) \/ roster[l] \cup who \subseteq touched
  PROVE  IInv'
<1> DEFINE next == call'[c]
<1>1. /\ next \in CallState /\ next.pc \in {"return", "sync"} /\ next.who = touched
      /\ call' = [call EXCEPT ![c] = next]
  BY DEF ThenReturn, ThenSync, Goes, CallState, IInv, Typed
<1>2. call' \in [Callers -> CallState] /\ \A d \in Callers : d = c
  BY <1>1 DEF IInv, Typed, OneAtATime
<1>3. Typed'
  BY <1>2 DEF IInv, Typed, Strays
<1>4. HomeIsOffice'
  BY WorkAreasAssumption DEF IInv, Typed, HomeIsOffice
<1>5. RostersAreReal'
  BY DEF IInv, Typed, RostersAreReal, IsHired
<1>6. StartsIdle' /\ starting' = "up"
  BY DEF StartsIdle, Free
<1>7. ChecksHold'
  BY <1>1, <1>2 DEF ChecksHold
<1>8. FieldAreasAreAllowed'
  BY DEF IInv, Typed, FieldAreasAreAllowed, FieldAllowed
<1>9. HomeSoon'
  <2>1. \A e \in Employees : IsHired(e) =>
          e \in roster[Home] \/ e \in strayed \/ (IsActive(e) /\ "home" \in failed)
    BY FreeIsSettled
  <2>2. \A e \in roster[Home] \ roster'[Home] : ~IsActive(e)
    BY WorkAreasAssumption DEF IInv, Typed
  <2>3. \A e \in Employees : IsHired(e) /\ ~IsActive(e) => staff[e].status = "separated"
    BY DEF IInv, Typed, Person, IsHired, IsActive
  <2>4. \A e \in Employees : IsHired(e) =>
          e \in roster'[Home] \/ e \in strayed' \/ (IsActive(e) /\ "home" \in failed)
    BY <2>1, <2>2, <2>3 DEF Strays
  <2> QED BY <2>4 DEF HomeSoon, GoingHome, IsHired, IsActive
<1>10. InStepSoon'
  <2> SUFFICES ASSUME NEW e \in Employees, e \notin touched, "sync" \notin failed
               PROVE  e \notin OutOfStep(Employees)'
    BY <1>1, <1>2 DEF InStepSoon, Remembered
  <2>1. \A m \in Areas \ {Home} : e \in roster'[m] <=> e \in roster[m]
    BY DEF IInv, Typed
  <2>2. \A m \in Areas \ {Home} : e \in roster[m] =>
          kind'[m] = kind[m] /\ (m \in active' <=> m \in active)
    BY DEF IInv, Typed
  <2>3. Placed(e)' = Placed(e) /\ ModeOf(e)' = ModeOf(e)
    BY <2>1, <2>2, SameAreas
  <2>4. e \notin OutOfStep(Employees)
    BY FreeIsSettled
  <2> QED BY <2>3, <2>4 DEF OutOfStep, IsHired
<1> QED BY <1>3, <1>4, <1>5, <1>6, <1>7, <1>8, <1>9, <1>10 DEF IInv

-----------------------------------------------------------------------------
(***************************************************************************)
(* The calls on areas are such writes.                                     *)
(***************************************************************************)
LEMMA CreateKeeps ==
  ASSUME IInv, OneAtATime, NEW c \in Callers, NEW l \in Areas, NEW type \in Kinds,
         NEW ids \in SUBSET Employees, CreateLocation(c, l, type, ids)
  PROVE  IInv'
<1>1. roster[l] = {} /\ l # Home
  BY DEF CreateLocation, IInv, RostersAreReal, HomeIsOffice, Exists
<1>2. type # "none"
  BY DEF Kinds
<1> QED BY <1>1, <1>2, AreaWritten DEF CreateLocation

LEMMA UpdateKeeps ==
  ASSUME IInv, OneAtATime, NEW c \in Callers, NEW l \in Areas, NEW type \in Kinds,
         NEW on \in BOOLEAN, NEW who \in SUBSET Employees,
         UpdateLocation(c, l, type, on, who),
         l = Home => \A e \in roster[Home] \ who : ~IsActive(e),
         \A e \in who : IsHired(e)
  PROVE  IInv'
<1> DEFINE left == IF l = Home THEN {} ELSE roster[l] \ who
<1>1. /\ roster[l] \in SUBSET Employees /\ left \in SUBSET Employees
      /\ roster[l] \cup who \in SUBSET Employees
  BY DEF IInv, Typed
<1>2. type # "none"
  BY DEF Kinds
<1>3. l = Home => type = "OFFICE" /\ Home \in active'
  BY DEF UpdateLocation, OneAtATime
<1>4. active' \in {active, active \cup {l}, active \ {l}}
  BY DEF UpdateLocation
<1>5. ThenReturn(c, left, roster[l] \cup who)
  BY DEF UpdateLocation, Affected
<1> QED BY <1>1, <1>2, <1>3, <1>4, <1>5, AreaWritten DEF UpdateLocation

LEMMA ReclassifyKeeps ==
  ASSUME IInv, OneAtATime, NEW c \in Callers, NEW l \in Areas, NEW type \in Kinds,
         NEW on \in BOOLEAN, Reclassify(c, l, type, on)
  PROVE  IInv'
  BY UpdateKeeps DEF Reclassify, IInv, Typed, RostersAreReal

\* A supervisor replaces only a slice, so what HomeKept says of the slice
\* keeps everyone else too.
LEMMA SaveRosterKeeps ==
  ASSUME IInv, OneAtATime, NEW c \in Callers, NEW l \in Areas, NEW type \in Kinds,
         NEW on \in BOOLEAN, NEW ids \in SUBSET Employees,
         NEW scope \in Departments \cup {None}, SaveRoster(c, scope, l, type, on, ids)
  PROVE  IInv'
<1> DEFINE who == Replaced(l, ids, scope)
<1>1. who \in SUBSET Employees /\ \A e \in who : IsHired(e)
  BY DEF Replaced, SaveRoster, Slice, IInv, Typed, RostersAreReal
<1>2. l = Home => \A e \in roster[Home] \ who : ~IsActive(e)
  BY DEF SaveRoster, HomeKept, Replaced
<1> QED BY <1>1, <1>2, UpdateKeeps DEF SaveRoster

LEMMA RemoveKeeps ==
  ASSUME IInv, OneAtATime, NEW c \in Callers, NEW l \in Areas, RemoveLocation(c, l)
  PROVE  IInv'
<1>1. roster[l] \in SUBSET Employees /\ l # Home
  BY DEF RemoveLocation, OneAtATime, IInv, Typed
<1>2. FieldAllowed(l, "none", {})
  BY DEF FieldAllowed
<1>3. ThenReturn(c, roster[l], roster[l])
  BY <1>1 DEF RemoveLocation
<1>4. /\ Free(c) /\ UNCHANGED <<allows, staff, starting, failed>> /\ Strays
      /\ kind' = [kind EXCEPT ![l] = "none"] /\ roster' = [roster EXCEPT ![l] = {}]
      /\ active' \in {active, active \cup {l}, active \ {l}}
  BY DEF RemoveLocation
<1>5. /\ {} \in SUBSET Employees /\ roster[l] \ {} \subseteq roster[l]
      /\ {} \ roster[l] \subseteq roster[l] /\ roster[l] \cup {} \subseteq roster[l]
  OBVIOUS
<1> QED BY <1>1, <1>2, <1>3, <1>4, <1>5, AreaWritten

LEMMA AddKeeps ==
  ASSUME IInv, OneAtATime, NEW c \in Callers, NEW l \in Areas, NEW e \in Employees,
         AddEmployee(c, l, e)
  PROVE  IInv'
<1> DEFINE who == roster[l] \cup {e}
<1>1. who \in SUBSET Employees /\ kind[l] \in Kinds \cup {"none"} /\ kind[l] # "none"
  BY DEF AddEmployee, Exists, IInv, Typed
<1>2. kind' = [kind EXCEPT ![l] = kind[l]] /\ roster' = [roster EXCEPT ![l] = who]
  BY DEF AddEmployee, IInv, Typed
<1>3. l = Home => kind[l] = "OFFICE" /\ Home \in active'
  BY DEF AddEmployee, IInv, HomeIsOffice
<1>4. \A x \in who : IsHired(x)
  BY DEF AddEmployee, IInv, RostersAreReal
<1>5. FieldAllowed(l, kind[l], who) /\ Free(c) /\ ThenSync(c, {e})
      /\ active' = active /\ UNCHANGED <<allows, staff, starting, failed>> /\ Strays
  BY DEF AddEmployee
<1>6. {e} \in SUBSET Employees /\ roster[l] \ who \subseteq {e} /\ who \ roster[l] \subseteq {e}
  OBVIOUS
<1>7. l = Home => \A x \in roster[Home] \ who : ~IsActive(x)
  OBVIOUS
<1> HIDE DEF who
<1> QED BY <1>1, <1>2, <1>3, <1>4, <1>5, <1>6, <1>7, AreaWritten

LEMMA RemoveEmployeeKeeps ==
  ASSUME IInv, OneAtATime, NEW c \in Callers, NEW l \in Areas, NEW e \in Employees,
         RemoveEmployee(c, l, e)
  PROVE  IInv'
<1> DEFINE who == roster[l] \ {e}
<1>1. who \in SUBSET Employees /\ kind[l] \in Kinds \cup {"none"} /\ kind[l] # "none"
  BY DEF RemoveEmployee, Exists, IInv, Typed
<1>2. kind' = [kind EXCEPT ![l] = kind[l]] /\ roster' = [roster EXCEPT ![l] = who]
  BY DEF RemoveEmployee, IInv, Typed
<1>3. /\ l = Home => kind[l] = "OFFICE" /\ Home \in active'
      /\ l = Home => \A x \in roster[Home] \ who : ~IsActive(x)
  BY DEF RemoveEmployee, IInv, HomeIsOffice
<1>4. \A x \in who : IsHired(x)
  BY DEF IInv, RostersAreReal
<1>5. FieldAllowed(l, kind[l], who)
  BY DEF FieldAllowed, IInv, Typed, FieldAreasAreAllowed
<1>6. Free(c) /\ ThenReturn(c, IF l = Home THEN {} ELSE {e}, {e})
      /\ active' = active /\ UNCHANGED <<allows, staff, starting, failed>> /\ Strays
  BY DEF RemoveEmployee
<1>7. /\ {e} \in SUBSET Employees /\ (IF l = Home THEN {} ELSE {e}) \in SUBSET Employees
      /\ roster[l] \ who \subseteq {e} /\ who \ roster[l] \subseteq {e}
  OBVIOUS
<1> HIDE DEF who
<1> QED BY <1>1, <1>2, <1>3, <1>4, <1>5, <1>6, <1>7, AreaWritten

-----------------------------------------------------------------------------
(***************************************************************************)
(* What follows a write, and the boot.                                     *)
(***************************************************************************)
\* Joining the default area, an office everyone may be in, changes nobody's
\* mode.
LEMMA Homing ==
  ASSUME IInv, NEW who \in SUBSET Employees, \A e \in who : IsHired(e),
         roster' = Homed(who), UNCHANGED <<kind, active, allows>>
  PROVE  /\ roster' = [roster EXCEPT ![Home] = @ \cup who]
         /\ roster' \in [Areas -> SUBSET Employees]
         /\ HomeIsOffice'
         /\ staff' = staff => RostersAreReal' /\ FieldAreasAreAllowed'
         /\ \A x \in Employees : Placed(x)' = Placed(x) /\ ModeOf(x)' = ModeOf(x)
<1>1. Home \in Areas /\ roster' = [roster EXCEPT ![Home] = @ \cup who]
  BY WorkAreasAssumption DEF Homed, IInv, HomeIsOffice
<1>2. roster' \in [Areas -> SUBSET Employees] /\ HomeIsOffice'
  BY <1>1 DEF IInv, Typed, HomeIsOffice
<1>3. staff' = staff => RostersAreReal' /\ FieldAreasAreAllowed'
  BY <1>1 DEF IInv, Typed, RostersAreReal, HomeIsOffice, FieldAreasAreAllowed, IsHired
<1>4. ASSUME NEW x \in Employees PROVE Placed(x)' = Placed(x) /\ ModeOf(x)' = ModeOf(x)
  <2>1. \A m \in Areas \ {Home} : x \in roster'[m] <=> x \in roster[m]
    BY <1>1 DEF IInv, Typed
  <2> QED BY <2>1, SameAreas
<1> QED BY <1>1, <1>2, <1>3, <1>4

LEMMA ReturnKeeps ==
  ASSUME IInv, OneAtATime, NEW c \in Callers, ReturnHome(c)
  PROVE  IInv'
<1> DEFINE who == {e \in call[c].former : IsActive(e) /\ AreasOf(e) = {}}
<1>1. call[c] \in [pc : {"return"}, former : SUBSET Employees, who : SUBSET Employees]
  BY DEF ReturnHome, IInv, Typed, CallState
<1>2. who \in SUBSET Employees /\ \A e \in who : IsHired(e)
  BY <1>1 DEF IsActive, IsHired
<1>3. roster' = Homed(who) /\ UNCHANGED <<kind, active, allows, staff, starting, failed>> /\ Strays
  BY DEF ReturnHome
<1> HIDE DEF who
<1>4. /\ roster' = [roster EXCEPT ![Home] = @ \cup who]
      /\ roster' \in [Areas -> SUBSET Employees]
      /\ HomeIsOffice' /\ RostersAreReal' /\ FieldAreasAreAllowed'
      /\ \A x \in Employees : Placed(x)' = Placed(x) /\ ModeOf(x)' = ModeOf(x)
  BY <1>2, <1>3, Homing
<1>5. call'[c] = [pc |-> "sync", who |-> call[c].who] /\ call' \in [Callers -> CallState]
  BY <1>1 DEF ReturnHome, ThenSync, Goes, IInv, Typed, CallState
<1>6. \A d \in Callers : d = c
  BY DEF OneAtATime
<1>7. Typed' /\ StartsIdle'
  BY <1>1, <1>3, <1>4, <1>5 DEF IInv, Typed, StartsIdle, Idle, Strays
<1>8. ChecksHold'
  BY <1>5, <1>6 DEF ChecksHold
<1>9. HomeSoon'
  <2>1. roster[Home] \subseteq roster'[Home] /\ \A e \in strayed : e \in strayed' \cup roster'[Home]
    BY WorkAreasAssumption, <1>3, <1>4 DEF IInv, Typed, Strays
  <2>2. \A e \in Employees : GoingHome(e) => starting = "home" \/ "home" \in failed
    BY <1>1, <1>6 DEF GoingHome
  <2> QED BY <2>1, <2>2, <1>3 DEF IInv, HomeSoon, GoingHome, IsHired, IsActive
<1>10. InStepSoon'
  BY <1>1, <1>3, <1>4, <1>5, <1>6 DEF IInv, InStepSoon, Remembered, OutOfStep, IsHired
<1> QED BY <1>4, <1>7, <1>8, <1>9, <1>10 DEF IInv

LEMMA HireGoesHomeKeeps ==
  ASSUME IInv, OneAtATime, NEW c \in Callers, HireGoesHome(c)
  PROVE  IInv'
<1> DEFINE who == call[c].who
<1>1. call[c] \in [pc : {"hired"}, who : SUBSET Employees]
  BY DEF HireGoesHome, IInv, Typed, CallState
<1>2. who \in SUBSET Employees /\ \A e \in who : IsHired(e) /\ IsActive(e)
  BY <1>1 DEF IInv, ChecksHold, IsActive, IsHired
<1>3. roster' = Homed(who) /\ UNCHANGED <<kind, active, allows, staff, starting, failed>> /\ Strays
  BY DEF HireGoesHome
<1>4. call'[c] = [pc |-> "sync", who |-> who] /\ call' \in [Callers -> CallState]
  BY <1>1 DEF HireGoesHome, ThenSync, Goes, IInv, Typed, CallState
<1>5. \A d \in Callers : d = c
  BY DEF OneAtATime
<1>6. /\ roster' = [roster EXCEPT ![Home] = @ \cup who]
      /\ roster' \in [Areas -> SUBSET Employees]
      /\ HomeIsOffice' /\ RostersAreReal' /\ FieldAreasAreAllowed'
      /\ \A x \in Employees : Placed(x)' = Placed(x) /\ ModeOf(x)' = ModeOf(x)
  BY <1>2, <1>3, Homing
<1>7. Typed' /\ StartsIdle'
  BY <1>1, <1>3, <1>4, <1>6 DEF IInv, Typed, StartsIdle, Idle, Strays
<1>8. ChecksHold'
  BY <1>4, <1>5 DEF ChecksHold
<1>9. HomeSoon'
  <2>1. /\ roster[Home] \cup who \subseteq roster'[Home]
        /\ \A e \in strayed : e \in strayed' \cup roster'[Home]
    BY WorkAreasAssumption, <1>2, <1>3, <1>6 DEF IInv, Typed, Strays
  <2>2. \A e \in Employees : GoingHome(e) => starting = "home" \/ "home" \in failed \/ e \in who
    BY <1>1, <1>5 DEF GoingHome
  <2> QED BY <2>1, <2>2, <1>3 DEF IInv, HomeSoon, GoingHome, IsHired, IsActive
<1>10. InStepSoon'
  BY <1>1, <1>3, <1>4, <1>5, <1>6 DEF IInv, InStepSoon, Remembered, OutOfStep, IsHired
<1> QED BY <1>6, <1>7, <1>8, <1>9, <1>10 DEF IInv

\* Where no area changes, nobody is placed elsewhere.
LEMMA SamePlaces ==
  ASSUME UNCHANGED <<kind, active, roster>>, NEW x \in Employees
  PROVE  /\ Placed(x)' = Placed(x) /\ ModeOf(x)' = ModeOf(x)
         /\ OnFieldArea(x)' = OnFieldArea(x)
<1>1. Placed(x)' = Placed(x) /\ OnFieldArea(x)' = OnFieldArea(x)
  BY DEF Placed, OnFieldArea, AreasOf
<1> QED BY <1>1 DEF ModeOf

LEMMA SyncReadsKeeps ==
  ASSUME IInv, OneAtATime, NEW c \in Callers, SyncReads(c)
  PROVE  IInv'
<1> DEFINE due == {<<e, ModeOf(e)>> : e \in OutOfStep(call[c].who)}
           next == IF due = {} THEN Idle ELSE [pc |-> "write", due |-> due]
<1>1. /\ call[c].pc = "sync" /\ call' = [call EXCEPT ![c] = next]
      /\ UNCHANGED <<kind, active, roster, allows, staff, starting, failed, strayed>>
  BY DEF SyncReads, Goes
<1>2. call[c] \in [pc : {"sync", "hired"}, who : SUBSET Employees]
  BY <1>1 DEF IInv, Typed, CallState
<1>3. \A p \in due : p \in Employees \X Modes /\ p[2] = ModeOf(p[1])
  BY <1>2 DEF OutOfStep, ModeOf, Modes
<1>4. next \in CallState /\ (next.pc = "idle" \/ (next.pc = "write" /\ next.due = due))
  BY <1>3 DEF CallState, Idle
<1>5. \A d \in Callers : d = c
  BY DEF OneAtATime
<1>6. \A e \in OutOfStep(Employees) :
        starting = "up" /\ "sync" \notin failed => <<e, ModeOf(e)>> \in due
  <2> SUFFICES ASSUME NEW e \in OutOfStep(Employees), starting = "up", "sync" \notin failed
               PROVE  e \in OutOfStep(call[c].who)
    OBVIOUS
  <2>1. e \in Employees /\ e \in call[c].who
    BY <1>1, <1>5 DEF IInv, InStepSoon, Remembered, OutOfStep
  <2> QED BY <2>1 DEF OutOfStep
<1>7. call'[c] = next
  BY <1>1 DEF IInv, Typed
<1> HIDE DEF next
<1>8. Typed'
  BY <1>1, <1>4 DEF IInv, Typed
<1>9. HomeIsOffice' /\ RostersAreReal' /\ FieldAreasAreAllowed'
  BY <1>1 DEF IInv, HomeIsOffice, RostersAreReal, FieldAreasAreAllowed, IsHired
<1>10. starting = "up" /\ StartsIdle'
  BY <1>1 DEF IInv, StartsIdle, Idle
<1>11. \A x \in Employees : ModeOf(x)' = ModeOf(x) /\ Placed(x)' = Placed(x)
  BY <1>1, SamePlaces
<1>12. ChecksHold'
  <2>1. \A p \in due : p[2] = ModeOf(p[1])'
    BY <1>3, <1>11
  <2> HIDE DEF due
  <2> QED BY <2>1, <1>4, <1>5, <1>7 DEF ChecksHold
<1>13. HomeSoon'
  BY <1>1, <1>5, <1>10 DEF IInv, HomeSoon, GoingHome, IsHired, IsActive
<1>14. InStepSoon'
  <2> SUFFICES ASSUME NEW e \in Employees, e \in OutOfStep(Employees)', "sync" \notin failed
               PROVE  Remembered(c, e)'
    BY <1>1 DEF InStepSoon
  <2>1. e \in OutOfStep(Employees)
    BY <1>1, <1>11 DEF OutOfStep, IsHired
  <2>2. <<e, ModeOf(e)>> \in due
    BY <2>1, <1>6, <1>10
  <2>3. next = [pc |-> "write", due |-> due]
    BY <2>2 DEF next
  <2> QED BY <2>2, <2>3, <1>7, <1>11 DEF Remembered
<1> QED BY <1>8, <1>9, <1>10, <1>12, <1>13, <1>14 DEF IInv

LEMMA SyncWritesKeeps ==
  ASSUME IInv, OneAtATime, NEW c \in Callers, SyncWrites(c)
  PROVE  IInv'
<1>1. call[c] \in [pc : {"write"}, due : SUBSET (Employees \X Modes)]
  BY DEF SyncWrites, IInv, Typed, CallState
<1>2. PICK p \in call[c].due :
        /\ staff' = [staff EXCEPT ![p[1]].mode = p[2]]
        /\ Goes(c, IF call[c].due \ {p} = {} THEN Idle
                   ELSE [pc |-> "write", due |-> call[c].due \ {p}])
  BY DEF SyncWrites
<1> DEFINE e == p[1]
           left == call[c].due \ {p}
           next == IF left = {} THEN Idle ELSE [pc |-> "write", due |-> left]
<1>3. /\ e \in Employees /\ p[2] \in Modes /\ p[2] = ModeOf(e) /\ p = <<e, p[2]>>
      /\ left \in SUBSET (Employees \X Modes)
  BY <1>1 DEF IInv, ChecksHold
<1>4. UNCHANGED <<kind, active, roster, allows, starting, failed, strayed>>
  BY DEF SyncWrites
<1>5. next \in CallState /\ ((next.pc = "idle" /\ left = {}) \/ (next.pc = "write" /\ next.due = left))
  BY <1>3 DEF CallState, Idle
<1>6. call' = [call EXCEPT ![c] = next] /\ call'[c] = next /\ \A d \in Callers : d = c
  BY <1>2 DEF Goes, OneAtATime, IInv, Typed
<1> HIDE DEF next
<1>7. /\ staff' \in [Employees -> Person] /\ staff'[e].mode = p[2]
      /\ \A x \in Employees : /\ staff'[x].status = staff[x].status
                              /\ staff'[x].dept = staff[x].dept
                              /\ x # e => staff'[x].mode = staff[x].mode
  BY <1>2, <1>3 DEF IInv, Typed, Person
<1>8. Typed'
  BY <1>4, <1>5, <1>6, <1>7 DEF IInv, Typed
<1>9. HomeIsOffice' /\ RostersAreReal' /\ FieldAreasAreAllowed'
  BY <1>4, <1>7 DEF IInv, Typed, HomeIsOffice, RostersAreReal, FieldAreasAreAllowed, IsHired
<1>10. starting = "up" /\ StartsIdle'
  BY <1>1, <1>4 DEF IInv, StartsIdle, Idle
<1>11. \A x \in Employees : ModeOf(x)' = ModeOf(x) /\ Placed(x)' = Placed(x)
  BY <1>4, SamePlaces
<1>12. ChecksHold'
  <2>1. \A q \in left : q \in Employees \X Modes /\ q[2] = ModeOf(q[1])
    BY <1>1 DEF IInv, ChecksHold
  <2>2. \A q \in left : q[2] = ModeOf(q[1])'
    BY <2>1, <1>11
  <2> HIDE DEF left
  <2> QED BY <2>2, <1>5, <1>6 DEF ChecksHold
<1>13. HomeSoon'
  BY <1>1, <1>4, <1>6, <1>7, <1>10 DEF IInv, HomeSoon, GoingHome, IsHired, IsActive
<1>14. InStepSoon'
  <2> SUFFICES ASSUME NEW x \in Employees, x \in OutOfStep(Employees)', "sync" \notin failed
               PROVE  Remembered(c, x)'
    BY <1>4 DEF InStepSoon
  <2>1. x # e
    BY <1>3, <1>7, <1>11 DEF OutOfStep
  <2>2. x \in OutOfStep(Employees)
    BY <2>1, <1>7, <1>11 DEF OutOfStep, IsHired
  <2>3. <<x, ModeOf(x)>> \in call[c].due
    BY <2>2, <1>1, <1>6, <1>10 DEF IInv, InStepSoon, Remembered
  <2>4. <<x, ModeOf(x)>> \in left
    BY <2>1, <2>3, <1>3
  <2> QED BY <2>4, <1>5, <1>6, <1>11 DEF Remembered
<1> QED BY <1>8, <1>9, <1>10, <1>12, <1>13, <1>14 DEF IInv

-----------------------------------------------------------------------------
(***************************************************************************)
(* Employees, departments and the server.                                  *)
(***************************************************************************)
\* A check only records what it has established.
LEMMA CheckKeeps ==
  ASSUME IInv, OneAtATime, NEW c \in Callers, Free(c), NEW next \in CallState,
         Goes(c, next), next.pc \in {"edit", "dept"},
         UNCHANGED <<kind, active, roster, allows, staff, starting, failed, strayed>>,
         next.pc = "edit" =>
           IsHired(next.emp) /\ (allows[next.dept] = "FIXED" => ~OnFieldArea(next.emp)),
         next.pc = "dept" /\ next.mode = "FIXED" => \A e \in Slice(next.dept) : ~OnFieldArea(e)
  PROVE  IInv'
<1>1. call' = [call EXCEPT ![c] = next] /\ call'[c] = next /\ \A d \in Callers : d = c
  BY DEF Goes, OneAtATime, IInv, Typed
<1>2. Typed' /\ StartsIdle'
  BY <1>1 DEF IInv, Typed, StartsIdle, Free
<1>3. HomeIsOffice' /\ RostersAreReal' /\ FieldAreasAreAllowed'
  BY DEF IInv, HomeIsOffice, RostersAreReal, FieldAreasAreAllowed, IsHired
<1>4. ChecksHold'
  BY <1>1 DEF ChecksHold, IsHired, OnFieldArea, AreasOf, Slice
<1>5. HomeSoon'
  BY FreeIsSettled DEF HomeSoon, GoingHome, IsHired, IsActive
<1>6. InStepSoon'
  <2>1. \A x \in Employees : ModeOf(x)' = ModeOf(x) /\ Placed(x)' = Placed(x)
    BY SamePlaces
  <2> QED BY <2>1, FreeIsSettled DEF InStepSoon, OutOfStep, IsHired
<1> QED BY <1>2, <1>3, <1>4, <1>5, <1>6 DEF IInv

LEMMA EditEmployeeKeeps ==
  ASSUME IInv, OneAtATime, NEW c \in Callers, NEW e \in Employees, NEW d \in Departments,
         EditEmployee(c, e, d)
  PROVE  IInv'
<1> DEFINE next == [pc |-> "edit", emp |-> e, dept |-> d]
<1>1. next \in CallState /\ next.pc = "edit" /\ next.emp = e /\ next.dept = d
  BY DEF CallState
<1>2. allows[d] = "FIXED" => ~OnFieldArea(e)
  BY DEF EditEmployee, IInv, FieldAreasAreAllowed, OnFieldArea, AreasOf
<1> QED BY <1>1, <1>2, CheckKeeps DEF EditEmployee

LEMMA EditDepartmentKeeps ==
  ASSUME IInv, OneAtATime, NEW c \in Callers, NEW d \in Departments,
         NEW mode \in Modes \cup {"BOTH"}, EditDepartment(c, d, mode)
  PROVE  IInv'
<1> DEFINE next == [pc |-> "dept", dept |-> d, mode |-> mode, old |-> allows[d]]
<1>1. next \in CallState /\ next.pc = "dept" /\ next.mode = mode /\ next.dept = d
  BY DEF CallState, IInv, Typed
<1>2. mode = "FIXED" => \A e \in Slice(d) : ~OnFieldArea(e)
  <2>1. CASE allows[d] # "FIXED"
    BY <2>1 DEF EditDepartment
  <2>2. CASE allows[d] = "FIXED"
    <3>1. \A e \in Slice(d) : staff[e].dept = d \/ d = None
      BY DEF Slice
    <3> QED BY <2>2, <3>1, WorkAreasAssumption
            DEF IInv, FieldAreasAreAllowed, OnFieldArea, AreasOf, Slice
  <2> QED BY <2>1, <2>2
<1> QED BY <1>1, <1>2, CheckKeeps DEF EditDepartment

LEMMA SaveEmployeeKeeps ==
  ASSUME IInv, OneAtATime, NEW c \in Callers, SaveEmployee(c)
  PROVE  IInv'
<1>1. call[c] \in [pc : {"edit"}, emp : Employees, dept : Departments]
  BY DEF SaveEmployee, IInv, Typed, CallState
<1> DEFINE e == call[c].emp
           next == [pc |-> "sync", who |-> {e}]
<1>2. /\ staff' = [staff EXCEPT ![e].dept = call[c].dept]
      /\ call' = [call EXCEPT ![c] = next]
      /\ UNCHANGED <<kind, active, roster, allows, starting, failed, strayed>>
  BY DEF SaveEmployee, ThenSync, Goes
<1>3. /\ call'[c] = next /\ next \in CallState /\ next.pc = "sync"
      /\ \A d \in Callers : d = c
  BY <1>1, <1>2 DEF IInv, Typed, CallState, OneAtATime
<1>4. /\ staff' \in [Employees -> Person] /\ staff'[e].dept = call[c].dept
      /\ \A x \in Employees : /\ staff'[x].status = staff[x].status
                              /\ staff'[x].mode = staff[x].mode
                              /\ x # e => staff'[x] = staff[x]
  BY <1>1, <1>2 DEF IInv, Typed, Person
<1>5. Typed' /\ starting = "up" /\ StartsIdle'
  BY <1>1, <1>2, <1>3, <1>4 DEF IInv, Typed, StartsIdle, Idle
<1>6. HomeIsOffice' /\ RostersAreReal'
  BY <1>2, <1>4 DEF IInv, Typed, HomeIsOffice, RostersAreReal, IsHired
<1>7. FieldAreasAreAllowed'
  <2>1. allows[call[c].dept] = "FIXED" => \A l \in Areas : e \in roster[l] => kind[l] # "FIELD"
    BY <1>1 DEF IInv, ChecksHold, OnFieldArea, AreasOf
  <2> QED BY <2>1, <1>1, <1>2, <1>4 DEF IInv, FieldAreasAreAllowed
<1>8. ChecksHold'
  BY <1>3 DEF ChecksHold
<1>9. HomeSoon'
  BY <1>1, <1>2, <1>3, <1>4, <1>5 DEF IInv, HomeSoon, GoingHome, IsHired, IsActive
<1>10. InStepSoon'
  <2>1. "sync" \notin failed => OutOfStep(Employees) = {}
    BY <1>1, <1>3, <1>5 DEF IInv, InStepSoon, Remembered, OutOfStep
  <2>2. \A x \in Employees : ModeOf(x)' = ModeOf(x) /\ Placed(x)' = Placed(x)
    BY <1>2, SamePlaces
  <2> QED BY <2>1, <2>2, <1>2, <1>4 DEF InStepSoon, OutOfStep, IsHired
<1> QED BY <1>5, <1>6, <1>7, <1>8, <1>9, <1>10 DEF IInv

LEMMA SaveDepartmentKeeps ==
  ASSUME IInv, OneAtATime, NEW c \in Callers, SaveDepartment(c)
  PROVE  IInv'
<1> DEFINE d == call[c].dept
           m == call[c].mode
           forced == m \notin {"BOTH", call[c].old}
           next == IF forced THEN [pc |-> "sync", who |-> Slice(d)] ELSE Idle
<1>1. /\ call[c] \in [pc : {"dept"}, dept : Departments, mode : Modes \cup {"BOTH"},
                      old : Modes \cup {"BOTH"}]
      /\ d \in Departments /\ m \in Modes \cup {"BOTH"}
  BY DEF SaveDepartment, IInv, Typed, CallState
<1>2. /\ allows' = [allows EXCEPT ![d] = m]
      /\ call' = [call EXCEPT ![c] = next]
      /\ UNCHANGED <<kind, active, roster, starting, failed, strayed>>
  BY DEF SaveDepartment, ThenSync, Goes
<1>3. staff' = IF forced THEN [e \in Employees |->
                 IF e \in Slice(d) THEN [staff[e] EXCEPT !.mode = m] ELSE staff[e]]
               ELSE staff
  BY DEF SaveDepartment
<1>4. /\ next \in CallState /\ next.pc \in {"sync", "idle"}
      /\ forced => next.pc = "sync" /\ next.who = Slice(d)
  BY <1>1 DEF CallState, Idle, Slice
<1>5. call'[c] = next /\ \A x \in Callers : x = c
  BY <1>2 DEF IInv, Typed, OneAtATime
<1> HIDE DEF next
<1>6. /\ staff' \in [Employees -> Person]
      /\ \A x \in Employees : /\ staff'[x].status = staff[x].status
                              /\ staff'[x].dept = staff[x].dept
                              /\ ~forced \/ x \notin Slice(d) => staff'[x].mode = staff[x].mode
  <2>1. CASE forced
    <3>1. m \in Modes
      BY <2>1, <1>1
    <3> QED BY <2>1, <3>1, <1>3 DEF IInv, Typed, Person
  <2>2. CASE ~forced
    BY <2>2, <1>3 DEF IInv, Typed, Person
  <2> QED BY <2>1, <2>2
<1> HIDE DEF forced
<1>7. starting = "up" /\ StartsIdle'
  BY <1>1, <1>2 DEF IInv, StartsIdle, Idle
<1>8. Typed'
  BY <1>1, <1>2, <1>4, <1>6 DEF IInv, Typed
<1>9. HomeIsOffice' /\ RostersAreReal'
  BY <1>2, <1>6 DEF IInv, Typed, HomeIsOffice, RostersAreReal, IsHired
<1>10. FieldAreasAreAllowed'
  <2> SUFFICES ASSUME NEW l \in Areas, NEW e \in Employees, kind[l] = "FIELD", e \in roster[l]
               PROVE  allows'[staff[e].dept] # "FIXED"
    BY <1>2, <1>6 DEF FieldAreasAreAllowed
  <2>1. IsHired(e) /\ OnFieldArea(e) /\ allows[staff[e].dept] # "FIXED"
    BY DEF IInv, RostersAreReal, FieldAreasAreAllowed, OnFieldArea, AreasOf
  <2>2. m = "FIXED" => staff[e].dept # d
    BY <2>1, <1>1 DEF IInv, ChecksHold, Slice
  <2> QED BY <2>1, <2>2, <1>1, <1>2 DEF IInv, Typed
<1>11. ChecksHold'
  BY <1>4, <1>5 DEF ChecksHold
<1>12. HomeSoon'
  BY <1>1, <1>2, <1>5, <1>6, <1>7 DEF IInv, HomeSoon, GoingHome, IsHired, IsActive
<1>13. InStepSoon'
  <2> SUFFICES ASSUME NEW x \in Employees, x \in OutOfStep(Employees)', "sync" \notin failed
               PROVE  Remembered(c, x)'
    BY <1>2 DEF InStepSoon
  <2>1. "sync" \notin failed => OutOfStep(Employees) = {}
    BY <1>1, <1>5, <1>7 DEF IInv, InStepSoon, Remembered, OutOfStep
  <2>2. ModeOf(x)' = ModeOf(x) /\ Placed(x)' = Placed(x)
    BY <1>2, SamePlaces
  <2>3. forced /\ x \in Slice(d)
    BY <2>1, <2>2, <1>6 DEF OutOfStep, IsHired
  <2> QED BY <2>3, <1>4, <1>5 DEF Remembered
<1> QED BY <1>7, <1>8, <1>9, <1>10, <1>11, <1>12, <1>13 DEF IInv

\* Nobody who is not hired is on a roster, so a new employee has no area yet.
LEMMA HireKeeps ==
  ASSUME IInv, OneAtATime, NEW c \in Callers, NEW e \in Employees, NEW d \in Departments,
         NEW mode \in Modes, Hire(c, e, d, mode)
  PROVE  IInv'
<1> DEFINE next == [pc |-> "hired", who |-> {e}]
           p == [status |-> "active", dept |-> d, mode |-> mode]
<1>1. /\ Free(c) /\ ~IsHired(e) /\ staff' = [staff EXCEPT ![e] = p]
      /\ call' = [call EXCEPT ![c] = next]
      /\ UNCHANGED <<kind, active, roster, allows, starting, failed, strayed>>
  BY DEF Hire, Goes
<1>2. /\ call'[c] = next /\ next \in CallState /\ next.pc = "hired" /\ next.who = {e}
      /\ \A x \in Callers : x = c
  BY <1>1 DEF IInv, Typed, CallState, OneAtATime
<1>3. /\ staff' \in [Employees -> Person] /\ staff'[e] = p
      /\ \A x \in Employees : x # e => staff'[x] = staff[x]
      /\ IsActive(e)' /\ IsHired(e)'
  BY <1>1 DEF IInv, Typed, Person, IsActive, IsHired
<1>4. \A l \in Areas : e \notin roster[l]
  BY <1>1 DEF IInv, RostersAreReal
<1>5. starting = "up" /\ Typed' /\ StartsIdle'
  BY <1>1, <1>2, <1>3 DEF IInv, Typed, StartsIdle, Free
<1>6. HomeIsOffice' /\ RostersAreReal' /\ FieldAreasAreAllowed'
  BY <1>1, <1>3, <1>4 DEF IInv, Typed, HomeIsOffice, RostersAreReal, FieldAreasAreAllowed, IsHired
<1>7. ChecksHold'
  BY <1>2, <1>3 DEF ChecksHold
<1>8. HomeSoon'
  BY <1>1, <1>2, <1>3, FreeIsSettled DEF HomeSoon, GoingHome, IsHired, IsActive
<1>9. InStepSoon'
  <2> SUFFICES ASSUME NEW x \in Employees, "sync" \notin failed'
               PROVE  x \notin OutOfStep(Employees)'
    BY DEF InStepSoon
  <2>1. ModeOf(x)' = ModeOf(x) /\ Placed(x)' = Placed(x) /\ Placed(e) = {}
    BY <1>1, <1>4, SamePlaces DEF Placed, AreasOf
  <2>2. x \notin OutOfStep(Employees)
    BY <1>1, FreeIsSettled
  <2> QED BY <2>1, <2>2, <1>3 DEF OutOfStep, IsHired
<1> QED BY <1>5, <1>6, <1>7, <1>8, <1>9 DEF IInv

\* Archiving and restoring leave areas, departments and modes as they are.
LEMMA StatusKeeps ==
  ASSUME IInv, OneAtATime, NEW c \in Callers, Free(c), NEW e \in Employees, IsHired(e),
         NEW status \in {"active", "separated"},
         staff' = [staff EXCEPT ![e].status = status],
         UNCHANGED <<kind, active, roster, allows, call, starting, failed>>,
         Strays \/ (status = "active" /\ UNCHANGED strayed)
  PROVE  IInv'
<1>1. /\ staff' \in [Employees -> Person]
      /\ \A x \in Employees : /\ staff'[x].dept = staff[x].dept
                              /\ staff'[x].mode = staff[x].mode
                              /\ IsHired(x)' <=> IsHired(x)
  BY DEF IInv, Typed, Person, IsHired
<1>2. \A d \in Callers : d = c /\ call[d].pc = "idle"
  BY FreeIsSettled
<1>3. Typed' /\ StartsIdle' /\ HomeIsOffice'
  BY <1>1 DEF IInv, Typed, StartsIdle, HomeIsOffice, Strays
<1>4. RostersAreReal' /\ FieldAreasAreAllowed'
  BY <1>1 DEF IInv, Typed, RostersAreReal, FieldAreasAreAllowed
<1>5. ChecksHold'
  BY <1>2 DEF ChecksHold
<1>6. HomeSoon'
  <2> SUFFICES ASSUME NEW x \in Employees, IsHired(x), x \notin roster[Home], x \notin strayed'
               PROVE  IsActive(x)' /\ "home" \in failed
    BY <1>1 DEF HomeSoon, GoingHome
  <2>1. x \notin strayed
    BY DEF Strays
  <2>2. IsActive(x) /\ "home" \in failed
    BY <2>1, FreeIsSettled
  <2>3. staff'[x].status # "separated"
    BY <2>2 DEF Strays, IsActive, IInv, Typed
  <2>4. staff'[x].status \in {"active", "separated"}
    BY <2>2 DEF IInv, Typed, IsActive
  <2> QED BY <2>2, <2>3, <2>4 DEF IsActive
<1>7. InStepSoon'
  <2> SUFFICES ASSUME NEW x \in Employees, "sync" \notin failed'
               PROVE  x \notin OutOfStep(Employees)'
    BY DEF InStepSoon
  <2>1. ModeOf(x)' = ModeOf(x) /\ Placed(x)' = Placed(x)
    BY SamePlaces
  <2> QED BY <2>1, <1>1, FreeIsSettled DEF OutOfStep
<1> QED BY <1>3, <1>4, <1>5, <1>6, <1>7 DEF IInv

LEMMA ArchiveKeeps ==
  ASSUME IInv, OneAtATime, NEW c \in Callers, NEW e \in Employees, Archive(c, e)
  PROVE  IInv'
  BY StatusKeeps DEF Archive, IsActive, IsHired

LEMMA RestoreKeeps ==
  ASSUME IInv, OneAtATime, NEW c \in Callers, NEW e \in Employees, Restore(c, e)
  PROVE  IInv'
  BY StatusKeeps DEF Restore, IsHired

\* What a stopped request had promised is left to the boot.
LEMMA RestartKeeps ==
  ASSUME IInv, Restart
  PROVE  IInv'
<1>1. /\ starting' = "home" /\ call' \in [Callers -> CallState]
      /\ \A c \in Callers : call'[c] = Idle /\ call'[c].pc = "idle"
      /\ failed' = {} /\ UNCHANGED <<kind, active, roster, allows, staff, strayed>>
  BY DEF Restart, CallState, Idle
<1>2. Typed' /\ StartsIdle' /\ HomeIsOffice' /\ RostersAreReal' /\ FieldAreasAreAllowed'
  BY <1>1 DEF IInv, Typed, StartsIdle, HomeIsOffice, RostersAreReal, FieldAreasAreAllowed, IsHired
<1>3. ChecksHold' /\ InStepSoon'
  BY <1>1 DEF ChecksHold, InStepSoon
<1>4. HomeSoon'
  BY <1>1 DEF IInv, HomeSoon, GoingHome, IsHired, IsActive
<1> QED BY <1>2, <1>3, <1>4 DEF IInv

LEMMA BootHomeKeeps ==
  ASSUME IInv, BootHome
  PROVE  IInv'
<1>1. /\ starting = "home" /\ starting' = "sync" /\ roster' = Homed(Missing)
      /\ UNCHANGED <<kind, active, allows, staff, call, failed>> /\ Strays
  BY DEF BootHome
<1>2. Missing \in SUBSET Employees /\ \A e \in Missing : IsHired(e)
  BY DEF Missing, IsActive, IsHired
<1>3. /\ roster' = [roster EXCEPT ![Home] = @ \cup Missing]
      /\ roster' \in [Areas -> SUBSET Employees]
      /\ HomeIsOffice' /\ RostersAreReal' /\ FieldAreasAreAllowed'
  BY <1>1, <1>2, Homing
<1>4. Typed' /\ StartsIdle' /\ ChecksHold' /\ InStepSoon'
  BY <1>1, <1>3 DEF IInv, Typed, StartsIdle, ChecksHold, InStepSoon, Idle, Strays
<1>5. HomeSoon'
  <2>1. /\ roster[Home] \cup Missing \subseteq roster'[Home]
        /\ \A e \in strayed : e \in strayed' \cup roster'[Home]
    BY <1>1, <1>2, <1>3, WorkAreasAssumption DEF IInv, Typed, Strays
  <2> QED BY <2>1, <1>1 DEF IInv, HomeSoon, Missing, IsHired, IsActive
<1> QED BY <1>3, <1>4, <1>5 DEF IInv

LEMMA BootHomeFailsKeeps ==
  ASSUME IInv, BootHomeFails
  PROVE  IInv'
<1>1. /\ starting = "home" /\ starting' = "sync" /\ failed' = {"home"}
      /\ \A c \in Callers : call[c] = Idle /\ call[c].pc = "idle"
      /\ UNCHANGED <<kind, active, roster, allows, staff, call, strayed>>
  BY DEF BootHomeFails, IInv, StartsIdle, Idle
<1>2. Typed' /\ StartsIdle' /\ HomeIsOffice' /\ RostersAreReal' /\ FieldAreasAreAllowed'
  BY <1>1 DEF IInv, Typed, StartsIdle, HomeIsOffice, RostersAreReal, FieldAreasAreAllowed, IsHired
<1>3. ChecksHold' /\ InStepSoon'
  BY <1>1 DEF ChecksHold, InStepSoon
<1>4. HomeSoon'
  BY <1>1 DEF IInv, HomeSoon, GoingHome, IsHired, IsActive
<1> QED BY <1>2, <1>3, <1>4 DEF IInv

LEMMA BootSyncKeeps ==
  ASSUME IInv, NEW done \in SUBSET OutOfStep(Employees), BootSync(done)
  PROVE  IInv'
<1>1. /\ starting = "sync" /\ starting' = "up"
      /\ \A c \in Callers : call[c] = Idle /\ call[c].pc = "idle"
      /\ failed \subseteq failed' /\ failed' \in SUBSET {"home", "sync"}
      /\ "sync" \notin failed' => done = OutOfStep(Employees)
      /\ UNCHANGED <<kind, active, roster, allows, call, strayed>>
  BY DEF BootSync, IInv, Typed, StartsIdle, Idle
<1>2. \A e \in Employees : ModeOf(e) \in Modes
  BY DEF ModeOf, Modes
<1>3. /\ staff' \in [Employees -> Person]
      /\ \A e \in Employees :
           /\ staff'[e].status = staff[e].status /\ staff'[e].dept = staff[e].dept
           /\ staff'[e].mode = IF e \in done THEN ModeOf(e) ELSE staff[e].mode
  BY <1>2 DEF BootSync, IInv, Typed, Person
<1>4. Typed' /\ StartsIdle' /\ ChecksHold' /\ HomeIsOffice'
  BY <1>1, <1>3 DEF IInv, Typed, StartsIdle, ChecksHold, HomeIsOffice
<1>5. RostersAreReal' /\ FieldAreasAreAllowed'
  BY <1>1, <1>3 DEF IInv, Typed, RostersAreReal, FieldAreasAreAllowed, IsHired
<1>6. HomeSoon'
  <2>1. \A e \in Employees : GoingHome(e) => "home" \in failed'
    BY <1>1 DEF GoingHome
  <2> QED BY <2>1, <1>1, <1>3 DEF IInv, HomeSoon, GoingHome, IsHired, IsActive
<1>7. InStepSoon'
  <2> SUFFICES ASSUME NEW x \in Employees, "sync" \notin failed'
               PROVE  x \notin OutOfStep(Employees)'
    BY DEF InStepSoon
  <2>1. ModeOf(x)' = ModeOf(x) /\ Placed(x)' = Placed(x)
    BY <1>1, SamePlaces
  <2> QED BY <2>1, <1>1, <1>3 DEF OutOfStep, IsHired
<1> QED BY <1>4, <1>5, <1>6, <1>7 DEF IInv

LEMMA StutterKeeps ==
  ASSUME IInv, UNCHANGED vars
  PROVE  IInv'
<1>1. \A x \in Employees : /\ ModeOf(x)' = ModeOf(x) /\ Placed(x)' = Placed(x)
                          /\ OnFieldArea(x)' = OnFieldArea(x)
  BY SamePlaces DEF vars
<1>2. OutOfStep(Employees)' = OutOfStep(Employees)
  BY <1>1 DEF vars, OutOfStep, IsHired
<1>3. \A d \in Departments : Slice(d)' = Slice(d)
  BY DEF vars, Slice, IsHired
<1>4. Typed' /\ HomeIsOffice' /\ RostersAreReal' /\ StartsIdle' /\ FieldAreasAreAllowed' /\ HomeSoon'
  BY DEF vars, IInv, Typed, HomeIsOffice, RostersAreReal, StartsIdle, FieldAreasAreAllowed,
         HomeSoon, GoingHome, IsHired, IsActive
<1>5. ChecksHold'
  BY DEF vars, IInv, ChecksHold, Slice, OnFieldArea, ModeOf, Placed, AreasOf, IsHired, IsActive
<1>6. InStepSoon'
  BY <1>1, <1>2 DEF vars, IInv, InStepSoon, Remembered
<1> QED BY <1>4, <1>5, <1>6 DEF IInv

-----------------------------------------------------------------------------
LEMMA StepKeeps ==
  ASSUME IInv, OneAtATime, Next
  PROVE  IInv'
<1>1. ASSUME NEW c \in Callers, NEW l \in Areas, AreaCall(c, l)
      PROVE  IInv'
  BY <1>1, RemoveKeeps, CreateKeeps, ReclassifyKeeps, SaveRosterKeeps DEF AreaCall
<1>2. ASSUME NEW c \in Callers, NEW e \in Employees, EmployeeCall(c, e)
      PROVE  IInv'
  BY <1>2, AddKeeps, RemoveEmployeeKeeps, EditEmployeeKeeps, HireKeeps, ArchiveKeeps, RestoreKeeps
  DEF EmployeeCall
<1> QED BY <1>1, <1>2, EditDepartmentKeeps, ReturnKeeps, SyncReadsKeeps, SyncWritesKeeps,
           HireGoesHomeKeeps, SaveEmployeeKeeps, SaveDepartmentKeeps,
           RestartKeeps, BootHomeKeeps, BootHomeFailsKeeps, BootSyncKeeps
        DEF Next

LEMMA SettledWhenQuiet ==
  IInv => FieldAreasAreAllowed /\ ModeFollowsAreas /\ EveryoneIsHome
<1> SUFFICES ASSUME IInv
             PROVE  FieldAreasAreAllowed /\ ModeFollowsAreas /\ EveryoneIsHome
  OBVIOUS
<1>1. Quiet => \A c \in Callers : call[c].pc = "idle"
  BY DEF Quiet, Idle
<1>2. ModeFollowsAreas
  BY <1>1 DEF IInv, InStepSoon, Remembered, ModeFollowsAreas, Quiet, OutOfStep
<1>3. EveryoneIsHome
  BY <1>1 DEF IInv, HomeSoon, GoingHome, EveryoneIsHome, Quiet, IsHired, IsActive
<1> QED BY <1>2, <1>3 DEF IInv

LEMMA AlwaysInductive ==
  ASSUME OneAtATime
  PROVE  Spec => []IInv
<1>1. Init => IInv
  BY InitHolds
<1>2. IInv /\ [Next]_vars => IInv'
  BY StepKeeps, StutterKeeps
<1> QED BY <1>1, <1>2, PTL DEF Spec

\* Handling one request at a time, while the default area is an active office,
\* the server never has an office-only employee on a field area, also in the
\* middle of a request and whatever was read when a department was restricted or
\* an employee moved to it.
THEOREM FieldAreasStayAllowed ==
  ASSUME OneAtATime
  PROVE  Spec => []FieldAreasAreAllowed
  BY AlwaysInductive, SettledWhenQuiet, PTL

\* Between requests, and also after the server stopped in the middle of one and
\* started again, everyone with an active area of their own has the mode those
\* areas dictate, unless the repair of modes failed at the last start.
THEOREM WorkAreasRules ==
  ASSUME OneAtATime
  PROVE  Spec => []ModeFollowsAreas
  BY AlwaysInductive, SettledWhenQuiet, PTL

\* Then, too, every active employee is in the default area, unless they were
\* archived while out of it and no start has brought them back yet, or that
\* repair failed at the last start.
THEOREM EveryoneComesHome ==
  ASSUME OneAtATime
  PROVE  Spec => []EveryoneIsHome
  BY AlwaysInductive, SettledWhenQuiet, PTL
=============================================================================
