------------------------------ MODULE WorkAreas ------------------------------
(***************************************************************************)
(* Geotagged work areas, who is assigned to them, and the attendance mode  *)
(* that follows from it (GeolocationService), beside what departments and  *)
(* employees change of it (DepartmentsService.update, EmployeesService     *)
(* create, update, archive, restore).                                      *)
(*                                                                         *)
(* A call writes first, then puts the stranded back into the default area, *)
(* then brings attendance modes in line, each on its own; the server may   *)
(* stop in between and repairs both when it starts, if the repair does not *)
(* fail (then it is only logged).                                          *)
(*                                                                         *)
(* A supervisor may do part of what an admin may; the scope is kept where  *)
(* it changes an effect, in SaveRoster.  Shapes, renaming and the schema   *)
(* before the join table are left out.                                     *)
(***************************************************************************)
EXTENDS Integers, FiniteSets

CONSTANTS
  Employees, Departments, Areas, Callers,
  Home,            \* the area named DEFAULT_OFFICE_LOCATION_NAME
  None,            \* no department: a shared area, an admin's scope
  OwnerOf,         \* WorkLocation.departmentId, which is not changed
  HomeStays,       \* bound, or FALSE: Home stays an active office area
  MayFail          \* bound: the repairs at the start that may fail

Modes == {"FIXED", "FIELD"}
Kinds == {"OFFICE", "FIELD"}

ASSUME WorkAreasAssumption ==
  /\ Home \in Areas /\ None \notin Departments
  /\ OwnerOf \in [Areas -> Departments \cup {None}]
  /\ HomeStays \in BOOLEAN
  /\ MayFail \subseteq {"home", "sync"}

VARIABLES
  kind,      \* WorkLocation.type, "none" for an area that does not exist
  active,    \* areas that are isActive
  roster,    \* work_location_employees
  allows,    \* Department.attendanceMode
  staff,     \* per employee: employmentStatus, department, attendanceMode
  call,      \* where each caller's request stands
  starting,  \* the step of onApplicationBootstrap the server is in, or "up"
  failed,    \* the repairs that failed at the last start
  strayed    \* who is out of Home and was archived at some time since they left
             \* it (for the properties)

vars == <<kind, active, roster, allows, staff, call, starting, failed, strayed>>

Idle == [pc |-> "idle"]
Goes(c, to) == call' = [call EXCEPT ![c] = to]
Free(c) == starting = "up" /\ call[c] = Idle

IsHired(e) == staff[e].status # "none"
IsActive(e) == staff[e].status = "active"
Exists(l) == kind[l] # "none"
\* How `strayed` follows the rosters and who is archived.
Strays ==
  strayed' = {e \in Employees :
                e \notin roster'[Home] /\ (e \in strayed \/ staff'[e].status = "separated")}

AreasOf(e) == {l \in Areas : e \in roster[l]}

-----------------------------------------------------------------------------
(***************************************************************************)
(* The rules of assignment.                                                *)
(***************************************************************************)
\* The department's employees, or everyone for an admin.
Slice(scope) == {e \in Employees : IsHired(e) /\ scope \in {None, staff[e].dept}}

\* claimEmployeeForArea
Claimable(e, l) ==
  \/ staff[e].mode = "FIELD" \/ l = Home
  \/ AreasOf(e) \ {l, Home} = {}

\* Mutant: the roster is checked against the type before the change.
FieldAllowedBefore(l, type, who) ==
  kind[l] = "FIELD" => \A e \in who : allows[staff[e].dept] # "FIXED"

\* assertFieldAreaRoster
FieldAllowed(l, type, who) ==
  type = "FIELD" => \A e \in who : allows[staff[e].dept] # "FIXED"

\* Mutant: everyone's assignments are replaced by a department's.
ReplacedUnscoped(l, ids, scope) == ids

\* replaceAssignments: only the slice in scope is replaced.
Replaced(l, ids, scope) == (roster[l] \ Slice(scope)) \cup ids

\* No active employee in scope is taken out of the default area.
HomeKept(l, ids, scope) ==
  l = Home => \A e \in roster[Home] \ ids :
                IsActive(e) => e \notin Slice(scope)

\* The areas that decide e's mode.
Placed(e) == (AreasOf(e) \cap active) \ {Home}

ModeOf(e) == IF \E l \in Placed(e) : kind[l] = "FIELD" THEN "FIELD" ELSE "FIXED"

OutOfStep(who) ==
  {e \in who : IsHired(e) /\ Placed(e) # {} /\ staff[e].mode # ModeOf(e)}

-----------------------------------------------------------------------------
Init ==
  /\ kind = [l \in Areas |-> IF l = Home THEN "OFFICE" ELSE "none"]
  /\ active = {Home}
  /\ roster = [l \in Areas |-> {}]
  /\ allows = [d \in Departments |-> "BOTH"]
  /\ staff = [e \in Employees |-> [status |-> "none", dept |-> None, mode |-> "FIXED"]]
  /\ call = [c \in Callers |-> Idle]
  /\ starting = "home" /\ failed = {} /\ strayed = {}

\* What follows a write: first the former roster, then the modes of `who`.
ThenReturn(c, former, who) == Goes(c, [pc |-> "return", former |-> former, who |-> who])
ThenSync(c, who) == Goes(c, [pc |-> "sync", who |-> who])

(***************************************************************************)
(* Areas.  What a call reads ahead of its transaction is read with it.     *)
(***************************************************************************)
CreateLocation(c, l, type, ids) ==
  /\ Free(c) /\ ~Exists(l)
  /\ \A e \in ids : IsHired(e) /\ Claimable(e, l)
  /\ FieldAllowed(l, type, ids)
  /\ kind' = [kind EXCEPT ![l] = type]
  /\ active' = active \cup {l}
  /\ roster' = [roster EXCEPT ![l] = ids]
  /\ ThenSync(c, ids)
  /\ UNCHANGED <<allows, staff, starting, failed>>
  /\ Strays

\* Mutant: those just put on the roster are forgotten.
AffectedBefore(former, who) == former

\* Whose modes are brought in line: the previous and the current roster.
Affected(former, who) == former \cup who

\* updateLocation, which may change the type and the activity; `who` is the
\* roster it leaves.
UpdateLocation(c, l, type, on, who) ==
  /\ Free(c) /\ Exists(l)
  /\ HomeStays /\ l = Home => type = "OFFICE" /\ on
  /\ FieldAllowed(l, type, who)
  /\ kind' = [kind EXCEPT ![l] = type]
  /\ active' = IF on THEN active \cup {l} ELSE active \ {l}
  /\ roster' = [roster EXCEPT ![l] = who]
  /\ ThenReturn(c, IF l = Home THEN {} ELSE roster[l] \ who, Affected(roster[l], who))
  /\ UNCHANGED <<allows, staff, starting, failed>>
  /\ Strays

\* ... without employeeIds
Reclassify(c, l, type, on) == UpdateLocation(c, l, type, on, roster[l])

\* ... with employeeIds, by an admin or a supervisor of department `scope`
SaveRoster(c, scope, l, type, on, ids) ==
  /\ Free(c) /\ Exists(l)
  /\ scope = None \/ OwnerOf[l] \in {None, scope}
  /\ HomeKept(l, ids, scope)
  /\ \A e \in ids : e \in Slice(scope) /\ Claimable(e, l)
  /\ UpdateLocation(c, l, type, on, Replaced(l, ids, scope))

RemoveLocation(c, l) ==
  /\ Free(c) /\ Exists(l) /\ (HomeStays => l # Home)
  /\ kind' = [kind EXCEPT ![l] = "none"]
  /\ active' = active \ {l}
  /\ roster' = [roster EXCEPT ![l] = {}]
  /\ ThenReturn(c, IF l = Home THEN {} ELSE roster[l], roster[l])
  /\ UNCHANGED <<allows, staff, starting, failed>>
  /\ Strays

AddEmployee(c, l, e) ==
  /\ Free(c) /\ Exists(l) /\ IsHired(e)
  /\ Claimable(e, l) /\ e \notin roster[l]
  /\ FieldAllowed(l, kind[l], roster[l] \cup {e})
  /\ roster' = [roster EXCEPT ![l] = @ \cup {e}]
  /\ ThenSync(c, {e})
  /\ UNCHANGED <<kind, active, allows, staff, starting, failed>>
  /\ Strays

RemoveEmployee(c, l, e) ==
  /\ Free(c) /\ Exists(l) /\ IsHired(e)
  /\ l = Home => ~IsActive(e)
  /\ roster' = [roster EXCEPT ![l] = @ \ {e}]
  /\ ThenReturn(c, IF l = Home THEN {} ELSE {e}, {e})
  /\ UNCHANGED <<kind, active, allows, staff, starting, failed>>
  /\ Strays

-----------------------------------------------------------------------------
(***************************************************************************)
(* What follows.                                                           *)
(***************************************************************************)
\* assignDefaultOfficeLocation
Homed(who) ==
  IF Home \in active THEN [roster EXCEPT ![Home] = @ \cup who] ELSE roster

\* returnToDefaultAreaIfUnassigned
ReturnHome(c) ==
  /\ call[c].pc = "return"
  /\ roster' = Homed({e \in call[c].former : IsActive(e) /\ AreasOf(e) = {}})
  /\ ThenSync(c, call[c].who)
  /\ UNCHANGED <<kind, active, allows, staff, starting, failed>>
  /\ Strays

\* syncAttendanceModes reads everyone's areas, then writes mode by mode.
SyncReads(c) ==
  /\ call[c].pc = "sync"
  /\ LET due == {<<e, ModeOf(e)>> : e \in OutOfStep(call[c].who)}
     IN  Goes(c, IF due = {} THEN Idle ELSE [pc |-> "write", due |-> due])
  /\ UNCHANGED <<kind, active, roster, allows, staff, starting, failed, strayed>>

SyncWrites(c) ==
  /\ call[c].pc = "write"
  /\ \E p \in call[c].due :
       /\ staff' = [staff EXCEPT ![p[1]].mode = p[2]]
       /\ LET left == call[c].due \ {p}
          IN  Goes(c, IF left = {} THEN Idle ELSE [pc |-> "write", due |-> left])
  /\ UNCHANGED <<kind, active, roster, allows, starting, failed, strayed>>

-----------------------------------------------------------------------------
(***************************************************************************)
(* Employees and departments.                                              *)
(***************************************************************************)
\* create; a department that allows both leaves the mode to the form.
Hire(c, e, dept, mode) ==
  /\ Free(c) /\ ~IsHired(e) /\ allows[dept] \in {"BOTH", mode}
  /\ staff' = [staff EXCEPT ![e] = [status |-> "active", dept |-> dept, mode |-> mode]]
  /\ Goes(c, [pc |-> "hired", who |-> {e}])
  /\ UNCHANGED <<kind, active, roster, allows, starting, failed, strayed>>

HireGoesHome(c) ==
  /\ call[c].pc = "hired"
  /\ roster' = Homed(call[c].who)
  /\ ThenSync(c, call[c].who)
  /\ UNCHANGED <<kind, active, allows, staff, starting, failed>>
  /\ Strays

OnFieldArea(e) == \E l \in AreasOf(e) : kind[l] = "FIELD"

\* update: the check on a new department, and the write some calls later.
EditEmployee(c, e, dept) ==
  /\ Free(c) /\ IsHired(e)
  /\ dept # staff[e].dept /\ allows[dept] = "FIXED" => ~OnFieldArea(e)
  /\ Goes(c, [pc |-> "edit", emp |-> e, dept |-> dept])
  /\ UNCHANGED <<kind, active, roster, allows, staff, starting, failed, strayed>>

SaveEmployee(c) ==
  /\ call[c].pc = "edit"
  /\ staff' = [staff EXCEPT ![call[c].emp].dept = call[c].dept]
  /\ ThenSync(c, {call[c].emp})
  /\ UNCHANGED <<kind, active, roster, allows, starting, failed, strayed>>

\* DepartmentsService.update, likewise.
EditDepartment(c, d, mode) ==
  /\ Free(c)
  /\ mode = "FIXED" /\ allows[d] # "FIXED" => ~\E e \in Slice(d) : OnFieldArea(e)
  /\ Goes(c, [pc |-> "dept", dept |-> d, mode |-> mode, old |-> allows[d]])
  /\ UNCHANGED <<kind, active, roster, allows, staff, starting, failed, strayed>>

\* A restriction is forced on everyone in the department, and those with an
\* area go straight back to the mode it dictates.
SaveDepartment(c) ==
  LET d == call[c].dept
      m == call[c].mode
      forced == m \notin {"BOTH", call[c].old}
  IN  /\ call[c].pc = "dept"
      /\ allows' = [allows EXCEPT ![d] = m]
      /\ IF forced
           THEN /\ staff' = [e \in Employees |->
                               IF e \in Slice(d) THEN [staff[e] EXCEPT !.mode = m] ELSE staff[e]]
                /\ ThenSync(c, Slice(d))
           ELSE UNCHANGED staff /\ Goes(c, Idle)
      /\ UNCHANGED <<kind, active, roster, starting, failed, strayed>>

Archive(c, e) ==
  /\ Free(c) /\ IsActive(e)
  /\ staff' = [staff EXCEPT ![e].status = "separated"]
  /\ UNCHANGED <<kind, active, roster, allows, call, starting, failed>>
  /\ Strays

\* restore gives back the login and the status, not the areas.
Restore(c, e) ==
  /\ Free(c) /\ staff[e].status = "separated"
  /\ staff' = [staff EXCEPT ![e].status = "active"]
  /\ UNCHANGED <<kind, active, roster, allows, call, starting, failed, strayed>>

-----------------------------------------------------------------------------
(***************************************************************************)
(* The server stops, and repairs before it takes requests.                 *)
(***************************************************************************)
Restart ==
  /\ starting' = "home" /\ failed' = {}
  /\ call' = [c \in Callers |-> Idle]
  /\ UNCHANGED <<kind, active, roster, allows, staff, strayed>>

\* Who ensureEveryoneInDefaultArea adds.
Missing == {e \in Employees : IsActive(e)} \ roster[Home]

BootHome ==
  /\ starting = "home"
  /\ roster' = Homed(Missing)
  /\ starting' = "sync"
  /\ UNCHANGED <<kind, active, allows, staff, call, failed>>
  /\ Strays

\* The repairs are only logged when they fail, the second perhaps after some.
BootHomeFails ==
  /\ starting = "home" /\ "home" \in MayFail
  /\ starting' = "sync" /\ failed' = {"home"}
  /\ UNCHANGED <<kind, active, roster, allows, staff, call, strayed>>

BootSync(done) ==
  /\ starting = "sync" /\ (done = OutOfStep(Employees) \/ "sync" \in MayFail)
  /\ staff' = [e \in Employees |->
                 IF e \in done THEN [staff[e] EXCEPT !.mode = ModeOf(e)] ELSE staff[e]]
  /\ failed' = IF done = OutOfStep(Employees) THEN failed ELSE failed \cup {"sync"}
  /\ starting' = "up"
  /\ UNCHANGED <<kind, active, roster, allows, call, strayed>>

AreaCall(c, l) ==
  \/ RemoveLocation(c, l)
  \/ \E type \in Kinds :
       \/ \E ids \in SUBSET Employees : CreateLocation(c, l, type, ids)
       \/ \E on \in BOOLEAN :
            \/ Reclassify(c, l, type, on)
            \/ \E ids \in SUBSET Employees, scope \in Departments \cup {None} :
                 SaveRoster(c, scope, l, type, on, ids)

EmployeeCall(c, e) ==
  \/ \E l \in Areas : AddEmployee(c, l, e) \/ RemoveEmployee(c, l, e)
  \/ \E d \in Departments : EditEmployee(c, e, d) \/ \E m \in Modes : Hire(c, e, d, m)
  \/ Archive(c, e) \/ Restore(c, e)

Next ==
  \/ Restart \/ BootHome \/ BootHomeFails
  \/ \E done \in SUBSET OutOfStep(Employees) : BootSync(done)
  \/ \E c \in Callers :
       \/ \E l \in Areas : AreaCall(c, l)
       \/ \E e \in Employees : EmployeeCall(c, e)
       \/ \E d \in Departments, m \in Modes \cup {"BOTH"} : EditDepartment(c, d, m)
       \/ ReturnHome(c) \/ SyncReads(c) \/ SyncWrites(c)
       \/ HireGoesHome(c) \/ SaveEmployee(c) \/ SaveDepartment(c)

Spec == Init /\ [][Next]_vars

-----------------------------------------------------------------------------
Quiet == starting = "up" /\ \A c \in Callers : call[c] = Idle

\* Whether the area, its roster, the employee's department or what that
\* department allows was changed last, nobody of an office-only department is
\* on a field area ("a FIXED department is office-only").
FieldAreasAreAllowed ==
  \A l \in Areas, e \in Employees :
    kind[l] = "FIELD" /\ e \in roster[l] => allows[staff[e].dept] # "FIXED"

\* Once a call has run to its end, or the server has started after stopping in
\* the middle of one, everyone with an active area of their own has the mode
\* those areas dictate ("the assigned area has the final say"), unless this
\* repair failed at the last start.
ModeFollowsAreas ==
  Quiet /\ "sync" \notin failed => OutOfStep(Employees) = {}

\* Then, too, every active employee is in the default area ("Every employee is
\* in the default area and always keeps it"), also one whose hire was cut short
\* and one whose archived colleague's department is saved by its supervisor,
\* unless they were archived while out of it: only then may they be taken out,
\* and restoring them does not bring them back (the next start does).
EveryoneIsHome ==
  Quiet /\ "home" \notin failed =>
    \A e \in Employees : IsActive(e) => e \in roster[Home] \/ e \in strayed

\* Does not hold: an employee in FIXED mode may be left with two areas of their
\* own once the field area that made them FIELD is gone.
OneOtherArea ==
  Quiet => \A e \in Employees :
    staff[e].mode = "FIXED" => Cardinality(AreasOf(e) \ {Home}) <= 1
=============================================================================
