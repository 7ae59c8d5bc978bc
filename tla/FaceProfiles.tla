----------------------------- MODULE FaceProfiles -----------------------------
(***************************************************************************)
(* Saving the face of one employee (face-profiles.service.ts). A verified  *)
(* capture session is checked, the active profile is looked up, the photo  *)
(* is written over it or as a new row, and the session is used up. A       *)
(* better descriptor is computed afterwards and swapped in (a timer of     *)
(* this process), while other admins save, archive and delete profiles.    *)
(*                                                                         *)
(* Sessions are numbered and a session's number stands for its photo; a    *)
(* descriptor is the photo it was computed from. `enrolledAt` is taken     *)
(* from a clock no two saves read alike.                                   *)
(***************************************************************************)
EXTENDS Integers

CONSTANTS
  Admins,    \* clients that may be saving at the same time
  Sessions,  \* capture sessions the server verifies (see GuidedCapture)
  Rows,      \* bound: ids of face_profiles, never used twice
  MaxClock   \* bound: saves that get as far as writing

ASSUME FaceProfilesAssumption ==
  /\ Sessions \subseteq Nat \ {0} /\ Rows \subseteq Nat \ {0}
  /\ MaxClock \in Nat

NoRow == 0

VARIABLES
  captured,  \* "running" | "verified" | "gone"
  row,      \* the table of face profiles
  save,     \* per admin: the call of create() under way
  jobs,     \* descriptors being computed
  clock

vars == <<captured, row, save, jobs, clock>>

NoProfile == [state |-> "absent", photo |-> 0, descriptor |-> 0, at |-> 0]
Idle == [at |-> "idle", session |-> 0, row |-> NoRow, time |-> 0]

Call(s) == [at |-> "finding", session |-> s, row |-> NoRow, time |-> 0]

Init ==
  /\ captured = [s \in Sessions |-> "running"]
  /\ row = [r \in Rows |-> NoProfile]
  /\ save = [a \in Admins |-> Idle]
  /\ jobs = {}
  /\ clock = 1

\* The capture's last photo passed (GuidedCapture), or the session was lost.
Verify(s) ==
  /\ captured[s] = "running"
  /\ captured' = [captured EXCEPT ![s] = "verified"]
  /\ UNCHANGED <<row, save, jobs, clock>>

Expire(s) ==
  /\ captured[s] = "verified"
  /\ captured' = [captured EXCEPT ![s] = "gone"]
  /\ UNCHANGED <<row, save, jobs, clock>>

\* getVerified: the photo is taken from the session without using it up.
SaveBegins(a, s) ==
  /\ save[a].at = "idle"
  /\ captured[s] = "verified"
  /\ save' = [save EXCEPT ![a] = Call(s)]
  /\ UNCHANGED <<captured, row, jobs, clock>>

Active == {r \in Rows : row[r].state = "active"}

\* findFirst answers; the data to write, enrolledAt included, is put together.
SaveFinds(a) ==
  /\ save[a].at = "finding"
  /\ clock < MaxClock
  /\ \E found \in IF Active = {} THEN {NoRow} ELSE Active :
       save' = [save EXCEPT ![a].at = "writing", ![a].row = found, ![a].time = clock]
  /\ clock' = clock + 1
  /\ UNCHANGED <<captured, row, jobs>>

\* The photo and the capture's own descriptor.
Written(a, state) ==
  [state |-> state, photo |-> save[a].session, descriptor |-> save[a].session,
   at |-> save[a].time]

\* update by id: in place, archived or not.
SaveReplaces(a) ==
  LET r == save[a].row
  IN  /\ save[a].at = "writing" /\ r # NoRow
      /\ row[r].state \in {"active", "archived"}
      /\ row' = [row EXCEPT ![r] = Written(a, row[r].state)]
      /\ save' = [save EXCEPT ![a].at = "written"]
      /\ UNCHANGED <<captured, jobs, clock>>

SaveCreates(a, r) ==
  /\ save[a].at = "writing" /\ save[a].row = NoRow
  /\ row[r].state = "absent"
  /\ row' = [row EXCEPT ![r] = Written(a, "active")]
  /\ save' = [save EXCEPT ![a].at = "written", ![a].row = r]
  /\ UNCHANGED <<captured, jobs, clock>>

\* The audit entry is written, the session used up, the descriptor begun.
SaveEnds(a) ==
  /\ save[a].at = "written"
  /\ captured' = [captured EXCEPT ![save[a].session] = "gone"]
  /\ jobs' = jobs \cup {[row |-> save[a].row, at |-> save[a].time, photo |-> save[a].session]}
  /\ save' = [save EXCEPT ![a] = Idle]
  /\ UNCHANGED <<row, clock>>

\* The database refuses a call (the row may have been deleted): the session
\* stays good for another try.
SaveFails(a) ==
  /\ save[a].at # "idle"
  /\ save' = [save EXCEPT ![a] = Idle]
  /\ UNCHANGED <<captured, row, jobs, clock>>

\* keepStoredDescriptor's updateMany: only the row, and only while it holds
\* the photo of this job.
MatchesRow(j, r) == r = j.row /\ row[r].state \in {"active", "archived"}
Matches(j, r) ==
  r = j.row /\ row[r].state \in {"active", "archived"} /\ row[r].at = j.at

DescriptorKept(j) ==
  /\ row' = [r \in Rows |-> IF Matches(j, r) THEN [row[r] EXCEPT !.descriptor = j.photo] ELSE row[r]]
  /\ jobs' = jobs \ {j}
  /\ UNCHANGED <<captured, save, clock>>

\* It could not be computed or stored.
DescriptorLost(j) ==
  /\ jobs' = jobs \ {j}
  /\ UNCHANGED <<captured, row, save, clock>>

Archive(r) ==
  /\ row[r].state \in {"active", "archived"}
  /\ row' = [row EXCEPT ![r].state = "archived"]
  /\ UNCHANGED <<captured, save, jobs, clock>>

Remove(r) ==
  /\ row[r].state \in {"active", "archived"}
  /\ row' = [row EXCEPT ![r].state = "removed"]
  /\ UNCHANGED <<captured, save, jobs, clock>>

\* Sessions, calls and timers live in the process.
Restart ==
  /\ captured' = [s \in Sessions |-> IF captured[s] = "verified" THEN "gone" ELSE captured[s]]
  /\ save' = [a \in Admins |-> Idle]
  /\ jobs' = {}
  /\ UNCHANGED <<row, clock>>

Saving(a) ==
  \/ \E s \in Sessions : SaveBegins(a, s)
  \/ SaveFinds(a)
  \/ SaveReplaces(a)
  \/ \E r \in Rows : SaveCreates(a, r)
  \/ SaveEnds(a)
  \/ SaveFails(a)

Next ==
  \/ \E s \in Sessions : Verify(s) \/ Expire(s)
  \/ \E a \in Admins : Saving(a)
  \/ \E j \in jobs : DescriptorKept(j) \/ DescriptorLost(j)
  \/ \E r \in Rows : Archive(r) \/ Remove(r)
  \/ Restart

Spec == Init /\ [][Next]_vars

----------------------------------------------------------------------------
\* Every profile's descriptor was computed from the photo it is shown with,
\* although a job may end long after its profile was registered again.
DescriptorOfPhoto == \A r \in Rows : row[r].descriptor = row[r].photo

\* "An employee keeps at most one active profile". Two first registrations at
\* the same time both find none and both create one.
OneActiveProfile == \A q, r \in Active : q = r

\* "Archived profiles stay behind as history": a save that found the profile
\* before it was archived writes over it.
HistoryStays ==
  [][\A r \in Rows : row[r].state = "archived" => row'[r].photo = row[r].photo]_vars
=============================================================================
