---------------------------- MODULE LeaveDayBook ----------------------------
(***************************************************************************)
(* What the leave workflow promises about a day of an employee, with no    *)
(* requests, balances or dates in it: a day is free, asked for, granted,   *)
(* or granted with its cancellation awaiting a decision, and the employee  *)
(* either worked it or did not.  A day is granted only after it was asked  *)
(* for, a worked day is neither asked for nor granted, and a granted day   *)
(* is worked only while its cancellation is contested or when the          *)
(* attendance was in doubt since before it was granted.                    *)
(***************************************************************************)
CONSTANT Day

VARIABLES book, attended, doubted

Mark == {"free", "asked", "granted", "contested"}

\* The days of S, all marked in `before`, become `after`.
Turn(S, before, after) ==
  /\ S # {} /\ \A d \in S : book[d] \in before
  /\ book' = [d \in Day |-> IF d \in S THEN after ELSE book[d]]
  /\ UNCHANGED <<attended, doubted>>

BookInit == book = [d \in Day |-> "free"] /\ attended = {} /\ doubted = {}

Ask(S)     == S \cap attended = {} /\ Turn(S, {"free"}, "asked")
Grant(S)   == S \cap attended = {} /\ Turn(S, {"asked"}, "granted")
Contest(S) == S \cap attended = {} /\ Turn(S, {"granted"}, "contested")
Uphold(S)  == Turn(S, {"contested"}, "granted")
Free(S)    == Turn(S, {"asked", "granted", "contested"}, "free")

Doubt(d) ==
  /\ book[d] # "granted" /\ d \notin attended \cup doubted
  /\ doubted' = doubted \cup {d}
  /\ UNCHANGED <<book, attended>>

Attend(d) ==
  /\ book[d] # "granted" /\ d \notin attended
  /\ attended' = attended \cup {d}
  /\ UNCHANGED <<book, doubted>>

Settle(d) ==
  /\ d \in doubted
  /\ doubted' = doubted \ {d}
  /\ attended' \in {attended, attended \cup {d}}
  /\ UNCHANGED book

BookNext ==
  \/ \E S \in SUBSET Day : Ask(S) \/ Grant(S) \/ Contest(S) \/ Uphold(S) \/ Free(S)
  \/ \E d \in Day : Doubt(d) \/ Attend(d) \/ Settle(d)

BookSpec == BookInit /\ [][BookNext]_<<book, attended, doubted>>
=============================================================================
