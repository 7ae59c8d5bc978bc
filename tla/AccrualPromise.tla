--------------------------- MODULE AccrualPromise ---------------------------
(***************************************************************************)
(* What the monthly accrual promises one Permanent Seasonal employee: the  *)
(* days since the conversion are taken one after another, each exactly     *)
(* once.  An absence closes the period it falls in without a credit; a     *)
(* month without one is one credit.  Once the promise is broken the days   *)
(* may be taken in any order, but still a credit at a time.                *)
(***************************************************************************)
EXTENDS Integers

CONSTANT Month

VARIABLES
  begun,     \* whether a period has been taken
  next,      \* the first day no period has taken
  credits,   \* months credited
  broken     \* the days were rewritten while they were being taken

promise == <<begun, next, credits, broken>>

Init == begun = FALSE /\ next \in Int /\ credits = 0 /\ broken = FALSE

\* Where the first period begins is for the conversion to say.
Begin ==
  /\ ~begun /\ begun' \in BOOLEAN
  /\ next' \in Int /\ credits' \in 0..1
  /\ UNCHANGED broken

\* The days up to an absence, the absence included.
Break ==
  /\ begun /\ begun' = TRUE /\ next' \in next + 1 .. next + Month
  /\ UNCHANGED <<credits, broken>>

Complete ==
  /\ begun /\ begun' = TRUE /\ next' = next + Month /\ credits' = credits + 1
  /\ UNCHANGED broken

Rewritten ==
  /\ broken' = TRUE /\ begun' \in BOOLEAN /\ next' \in Int
  /\ credits' \in credits .. credits + 1

Spec == Init /\ [][Begin \/ Break \/ Complete \/ Rewritten]_promise
=============================================================================
