------------------------- MODULE MCOverdueReminders -------------------------
EXTENDS OverdueReminders

\* A supervisor on a day shift, an admin on a night shift.
TwoReviewers == {"supervisor", "admin"}
TwoShifts == [r \in TwoReviewers |-> IF r = "supervisor" THEN {0, 1} ELSE {2}]
=============================================================================
