-------------------------- MODULE MCAttendanceDay --------------------------
EXTENDS AttendanceDay

\* A day shift with its break inside, and one across midnight.
DayShift ==
  [ start |-> 1, end |-> 2, grace |-> 0, leaveEarly |-> 0, rounding |-> 0,
    breakStart |-> 1, breakLength |-> 1 ]

NightShift ==
  [ start |-> 2, end |-> 1, grace |-> 0, leaveEarly |-> 1, rounding |-> 0,
    breakStart |-> 0, breakLength |-> 1 ]

\* An office worker from one evening to the next, a technician on the first
\* day.
TwoEmployments ==
  { [shift |-> NightShift, mode |-> "FIXED", from |-> 2, to |-> 5],
    [shift |-> DayShift, mode |-> "FIELD", from |-> 1, to |-> 2] }
=============================================================================
