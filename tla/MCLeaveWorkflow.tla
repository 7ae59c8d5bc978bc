--------------------------- MODULE MCLeaveWorkflow ---------------------------
(***************************************************************************)
(* Bounded instances of LeaveWorkflow.                                     *)
(***************************************************************************)
EXTENDS LeaveWorkflow

Reviewable == {"PENDING", "SUPERVISOR_APPROVED"}

\* The admin page also offers late approval of a lapsed request.
ReviewableOrLapsed == Reviewable \cup {"LAPSED"}

\* A page loaded before the employee asked to cancel.
ReviewableOrContested == Reviewable \cup {"CANCELLATION_PENDING"}

Balance1 == [t \in LeaveTypes |-> [y \in Years |-> 1]]
Balance2 == [t \in LeaveTypes |-> [y \in Years |-> 2]]
Balance3 == [t \in LeaveTypes |-> [y \in Years |-> 3]]

NoTypes == {}
NoDays == {}
Day1 == {1}
Day2 == {2}
VacationOnly == {"Vacation"}
SickOnly == {"Sick"}
VacationAndSick == {"Vacation", "Sick"}
MaternityOnly == {"Maternity"}
=============================================================================
