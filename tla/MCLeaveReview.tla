---------------------------- MODULE MCLeaveReview ----------------------------
(***************************************************************************)
(* Who calls what at the same time, in the runs of LeaveReview.            *)
(***************************************************************************)
EXTENDS LeaveReview

\* People who call one after the other, while the lapse job runs beside them.
PeopleAndJob == {"people", "job"}
BesideLapseDuties ==
  [c \in PeopleAndJob |-> IF c = "job" THEN {"lapse"} ELSE Operations \ {"lapse"}]
JobOnly == {"job"}

\* Two clients who may both make any call.
TwoClients == {"one", "other"}
TwoClientsDuties == [c \in TwoClients |-> Operations]

\* Two reviewers who both have the request open, or one who clicks twice.
TwoReviewers == {"reviewer", "reviewer2", "employee"}
TwoReviewersDuties ==
  [c \in TwoReviewers |-> IF c = "employee" THEN {"file"} ELSE {"approve"}]

Nobody == {}

OneRequest == {"r1"}
TwoRequests == {"r1", "r2"}
=============================================================================
