---------------------------- MODULE MCLeavePayout ----------------------------
EXTENDS LeavePayout

TwoRequests == {"short", "long"}
OneAndTwoDays == [q \in TwoRequests |-> IF q = "short" THEN 1 ELSE 2]
=============================================================================
