SPECIFICATION Spec
CONSTANTS
  ResetDay = 3
  Reqs <- TwoRequests
  Callers <- TwoReviewers
  Duties <- TwoReviewersDuties
  MayFail <- Nobody
  MaxUsed = 3
INVARIANTS
  LedgerSettles
CHECK_DEADLOCK FALSE
