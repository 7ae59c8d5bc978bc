SPECIFICATION Spec
CONSTANTS
  ResetDay = 3
  Reqs <- TwoRequests
  Callers <- PeopleAndJob
  Duties <- BesideLapseDuties
  MayFail <- JobOnly
  MaxUsed = 3
INVARIANTS
  LedgerSettles
  
PROPERTIES
  DecisionOutlivesLapse
CHECK_DEADLOCK FALSE
