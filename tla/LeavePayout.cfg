SPECIFICATION PayoutSpec
CONSTANTS
  ResetDay = 0
  Reqs <- TwoRequests
  TotalDays <- OneAndTwoDays
  DefaultDays = 4
  MaxDays = 2
  AutoCredited = FALSE
  Payouts = {p1, p2}
  MaxDecisions = 3
INVARIANTS
  PaidDaysStay
PROPERTIES
  PayoutSparesHeldDays
