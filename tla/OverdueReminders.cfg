SPECIFICATION RemindSpec
CONSTANTS
  Reviewers <- TwoReviewers
  OnDuty <- TwoShifts
  HoursInDay = 4
  ReminderHours = 2
  Jobs = {n1, n2}
  MaxRounds = 1
  MaxRoutes = 1
  MaxBreaks = 1
INVARIANTS
  RemindedOnce
  ClaimsAreKept
PROPERTIES
  EventuallyReminded
CHECK_DEADLOCK FALSE
