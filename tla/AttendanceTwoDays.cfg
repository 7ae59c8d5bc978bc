SPECIFICATION Spec
CONSTANTS
  DayLength = 3
  RenderInterval = 2
  Horizon = 5
  Employments <- TwoEmployments
  Areas = {"OFFICE", "FIELD"}
  Sundays = {}
  DaysOff = {}
  LeaveDays = {1}
  Scanners = {s1}
  Reviewers = {r1}
  Decisions = {"validate", "reject"}
  Threshold = 2
  MaxFlags = 2
  MaxVisits = 2
  FailingModes = {"FIELD"}
INVARIANTS
  PunchesInOrder
  PunchesBelongToTheirDay
  ShiftTakesItsScans
  HoursFollowPunches
  LatestFlagIsKept
  HoldIsEarned
  StreakDisables
  OneOpenVisit
PROPERTIES
  OnlyReviewsWhileHeld
CHECK_DEADLOCK FALSE
