SPECIFICATION FairSpec
CONSTANTS
  ResetDay = 2
  MaxRequests = 3
  LastDay = 2
  Horizon = 3
  LeaveTypes <- VacationAndSick
  SingleDayTypes <- SickOnly
  AdvanceTypes <- VacationOnly
  PastAbsenceTypes <- VacationAndSick
  UncappedTypes <- NoTypes
  CancellableTypes <- VacationOnly
  ExtendableTypes <- NoTypes
  ExtensionDays = 1
  NoticeDays = 0
  GraceDays = 1
  Earned <- Balance2
  Sundays <- NoDays
  DaysOff <- NoDays
  DoubtfulDays <- NoDays
  OfferedToApprove <- Reviewable
  OfferedToReject <- Reviewable
INVARIANTS
  TypeOK
  
  
  WorkedLeaveIsExplained
PROPERTIES
  RefundsOnlyDaysToCome
  
  EventuallyDecided
CHECK_DEADLOCK FALSE
