SPECIFICATION Spec
CONSTANTS
  ResetDay = 5
  MaxRequests = 5
  LastDay = 4
  Horizon = 1
  LeaveTypes <- MaternityOnly
  SingleDayTypes <- NoTypes
  AdvanceTypes <- MaternityOnly
  PastAbsenceTypes <- NoTypes
  UncappedTypes <- NoTypes
  CancellableTypes <- NoTypes
  ExtendableTypes <- MaternityOnly
  ExtensionDays = 1
  NoticeDays = 0
  GraceDays = 0
  Earned <- Balance3
  Sundays <- NoDays
  DaysOff <- Day2
  DoubtfulDays <- Day1
  OfferedToApprove <- Reviewable
  OfferedToReject <- NoTypes
INVARIANTS
  ExtensionOnce
  
  WorkedLeaveIsExplained
CHECK_DEADLOCK FALSE
