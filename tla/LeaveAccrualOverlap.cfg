SPECIFICATION FairSpec
CONSTANTS
  Month = 2
  YearLength = 3
  LastDay = 3
  AccrualRuns = {r1, r2}
  MaxCyclesPerRun = 2
  MaxStops = 1
  MaxMoves = 2
  MaxCorrections = 1
INVARIANTS
  CreditsMatchPeriods
  NoAbsenceCredited
PROPERTIES
  KeepsPromise
  EventuallySaved
CHECK_DEADLOCK FALSE
