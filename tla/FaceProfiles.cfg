SPECIFICATION Spec
CONSTANTS
  Admins = {1, 2}
  Sessions = {1, 2}
  Rows = {1, 2}
  MaxClock = 4
INVARIANTS
  DescriptorOfPhoto
CHECK_DEADLOCK FALSE
