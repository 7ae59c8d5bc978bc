SPECIFICATION CaptureSpec
CONSTANTS
  MaxAttempts = 1
  PageRetries = 3
  ServerRetries = 3
INVARIANTS
  StepsAgree
  VerifiedIsReviewed
PROPERTIES
  AttemptEnds
CHECK_DEADLOCK FALSE
