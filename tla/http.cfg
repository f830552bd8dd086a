SPECIFICATION FairSpec
CONSTANTS
  MaxRequests = 3
  MaxSize = 2
  ErrorSize = 2
INVARIANTS TypeOK InStep LengthKept
PROPERTY Answered
CHECK_DEADLOCK FALSE
