SPECIFICATION FairSpec
CONSTANTS
  Second = 2
  Interval = 8
  Retry = 6
  Burst = 3
  MaxDrops = 2
INVARIANTS TypeOK Announced EndsCleanly
PROPERTY Stops
CHECK_DEADLOCK FALSE
