SPECIFICATION FairSpec
CONSTANTS
  Segment <- ThreeSegments
  Route = {1, 2}
  NoRoute = NoRoute
  RouteOf <- TwoDrives
  Corrupt = {3}
  Deletable = {}
  Handler = {}
  OnroadBatch = 1
  OffroadBatch = 1
  MaxTroubles = 2
INVARIANTS TypeOK
PROPERTIES ImplementsIndex SettledIndexed GoneSwept
CHECK_DEADLOCK FALSE
