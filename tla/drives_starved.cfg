SPECIFICATION FairSpec
CONSTANTS
  Segment <- ThreeSegments
  Route = {1}
  NoRoute = NoRoute
  RouteOf <- LongDrive
  Corrupt = {2, 3}
  Deletable = {}
  Handler = {}
  OnroadBatch = 1
  OffroadBatch = 2
  MaxTroubles = 0
PROPERTIES FinishedIndexed
CHECK_DEADLOCK FALSE
