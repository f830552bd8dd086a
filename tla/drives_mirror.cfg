SPECIFICATION Spec
CONSTANTS
  Segment <- TwoSegments
  Route = {1}
  NoRoute = NoRoute
  RouteOf <- SameDrive
  Corrupt = {}
  Deletable = {1}
  Handler = {h1}
  OnroadBatch = 1
  OffroadBatch = 2
  MaxTroubles = 2
INVARIANTS MirrorExact ParseOnce ProgressHonest ThumbFirst
PROPERTIES NoIndexLoss
CHECK_DEADLOCK FALSE
