SPECIFICATION Spec
CONSTANTS
  N = 3
  Recorded = 1
  Clip <- Clips
  Handler = {h1}
  Worker = {w1}
  Nobody = Nobody
  Cap = 2
INVARIANT CachedWhole
