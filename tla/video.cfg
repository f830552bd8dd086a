SPECIFICATION Spec
CONSTANTS
  N = 3
  Recorded = 2
  Clip <- Clips
  Handler = {h1}
  Worker = {w1}
  Nobody = Nobody
  Cap = 2
INVARIANTS TypeOK BuildsMissing AllOrNothing CapHolds
PROPERTY TrimOldest
