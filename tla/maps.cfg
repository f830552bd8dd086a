SPECIFICATION Spec
CONSTANTS
  Country = {"KZ", "US"}
  US = "US"
  Lists <- TwoCountries
  Tile = {1, 2}
  Box <- Nested
  Own <- Nested
  StateOwn <- OneState
  AllStates = "All"
  None = None
  Torn = Torn
  Handler = {h1, h2}
  MaxAsks = 3
  MaxRestarts = 1
SYMMETRY HandlerSymmetry
INVARIANTS TypeOK Coherent TilesKept RemovedGone
 
CHECK_DEADLOCK FALSE
