SPECIFICATION Spec
CONSTANTS
  N = 5
  Window = 5
  Late = 4
  Cold = 3000
  Lags = {9000}
  Day = 1440
  MaxTime = 5
INVARIANT LargestWins
