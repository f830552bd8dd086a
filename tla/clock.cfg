SPECIFICATION Spec
CONSTANTS
  N = 4
  Window = 5
  Late = 4
  Cold = 3000
  Lags = {60, 9000}
  Day = 1440
  MaxTime = 4
INVARIANTS TypeOK OneTimeline TrueTimeline LiveHonest
