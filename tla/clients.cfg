SPECIFICATION FairSpec
CONSTANTS
  Client = {c1, c2}
  Ip = {i1}
  Handler = {h1, h2}
  Code = {k1, k2}
  NoCode = NoCode
  NoClient = NoClient
  MaxFails = 2
  Lockout = 2
  MaxTokens = 3
  MaxChanges = 1
  MaxSteps = 1
  MaxFaults = 1
  MaxRestarts = 1
INVARIANTS TypeOK DeliveredLive GuessBound
PROPERTIES ImplementsStore LockoutEnds
CHECK_DEADLOCK FALSE
