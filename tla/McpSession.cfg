SPECIFICATION Spec
CONSTANTS
  Servers = {v1}
  Project = {v1}
  Calls = {i1, i2}
  MaxSessions = 2
  MaxBusy = 1
INVARIANTS
  ClientsAreKnown
PROPERTIES
  SweepIsSafe
  EveryCallEnds
CHECK_DEADLOCK FALSE
