SPECIFICATION Spec
CONSTANTS
  Windows = {1, 2}
  MaxSessions = 1
  MaxWrites = 2
  MaxFiles = 2
  MaxTurns = 2
  MaxMoves = 3
  MaxTroubles = 1
CHECK_DEADLOCK FALSE
INVARIANTS
  StoreIsTrue
  FileIsTrue
PROPERTIES
  TurnsReachTheFile
