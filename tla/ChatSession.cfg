CONSTANTS
  s1 = s1
  s2 = s2
  home = home
  None = None
  Sessions = {s1}
  MaxBoots = 3
  MaxPipe = 1
  SpawnFaults = {"error", "throws"}
  RunsTurns = TRUE
  Profile = home
SPECIFICATION Spec
INVARIANTS
  PisAreAccountedFor
  DeathIsNoticed
PROPERTIES
  UsesQueueAsAssumed
  RestartsEnd
