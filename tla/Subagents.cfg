CONSTANTS
  Count = 3
  Limit = 2
  MaxOutside = 1
SPECIFICATION TasksSpec
INVARIANTS
  CallsEndClean
PROPERTIES
  ImplementsPool
  ObedientCallsReturn
