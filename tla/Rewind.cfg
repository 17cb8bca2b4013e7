CONSTANTS
  x = x
  y = y
  z = z
  f1 = f1
  f2 = f2
  c1 = c1
  c2 = c2
  Files = {f1, f2}
  Contents = {x, y}
  Calls = {c1, c2}
  Absent = Absent
  Big = Big
  None = None
  MaxEntries = 2
  MaxChanges = 2
  MaxTroubles = 1
SPECIFICATION Spec
SYMMETRY Alike
INVARIANTS
  NothingIsMissing
  WidgetIsTruthful
PROPERTIES
  RestoresWhatItSays
CHECK_DEADLOCK FALSE
