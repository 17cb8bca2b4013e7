CONSTANTS
  main = main
  c1 = c1
  c2 = c2
  c3 = c3
  f1 = f1
  f2 = f2
  f3 = f3
  f4 = f4
  None = None
  Children = {c1, c2, c3}
  Main = main
  Files = {f1, f2, f3, f4}
  OnDisk = {f1, f2}
  MaxChildren = 2
  MaxSessions = 3
  MaxMoves = 1
SPECIFICATION Spec
SYMMETRY Alike
INVARIANTS
  WindowsHaveTheirOwn
  OneWriterUnlessMoved
  LostOnlyByRace
