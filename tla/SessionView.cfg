CONSTANTS
  f1 = f1
  f2 = f2
  f3 = f3
  None = None
  Files = {f1, f2, f3}
  First = f1
  UserOps = 3
  MaxTurns = 2
  MaxLines = 2
  Kinds = {"hydrate", "switch", "new", "fork", "revert", "rename", "prompt"}
SPECIFICATION ViewSpec
SYMMETRY NewFiles
INVARIANTS
  ViewIsPis
  StreamingIsPis
