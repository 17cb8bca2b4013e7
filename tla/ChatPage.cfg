CONSTANTS
  Stored <- OldTalk
  Chunk = 2
  Kinds = {"prompt", "local", "command"}
  MaxTyped = 2
  MaxHydrations = 1
  MaxMoves = 1
  MaxErrors = 1
  Unset = Unset
SPECIFICATION PageSpec
INVARIANTS
  PageIsHistory
  RowsAreOwn
  StatusIsTrue
