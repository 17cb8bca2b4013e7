SPECIFICATION Spec
CONSTANTS
  Main = main
  Children = {c1}
  Notifier = notifier
  None = none
  MaxPending = 2
  Repeats = 2
  MaxRequests = 3
  MaxUnread = 1
INVARIANTS
  ListIsTrue
  BoardIsTrue
  RemindersHaveReasons
CHECK_DEADLOCK FALSE
