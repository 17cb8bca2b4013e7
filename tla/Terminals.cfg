CONSTANTS
  a1 = a1
  a2 = a2
  a3 = a3
  w1 = w1
  w2 = w2
  s1 = s1
  home = home
  None = None
  Closed = Closed
  Keys = {home}
  Takers = {a1, a2, a3}
  Watchers = {w1, w2}
  Shells = {s1}
  MaxRestarts = 1
  KeyOf <- MCKeyOf
SPECIFICATION TSpec
INVARIANTS
  QueueIsTrue
  TurnsGoOn
  OverlapIsPaidFor
  TerminalsAreReachable
PROPERTIES
  EveryCallIsAnswered
  ServesInTurn
