CHECK_DEADLOCK FALSE
CONSTANTS
  a = a
  b = b
  w1 = w1
  w2 = w2
  l1 = l1
  None = None
  Names = {a, b}
  First = a
  Windows = {w1, w2}
  Lists = {l1}
  Slice = 2
  MaxDepth = 1
  MaxWrites = 3
  MaxTroubles = 1
  MaxAsked = 3
  MaxOpened = 1
  MaxListed = 2
SPECIFICATION Spec
SYMMETRY Alike
INVARIANTS
  FilesAreKept
  TalkStaysTogether
  CachedNameIsNewest
