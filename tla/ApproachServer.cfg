SPECIFICATION Spec
CONSTANTS
  None = None
  a = a
  b = b
  t = t
  og1 = og1
  og2 = og2
  re = re
  Threads <- MCThreads
  Scouts = {a}
  Suggestions = {og1, re}
  Kind <- MCKind
  Target <- MCTarget
  Rank <- MCRank
  Stocks <- MCStocks
  Requests = {r1, r2}
  MaxPosts = 1
SYMMETRY Presses
INVARIANTS ServedCardIsNotReleased DetectionsHold
