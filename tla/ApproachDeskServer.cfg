SPECIFICATION DeskSafety
CONSTANTS
  None = None
  a = a
  b = b
  t = t
  re = re
  Threads <- MCThreads
  Scouts = {a}
  Suggestions = {}
  Kind <- MCKind
  Target <- MCTarget
  Rank <- MCRank
  Stocks <- GatedStocks
  Requests = {r1}
  MaxPosts = 0
  Desks = {d1}
  Reliable = FALSE
  MaxMoves = 2
  MaxPuts = 2
  MaxReads = 1
CHECK_DEADLOCK FALSE
PROPERTY
  ServerSpec
