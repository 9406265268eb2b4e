SPECIFICATION DeskSpec
CONSTANTS
  None = None
  a = a
  b = b
  t = t
  re = re
  Threads <- MCThreads
  Scouts = {a, b}
  Suggestions = {re}
  Kind <- MCKind
  Target <- MCTarget
  Rank <- MCRank
  Stocks <- OneStock
  Requests = {r1}
  MaxPosts = 0
  Desks = {d1}
  Reliable = TRUE
  MaxMoves = 2
  MaxPuts = 3
  MaxReads = 2
CHECK_DEADLOCK FALSE
INVARIANTS
  CardAgreement
PROPERTY
  Convergence
