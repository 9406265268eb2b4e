SPECIFICATION Spec
CONSTANTS
  a = a
  b = b
  p = p
  q = q
  N = 2
  Threads = {a, b}
  ThreadOf <- OneThread
  ParentOf <- TwoThreads
  Marks <- MCMarks
  Casts <- MCCasts
  Known = {1}
  Legacy = {}
  Procs = {p, q}
  Batch = 1
  Window = 1
  None = None
  MaxFaults = 1
INVARIANTS UrlIsNoTake
PROPERTIES CreditSettles RowsSettle NothingMissed
CHECK_DEADLOCK FALSE
