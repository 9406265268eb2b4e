SPECIFICATION Spec
CONSTANTS
  o1 = o1 o2 = o2 re = re t1 = t1 t2 = t2 q1 = q1 q2 = q2
  None = None
  NoChoice = NoChoice
  Ideas = {o1, o2, re}
  Kind <- MCKind
  Alike <- MCAlike
  Picks <- MCPicks
  Ticks = {t1, t2}
  Requests = {q1, q2}
  MaxBatches = 2
  MaxRefills = 1
  MaxDay = 2
  MaxMoves = 3
  MaxFaults = 1
SYMMETRY AnyOrder
INVARIANTS OneDigest VetoKept LadderIsTrue
PROPERTY SettledOnce
CHECK_DEADLOCK FALSE
