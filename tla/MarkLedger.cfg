SPECIFICATION Spec
CONSTANTS
  r1 = r1 r2 = r2 api = api hook = hook w1 = w1 w2 = w2
  None = None
  Orphan = Orphan
  Threads = {1, 2}
  Replies = {r1, r2}
  Parent <- MCParent
  Requests = {api}
  Events = {hook}
  Brings <- OneEach
  Workers = {w1, w2}
  Claims = {api}
  MaxInstant = 2
  DayOf <- MCDayOf
  PostDays = {2, 4}
  MissionDays = {3}
  MaxDelay = 1
  MaxRows = 1
  TickCap = 1
  MaxFaults = 2
  BonusXp = 1
  MissionXp = 5
INVARIANTS PaidAtMostItsTier BooksBalance StreakIsEarned
PROPERTIES LedgerGrows NotedUntilCredited NotedIsCredited
CHECK_DEADLOCK FALSE
