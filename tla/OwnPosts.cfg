SPECIFICATION Spec
CONSTANTS
  c1 = c1 c2 = c2
  None = None
  MaxPosts = 2
  CatchUps = {c1}
  Sighted = {1}
  Batch = 2
  Limit = 1
  MaxDay = 2
  MaxDeaths = 1 MaxTurns = 1 Alongside = 1
INVARIANTS ChargedOnce DeletedStaysOut AllowanceKept
PROPERTIES SightingsEnd
CHECK_DEADLOCK FALSE
