SPECIFICATION Spec
CONSTANTS
  s1 = s1 s2 = s2 pulse = pulse radar = radar hook = hook page = page
  None = None
  Free = Free
  Subs = {s1, s2}
  Plans = {pulse, radar}
  Listed = {pulse}
  Webhooks = {hook}
  Confirms = {page}
  MaxTime = 4
  MaxAgain = 1
  MaxFails = 1
INVARIANTS RowTellsStripe EndedStaysOut
PROPERTY PaidIsServed
CHECK_DEADLOCK FALSE
