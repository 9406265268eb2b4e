SPECIFICATION FlightSpec
CONSTANTS
  a = a
  b = b
  talk = talk
  Cards = {a, b}
  Conversations = {talk}
  ConversationOf <- MCConversationOf
  Flights = {f1, f2}
  DailyLimit = 1
  Pool = 1
  BucketSize = 1
  TargetCool = 2
  MaxSearches = 2
  MaxAttempts = 2
  MaxReads = 1
  MaxDays = 2
  MaxCrashes = 1
CHECK_DEADLOCK FALSE
INVARIANTS
  LimitsKept
  SortiesTrue
PROPERTIES
  ConsumedStaysOut
  FlightEnds
