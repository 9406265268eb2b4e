SPECIFICATION EventsSpec
CONSTANTS
  Tabs = {t1}
  BufferSize = 2
  NoId = NoId
  MaxSeq = 3
  MaxBoots = 2
  MaxCuts = 3
CHECK_DEADLOCK FALSE
INVARIANTS
  OnceInOrder
  NoGap
PROPERTIES
  EventArrives
