SPECIFICATION Spec
CONSTANTS
  p1 = p1 p2 = p2 p3 = p3 ann = ann bob = bob
  None = None
  Procs = {p1, p2, p3}
  Users = {ann, bob}
  UserOf <- MCUserOf
  Nested = {p2}
  Patience = 0
  Limit = 1
  MaxDies = 1
INVARIANTS OneAdopter
PROPERTIES NothingOverwritten PromiseSpec RequestsEnd
CHECK_DEADLOCK FALSE
