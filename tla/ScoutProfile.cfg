SPECIFICATION Spec
CONSTANTS
  ann = ann
  bob = bob
  api = api
  hook0 = hook0
  Users = {ann, bob}
  Procs = {api, hook0}
  Installed = {api}
  Readers <- MCReaders
  Facts = {none, x}
  NoFacts = none
  None = None
  Attempts = 2
  MaxRev = 3
  Changes <- MCChanges
  MaxFaults = 1
INVARIANTS ReadIsFresh
PROPERTIES NeverOlder ChangesProjected
CHECK_DEADLOCK FALSE
