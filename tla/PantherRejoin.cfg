SPECIFICATION Spec
CONSTANTS
  a1 = a1
  a2 = a2
  a3 = a3
  Agents = {a1, a2}
  NRuns = 1
  MaxGroup = 1
  MaxRunFail = 2
  PersistentWorkers = FALSE
  Handshaken = {}
  MaxKillTries = 2
  MaxQueue = 2
  AllowStop = FALSE
  MaxJoin = 3
  Reliable = {}
INVARIANTS FailureBytesBounded
PROPERTIES KeepsContract
SYMMETRY Symmetry
