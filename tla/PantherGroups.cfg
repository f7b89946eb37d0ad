SPECIFICATION HistSpec
CONSTANTS
  a1 = a1
  a2 = a2
  Agents = {a1, a2}
  NRuns = 1
  MaxGroup = 2
  MaxRunFail = 2
  PersistentWorkers = TRUE
  Handshaken = {a1, a2}
  MaxKillTries = 2
  MaxQueue = 2
  AllowStop = TRUE
  MaxJoin = 0
  Reliable = {}
INVARIANTS ResultsAreOfThisGroup AttemptsBoundFailures FailedRunsAreKept StopLeavesOnlyCutRuns
PROPERTIES KeepsContract
SYMMETRY Symmetry
