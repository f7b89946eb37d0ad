SPECIFICATION Spec
CONSTANTS
  a1 = a1
  a2 = a2
  a3 = a3
  Agents = {a1, a2}
  NRuns = 2
  MaxGroup = 1
  MaxRunFail = 2
  PersistentWorkers = TRUE
  Handshaken = {a1, a2}
  MaxKillTries = 2
  MaxQueue = 2
  AllowStop = FALSE
  MaxJoin = 0
  Reliable = {}
INVARIANTS TypeOK NoRunLost ActiveMapMatches FinishedRunsStop EveryCopyAnswers OnlyKillsReachABusyAgent FailuresRecorded
SYMMETRY Symmetry
