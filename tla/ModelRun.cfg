SPECIFICATION Spec
CONSTANTS
  r1 = r1
  r2 = r2
  Runs = {r1, r2}
  NInputs = 2
  NOutputs = 2
  NThreads = 2
  NCommands = 2
  MaxRunFail = 2
  RestartOnError = FALSE
INVARIANTS TypeOK ModelHasItsInputs NoModelLeftBehind
PROPERTIES OnlyCompleteRunsFinish JoinReturns StopReturns KeepsContract
CHECK_DEADLOCK FALSE
