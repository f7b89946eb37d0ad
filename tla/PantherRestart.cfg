SPECIFICATION Spec
CONSTANTS
  v0 = v0
  v1 = v1
  Values = {v0, v1}
  Blank = Blank
  Zero = Zero
  NRuns = 2
  ParOf <- TwoValues
  MaxRunFail = 2
  SaveAllRuns = FALSE
  Managers = {"panther"}
  MaxCrashes = 2
INVARIANTS RestartGoesOn
CHECK_DEADLOCK FALSE
