SPECIFICATION Spec
CONSTANTS
  v0 = v0
  v1 = v1
  Values = {v0, v1}
  Blank = Blank
  Zero = Zero
  NRuns = 2
  ParOf <- TwoValues
  MaxRunFail = 2
  SaveAllRuns = TRUE
  Managers = {"abstract", "panther"}
  MaxCrashes = 3
INVARIANTS RecordedOnce OneRunPerCrash FilesAgree AllRunsHaveResults
PROPERTIES OutcomesAreKept
CHECK_DEADLOCK FALSE
