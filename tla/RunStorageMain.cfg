SPECIFICATION Spec
CONSTANTS
  v1 = v1
  v2 = v2
  Values = {v1, v2}
  Blank = Blank
  Zero = Zero
  Ops = {"add", "update", "fail", "set_nfailed"}
  MaxRuns = 3
  Failing = {0, 1, 126, 127}
INVARIANTS TypeOK ResultsMatchParameters
PROPERTIES KeepsRecords OnlyResultsFinish
SYMMETRY Symmetry
