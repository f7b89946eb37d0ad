SPECIFICATION FairSpec
CONSTANTS
  a1 = a1
  r1 = r1
  Agents = {a1}
  Runs = {r1}
  NFiles = 2
  MaxPieces = 1
  MaxTurns = 3
  MaxInFlight = 2
CHECK_DEADLOCK FALSE
INVARIANTS TypeOK AtMostOneLeftoverPass StreamsHaveOwners
PROPERTIES WholeFiles PauseIsAnswered DrainEnds ShutdownEnds IdleWorkResumes
