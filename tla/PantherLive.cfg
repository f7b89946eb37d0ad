SPECIFICATION FairSpec
CONSTANTS
  a1 = a1
  a2 = a2
  a3 = a3
  Agents = {a1, a2}
  NRuns = 1
  MaxGroup = 1
  MaxRunFail = 2
  PersistentWorkers = TRUE
  Handshaken = {a1, a2}
  MaxKillTries = 2
  MaxQueue = 2
  AllowStop = FALSE
  MaxJoin = 0
  Reliable = {a1}
PROPERTIES RunReturns AgentRecovers
