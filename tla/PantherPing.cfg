SPECIFICATION Spec
CONSTANTS
  MaxFailedPings = 2
  MaxUnread = 4
INVARIANTS SilentAgentIsDropped
CHECK_DEADLOCK FALSE
