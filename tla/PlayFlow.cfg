SPECIFICATION FairSpec
CONSTANTS
  None = "none"
  Users = {"ann"}
  Requests = {1, 2}
  Rounds = 2
  MaxCalls = 2
  MaxFaults = 1
  MaxPolls = 1
INVARIANTS PageTypeOK ScoresFollowRuns
PROPERTIES PageCatchesUp
CHECK_DEADLOCK FALSE
