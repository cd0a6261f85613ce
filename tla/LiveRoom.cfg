SPECIFICATION FairSpec
CONSTANTS
  Publishers = {1}
  MaxWork = 2
  MaxFaults = 1
INVARIANTS TypeOK NoGhostConnection
CHECK_DEADLOCK FALSE
PROPERTIES PushNeverGoesBack CommittedReachesPage Resubscribes LivePlayerIsConnected
