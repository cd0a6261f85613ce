SPECIFICATION Spec
CONSTANTS
  Publishers = {1}
  MaxWork = 2
  MaxFaults = 1
CHECK_DEADLOCK FALSE
INVARIANT ReconnectResetsOrdering
