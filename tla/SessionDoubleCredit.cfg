SPECIFICATION Spec
CONSTANTS
  Requests = {r1}
  Workers = {w1}
  Mode = "PRACTICE"
  ListLength = 2
  CycleLength = 2
  MaxCalls = 2
  MaxStalls = 0
  MaxCrashes = 0
INVARIANT CreditedOnce
