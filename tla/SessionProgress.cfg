SPECIFICATION FairSpec
CONSTANTS
  Requests = {r1, r2}
  Workers = {w1}
  Mode = "DAILY"
  ListLength = 2
  CycleLength = 1
  MaxCalls = 2
  MaxStalls = 0
  MaxCrashes = 1
PROPERTIES ExpiredEnds MovesOn CorrectIsScored
