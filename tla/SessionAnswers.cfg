SPECIFICATION Spec
CONSTANTS
  Requests = {r1, r2}
  Workers = {w1}
  Mode = "PRACTICE"
  ListLength = 1
  CycleLength = 1
  MaxCalls = 2
  MaxStalls = 1
  MaxCrashes = 1
SYMMETRY Symmetry
INVARIANTS TypeOK OnlyLastOpen AttemptsCoverSolves EveryAnswerCounts
