SPECIFICATION Spec
CONSTANTS
  Players = {p1, p2, p3}
  Creator = p1
  NoPlayer = NoPlayer
  Requests = {r1, r2}
  MaxPlayers = 2
  MaxVersion = 10
  MaxCrashes = 0
SYMMETRY Symmetry
INVARIANTS TypeOK Capacity RunsOnlyInRace NobodyWaitsInRace CompletedIsDone
PROPERTIES OnlyActivationIsLate OnlyProgressIsUnversioned ChecksHoldAtCommit
