SPECIFICATION Spec
CONSTANTS
  Players = {p1, p2}
  Creator = p1
  NoPlayer = NoPlayer
  Requests = {r1, r2}
  MaxPlayers = 2
  MaxVersion = 9
  MaxCrashes = 0
SYMMETRY Symmetry
PROPERTY StartsWithTwo
