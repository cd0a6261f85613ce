SPECIFICATION Spec
CONSTANTS
  Players = {p1, p2, p3}
  Creator = p1
  NoPlayer = NoPlayer
  Requests = {r1}
  MaxPlayers = 3
  MaxVersion = 16
  MaxCrashes = 0
SYMMETRY Symmetry
INVARIANT NoPlaceClash

