SPECIFICATION FairSpec
CONSTANTS
  Players = {p1, p2}
  Creator = p1
  NoPlayer = NoPlayer
  Requests = {r1, r2}
  MaxPlayers = 2
  MaxVersion = 8
  MaxCrashes = 0
PROPERTIES CountdownResolves DoneRaceEnds FinishersGetPlaces EmptyRoomCloses
