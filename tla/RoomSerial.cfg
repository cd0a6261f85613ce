SPECIFICATION FairSpec
CONSTANTS
  Players = {p1, p2, p3}
  Creator = p1
  NoPlayer = NoPlayer
  Requests = {r1}
  MaxPlayers = 3
  MaxVersion = 16
  MaxCrashes = 1
PROPERTIES KeepsLifecycle PlacesStand DoneRaceEnds FinishersGetPlaces EmptyRoomCloses
