SPECIFICATION FairSpec
CONSTANTS
  State = {s1}
  Label = {"Connected", "Disconnected"}
  Chunk = 3
  RingCap = 1
  InCap = 3
  OutCap = 1
  MaxRequests = 4
  MaxCrash = 1
  MaxEvents = 1
  None = None
INVARIANTS
  TypeOK
  ShowsNewest
  StatusHonest
  ListCoversSaves
PROPERTIES
  Serves
  Reconnects
  NoRequestStarves
