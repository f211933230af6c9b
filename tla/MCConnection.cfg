SPECIFICATION FairSpec
CONSTANTS
  Level = {0, 1}
  Color = {black, red}
  NoColor = black
  QueueCap = 1
  ScanRounds = 1
  GattAttempts = 1
INVARIANTS
  TypeOK
  HandlesHeld
  StripFollowsLastState
PROPERTIES
  ChannelDrains
  EndHonoured
  ConnectShows
  WantedKept
