SPECIFICATION Spec
CONSTANTS
  State = {s1}
  Label = {"Connected", "Disconnected"}
  Chunk = 3
  RingCap = 1
  InCap = 3
  OutCap = 1
  MaxRequests = 4
  MaxCrash = 0
  MaxEvents = 1
  None = None
INVARIANT EveryLineRead
