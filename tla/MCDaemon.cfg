SPECIFICATION FairSpec
CONSTANTS
  Client = {c1}
  Effect = {e1, e2}
  Kind = {"breathe", "fade_to"}
  MaxBrightness = 2
  MaxRgb = 0
  None = None
INVARIANTS
  TypeOK
  StopsEffects
  StateNamesEffect
  HandleNotAborted
  SetNotified
PROPERTIES
  FadeEnds
