SPECIFICATION Spec
CONSTANTS
  Client = {c1, c2}
  Effect = {e1, e2}
  Kind = {"breathe"}
  MaxBrightness = 0
  MaxRgb = 0
  None = None
INVARIANT NoOrphan
