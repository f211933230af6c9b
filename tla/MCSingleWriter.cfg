SPECIFICATION Spec
CONSTANTS
  Daemon = {d1, d2}
  Cli = {c1, c2}
  Ui = {}
  Permits = 2
  Polls = 1
  MaxKill = 0
  Stale = Stale
  None = None
INVARIANT SingleWriter
CHECK_DEADLOCK FALSE
