SPECIFICATION FairSpec
CONSTANTS
  Daemon = {d1, d2, d3}
  Cli = {c1, c2}
  Ui = {u1}
  Permits = 2
  Polls = 1
  MaxKill = 1
  Stale = Stale
  None = None
INVARIANTS
  TypeOK
  ListenerReachable
  CallsAnswered
PROPERTIES
  CallsEnd
CHECK_DEADLOCK FALSE
