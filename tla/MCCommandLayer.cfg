SPECIFICATION FairSpec
CONSTANTS
  c1 = c1
  e1 = e1
  s1 = s1
  s2 = s2
  Caller = {c1, e1}
  Abortable = {e1}
  Flusher = flusher
  State = {s1, s2}
  Wants <- MCWants
  None = None
  Gap = {1, 2}
  InitGap = 2
  MaxGap = 2
  Delay = 1
  Horizon = 5
INVARIANTS
  TypeOK
  NothingLost
PROPERTIES
  FlushKeepsGap
  DeliversLatest
  PendingFlushed
  AppliesReturn
  ShutdownJoins
