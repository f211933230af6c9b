SPECIFICATION FairSpec
CONSTANTS
  Calibration = {t1, t2}
  Candidates <- MCCandidates
  Tests = 3
  Attempts = 3
INVARIANTS
  TypeOK
  GapTested
  GapMeasured
PROPERTIES
  CalibrationEnds
