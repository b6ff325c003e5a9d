SPECIFICATION RaceSpec
CONSTANTS
  Callers = {p1, p2}
  TTLs = {0, 1, 2}
  Interval = 0
  MaxOps = 3
  MaxTime = 1
  NoEvidence = NoEvidence
SYMMETRY CallerSymmetry
INVARIANTS FenceExact RemovedStaysRemoved LeavingCancelsOnlyOwnWork EvictionReachesCallers
PROPERTIES NothingComesBack
