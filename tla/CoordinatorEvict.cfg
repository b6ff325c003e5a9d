SPECIFICATION EvictedSpec
CONSTANTS
  Callers = {p1, p2}
  TTLs = {2}
  Interval = 0
  MaxOps = 4
  MaxTime = 1
  NoEvidence = NoEvidence
SYMMETRY CallerSymmetry
INVARIANT EvictForcesReverification
