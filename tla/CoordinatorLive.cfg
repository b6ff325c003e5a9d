SPECIFICATION FairSpec
CONSTANTS
  Callers = {p1, p2}
  TTLs = {1}
  Interval = 1
  MaxOps = 2
  MaxTime = 1
  NoEvidence = NoEvidence
PROPERTY WaitersReturn
