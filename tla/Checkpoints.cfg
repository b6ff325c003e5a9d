SPECIFICATION FairSpec
CONSTANTS
  Verifiers = {v1, v2}
  Checkpoint <- MCCheckpoint
  Size <- MCSize
  Extends <- MCExtends
  WitnessTimes = {w1}
  MaxBatch = 2
  None = None
INVARIANTS NoSplitView
PROPERTIES NoSelfRejection ImplementsTrustedCheckpoints VerificationEnds
