CONSTANTS
    Pair = {k1, k2}
    Verifiers = {v1, v2}
    None = None
SPECIFICATION Spec
SYMMETRY Symmetry
INVARIANTS AcceptedOnce EvidenceHoldsSigner  LimiterExact SentToItsAudience
CHECK_DEADLOCK FALSE
