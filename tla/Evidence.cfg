CONSTANTS
    Pair = {a, b}
    None = None
SPECIFICATION Spec
SYMMETRY Symmetry
INVARIANTS ScanIsTheLog ConsistentIsPrefix EventsNotMissed QuorumSinceAcceptedTime WithdrawnNotUsed
CHECK_DEADLOCK FALSE
