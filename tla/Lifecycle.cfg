CONSTANTS
    Keys = {k1, k2}
    Entity = Entity
    Callers = {w1, w2}
    Logs = {l1, l2}
    NoKey = NoKey
    NoEvent = NoEvent
    NoLog = NoLog
    None = None
SPECIFICATION Spec
SYMMETRY Symmetry
INVARIANTS SnapshotExact LogTimeOnlyDelays ReadsAgree StitchedHistoryHolds
PROPERTY HistoryOnlyGrows
CHECK_DEADLOCK FALSE
