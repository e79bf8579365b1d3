SPECIFICATION StorageSpec
CONSTANTS
    Callers = {t1, t2}
    Keys = {k1, k2}
    Fields = {f1, f2}
    States = {s1, s2}
    NoState = "none"
    MaxCalls = 3
    MaxRaises = 1
SYMMETRY Symmetry
INVARIANTS RowsAsAsked SnapshotStays
PROPERTIES TransitionKeepsData
CHECK_DEADLOCK FALSE
