CONSTANTS
    Reader = {r1}
    Writer = {w1}
    Sentinel = 4
    MaxTracker = 8
    MaxCalls = 3
    Nobody = Nobody
    Data = {d1, d2}
    Cell = {c1}
    Nothing = Nothing
    Programs = {{"new"}, {"drop"}}
    Stack = {s1}
SPECIFICATION AtomicGcSpec
INVARIANTS
    AtomicGcTypeOK
    TrackerCounts
    AtomicGcNeverDangles
    AtomicGarbageReclaimed
PROPERTIES
    ImplementsWarrants
    CallsComplete
    AtomicPointersFrozen
CHECK_DEADLOCK FALSE
