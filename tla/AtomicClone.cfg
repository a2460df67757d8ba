CONSTANTS
    Reader = {r1}
    Writer = {w1}
    Sentinel = 4
    MaxTracker = 8
    MaxCalls = 1
    Nobody = Nobody
    Data = {d1, d2}
    Cell = {c1}
    Stack = {s1, s2}
    Nothing = Nothing
    Programs = {{"new"}, {"drop"}}
SPECIFICATION CloningSpec
INVARIANTS
    AtomicGcNeverDangles
CHECK_DEADLOCK FALSE
