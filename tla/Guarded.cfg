CONSTANTS
    Reader = {r1, r2}
    Writer = {w1, w2}
    Worker = {k1, k2}
    Signpost = 4
    Nobody = Nobody
SPECIFICATION GuardedSpec
INVARIANTS
    GuardedTypeOK
    CountIsHolders
    NoLostWakeup
    ScanFindsLockFree
    ScanUnseen
PROPERTIES
    ImplementsWarrants
    SleeperWoken
