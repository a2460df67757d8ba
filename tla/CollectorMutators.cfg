CONSTANTS
    Data = {d1, d2}
    Handle = {h1, h2, h3}
    GcThread = gc
    Client = {gc}
    Stack = Stack
    Gone = Gone
    Nothing = Nothing
    Program <- AllOperations
    During <- DropsOrClones
    DestructorMay = {"get", "cloneLive"}
    MaxCollections = 2
SPECIFICATION Spec
SYMMETRY Symmetry
INVARIANTS
    TypeOK
    NoLiveDataReclaimed
    OnlyWarrantedDataScanned
    ScannedGraphFrozen
    DestructorsSynchronized
    CondemnedOnce
    GarbageReclaimed
    CountNotBelowBaseline
PROPERTIES
    ImplementsPromise
CHECK_DEADLOCK FALSE
