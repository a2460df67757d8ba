CONSTANTS
    Data = {d1, d2}
    Handle = {h1, h2}
    GcThread = gc
    Client = {gc}
    Stack = Stack
    Gone = Gone
    Nothing = Nothing
    Program <- AllOperations
    During <- NoClones
    DestructorMay = {"get", "cloneLive", "cloneDead"}
    MaxCollections = 2
SPECIFICATION FairSpec
INVARIANTS
    GuardedDataAlive
PROPERTIES
    CollectionEnds
CHECK_DEADLOCK FALSE
