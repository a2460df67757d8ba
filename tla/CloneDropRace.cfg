CONSTANTS
    Data = {d1}
    Handle = {h1, h2}
    GcThread = gc
    Client = {gc}
    Stack = Stack
    Gone = Gone
    Nothing = Nothing
    Program <- AllOperations
    During <- Unrestricted
    DestructorMay = {}
    MaxCollections = 1
SPECIFICATION Spec
SYMMETRY Symmetry
INVARIANTS
    NoLiveDataReclaimed
CHECK_DEADLOCK FALSE
