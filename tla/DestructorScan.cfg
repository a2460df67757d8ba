CONSTANTS
    Data = {d1, d2}
    Handle = {h1, h2, h3}
    GcThread = gc
    Client = {gc}
    Stack = Stack
    Gone = Gone
    Nothing = Nothing
    Program <- AllOperations
    During <- NoMutators
    DestructorMay = {"cloneDead"}
    MaxCollections = 2
SPECIFICATION Spec
SYMMETRY Symmetry
INVARIANTS
    OnlyWarrantedDataScanned
CHECK_DEADLOCK FALSE
