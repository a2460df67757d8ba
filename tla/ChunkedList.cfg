CONSTANTS
    Thread = {t1, t2}
    Item = {v1, v2, v3}
    ChunkSize = 1
    MaxChunks = 3
    Walks = {"retain"}
    Empty = Empty
SPECIFICATION FairSpec
INVARIANTS
    TypeOK
    SlotsConserved
    NoItemLost
    EstimateExact
PROPERTIES
    CallsReturn
    ImplementsEnumeration
CHECK_DEADLOCK FALSE
