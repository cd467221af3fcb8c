SPECIFICATION FairSpec
CONSTANTS
    Conns = {c1, c2}
    ReadMax = 2
    BufferFirst = 2
    BufferLimit = 2
    ConnCapFirst = 1
    MaxWrites = 1
INVARIANTS
    TypeOK
    RegistrySound
    CloseOnce
    NothingKeptBetweenReads
    WriteTargetAllocated
    StoresInBounds
PROPERTIES
    ImplementsConnections
    ClosingIsFreed
    ShutdownCompletes
