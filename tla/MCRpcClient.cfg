SPECIFICATION Spec
CONSTANTS
    Calls = {g1, g2}
    MaxBack = 1
CHECK_DEADLOCK FALSE
INVARIANTS
    TypeOK
    OwnResponse
    DeliverNeverBlocks
PROPERTIES
    ReleasedOnClose
