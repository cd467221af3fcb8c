SPECIFICATION Spec
CONSTANTS
    Methods = {"test/ping", "samplelist/import", "session/create"}
    Texts = {"kick"}
    Empty = ""
    Requests <- FlatRequests
    Rests <- ForgedRests
    IdModulus = 4
    MaxRequests = 3
INVARIANTS
    TypeOK
    WholeAsSent
    AsSentUpToCut
PROPERTIES
    EveryRequestDispatched
