SPECIFICATION Spec
CONSTANTS
    Methods = {"test/ping", "samplelist/import", "session/create"}
    Texts = {"kick"}
    Empty = ""
    Requests <- NestedRequests
    Rests <- ForgedRests
    IdModulus = 4
    MaxRequests = 2
INVARIANTS
    WholeAsSent
