SPECIFICATION Spec
CONSTANTS
    Bases = {"kick", "lead"}
    FileNames <- KickOnly
    NewNames <- LeadNames
    MaxImports = 3
    Conns = {c1, c2}
    Methods <- AllMethods
    ParamNames <- KickOnly
    SessionName = "goofball_flabby"
    MaxRequests = 2
    MaxLost = 1
CONSTRAINT AtMostThree
SYMMETRY ConnSymmetry
CHECK_DEADLOCK FALSE
INVARIANTS
    TypeOK
    OwnsLive
    PlainNameOnce
    RepliesInOrder
    
