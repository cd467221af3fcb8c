SPECIFICATION Spec
CONSTANTS
    Objects <- AllObjects
    MaxDepth = 2
    Depth <- DepthOfAll
    Methods = {"tick", "a very long name"}
    LongMethods = {"a very long name"}
    MsgIds = {7}
    Empty = ""
    ArrayCapFirst = 1
    MaxParams = 2
    MaxLen = 3
INVARIANTS
    TypeOK
    NotificationArrives
    ResponseArrives
    PartRefused
