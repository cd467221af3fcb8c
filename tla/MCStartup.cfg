SPECIFICATION Spec
CONSTANTS
    Procs = {p1, p2, p3}
    FirstPort = 3
    PortModulus = 9
    Foreign = {4}
INVARIANTS
    TypeOK
    PortsPacked
PROPERTIES
    SearchEnds
