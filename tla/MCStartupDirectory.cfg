SPECIFICATION Spec
CONSTANTS
    Procs = {p1, p2}
    FirstPort = 3
    PortModulus = 9
    Foreign = {}
INVARIANTS
    ServersRegistered
