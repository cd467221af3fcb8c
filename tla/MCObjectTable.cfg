CONSTANTS
    a1 = a1
    a2 = a2
    a3 = a3
    a4 = a4
    t1 = t1
    t2 = t2
    k1 = k1
    k2 = k2
    Addrs <- MCAddrs
    Tables <- MCTables
    Comparable <- MCComparable
    OtherKeys = {nil}
    PlainValues = {v1}
    MapValues = {map}
    NullMap = NullMap
    NoValue = NoValue
    Null = Null
    FirstCapacity = 2
SYMMETRY Symmetry
SPECIFICATION Spec
INVARIANTS TypeOK PairsOwned
PROPERTY ImplementsMap
