SPECIFICATION Spec
CHECK_DEADLOCK FALSE
CONSTANTS
    NULL = NULL
    Names <- OverlappingNames
    LongNames <- TooLong
    QTypes = {"A", "MX", "TXT"}
    Bodies = {"rrs"}
    TTLs = {1}
    CacheSize = 2
    Addr = {a1, a2, a3}
    MaxTime = 1
SYMMETRY AddrSymmetry
INVARIANTS TypeOK CountsItsCells ListOwnsCells
PROPERTIES ImplementsLru
