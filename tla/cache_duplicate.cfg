SPECIFICATION Spec
CHECK_DEADLOCK FALSE
CONSTANTS
    NULL = NULL
    Names <- PlainNames
    LongNames = {}
    QTypes = {"A"}
    Bodies = {"rrs"}
    TTLs = {2}
    CacheSize = 2
    Addr = {a1, a2, a3}
    MaxTime = 1
SYMMETRY AddrSymmetry
INVARIANTS OneRecordPerQuestion
