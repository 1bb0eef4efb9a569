SPECIFICATION Spec
CHECK_DEADLOCK FALSE
CONSTANTS
    NULL = NULL
    Names <- TwoNames
    LongNames = {}
    QTypes = {"A", "AAAA"}
    Bodies = {"rrs"}
    TTLs = {1}
    CacheSize = 5
    Addr = {a1, a2, a3, a4, a5}
    MaxTime = 2
SYMMETRY AddrSymmetry
INVARIANTS IndexMatchesList NeverUndefined AnswersItsQuestion
