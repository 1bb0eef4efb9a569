SPECIFICATION Spec
CHECK_DEADLOCK FALSE
CONSTANTS
    NULL = NULL
    Names <- TwoNames
    LongNames = {}
    QTypes = {"A"}
    CacheSize = 3
    Addr = {a1, a2, a3}
    MaxTime = 0
    Workers = {w1}
    Requests = {r1}
    Messages <- PairMessages
    Rules <- NoRules
    Upstream <- OneRecord
    IdModulus = 2
    Rto = 500
    MaxSockets = 9
INVARIANTS CountsMatchRecords
