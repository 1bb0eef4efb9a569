SPECIFICATION Spec
CHECK_DEADLOCK FALSE
CONSTANTS
    NULL = NULL
    Names <- TwoNames
    LongNames = {}
    QTypes = {"A"}
    CacheSize = 3
    Addr = {a1, a2, a3}
    MaxTime = 0
    Workers = {w1, w2}
    Requests = {r1, r2}
    Messages <- PlainMessages
    Rules <- NoRules
    Upstream <- OneRecord
    IdModulus = 2
    Rto = 5000
    MaxSockets = 9
PROPERTIES EveryRequestFinishes
