SPECIFICATION Spec
CHECK_DEADLOCK FALSE
CONSTANTS
    NULL = NULL
    Names <- TwoNames
    LongNames = {}
    QTypes = {"A"}
    CacheSize = 3
    Addr = {a1, a2, a3}
    MaxTime = 1
    Workers = {w1, w2}
    Requests = {r1, r2}
    Messages <- MixedMessages
    Rules <- NewRules
    Upstream <- MixedRecords
    IdModulus = 2
    Rto = 500
    MaxSockets = 3
INVARIANTS TypeOK EachRequestInOnePlace OneReply RecordsMatchQuestions ReloadTakesEffect
PROPERTIES FinishesWithSockets
