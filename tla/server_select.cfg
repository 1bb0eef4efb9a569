SPECIFICATION Spec
CHECK_DEADLOCK FALSE
CONSTANTS
    NULL = NULL
    r4 = r4
    r6 = r6
    Requests = {r4, r6}
    Via <- OneOfEach
    Workers = {w1}
    FirstFd = 3
    MaxErrors = 1
PROPERTIES EveryDatagramIsRead
