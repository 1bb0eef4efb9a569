SPECIFICATION Spec
CHECK_DEADLOCK FALSE
CONSTANTS
    NULL = NULL
    BufLen = 170
    ReplyRoom = 85
    MaxDomainLen = 43
    Messages <- MixedMessages
    Files <- MixedFiles
    Answers <- MixedAnswers
INVARIANTS TypeOK QueryAsksTheQuestion SectionsAreCut TtlIsLeast RulesDecide ReplyReadsBack UndefinedNeedsOddity
