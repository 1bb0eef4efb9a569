SPECIFICATION Spec
CHECK_DEADLOCK FALSE
CONSTANTS
    NULL = NULL
    Readers = {r1, r2}
    Names = {"x", "y"}
    Family <- FamilyOf
    Versions <- EditedVersions
    Tries = {t1, t2, t3}
INVARIANTS TypeOK NeverUndefined LookupIsCurrent OnlyReadableServed NoTrieLeaks
PROPERTIES NoGapInService StableVersionIsServed ShutdownEnds ImplementsRuleTable
