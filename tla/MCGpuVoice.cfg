SPECIFICATION Spec
CONSTANTS
    SttCalls = {s1, s2}
    TtsCalls = {t1, t2}
    None = None
INVARIANTS
    TypeOK
    Exclusion
    LostAfterThree
CHECK_DEADLOCK FALSE
