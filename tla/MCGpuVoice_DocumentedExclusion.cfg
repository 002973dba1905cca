SPECIFICATION Spec
CONSTANTS
    SttCalls = {s1}
    TtsCalls = {t1}
    None = None
INVARIANTS
    DocumentedExclusion
CHECK_DEADLOCK FALSE
