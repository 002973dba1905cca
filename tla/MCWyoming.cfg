SPECIFICATION WyomingSpec
CONSTANTS
    SttCalls = {s1}
    TtsCalls = {t1}
    None = None
    Full = Full
    Few = Few
    Conns <- MCConns
    Events <- MCEvents
    Wavs <- MCWavs
    MaxEvents = 4
INVARIANTS
    AnswersInOrder
    NoOrphan
PROPERTIES
    OnlyHangsWait
CHECK_DEADLOCK FALSE
