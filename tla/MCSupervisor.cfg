SPECIFICATION FairSpec
CONSTANTS
    Failures = 2
    MaxStarts = 2
INVARIANTS
    TypeOK
    OneProcess
    DeservedStop
PROPERTIES
    ImplementsRuns
    HangIsFound
    ExitLeadsToStart
    StopEnds
CHECK_DEADLOCK FALSE
