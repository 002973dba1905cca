SPECIFICATION Spec
CONSTANTS
    Kinds = {"LlamaCpp", "Ik"}
    MaxStarts = 2
    MaxRequests = 2
INVARIANTS
    TypeOK
    OwnFormat
    RestoreOnce
PROPERTIES
    GoodFileKept
CHECK_DEADLOCK FALSE
