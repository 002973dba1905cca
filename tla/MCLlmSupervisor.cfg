SPECIFICATION Spec
CONSTANTS
    MaxStarts = 3
    Hosts <- AllHosts
INVARIANTS
    TypeOK
    BanHolds
    BanDeserved
    OneReplacement
    DocumentedEngine
CHECK_DEADLOCK FALSE
