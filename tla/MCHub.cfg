SPECIFICATION HubSpec
CONSTANTS
    Conns = {c1, c2}
INVARIANTS
    CountIsTrue
    NoChildLeft
PROPERTIES
    HealthTells
    ExitUnlessBlocked
CHECK_DEADLOCK FALSE
