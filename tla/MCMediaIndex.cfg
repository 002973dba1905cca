SPECIFICATION FairSpec
CONSTANTS
    Items = {1, 2}
    Texts = {"old", "new"}
    Page = 1
    Batch = 1
    SaveEvery = 2
    MaxChanges = 2
    MaxTrouble = 1
INVARIANTS
    TypeOK
    Settled
    OwnVectors
    SavedWhenIdle
PROPERTIES
    Follows
CHECK_DEADLOCK FALSE
