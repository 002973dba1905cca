SPECIFICATION Spec
CONSTANTS
    Items = {1, 2, 3}
    Texts = {"text"}
    Page = 3
    Batch = 3
    SaveEvery = 2
    MaxChanges = 2
    MaxTrouble = 1
INVARIANTS
    LoadDetects
CHECK_DEADLOCK FALSE
