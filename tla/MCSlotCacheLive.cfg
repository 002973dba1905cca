SPECIFICATION FairSpec
CONSTANTS
    Kinds = {"Ik"}
    MaxStarts = 2
    MaxRequests = 2
PROPERTIES
    ChangeIsSaved
CHECK_DEADLOCK FALSE
