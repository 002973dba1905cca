SPECIFICATION CommandsSpec
CONSTANTS
    MaxStarts = 3
    Hosts <- HostFacts
    Numeral <- McNumeral
    Names <- McNames
    Cores = 12
    Word = 32768
    MAX_STRING = 40
    NotText = "no text"
    Lines <- McLines
    Cases <- McCases
    Upstream <- McUpstream
    Questions <- McQuestions
    Repeat = 1
    Replies <- McReplies
    NoTool = "none"
    Speeds <- McSpeeds
INVARIANTS
    ReplacementDeserved
PROPERTIES
    WholeOrRefused
    CachedStays
    EvalEnds
CHECK_DEADLOCK FALSE
