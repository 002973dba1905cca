SPECIFICATION ServerSpec
CONSTANTS
    Requests = {"r1", "r2"}
    Asked <- McAsked
    Users = {"anna", "ben"}
    User = "anna"
    SessionLists <- McSessions
    Catalog <- McCatalog
    Order <- McOrder
    Watchable = {"dune", "s2e1"}
    Missing = {"frieren"}
    MaxChanges = 1
    Rankings <- McRankings
    IntentWords <- McIntentWords
    Vowels <- McVowels
    NumberWords <- McNumberWords
    Descriptive <- McDescriptive
    FILLER <- McFiller
    Season <- season
    Episode <- episode
    Number <- McNumber
    NoNumber = 0
    MIN_SCORE = 620
    MIN_MARGIN = 50
    MARGIN_FROM = 1
    MARGIN_TO = 3
    RoutesOf <- McRoutesOf
    Configured <- McConfigured
    Year = 2026
    WebQueries <- McWebQueries
    WebResults <- McWebResults
    SNIPPET_CHARS = 10
    YtQueries <- McYtQueries
    YtAnswers <- McYtAnswers
    YtUploads <- McYtUploads
    Bodies <- McBodies
    Null = "null"
    U32Max = 100000
    Some <- McSome
    Genre <- McGenre
    The <- the
INVARIANTS
    RepliesMatch
    OwnState
    AskedEpisode
PROPERTIES
    EveryRequestAnswered
CHECK_DEADLOCK FALSE
