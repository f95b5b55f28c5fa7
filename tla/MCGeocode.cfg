\* Two requests, one refresh of two shards, one failure of D1 or KV.
SPECIFICATION Spec
CONSTANTS
    Requests = {r1, r2}
    None = None
    NOT_FOUND = NOT_FOUND
    Error = Error
    Queries <- MCQueries
    states <- MCStates
    SUFFIX_ABBR <- MCAbbr
    VALID_CODES <- MCCodes
    STATE_NAMES <- MCNames
    ZIP3 <- MCZip3
    Coordinates <- MCCoordinates
    Numbers <- MCNumbers
    FiveDigits <- MCFiveDigits
    Short <- MCShort
    Rows <- MCRows
    Segments <- MCSegments
    MaxVersion = 2
    MaxFailures = 1
INVARIANTS
    TypeOK
    NoDeletedRowsCached
    SurvivorsFound
    RooftopWins
SYMMETRY Symmetry
CHECK_DEADLOCK FALSE
