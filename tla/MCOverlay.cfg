\* Two calls of one object, one eviction.
SPECIFICATION Spec
CONSTANTS
    Calls = {c1, c2}
    None = None
    Nodes = {1, 2, 3, 4, 5}
    Pos <- MCPos
    Graphs <- MCGraphs
    Routes <- MCRoutes
    CellSize = 2
    Rows = 2
    Cols = 3
    MaxRing = 2
    SettledCap = 7
    MaxEvictions = 1
INVARIANTS
    TypeOK
    OneReadPerLife
    AnswerIsRoad
    ConnectedIsFound
    ThriceAtMost
PROPERTIES
    CallsAnswered
CHECK_DEADLOCK FALSE
