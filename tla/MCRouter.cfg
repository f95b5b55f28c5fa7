SPECIFICATION Spec
CONSTANTS
    Nodes = {1, 2, 3, 4, 5}
    Source = 1
    TileOf <- MCTileOf
    Pos <- MCPos
    Graphs <- MCGraphs
    Requests <- MCRequests
    Presences = {{"a", "b", "c"}, {"a", "c"}}
    MaxSettled = 4
INVARIANTS
    TypeOK
    LegsAreRoads
    ReachableIsFound
    FirstLegIsNear
PROPERTIES
    SearchEnds
CHECK_DEADLOCK FALSE
