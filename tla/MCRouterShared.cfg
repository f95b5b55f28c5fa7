\* Two addresses that snap to the same nodes.
SPECIFICATION Spec
CONSTANTS
    Nodes = {1, 2, 3, 4, 5}
    Source = 1
    TileOf <- MCTileOf
    Pos <- MCPos
    Graphs <- MCGraphs
    Requests <- MCNeighbours
    Presences = {{"a", "b", "c"}, {"a", "c"}}
    MaxSettled = 10
INVARIANT AnyCandidateServes
CHECK_DEADLOCK FALSE
