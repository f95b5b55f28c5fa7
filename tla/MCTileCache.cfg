SPECIFICATION FairSpec
CONSTANTS
    small = small
    large = large
    Callers = {c1, c2}
    Tiles <- MCTiles
    Size <- MCSize
    Budget <- MCBudget
    MaxFetches = 3
INVARIANTS
    TypeOK
    SingleFlight
    BudgetsKept
PROPERTIES
    CallsReturn
CHECK_DEADLOCK FALSE
