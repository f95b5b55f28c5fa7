\* A call joins a read that ended long ago and found nothing.
SPECIFICATION Spec
CONSTANTS
    small = small
    large = large
    Callers = {c1, c2}
    Tiles <- MCTiles
    Size <- MCSize
    Budget <- MCBudget
    MaxFetches = 3
PROPERTY JoinsInFlight
CHECK_DEADLOCK FALSE
