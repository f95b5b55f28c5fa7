\* Two requests, one deployment, one call that throws.
SPECIFICATION Spec
CONSTANTS
    Requests = {r1, r2}
    None = None
    NOT_FOUND = NOT_FOUND
    Asks <- MCAsks
    Place <- MCPlace
    Coordinates <- MCCoordinates
    Pos <- MCPos
    Reach <- MCReach
    SNAP_K = 2
    L0_MAX = 20
    WASM_AUTO_BBOX = 5
    MaxTiles = 16
    MaxElements = 4
    MaxVersion = 2
    MaxFailures = 1
    CellSize = 3
    GridN = 3
    MaxRing = 2
    RingsForOne = 0
    RingsForMany = 1
    TileRings = 1
    Near = 2
    SNAP_MIN_SEP_M = 2
INVARIANTS
    TypeOK
    CachedLegsServe
    ElementsAreTrue
    SnapsNearest
SYMMETRY Symmetry
CHECK_DEADLOCK FALSE
