-------------------------------- MODULE Snap --------------------------------
(***************************************************************************)
(* Snapping a point to road nodes (tileOf, snapInTile and snapK of         *)
(* src/tiles.ts): inside a tile the cells around the point are scanned in  *)
(* rings and up to k nodes, apart from each other, are chosen; tiles are   *)
(* visited in rings around the point's own until k nodes are found with    *)
(* one nearby.  Points are <<y, x>> with whole coordinates, distance is    *)
(* the larger difference, and a placement `pos` gives every road node its  *)
(* point.  Tiles without a node are those R2 has no object for.            *)
(***************************************************************************)
EXTENDS Integers, Sequences, FiniteSets, SequencesExt

CONSTANTS
    CellSize,       \* side of a cell of a tile's grid
    GridN,          \* cells on a side of a tile
    MaxRing,        \* 8 rings of cells are scanned in a tile
    RingsForOne,    \* 2 rings at least when one node is asked for
    RingsForMany,   \* 6 rings at least when there are several to find
    TileRings,      \* 2 rings of tiles are visited
    Near,           \* 200 m: near enough to stop
    SNAP_MIN_SEP_M  \* 200 m: least distance between two nodes of a tile

ASSUME GridAssumption ==
    /\ CellSize \in Nat \ {0} /\ GridN \in Nat \ {0} /\ MaxRing \in Nat /\ TileRings \in Nat
    /\ RingsForOne \in Nat /\ RingsForMany \in Nat
ASSUME DistanceAssumption == Near \in Nat /\ SNAP_MIN_SEP_M \in Nat

RingsToWiden(k) == IF k > 1 THEN RingsForMany ELSE RingsForOne

Larger(x, y) == IF x < y THEN y ELSE x
Gap(x, y) == IF x < y THEN y - x ELSE x - y
Distance(p, q) == Larger(Gap(p[1], q[1]), Gap(p[2], q[2]))

CellOf(p) == <<p[1] \div CellSize, p[2] \div CellSize>>
TileOf(p) == <<CellOf(p)[1] \div GridN, CellOf(p)[2] \div GridN>>
InTile(pos, t) == {n \in DOMAIN pos : TileOf(pos[n]) = t}

\* Lexicographic order of two sequences of integers, and the sequence of a set of
\* nodes in the order of their keys: no two nodes are at the same point.
Before(a, b) == \E i \in DOMAIN a : a[i] < b[i] /\ \A j \in 1..(i - 1) : a[j] = b[j]
Ordered(S, key) ==
    [i \in 1..Cardinality(S) |->
        CHOOSE n \in S : Cardinality({m \in S : Before(key[m], key[n])}) = i - 1]

\* The cell of the tile that is nearest to the point, and the ring of a node.
Clamp(c, tile) == IF c \div GridN < tile THEN tile * GridN
                  ELSE IF c \div GridN > tile THEN tile * GridN + GridN - 1 ELSE c
HomeCell(t, p) == <<Clamp(CellOf(p)[1], t[1]), Clamp(CellOf(p)[2], t[2])>>
RingIn(t, p, q) == Distance(HomeCell(t, p), CellOf(q))

\* The nodes scanned in a tile: ring after ring, until the one met first is near.
FaultyScanned(pos, t, p, k) ==  \* until any is met
    {n \in InTile(pos, t) : RingIn(t, p, pos[n]) <= MaxRing /\ \A m \in InTile(pos, t) :
        RingIn(t, p, pos[n]) <= Larger(RingsToWiden(k), RingIn(t, p, pos[m]))}
InScanOrder(pos, t, p, S) ==
    Ordered(S, [n \in S |-> <<RingIn(t, p, pos[n])>> \o CellOf(pos[n]) \o pos[n]])
UntilNear(pos, t, p, k, seen) ==
    {n \in ToSet(seen) : Distance(p, pos[seen[1]]) < Near =>
        RingIn(t, p, pos[n]) <= Larger(RingsToWiden(k), RingIn(t, p, pos[seen[1]]))}
Scanned(pos, t, p, k) ==
    UntilNear(pos, t, p, k,
        InScanOrder(pos, t, p, {n \in InTile(pos, t) : RingIn(t, p, pos[n]) <= MaxRing}))

\* Nearest first, each one that keeps its distance from those before it.
ByDistance(pos, t, p, S) ==
    Ordered(S, [n \in S |-> <<Distance(p, pos[n]), RingIn(t, p, pos[n])>> \o pos[n]])
Add(pos, k, chosen, n) ==
    IF Len(chosen) < k /\ \A i \in DOMAIN chosen : Distance(pos[chosen[i]], pos[n]) >= SNAP_MIN_SEP_M
    THEN Append(chosen, n) ELSE chosen
SnapInTile(pos, t, p, k) ==
    FoldLeft(LAMBDA chosen, n : Add(pos, k, chosen, n), <<>>,
             ByDistance(pos, t, p, Scanned(pos, t, p, k)))

\* The k best of all tiles up to ring r, the tile visited first where two are equal.
TilesWithin(p, r) == {<<TileOf(p)[1] + dy, TileOf(p)[2] + dx>> : dy, dx \in -r..r}
InTileOrder(pos, p, S) ==
    Ordered(S, [n \in S |-> <<Distance(p, pos[n]), Distance(TileOf(p), TileOf(pos[n])),
                             TileOf(pos[n])[2], TileOf(pos[n])[1]>> \o pos[n]])
Best(k, s) == SubSeq(s, 1, IF Len(s) < k THEN Len(s) ELSE k)
FoundWithin(pos, p, k, r) ==
    Best(k, InTileOrder(pos, p, UNION {ToSet(SnapInTile(pos, t, p, k)) : t \in TilesWithin(p, r)}))

\* The rings of tiles are visited until there are k nodes with one nearby.
Enough(pos, p, k, found) == Len(found) >= k /\ Distance(p, pos[found[1]]) < Near
SnapK(pos, p, k) ==
    FoundWithin(pos, p, k,
        CHOOSE r \in 0..TileRings :
            /\ r = TileRings \/ Enough(pos, p, k, FoundWithin(pos, p, k, r))
            /\ \A s \in 0..(r - 1) : ~Enough(pos, p, k, FoundWithin(pos, p, k, s)))
=============================================================================
