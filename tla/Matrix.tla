------------------------------- MODULE Matrix -------------------------------
(***************************************************************************)
(* The Distance Matrix handler (src/distancematrix.ts, with wasm_router.ts *)
(* and the probe of src/index.ts): it resolves the endpoints, tries the    *)
(* WASM one-to-many search for a small matrix, and otherwise takes each    *)
(* origin in turn: legs from the KV cache, then the tiled search L0, whose *)
(* legs are cached for thirty days, then the overlay L1.  Requests run     *)
(* concurrently and a deployment may change DATA_VERSION under them.       *)
(*                                                                         *)
(* What the searches find is left to the modules Router and Overlay: here  *)
(* L0 finds a leg to some candidate it can reach, for the groups it has    *)
(* time for, and L1 answers or not.  A leg is its two ends and what found  *)
(* it.  Geocode stands behind Place, and Snap gives the candidates.        *)
(***************************************************************************)
EXTENDS Snap

CONSTANTS
    Requests,
    None,
    NOT_FOUND,          \* what Place gives where geocode() finds nothing
    Asks,               \* SUBSET [origins, dests : Seq(query), router : {"auto", "ts", "wasm"}, probe]
    Place,              \* [queries -> point or NOT_FOUND]
    Coordinates,        \* the queries that are a literal "lat,lng"
    Pos,                \* [Version -> [road nodes -> point]]
    Reach,              \* [Version -> SUBSET (Nodes \X Nodes)], joined by a road
    SNAP_K,
    L0_MAX,             \* L0_MAX_KM
    WASM_AUTO_BBOX,
    MaxTiles,           \* 16 tiles of a WASM corridor
    MaxElements,
    MaxVersion,         \* bound: deployments of DATA_VERSION
    MaxFailures         \* bound: calls of KV, R2 or WASM that throw

ASSUME LimitsAssumption ==
    /\ SNAP_K \in Nat \ {0} /\ MaxElements \in Nat \ {0} /\ MaxVersion \in Nat \ {0}
    /\ L0_MAX \in Nat /\ WASM_AUTO_BBOX \in Nat /\ MaxTiles \in Nat /\ MaxFailures \in Nat

Version == 1..MaxVersion
Nodes == UNION {DOMAIN Pos[v] : v \in Version}
Leg == [from : Nodes, to : Nodes, by : {"L0", "wasm"}] \cup [from : {None}, to : {None}, by : {"L1"}]
Overlaid == [from |-> None, to |-> None, by |-> "L1"]
Element == {"NOT_FOUND", "ZERO_RESULTS"} \X {None} \cup {"OK"} \X Leg
Status == {"OK", "INVALID_REQUEST", "MAX_ELEMENTS_EXCEEDED", "thrown", "healthy", "unhealthy"}

ASSUME NoneAssumption == None \notin Nodes \cup Leg \cup Status
ASSUME AsksAssumption ==
    /\ \A q \in DOMAIN Place : Place[q] # NOT_FOUND => Place[q] \in Int \X Int
    /\ \A a \in Asks : a.origins \in Seq(DOMAIN Place) /\ a.dests \in Seq(DOMAIN Place)
ASSUME RoadsAssumption ==       \* of a finite network, no two nodes at one point
    \A v \in Version :
        /\ IsFiniteSet(DOMAIN Pos[v]) /\ Pos[v] \in [DOMAIN Pos[v] -> Int \X Int]
        /\ \A m, n \in DOMAIN Pos[v] : Pos[v][m] = Pos[v][n] => m = n
        /\ Reach[v] \subseteq (DOMAIN Pos[v]) \X (DOMAIN Pos[v])

VARIABLES
    deployed,   \* DATA_VERSION of the Worker
    legs,       \* the leg cache in KV: [Version \X Nodes \X Nodes -> Leg or None]
    instance,   \* the WASM instance of the isolate is there
    pc,         \* [Requests -> "idle", "wasm", "origin", "search", "write", "overlay", "answered"]
    ask,        \* [Requests -> Asks]
    version,    \* [Requests -> Version], DATA_VERSION when the request began
    at,         \* [Requests -> index of the origin]
    cached,     \* [Requests -> [indices of destinations -> Leg or None]]
    computed,   \* the same, from L0
    rows,       \* [Requests -> Seq(Seq(Element))]
    status,     \* [Requests -> None or the status of the answer]
    failures,   \* counter of the bound
    cut         \* history: [Requests -> a search of the request was cut short]

progress == <<at, cached, computed, rows>>
vars == <<deployed, legs, instance, pc, ask, version, progress, status, failures, cut>>

-----------------------------------------------------------------------------
(* resolveAll                                                              *)

Snaps == [v \in Version |-> [q \in DOMAIN Place |-> [k \in {1, SNAP_K} |->
    IF Place[q] = NOT_FOUND THEN <<>> ELSE SnapK(Pos[v], Place[q], k)]]]
SnapsOf(v, q, k) == Snaps[v][q][k]
Candidates(v, q) == ToSet(SnapsOf(v, q, SNAP_K))
Top1(v, q) == IF SnapsOf(v, q, SNAP_K) = <<>> THEN None ELSE SnapsOf(v, q, SNAP_K)[1]

Origin(r) == ask[r].origins[at[r]]
Dest(r, j) == ask[r].dests[j]
Indices(r) == DOMAIN ask[r].dests
Source(r) == Top1(version[r], Origin(r))
Target(r, j) == Top1(version[r], Dest(r, j))
FaultyLegCacheKey(r, j) == <<deployed, Source(r), Target(r, j)>>
LegCacheKey(r, j) == <<version[r], Source(r), Target(r, j)>>

NoLegs == [r \in Requests |-> [j \in DOMAIN ask[r].dests |-> None]]

Init ==
    /\ deployed = 1 /\ instance = FALSE
    /\ legs = [k \in Version \X Nodes \X Nodes |-> None]
    /\ pc = [r \in Requests |-> "idle"]
    /\ ask \in [Requests -> Asks]
    /\ version = [r \in Requests |-> 1] /\ at = version
    /\ cached = NoLegs /\ computed = NoLegs
    /\ rows = [r \in Requests |-> <<>>] /\ status = [r \in Requests |-> None]
    /\ failures = 0 /\ cut = [r \in Requests |-> FALSE]

Goto(r, step) == pc' = [pc EXCEPT ![r] = step]
\* The probe of /healthz/api answers whether its one element is a leg of some length.
Healthy(row) == row[1][1] = "OK" /\ (row[1][2].by # "L1" => row[1][2].from # row[1][2].to)
Respond(r, table, s) ==
    /\ Goto(r, "answered")
    /\ rows' = [rows EXCEPT ![r] = table]
    /\ status' = [status EXCEPT ![r] =
            IF ~ask[r].probe THEN s
            ELSE IF s = "OK" /\ Healthy(table[1]) THEN "healthy" ELSE "unhealthy"]
Fail(r) ==
    /\ failures < MaxFailures
    /\ failures' = failures + 1
    /\ Respond(r, <<>>, "thrown")

\* All queries are literal coordinates in a small box.
Close(a) ==
    LET qs == {a.origins[1]} \cup ToSet(a.dests)
    IN /\ qs \subseteq Coordinates
       /\ \A p, q \in qs : Distance(Place[p], Place[q]) <= WASM_AUTO_BBOX

Begin(r) ==
    /\ pc[r] = "idle"
    /\ version' = [version EXCEPT ![r] = deployed]
    /\ LET a == ask[r]
       IN IF a.origins = <<>> \/ a.dests = <<>> THEN Respond(r, <<>>, "INVALID_REQUEST")
          ELSE IF Len(a.origins) * Len(a.dests) > MaxElements
          THEN Respond(r, <<>>, "MAX_ELEMENTS_EXCEEDED")
          ELSE /\ Goto(r, IF Len(a.origins) = 1 /\ a.router # "ts" /\ (a.router = "wasm" \/ Close(a))
                          THEN "wasm" ELSE "origin")
               /\ UNCHANGED <<rows, status>>
    /\ UNCHANGED <<deployed, legs, instance, ask, at, cached, computed, failures, cut>>

-----------------------------------------------------------------------------
(* tryWasmMatrix: one traversal to the first snap of each destination, and *)
(* the TypeScript path instead unless it reaches all that can be routed.   *)

WasmSnap(r, q) == LET s == SnapsOf(version[r], q, 1) IN IF s = <<>> THEN None ELSE s[1]
Routable(r) == {j \in Indices(r) : WasmSnap(r, Dest(r, j)) # None}
\* The tiles of the corridor around the snapped nodes.
CorridorSize(r) ==
    LET tiles == {TileOf(Pos[version[r]][n]) :
            n \in {WasmSnap(r, Origin(r))} \cup {WasmSnap(r, Dest(r, j)) : j \in Routable(r)}}
        width(i) == 3 + CHOOSE w \in {Gap(s[i], t[i]) : s, t \in tiles} :
                            \A s, t \in tiles : Gap(s[i], t[i]) <= w
    IN width(1) * width(2)
WasmFits(r) == WasmSnap(r, Origin(r)) # None /\ Routable(r) # {} /\ CorridorSize(r) <= MaxTiles

LoadWasm(r) ==
    /\ pc[r] = "wasm" /\ WasmFits(r) /\ ~instance
    /\ instance' = TRUE
    /\ UNCHANGED <<deployed, legs, pc, ask, version, progress, status, failures, cut>>

\* The first nodes of destinations that one traversal reaches: any of those with a
\* road, as the corridor or the settled cap may leave the others out.
Traversals(r) ==
    SUBSET {WasmSnap(r, Dest(r, j)) : j \in
        {j \in Routable(r) : <<WasmSnap(r, Origin(r)), WasmSnap(r, Dest(r, j))>> \in Reach[version[r]]}}

FaultyAllReached(r, R) == TRUE      \* an element of its own for each that is not
AllReached(r, R) == \A j \in Routable(r) : WasmSnap(r, Dest(r, j)) \in R
WasmElement(r, j, R) ==
    IF j \notin Routable(r) THEN <<"NOT_FOUND", None>>
    ELSE IF WasmSnap(r, Dest(r, j)) \notin R THEN <<"ZERO_RESULTS", None>>
    ELSE <<"OK", [from |-> WasmSnap(r, Origin(r)), to |-> WasmSnap(r, Dest(r, j)), by |-> "wasm"]>>
RunWasm(r) ==
    /\ pc[r] = "wasm" /\ WasmFits(r) /\ instance
    /\ \E R \in Traversals(r) :
        IF AllReached(r, R)
        THEN Respond(r, <<[j \in Indices(r) |-> WasmElement(r, j, R)]>>, "OK")
        ELSE Goto(r, "origin") /\ UNCHANGED <<rows, status>>
    /\ UNCHANGED <<deployed, legs, instance, ask, version, at, cached, computed, failures, cut>>
SkipWasm(r) ==
    /\ pc[r] = "wasm" /\ ~WasmFits(r)
    /\ Goto(r, "origin")
    /\ UNCHANGED <<deployed, legs, instance, ask, version, progress, status, failures, cut>>

-----------------------------------------------------------------------------
(* The TypeScript path, for one origin after the other.                    *)

NextOrigin(r, row) ==
    /\ IF at[r] < Len(ask[r].origins)
       THEN /\ Goto(r, "origin")
            /\ rows' = [rows EXCEPT ![r] = Append(@, row)]
            /\ UNCHANGED status
       ELSE Respond(r, Append(rows[r], row), "OK")
    /\ at' = [at EXCEPT ![r] = IF @ < Len(ask[r].origins) THEN @ + 1 ELSE @]
    /\ cached' = [cached EXCEPT ![r] = NoLegs[r]]
    /\ computed' = [computed EXCEPT ![r] = NoLegs[r]]

NoOrigin(r) ==
    /\ pc[r] = "origin" /\ Source(r) = None
    /\ NextOrigin(r, [j \in Indices(r) |-> <<"NOT_FOUND", None>>])
    /\ UNCHANGED <<deployed, legs, instance, ask, version, failures, cut>>

\* KV has a leg, or none for us: it expired or has not arrived.
LoadLegs(r) ==
    /\ pc[r] = "origin" /\ Source(r) # None
    /\ LET there == {j \in Indices(r) : Target(r, j) # None /\ legs[LegCacheKey(r, j)] # None}
       IN \E keys \in SUBSET {LegCacheKey(r, j) : j \in there} :
            cached' = [cached EXCEPT ![r] = [j \in Indices(r) |->
                IF j \in there /\ LegCacheKey(r, j) \in keys THEN legs[LegCacheKey(r, j)] ELSE None]]
    /\ Goto(r, "search")
    /\ UNCHANGED <<deployed, legs, instance, ask, version, at, computed, rows, status, failures, cut>>

TooFar(r, j) == Distance(Place[Origin(r)], Place[Dest(r, j)]) > L0_MAX
FaultyNeedRouting(r) ==         \* those that the cache has as well
    {j \in Indices(r) : Target(r, j) # None /\ ~TooFar(r, j)}
NeedRouting(r) == {j \in Indices(r) : Target(r, j) # None /\ cached[r][j] = None /\ ~TooFar(r, j)}
\* oneToMany: a node that is a candidate of several groups serves the first of them.
Served(r, j) ==
    {n \in Candidates(version[r], Dest(r, j)) :
        \A i \in NeedRouting(r) : i < j => n \notin Candidates(version[r], Dest(r, i))}
Found(r, j) == {n \in Served(r, j) : <<Source(r), n>> \in Reach[version[r]]}
L0Leg(r, n) == [from |-> Source(r), to |-> n, by |-> "L0"]
Search(r) ==
    /\ pc[r] = "search"
    /\ \E done \in SUBSET {j \in NeedRouting(r) : Found(r, j) # {}} :
        /\ \E end \in [done -> Nodes] :
            /\ \A j \in done : end[j] \in Found(r, j)
            /\ computed' = [computed EXCEPT ![r] =
                    [j \in Indices(r) |-> IF j \in done THEN L0Leg(r, end[j]) ELSE None]]
        /\ cut' = [cut EXCEPT ![r] = @ \/ \E j \in NeedRouting(r) \ done : Found(r, j) # {}]
        /\ Goto(r, IF done # {} THEN "write" ELSE "overlay")
    /\ UNCHANGED <<deployed, legs, instance, ask, version, at, cached, rows, status, failures>>

\* Under the first candidate, even if the leg goes to another; the last of several
\* destinations with the same one.
WriteLegs(r) ==
    /\ pc[r] = "write"
    /\ LET routed == {j \in Indices(r) : computed[r][j] # None}
           last == {j \in routed : \A i \in routed : Target(r, i) = Target(r, j) => i <= j}
       IN legs' = [k \in DOMAIN legs |->
            IF \E j \in last : LegCacheKey(r, j) = k
            THEN computed[r][CHOOSE j \in last : LegCacheKey(r, j) = k] ELSE legs[k]]
    /\ Goto(r, "overlay")
    /\ UNCHANGED <<deployed, instance, ask, version, progress, status, failures, cut>>

\* L1 is asked for each that is left and answers a leg, none, or throws, which is
\* none; then the row is put together.
NeedL1(r) == {j \in Indices(r) : Target(r, j) # None /\ cached[r][j] = None /\ computed[r][j] = None}
ElementOf(r, j, l1) ==
    IF Target(r, j) = None THEN <<"NOT_FOUND", None>>
    ELSE IF cached[r][j] # None THEN <<"OK", cached[r][j]>>
    ELSE IF computed[r][j] # None THEN <<"OK", computed[r][j]>>
    ELSE IF j \in l1 THEN <<"OK", Overlaid>>
    ELSE <<"ZERO_RESULTS", None>>
Assemble(r) ==
    /\ pc[r] = "overlay"
    /\ \E l1 \in SUBSET NeedL1(r) : NextOrigin(r, [j \in Indices(r) |-> ElementOf(r, j, l1)])
    /\ UNCHANGED <<deployed, legs, instance, ask, version, failures, cut>>

\* KV, R2 or the WASM module throws, and the request with it.
Throws(r) ==
    /\ pc[r] \in {"wasm", "origin", "search", "write"}
    /\ Fail(r)
    /\ UNCHANGED <<deployed, legs, instance, ask, version, at, cached, computed, cut>>

Deploy ==
    /\ deployed < MaxVersion
    /\ deployed' = deployed + 1
    /\ UNCHANGED <<legs, instance, pc, ask, version, progress, status, failures, cut>>

Next ==
    \/ \E r \in Requests :
        \/ Begin(r) \/ LoadWasm(r) \/ RunWasm(r) \/ SkipWasm(r)
        \/ NoOrigin(r) \/ LoadLegs(r) \/ Search(r) \/ WriteLegs(r) \/ Assemble(r) \/ Throws(r)
    \/ Deploy

Spec == Init /\ [][Next]_vars

-----------------------------------------------------------------------------
LegsOf(r) == [Indices(r) -> Leg \cup {None}]
TypeOK ==
    /\ deployed \in Version
    /\ \A k \in DOMAIN legs : legs[k] \in Leg \cup {None}
    /\ \A r \in Requests :
        /\ version[r] \in 1..deployed
        /\ cached[r] \in LegsOf(r) /\ computed[r] \in LegsOf(r)
        /\ \A j \in Indices(r) : cached[r][j] = None \/ computed[r][j] = None
        /\ pc[r] = "answered" <=> status[r] # None
        /\ pc[r] \in {"origin", "search", "write", "overlay"} => Len(rows[r]) = at[r] - 1
        /\ \A i \in DOMAIN rows[r] : rows[r][i] \in [Indices(r) -> Element]

\* A cached leg is a road of its version from the first node of its key, and leads to
\* a candidate of a destination whose first candidate is the other node: not always
\* that of the destination it is read for, and never what WASM or L1 found.
Dests == UNION {ToSet(a.dests) : a \in Asks}
CachedLegsServe ==
    \A k \in DOMAIN legs : legs[k] # None =>
        /\ legs[k].by = "L0" /\ legs[k].from = k[2]
        /\ <<k[2], legs[k].to>> \in Reach[k[1]]
        /\ \E q \in Dests : Top1(k[1], q) = k[3] /\ legs[k].to \in Candidates(k[1], q)

\* What a client reads is so, whichever path answered: an element is NOT_FOUND when
\* an end has no place on the roads; a leg is a road from the first node of the origin
\* to a node of the destination or of one that shares its first; and ZERO_RESULTS is
\* not said while a search that was not cut short could reach the destination at a
\* node that is its own.
\* Of a leg of the overlay it says nothing: that is Overlay's AnswerIsRoad.
Unplaced(v, a, b) == Top1(v, a) = None \/ Top1(v, b) = None
EndsOf(v, b) == UNION {Candidates(v, q) : q \in {q \in Dests : Top1(v, q) = Top1(v, b)}}
Leads(v, a, b, leg) ==
    \/ leg.by = "L1"
    \/ leg.by = "L0" /\ leg.from = Top1(v, a) /\ leg.to \in EndsOf(v, b) /\ <<leg.from, leg.to>> \in Reach[v]
    \/ leg.by = "wasm" /\ <<leg.from>> = SnapsOf(v, a, 1) /\ <<leg.to>> = SnapsOf(v, b, 1)
       /\ <<leg.from, leg.to>> \in Reach[v]
OwnReached(r, a, j) ==
    {n \in Candidates(version[r], Dest(r, j)) : <<Top1(version[r], a), n>> \in Reach[version[r]]}
        \ UNION {Candidates(version[r], Dest(r, i)) : i \in 1..(j - 1)}
True(r, a, j, element) ==
    /\ element[1] = "NOT_FOUND" <=> Unplaced(version[r], a, Dest(r, j))
    /\ element[1] = "OK" => Leads(version[r], a, Dest(r, j), element[2])
    /\ element[1] = "ZERO_RESULTS" =>
        \/ cut[r] \/ Distance(Place[a], Place[Dest(r, j)]) > L0_MAX \/ OwnReached(r, a, j) = {}
ElementsAreTrue ==
    \A r \in Requests : \A i \in DOMAIN rows[r] : \A j \in Indices(r) :
        True(r, ask[r].origins[i], j, rows[r][i][j])

\* The first candidate is near or else the nearest, though the scan of a tile stops
\* before it has seen all of it and the scan of tiles before it has seen its
\* neighbours; and none is found only where there is none.
InView(v, p) ==
    {n \in DOMAIN Pos[v] : TileOf(Pos[v][n]) \in TilesWithin(p, TileRings)
                            /\ RingIn(TileOf(Pos[v][n]), p, Pos[v][n]) <= MaxRing}
NearestFirst(v, p, snaps) ==
    IF snaps = <<>> THEN InView(v, p) = {}
    ELSE \/ Distance(p, Pos[v][snaps[1]]) < Near
         \/ \A n \in InView(v, p) : Distance(p, Pos[v][snaps[1]]) <= Distance(p, Pos[v][n])
SnapsNearest ==
    \A r \in Requests : pc[r] # "idle" =>
        \A q \in ToSet(ask[r].origins) \cup ToSet(ask[r].dests) : Place[q] # NOT_FOUND =>
            \A k \in {1, SNAP_K} : NearestFirst(version[r], Place[q], SnapsOf(version[r], q, k))
=============================================================================
