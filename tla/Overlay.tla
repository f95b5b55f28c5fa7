------------------------------ MODULE Overlay -------------------------------
(***************************************************************************)
(* The L1Router Durable Object (src/l1_router.ts) and the search it runs   *)
(* over the national highway overlay (src/l1_graph.ts).  The first call    *)
(* reads the overlay from R2 while others wait for the same promise; each  *)
(* call then snaps its two points to overlay nodes and runs a              *)
(* bidirectional weighted A*.  JavaScript runs a search to its end before  *)
(* anything else, so while `searching` is set only the search moves.  The  *)
(* platform may evict the object at any time.                              *)
(*                                                                         *)
(* Times are whole seconds; a position is a point of a plane in seconds of *)
(* travel at MAX_ROAD_SPEED_M_S.  A heap key is doubled, which makes       *)
(* HEURISTIC_WEIGHT * h = 3/2 * h whole.  Equal keys leave the heap in any *)
(* order.  The two directions of the search are the sides "f" and "b".     *)
(*                                                                         *)
(* Operators named Faulty... are plausible mistakes, unused: in the place  *)
(* of the definition after them they must break a property.                *)
(***************************************************************************)
EXTENDS Integers, FiniteSets

CONSTANTS
    Calls,         \* fetches of the object
    None,
    Nodes,
    Pos,           \* [Nodes -> point]
    Graphs,        \* SUBSET SUBSET Edge, overlays
    Routes,        \* SUBSET [src : point, dst : point], what callers ask
    CellSize,      \* gridCellDeg
    Rows, Cols,    \* gridNLat, gridNLon
    MaxRing,       \* 10 rings of cells are searched
    SettledCap,    \* settledCap
    MaxEvictions   \* bound

ASSUME CapAssumption == SettledCap \in Nat /\ MaxEvictions \in Nat
ASSUME GridAssumption == CellSize \in Nat \ {0} /\ MaxRing \in Nat
ASSUME NodesAssumption == IsFiniteSet(Nodes) /\ Pos \in [Nodes -> Int \X Int]

Edge == [ends : {{m, n} : m, n \in Nodes}, time : Nat \ {0}, len : Nat]
Side == {"f", "b"}
Other(s) == IF s = "f" THEN "b" ELSE "f"
NoRoad == [time |-> -1, len |-> -1]

VARIABLES
    overlay,    \* the edges R2 holds; each goes both ways
    graph,      \* this.graph is set
    load,       \* this.loadPromise: "none", waiting for "get" or "body", "failed"
    reads,      \* history: reads of R2 in this life of the object
    evictions,  \* counter of the bound
    pc,         \* [Calls -> {"idle", "waiting", "searching", "answered"}]
    route,      \* [Calls -> Routes]
    answer,     \* [Calls -> Answer or None]
    searching,  \* the call whose search runs, or None
    ends,       \* [src, dst], the nodes the points snapped to
    heap,       \* [Side -> SUBSET Entry]
    label,      \* [Side -> SUBSET Label], fDist and fLen, bDist and bLen
    settled,    \* [Side -> SUBSET Nodes]
    mu          \* the best road so far, or NoRoad

objectVars == <<overlay, graph, load, reads, evictions>>
callVars == <<pc, route, answer, searching>>
searchVars == <<ends, heap, label, settled, mu>>
vars == <<objectVars, callVars, searchVars>>

Entry == [key : Nat, node : Nodes]
Label == [node : Nodes, time : Nat, len : Nat]
Answer == [reason : {"route", "no path", "src", "dst", "load", "lost", "loaded", "unloaded"},
           time : Int, len : Int, settled : Nat, src : Nodes \cup {None}, dst : Nodes \cup {None}]
Reply(why, road, n, a, b) ==
    [reason |-> why, time |-> road.time, len |-> road.len, settled |-> n, src |-> a, dst |-> b]
Refusal(why) == Reply(why, NoRoad, 0, None, None)

ASSUME GraphsAssumption == \A edges \in Graphs : edges \subseteq Edge
ASSUME NoneAssumption == None \notin Calls /\ None \notin Answer

-----------------------------------------------------------------------------
(* Snap: the nearest node of the first ring of cells that has one.         *)

Larger(x, y) == IF x < y THEN y ELSE x
Gap(x, y) == IF x < y THEN y - x ELSE x - y
Distance(p, q) == Larger(Gap(p[1], q[1]), Gap(p[2], q[2]))
Cell(p) == <<p[1] \div CellSize, p[2] \div CellSize>>

\* A cell of ring r around the cell of a point, which ends at the rim of the grid.
OnRim(x, r, at, rows) == x \in {Larger(0, at - r), rows - 1 - Larger(0, rows - 1 - at - r)}
InRing(c, r, at) ==
    /\ Gap(c[1], at[1]) <= r /\ Gap(c[2], at[2]) <= r
    /\ r = 0 \/ OnRim(c[1], r, at[1], Rows) \/ OnRim(c[2], r, at[2], Cols)

Hits(p, r, outgoing) ==
    {n \in Nodes : InRing(Cell(Pos[n]), r, Cell(p)) /\ (outgoing => \E d \in overlay : n \in d.ends)}
Snaps(p, outgoing) ==
    UNION {{n \in Hits(p, r, outgoing) :
                \A m \in Hits(p, r, outgoing) : Distance(p, Pos[n]) <= Distance(p, Pos[m])} :
            r \in {r \in 0..MaxRing : \A q \in 0..(r - 1) : Hits(p, q, outgoing) = {}}}

-----------------------------------------------------------------------------
NoSearch ==
    /\ searching' = None
    /\ ends' = [src |-> None, dst |-> None]
    /\ heap' = [s \in Side |-> {}] /\ label' = heap' /\ settled' = heap'
    /\ mu' = NoRoad

Init ==
    /\ overlay \in Graphs
    /\ graph = FALSE /\ load = "none" /\ reads = 0 /\ evictions = 0
    /\ pc = [c \in Calls |-> "idle"]
    /\ route \in [Calls -> Routes]
    /\ answer = [c \in Calls |-> None]
    /\ searching = None
    /\ ends = [src |-> None, dst |-> None]
    /\ heap = [s \in Side |-> {}] /\ label = heap /\ settled = heap
    /\ mu = NoRoad

Answered(c, a) ==
    /\ pc' = [pc EXCEPT ![c] = "answered"]
    /\ answer' = [answer EXCEPT ![c] = a]

\* /status: what the object holds, without loading it.
Status(c) ==
    /\ searching = None /\ pc[c] = "idle"
    /\ Answered(c, Refusal(IF graph THEN "loaded" ELSE "unloaded"))
    /\ UNCHANGED <<objectVars, route, searching, searchVars>>

\* /route up to the await of getGraph: start the load unless the graph is there
\* or a promise is.
FaultyRoute(c) ==               \* the promise is not shared
    /\ searching = None /\ pc[c] = "idle"
    /\ pc' = [pc EXCEPT ![c] = "waiting"]
    /\ IF graph THEN UNCHANGED <<load, reads>>
       ELSE load' = "get" /\ reads' = reads + 1
    /\ UNCHANGED <<overlay, graph, evictions, route, answer, searching, searchVars>>
Route(c) ==
    /\ searching = None /\ pc[c] = "idle"
    /\ pc' = [pc EXCEPT ![c] = "waiting"]
    /\ IF graph \/ load # "none" THEN UNCHANGED <<load, reads>>
       ELSE load' = "get" /\ reads' = reads + 1
    /\ UNCHANGED <<overlay, graph, evictions, route, answer, searching, searchVars>>

\* R2 answers: the object or nothing, a throw in either case, and a body that
\* decodes or has another magic number or format version.  A promise that was
\* rejected stays in loadPromise.
GotObject ==
    /\ searching = None /\ load = "get"
    /\ load' \in {"body", "failed"}
    /\ UNCHANGED <<overlay, graph, reads, evictions, callVars, searchVars>>
GotBody ==
    /\ searching = None /\ load = "body"
    /\ \/ graph' = TRUE /\ load' = "none"
       \/ load' = "failed" /\ UNCHANGED graph
    /\ UNCHANGED <<overlay, reads, evictions, callVars, searchVars>>

FaultyLoadFailed(c) ==          \* only the call that began the load sees it fail
    /\ searching = None /\ pc[c] = "waiting" /\ load = "failed"
    /\ \A o \in Calls \ {c} : pc[o] # "answered"
    /\ Answered(c, Refusal("load"))
    /\ UNCHANGED <<objectVars, route, searching, searchVars>>
LoadFailed(c) ==
    /\ searching = None /\ pc[c] = "waiting" /\ load = "failed"
    /\ Answered(c, Refusal("load"))
    /\ UNCHANGED <<objectVars, route, searching, searchVars>>

-----------------------------------------------------------------------------
(* The search.                                                             *)

Start(s, a) == IF s = "f" THEN a.src ELSE a.dst
Key(s, a, n, time) == 2 * time + 3 * Distance(Pos[n], Pos[Start(Other(s), a)])

\* A waiting call goes on when the graph is there: it snaps both points, and has
\* its answer unless there are two nodes to search between.
Resumes(c) == searching = None /\ pc[c] = "waiting" /\ graph
SnapFailed(c) ==
    /\ Resumes(c)
    /\ \/ Snaps(route[c].src, TRUE) = {} /\ Answered(c, Refusal("src"))
       \/ /\ Snaps(route[c].src, TRUE) # {} /\ Snaps(route[c].dst, FALSE) = {}
          /\ Answered(c, Refusal("dst"))
    /\ UNCHANGED <<objectVars, route, searching, searchVars>>
SameNode(c) ==
    /\ Resumes(c)
    /\ \E a \in Snaps(route[c].src, TRUE) \cap Snaps(route[c].dst, FALSE) :
            Answered(c, Reply("route", [time |-> 0, len |-> 0], 0, a, a))
    /\ UNCHANGED <<objectVars, route, searching, searchVars>>
Begin(c) ==
    /\ Resumes(c)
    /\ \E a \in Snaps(route[c].src, TRUE), b \in Snaps(route[c].dst, FALSE) :
        /\ a # b
        /\ ends' = [src |-> a, dst |-> b]
    /\ pc' = [pc EXCEPT ![c] = "searching"]
    /\ searching' = c
    /\ heap' = [s \in Side |->
            {[key |-> Key(s, ends', Start(s, ends'), 0), node |-> Start(s, ends')]}]
    /\ label' = [s \in Side |-> {[node |-> Start(s, ends'), time |-> 0, len |-> 0]}]
    /\ UNCHANGED <<objectVars, route, answer, settled, mu>>

Top(s) == (CHOOSE e \in heap[s] : \A o \in heap[s] : e.key <= o.key).key
Settled == Cardinality(settled["f"]) + Cardinality(settled["b"])
Running ==
    /\ searching # None
    /\ heap["f"] # {} /\ heap["b"] # {} /\ Settled < SettledCap
    /\ mu = NoRoad \/ Top("f") + Top("b") < 2 * mu.time

Turn == IF Top("f") <= Top("b") THEN "f" ELSE "b"

FaultyKnown(s) == settled[s]    \* the two sides meet where both have settled
Known(s) == {w.node : w \in label[s]}
At(s, u) == CHOOSE w \in label[s] : w.node = u

\* A road through u, where the two sides have met, if it beats the best so far.
FaultyMeeting(s, u) ==          \* the length of one side only
    IF u \in Known(Other(s)) /\ (mu = NoRoad \/ At("f", u).time + At("b", u).time < mu.time)
    THEN [time |-> At("f", u).time + At("b", u).time, len |-> At(s, u).len]
    ELSE mu
Meeting(s, u) ==
    IF u \in Known(Other(s)) /\ (mu = NoRoad \/ At("f", u).time + At("b", u).time < mu.time)
    THEN [time |-> At("f", u).time + At("b", u).time, len |-> At("f", u).len + At("b", u).len]
    ELSE mu

\* The labels of the open neighbours of u that are reached sooner through u.
Far(d, u) == CHOOSE v \in d.ends : d.ends = {u, v}
Through(s, u) ==
    {[node |-> Far(d, u), time |-> At(s, u).time + d.time, len |-> At(s, u).len + d.len] :
        d \in {d \in overlay : u \in d.ends}}
FaultyRelaxed(s, u) ==          \* a node is reached once
    {w \in Through(s, u) : w.node \notin Known(s)}
Relaxed(s, u) ==
    {w \in Through(s, u) :
        /\ w.node \notin settled[s]
        /\ w.node \in Known(s) => w.time < At(s, w.node).time}

\* Where several edges lead to a node, one of the quickest gives its label.
Quickest(ws) ==
    {best \in SUBSET ws :
        /\ \A v, w \in best : v.node = w.node => v = w
        /\ \A w \in ws : \E v \in best : v.node = w.node /\ v.time <= w.time}

\* One turn of the loop: the side with the lower top pops an entry, which is
\* stale, or settles its node and relaxes the node's edges.  A slower edge to the
\* same node is pushed as well if it is met first.
Pop(s, e) == Running /\ s = Turn /\ e \in heap[s] /\ e.key = Top(s)
Skip(s, e) ==
    /\ Pop(s, e) /\ e.node \in settled[s]
    /\ heap' = [heap EXCEPT ![s] = @ \ {e}]
    /\ UNCHANGED <<objectVars, callVars, ends, label, settled, mu>>
Settle(s, e) ==
    /\ Pop(s, e) /\ e.node \notin settled[s]
    /\ \E pushed \in SUBSET Relaxed(s, e.node) :
          /\ \E best \in Quickest(Relaxed(s, e.node)) :
                /\ best \subseteq pushed
                /\ label' = [label EXCEPT ![s] = best \cup
                        {w \in @ : \A v \in best : v.node # w.node}]
          /\ heap' = [heap EXCEPT ![s] = (@ \ {e}) \cup
                {[key |-> Key(s, ends, w.node, w.time), node |-> w.node] : w \in pushed}]
    /\ settled' = [settled EXCEPT ![s] = @ \cup {e.node}]
    /\ mu' = Meeting(s, e.node)
    /\ UNCHANGED <<objectVars, callVars, ends>>

Finish ==
    /\ searching # None /\ ~Running
    /\ Answered(searching, Reply(IF mu = NoRoad THEN "no path" ELSE "route",
                                 mu, Settled, ends.src, ends.dst))
    /\ NoSearch
    /\ UNCHANGED <<objectVars, route>>

\* The object loses its memory; whoever waits for it gets an error.
Evict ==
    /\ evictions < MaxEvictions
    /\ evictions' = evictions + 1
    /\ graph' = FALSE /\ load' = "none" /\ reads' = 0
    /\ pc' = [c \in Calls |-> IF pc[c] \in {"waiting", "searching"} THEN "answered" ELSE pc[c]]
    /\ answer' = [c \in Calls |->
            IF pc[c] \in {"waiting", "searching"} THEN Refusal("lost") ELSE answer[c]]
    /\ NoSearch
    /\ UNCHANGED <<overlay, route>>

SearchMoves == Finish \/ \E s \in Side : \E e \in heap[s] : Skip(s, e) \/ Settle(s, e)
Work ==
    \/ GotObject \/ GotBody
    \/ \E c \in Calls : LoadFailed(c) \/ SnapFailed(c) \/ SameNode(c) \/ Begin(c)
    \/ SearchMoves
Next == Work \/ Evict \/ \E c \in Calls : Status(c) \/ Route(c)

\* R2 answers every read, and the object goes on while it has something to do.
Spec ==
    /\ Init /\ [][Next]_vars
    /\ WF_vars(Work)

-----------------------------------------------------------------------------
(* Reference: the roads from each node, in each overlay, by the number of  *)
(* edges they have at most.                                                *)

Longer(edges, ws) ==
    {[node |-> Far(p[2], p[1].node),
      time |-> p[1].time + p[2].time, len |-> p[1].len + p[2].len] :
        p \in {q \in ws \X edges : q[1].node \in q[2].ends}}
Walks(edges, n) ==
    LET walk[k \in Nat] ==
            IF k = 0 THEN {[node |-> n, time |-> 0, len |-> 0]}
            ELSE walk[k - 1] \cup Longer(edges, walk[k - 1])
    IN walk
Roads ==
    [edges \in Graphs |-> [n \in Nodes |-> Walks(edges, n)[Cardinality(Nodes) - 1]]]
RoadsOf(a) == {w \in Roads[overlay][a.src] : w.node = a.dst}
Routed(c) == answer[c] # None /\ answer[c].reason = "route"

-----------------------------------------------------------------------------
TypeOK ==
    /\ overlay \subseteq Edge /\ graph \in BOOLEAN
    /\ load \in {"none", "get", "body", "failed"} /\ (graph => load = "none")
    /\ pc \in [Calls -> {"idle", "waiting", "searching", "answered"}]
    /\ \A c \in Calls :
        /\ pc[c] = "answered" <=> answer[c] # None
        /\ pc[c] = "searching" <=> searching = c
        /\ answer[c] \in Answer \cup {None}
    /\ \A s \in Side :
        /\ heap[s] \subseteq Entry
        /\ label[s] \subseteq Label /\ Cardinality(label[s]) = Cardinality(Known(s))
        /\ settled[s] \subseteq Known(s)

\* "All concurrent requests share the same loadPromise to avoid double-fetch":
\* one life of the object reads the overlay once, and it holds the graph no
\* sooner.  A load that failed is not tried again either, until an eviction.
OneReadPerLife == reads <= 1 /\ (graph \/ load # "none" <=> reads = 1)

\* The duration and the length of an answer are those of one road between the
\* two snap nodes, though each half comes from a search of its own and either
\* half may improve after the two have met.
AnswerIsRoad ==
    \A c \in Calls : Routed(c) =>
        \E w \in RoadsOf(answer[c]) : w.time = answer[c].time /\ w.len = answer[c].len

\* "no path" is the truth unless the search was cut short.
ConnectedIsFound ==
    \A c \in Calls : answer[c] # None /\ answer[c].reason = "no path" =>
        answer[c].settled >= SettledCap \/ RoadsOf(answer[c]) = {}

\* The stop rule adds two overweighted estimates of the same distance.  Where no
\* road beats MAX_ROAD_SPEED_M_S, each side alone is within half as long again,
\* and an answer within three times the best.
Honest == \A d \in overlay : \A m, n \in d.ends : Distance(Pos[m], Pos[n]) <= d.time
ThriceAtMost ==
    Honest => \A c \in Calls : Routed(c) /\ answer[c].settled < SettledCap =>
        \A w \in RoadsOf(answer[c]) : answer[c].time <= 3 * w.time

\* A call that reached the object is answered, also one that waits for the load
\* of another, for a load that fails or for an object that is evicted.
CallsAnswered == \A c \in Calls : pc[c] = "waiting" ~> pc[c] = "answered"
=============================================================================
