------------------------------- MODULE Router -------------------------------
(***************************************************************************)
(* oneToMany of src/router.ts: one weighted A* from a source to several    *)
(* destination groups at once, over road tiles loaded when the search      *)
(* reaches them.  A group is a destination with the nodes it may snap to;  *)
(* the first one reached wins.                                             *)
(*                                                                         *)
(* Times are whole seconds; positions lie on a line, in seconds of travel  *)
(* at MAX_ROAD_SPEED_M_S, so that no road beats the straight line.  A heap *)
(* key is doubled, which makes HEURISTIC_WEIGHT * h = 3/2 * h whole.       *)
(* Entries with equal keys may leave the heap in any order.                *)
(*                                                                         *)
(* Operators named Faulty... are plausible mistakes, unused: in the place  *)
(* of the definition after them they must break a property.                *)
(***************************************************************************)
EXTENDS Integers, Sequences, FiniteSets, FiniteSetsExt

CONSTANTS
    Nodes,
    Source,      \* the origin's snap node
    TileOf,      \* [Nodes -> tile]
    Pos,         \* [Nodes -> Int]
    Graphs,      \* SUBSET SUBSET Edge, road networks
    Requests,    \* SUBSET Request
    Presences,   \* SUBSET SUBSET tile, which tiles R2 holds
    MaxSettled   \* opts.maxSettled

Edge == [from : Nodes, to : Nodes, time : Nat, len : Nat]
Request == [cands : Seq(SUBSET Nodes), at : Seq(Int)]
Leg == [time : Nat, len : Nat]
Infinity == -1

ASSUME NodesAssumption == IsFiniteSet(Nodes) /\ Source \in Nodes /\ Pos \in [Nodes -> Int]
ASSUME GraphsAssumption == \A roads \in Graphs : roads \subseteq Edge /\ IsFiniteSet(roads)
ASSUME RequestsAssumption ==
    \A r \in Requests : r \in Request /\ Len(r.cands) = Len(r.at)

VARIABLES
    edges,    \* the road network
    request,  \* the groups: their candidates, and where each address is
    present,  \* the tiles getTile finds
    heap,     \* SUBSET Entry
    dist,     \* [Nodes -> Nat or Infinity], of the loaded tiles
    visited,  \* SUBSET Nodes, settled
    loaded,   \* tiles with scratch arrays
    out,      \* group -> Leg, for the satisfied groups
    status    \* "new", "run", "done", or "stopped" by the deadline or the cap

inputVars == <<edges, request, present>>
vars == <<inputVars, heap, dist, visited, loaded, out, status>>

Entry == [key : Nat, time : Nat, node : Nodes, len : Nat]
Groups == DOMAIN request.cands
Distance(x, y) == IF x < y THEN y - x ELSE x - y

-----------------------------------------------------------------------------
\* The target index: a node that several groups share belongs to the first one.
Targets(g) == request.cands[g] \ UNION {request.cands[k] : k \in 1..(g - 1)}

\* `remaining` counts the groups with a candidate and no leg.
Remaining(legs) == {g \in Groups : request.cands[g] # {}} \ DOMAIN legs

\* Three times hEst of a node, over 3/2: twice the weighted estimate to the
\* nearest unsatisfied group, with or without candidates.
FaultyEstimate(n, legs) ==      \* the weight is applied twice over
    LET open == Groups \ DOMAIN legs
    IN IF open = {} THEN 0
       ELSE 9 * Min({Distance(Pos[n], request.at[g]) : g \in open})
Estimate(n, legs) ==
    LET open == Groups \ DOMAIN legs
    IN IF open = {} THEN 0
       ELSE 3 * Min({Distance(Pos[n], request.at[g]) : g \in open})

\* The groups that settling node n satisfies.
Reached(n, legs) == {g \in Groups : n \in Targets(g)} \ DOMAIN legs
WithLegs(legs, gs, time, len) ==
    [g \in gs \cup DOMAIN legs |->
        IF g \in gs THEN [time |-> time, len |-> len] ELSE legs[g]]

-----------------------------------------------------------------------------
Init ==
    /\ edges \in Graphs
    /\ request \in Requests
    /\ present \in Presences
    /\ heap = {}
    /\ dist = [n \in Nodes |-> Infinity]
    /\ visited = {}
    /\ loaded = {}
    /\ out = [g \in {} |-> {}]
    /\ status = "new"

\* The tiles with scratch arrays once tile t was asked for: none for a tile R2
\* does not hold.
LoadScratch(t) == loaded \cup ({t} \cap present)

\* Up to the loop: load the source's tile, satisfy a group that is already here.
Begin ==
    /\ status = "new"
    /\ IF Groups = {} \/ TileOf[Source] \notin present
       THEN status' = "done" /\ UNCHANGED <<heap, dist, loaded, out>>
       ELSE /\ loaded' = LoadScratch(TileOf[Source])
            /\ dist' = [dist EXCEPT ![Source] = 0]
            /\ out' = WithLegs(out, Reached(Source, out), 0, 0)
            /\ IF Remaining(out') = {}
               THEN status' = "done" /\ UNCHANGED heap
               ELSE /\ status' = "run"
                    /\ heap' = {[key |-> Estimate(Source, out'), time |-> 0,
                                 node |-> Source, len |-> 0]}
    /\ UNCHANGED <<inputVars, visited>>

Running ==
    /\ status = "run"
    /\ heap # {}
    /\ Remaining(out) # {}
    /\ Cardinality(visited) < MaxSettled
Least == {e \in heap : \A o \in heap : e.key <= o.key}

\* The entry's tile is not in R2, or its node was settled by an earlier entry.
FaultyPass(e) ==                \* a missing tile counts as loaded
    /\ Running /\ e \in Least
    /\ TileOf[e.node] \notin present \/ e.node \in visited
    /\ heap' = heap \ {e}
    /\ loaded' = loaded \cup {TileOf[e.node]}
    /\ UNCHANGED <<inputVars, dist, visited, out, status>>
Pass(e) ==
    /\ Running
    /\ e \in Least
    /\ TileOf[e.node] \notin present \/ e.node \in visited
    /\ heap' = heap \ {e}
    /\ loaded' = LoadScratch(TileOf[e.node])
    /\ UNCHANGED <<inputVars, dist, visited, out, status>>

\* The edges of a settled node that are worth a push: a neighbour in a loaded
\* tile must be open and nearer than before; of any other nothing is known.
FaultyImproves(d, time) ==      \* the search stays in the loaded tiles
    /\ d.to \notin visited' /\ TileOf[d.to] \in loaded'
    /\ dist[d.to] = Infinity \/ time + d.time < dist[d.to]
Improves(d, time) ==
    \/ TileOf[d.to] \notin loaded'
    \/ /\ d.to \notin visited'
       /\ dist[d.to] = Infinity \/ time + d.time < dist[d.to]

\* A neighbour without coordinates is estimated from here.
FaultyPushed(d, e, legs) ==     \* the length of the last edge only
    LET time == e.time + d.time
        from == IF TileOf[d.to] \in loaded' THEN d.to ELSE e.node
    IN [key |-> 2 * time + Estimate(from, legs), time |-> time, node |-> d.to,
        len |-> d.len]
Pushed(d, e, legs) ==
    LET time == e.time + d.time
        from == IF TileOf[d.to] \in loaded' THEN d.to ELSE e.node
    IN [key |-> 2 * time + Estimate(from, legs), time |-> time, node |-> d.to,
        len |-> e.len + d.len]

\* Where several edges lead to a node of a loaded tile, one is pushed that is
\* quicker than those before it; a node of another tile is pushed for each.
Pushes(ds) ==
    {some \in SUBSET ds : \A d \in ds :
        IF TileOf[d.to] \in loaded'
        THEN /\ \E p \in some : p.to = d.to /\ p.time <= d.time
             /\ d \in some => \A p \in some : p.to = d.to /\ p.time = d.time => p = d
        ELSE d \in some}

\* One turn of the loop.  The loop ends at the last leg, before the edges.
Settle(e) ==
    /\ Running
    /\ e \in Least
    /\ TileOf[e.node] \in present
    /\ e.node \notin visited
    /\ loaded' = LoadScratch(TileOf[e.node])
    /\ visited' = visited \cup {e.node}
    /\ out' = WithLegs(out, Reached(e.node, out), e.time, e.len)
    /\ IF Remaining(out') = {}
       THEN heap' = heap \ {e} /\ UNCHANGED dist
       ELSE \E some \in Pushes({d \in edges : d.from = e.node /\ Improves(d, e.time)}) :
            /\ heap' = (heap \ {e}) \cup {Pushed(d, e, out') : d \in some}
            /\ dist' = [n \in Nodes |->
                 IF TileOf[n] \in loaded' /\ \E d \in some : d.to = n
                 THEN e.time + Min({d.time : d \in {d \in some : d.to = n}})
                 ELSE dist[n]]
    /\ UNCHANGED <<inputVars, status>>

\* The clock is looked at now and then, after a node is settled and before its
\* group and its edges are.
Deadline(e) ==
    /\ Running
    /\ e \in Least
    /\ TileOf[e.node] \in present
    /\ e.node \notin visited
    /\ loaded' = LoadScratch(TileOf[e.node])
    /\ visited' = visited \cup {e.node}
    /\ heap' = heap \ {e}
    /\ status' = "stopped"
    /\ UNCHANGED <<inputVars, dist, out>>

FaultyReturn ==                 \* waits for every group
    /\ status = "run" /\ Remaining(out) = {}
    /\ status' = "done"
    /\ UNCHANGED <<inputVars, heap, dist, visited, loaded, out>>
Return ==
    /\ status = "run"
    /\ ~Running
    /\ status' = IF heap = {} \/ Remaining(out) = {} THEN "done" ELSE "stopped"
    /\ UNCHANGED <<inputVars, heap, dist, visited, loaded, out>>

Next ==
    \/ Begin
    \/ \E e \in heap : Pass(e) \/ Settle(e) \/ Deadline(e)
    \/ Return

\* The loop runs on; nothing promises that the deadline strikes.
Spec == Init /\ [][Next]_vars /\ WF_vars(Begin \/ Return \/ \E e \in heap : Pass(e) \/ Settle(e))

-----------------------------------------------------------------------------
(* Reference: what the roads of the tiles in R2 allow, by the number of    *)
(* edges they have at most.                                                *)

Longer(roads, tiles, ws) ==
    {[node |-> p[2].to, time |-> p[1].time + p[2].time, len |-> p[1].len + p[2].len] :
        p \in {q \in ws \X roads : q[1].node = q[2].from /\ TileOf[q[2].to] \in tiles}}
Walks(roads, tiles) ==
    LET walk[k \in Nat] ==
            IF k = 0 THEN {[node |-> Source, time |-> 0, len |-> 0]}
            ELSE LET shorter == walk[k - 1] IN shorter \cup Longer(roads, tiles, shorter)
    IN walk
WalksTo(S) == {w \in Walks(edges, present)[Cardinality(Nodes) - 1] : w.node \in S}

-----------------------------------------------------------------------------
TypeOK ==
    /\ heap \subseteq Entry
    /\ \A n \in Nodes : dist[n] \in Nat \cup {Infinity}
    /\ visited \subseteq Nodes
    /\ loaded \subseteq present
    /\ \A g \in DOMAIN out : g \in Groups /\ out[g] \in Leg
    /\ status \in {"new", "run", "done", "stopped"}

\* A leg is a road to a candidate of its own group, and its duration and length
\* are of the same road, though a node may be pushed with several of each.
LegsAreRoads ==
    \A g \in DOMAIN out :
        \E w \in WalksTo(request.cands[g]) : w.time = out[g].time /\ w.len = out[g].len

\* A search that was not cut short leaves no group out that it can reach: neither
\* a tile boundary, a missing tile nor a stale heap entry hides a road.
ReachableIsFound ==
    status = "done" =>
        \A g \in Groups : TileOf[Source] \in present /\ WalksTo(Targets(g)) # {}
            => g \in DOMAIN out

Honest == \A d \in edges : Distance(Pos[d.from], Pos[d.to]) <= d.time
Crossing ==
    LET span == {Distance(Pos[d.from], Pos[d.to]) :
                    d \in {d \in edges : TileOf[d.from] # TileOf[d.to]}}
    IN Max({0} \cup span)
Found == {g \in DOMAIN out : Source \notin Targets(g)}

\* The leg the loop finds first is within half as long again of every road to a
\* candidate of its group, give or take how far the candidate is from its address;
\* where edges cross into tiles that are not loaded yet, whose nodes are estimated
\* from the near end, each edge of the road may add the flight along a crossing,
\* once when its far end is queued and once when it is settled.
FirstLegIsNear ==
    Honest => \A g \in Found : Found = {g} =>
        \A k \in 0..(Cardinality(Nodes) - 1) : \A w \in Walks(edges, present)[k] :
            w.node \in Targets(g) =>
            2 * out[g].time <= 3 * w.time + 3 * Distance(Pos[w.node], request.at[g])
                               + (6 * k + 3) * Crossing

\* The search ends, with or without the deadline.
SearchEnds == status = "new" ~> status \in {"done", "stopped"}

\* README: "any candidate of each destination satisfies that destination".
AnyCandidateServes ==
    status = "done" =>
        \A g \in Groups : TileOf[Source] \in present /\ WalksTo(request.cands[g]) # {}
            => g \in DOMAIN out
=============================================================================
