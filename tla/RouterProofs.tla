---------------------------- MODULE RouterProofs ----------------------------
(***************************************************************************)
(* Proofs about the one-to-many search, for any road networks, tiles,      *)
(* groups of destinations and caps.                                        *)
(***************************************************************************)
EXTENDS Router, SetFacts

\* The reference and the estimate as functions of the inputs they depend on.
Goals(req, g) == req.cands[g] \ UNION {req.cands[k] : k \in 1..(g - 1)}
Heights(req, n, open) == {Distance(Pos[n], req.at[g]) : g \in open}
Height(req, sat, n) ==
    IF DOMAIN req.cands \ sat = {} THEN 0 ELSE 3 * Min(Heights(req, n, DOMAIN req.cands \ sat))
Spans(roads) ==
    {Distance(Pos[d.from], Pos[d.to]) : d \in {d \in roads : TileOf[d.from] # TileOf[d.to]}}
Span(roads) == Max({0} \cup Spans(roads))
Fair(roads) == \A d \in roads : Distance(Pos[d.from], Pos[d.to]) <= d.time
Walk(k) == Walks(edges, present)[k]

Road(n, time, len) == [node |-> n, time |-> time, len |-> len]
Roads == [node : Nodes, time : Nat, len : Nat]
Known(n) == TileOf[n] \in present
Searching == status = "run" /\ Remaining(out) # {}
-----------------------------------------------------------------------------
(* Least and greatest numbers, and distances on a line.                    *)

LEMMA MinIs ==
  ASSUME NEW S, S \subseteq Nat, S # {}
  PROVE  Min(S) \in S /\ \A m \in S : Min(S) <= m
<1>1. \E n \in S : \A m \in S : n <= m
  BY LeastNumber
<1> QED
  BY <1>1, Zenon DEF Min

LEMMA MaxIs ==
  ASSUME NEW S, IsFiniteSet(S), S \subseteq Nat, S # {}
  PROVE  Max(S) \in S /\ \A m \in S : m <= Max(S)
<1> DEFINE F == {T \in SUBSET S : T # {} => \E n \in T : \A m \in T : m <= n}
<1>1. {} \in F
  OBVIOUS
<1>2. ASSUME NEW T \in SUBSET S, NEW x \in S \ T, T \in F PROVE T \cup {x} \in F
  <2>1. CASE T = {}
    BY <2>1
  <2>2. CASE T # {}
    <3>1. PICK n \in T : \A m \in T : m <= n
      BY <1>2, <2>2
    <3>2. CASE x <= n
      BY <3>1, <3>2
    <3>3. CASE ~(x <= n)
      <4>1. \A m \in T : m <= x
        BY <3>1, <3>3
      <4> QED
        BY <4>1
    <3> QED
      BY <3>2, <3>3
  <2> QED
    BY <2>1, <2>2
<1>3. \A T \in SUBSET S : \A x \in S \ T : T \in F => T \cup {x} \in F
  BY <1>2
<1> HIDE DEF F
<1>4. S \in F
  BY <1>1, <1>3, FiniteSubsets
<1>5. \E n \in S : \A m \in S : m <= n
  BY <1>4 DEF F
<1>6. \E n \in S : \A m \in S : n >= m
  BY <1>5
<1>7. Max(S) \in S /\ \A m \in S : Max(S) >= m
  BY <1>6, Zenon DEF Max
<1> QED
  BY <1>7

LEMMA DistanceIs ==
  ASSUME NEW x \in Int, NEW y \in Int, NEW z \in Int
  PROVE  /\ Distance(x, y) \in Nat /\ Distance(x, y) = Distance(y, x)
         /\ Distance(x, z) <= Distance(x, y) + Distance(y, z)
BY DEF Distance
-----------------------------------------------------------------------------
(* The inputs, the estimate and the crossings.                             *)

LEMMA InputsAre ==
  ASSUME edges \in Graphs, request \in Requests
  PROVE  /\ edges \subseteq Edge /\ IsFiniteSet(edges)
         /\ \A d \in edges : d.from \in Nodes /\ d.to \in Nodes /\ d.time \in Nat /\ d.len \in Nat
         /\ \A g \in Groups : g \in Nat /\ request.at[g] \in Int /\ request.cands[g] \subseteq Nodes
         /\ \A n \in Nodes : Pos[n] \in Int
         /\ Groups = DOMAIN request.cands /\ \A g : Targets(g) = Goals(request, g)
         /\ Honest = Fair(edges) /\ Crossing = Span(edges)
<1>1. edges \subseteq Edge /\ IsFiniteSet(edges)
  BY GraphsAssumption
<1>2. \A d \in edges : d.from \in Nodes /\ d.to \in Nodes /\ d.time \in Nat /\ d.len \in Nat
  BY <1>1 DEF Edge
<1>3. /\ request.cands \in Seq(SUBSET Nodes) /\ request.at \in Seq(Int)
      /\ Len(request.cands) = Len(request.at)
  BY RequestsAssumption DEF Request
<1>4. \A g \in Groups : g \in Nat /\ request.at[g] \in Int /\ request.cands[g] \subseteq Nodes
  BY <1>3 DEF Groups
<1>5. Groups = DOMAIN request.cands /\ \A g : Targets(g) = Goals(request, g)
  BY DEF Groups, Targets, Goals
<1>6. Honest = Fair(edges) /\ Crossing = Span(edges)
  BY DEF Honest, Fair, Crossing, Span, Spans
<1>7. \A n \in Nodes : Pos[n] \in Int
  BY NodesAssumption
<1> QED
  BY <1>1, <1>2, <1>4, <1>5, <1>6, <1>7

LEMMA HeightIs ==
  ASSUME edges \in Graphs, request \in Requests, NEW sat, NEW n \in Nodes
  PROVE  /\ Height(request, sat, n) \in Nat
         /\ \A g \in Groups \ sat :
                Height(request, sat, n) <= 3 * Distance(Pos[n], request.at[g])
         /\ Groups \ sat # {} => \E g \in Groups \ sat :
                Height(request, sat, n) = 3 * Distance(Pos[n], request.at[g])
         /\ Groups \ sat = {} => Height(request, sat, n) = 0
         /\ \A legs : DOMAIN legs = sat => Estimate(n, legs) = Height(request, sat, n)
<1> DEFINE open == Groups \ sat
           H == Heights(request, n, open)
<1>1. \A g \in open : Distance(Pos[n], request.at[g]) \in Nat
  BY InputsAre, DistanceIs
<1>2. /\ \A g \in open : Distance(Pos[n], request.at[g]) \in H
      /\ \A h \in H : \E g \in open : h = Distance(Pos[n], request.at[g])
  BY DEF Heights
<1>3. open = DOMAIN request.cands \ sat
  BY DEF Groups
<1>4. Height(request, sat, n) = IF open = {} THEN 0 ELSE 3 * Min(H)
  BY <1>3, Zenon DEF Height
<1>5. \A legs : DOMAIN legs = sat => Estimate(n, legs) = Height(request, sat, n)
  BY <1>4 DEF Estimate, Heights
<1> HIDE DEF H
<1>6. H \subseteq Nat /\ (open # {} => H # {})
  BY <1>1, <1>2
<1>7. open # {} => Min(H) \in H /\ \A m \in H : Min(H) <= m
  BY <1>6, MinIs
<1>8. Height(request, sat, n) \in Nat
  <2>1. CASE open = {}
    BY <1>4, <2>1
  <2>2. CASE open # {}
    <3>1. Height(request, sat, n) = 3 * Min(H) /\ Min(H) \in Nat
      BY <1>4, <1>6, <1>7, <2>2
    <3> QED
      BY <3>1
  <2> QED
    BY <2>1, <2>2
<1>9. ASSUME NEW g \in open PROVE Height(request, sat, n) <= 3 * Distance(Pos[n], request.at[g])
  <2>1. open # {} /\ Distance(Pos[n], request.at[g]) \in H
    BY <1>2, <1>9
  <2>2. Min(H) <= Distance(Pos[n], request.at[g]) /\ Min(H) \in Nat
    BY <1>6, <1>7, <2>1
  <2> QED
    BY <1>1, <1>4, <2>1, <2>2
<1>10. open # {} => \E g \in open : Height(request, sat, n) = 3 * Distance(Pos[n], request.at[g])
  BY <1>2, <1>4, <1>7
<1> QED
  BY <1>4, <1>5, <1>8, <1>9, <1>10

LEMMA HeightMoves ==
  ASSUME edges \in Graphs, request \in Requests, NEW sat, NEW m \in Nodes, NEW n \in Nodes
  PROVE  Height(request, sat, m) <= Height(request, sat, n) + 3 * Distance(Pos[m], Pos[n])
<1>0. Pos[m] \in Int /\ Pos[n] \in Int /\ Distance(Pos[m], Pos[n]) \in Nat
  BY InputsAre, DistanceIs
<1>1. CASE Groups \ sat = {}
  <2>1. Height(request, sat, m) = 0 /\ Height(request, sat, n) = 0
    BY <1>1, HeightIs
  <2> QED
    BY <1>0, <2>1
<1>2. CASE Groups \ sat # {}
  <2>1. PICK g \in Groups \ sat : Height(request, sat, n) = 3 * Distance(Pos[n], request.at[g])
    BY <1>2, HeightIs
  <2>2. Height(request, sat, m) <= 3 * Distance(Pos[m], request.at[g])
    BY HeightIs
  <2>3. request.at[g] \in Int
    BY InputsAre
  <2>4. Distance(Pos[m], request.at[g]) <= Distance(Pos[m], Pos[n]) + Distance(Pos[n], request.at[g])
    BY <1>0, <2>3, DistanceIs
  <2>5. Height(request, sat, m) \in Nat /\ Distance(Pos[m], request.at[g]) \in Nat
        /\ Distance(Pos[n], request.at[g]) \in Nat
    BY <1>0, <2>3, HeightIs, DistanceIs
  <2> QED
    BY <1>0, <2>1, <2>2, <2>4, <2>5
<1> QED
  BY <1>1, <1>2

LEMMA CrossingIs ==
  ASSUME edges \in Graphs, request \in Requests
  PROVE  /\ Span(edges) \in Nat
         /\ \A d \in edges : TileOf[d.from] # TileOf[d.to] =>
                Distance(Pos[d.from], Pos[d.to]) <= Span(edges)
<1> DEFINE over == {d \in edges : TileOf[d.from] # TileOf[d.to]}
           S == Spans(edges)
           A == {0} \cup S
<1>1. IsFiniteSet(over)
  BY InputsAre, FS_Subset
<1>2. S = {Distance(Pos[d.from], Pos[d.to]) : d \in over}
  BY Zenon DEF Spans
<1>3. /\ \A d \in over : Distance(Pos[d.from], Pos[d.to]) \in S
      /\ \A h \in S : \E d \in over : h = Distance(Pos[d.from], Pos[d.to])
  BY <1>2
<1>4. IsFiniteSet(S)
  <2> DEFINE f == [d \in over |-> Distance(Pos[d.from], Pos[d.to])]
  <2>1. \A d \in over : f[d] \in S
    BY <1>3
  <2>2. \A h \in S : \E d \in over : f[d] = h
    BY <1>3
  <2> HIDE DEF over, S
  <2>3. f \in [over -> S]
    BY <2>1
  <2> HIDE DEF f
  <2>4. f \in Surjection(over, S)
    BY <2>2, <2>3 DEF Surjection
  <2> QED
    BY <1>1, <2>4, FS_Surjection
<1>5. \A d \in over : Distance(Pos[d.from], Pos[d.to]) \in Nat
  BY InputsAre, DistanceIs
<1> HIDE DEF over, S
<1>6. S \subseteq Nat
  BY <1>3, <1>5
<1>7. IsFiniteSet(A)
  BY <1>4, FS_Singleton, FS_Union
<1>8. A \subseteq Nat /\ A # {}
  BY <1>6
<1>9. Span(edges) = Max(A)
  BY DEF Span, S
<1> HIDE DEF A
<1>10. Span(edges) \in A /\ \A m \in A : m <= Span(edges)
  BY <1>7, <1>8, <1>9, MaxIs
<1>11. S \subseteq A
  BY DEF A
<1>12. \A d \in edges : TileOf[d.from] # TileOf[d.to] => d \in over
  BY DEF over
<1> QED
  BY <1>3, <1>8, <1>10, <1>11, <1>12
-----------------------------------------------------------------------------
(* The roads: what the reference walks are.                                *)

On(w, d) == Road(d.to, w.time + d.time, w.len + d.len)

LEMMA LongerIs ==
  ASSUME NEW roads, roads \subseteq Edge, NEW tiles, NEW ws, ws \subseteq Roads
  PROVE  /\ Longer(roads, tiles, ws) \subseteq Roads
         /\ \A w \in ws, d \in roads : w.node = d.from /\ TileOf[d.to] \in tiles =>
                On(w, d) \in Longer(roads, tiles, ws)
         /\ \A v \in Longer(roads, tiles, ws) : \E w \in ws, d \in roads :
                w.node = d.from /\ TileOf[d.to] \in tiles /\ v = On(w, d)
<1> DEFINE pairs == {q \in ws \X roads : q[1].node = q[2].from /\ TileOf[q[2].to] \in tiles}
<1>1. Longer(roads, tiles, ws) = {On(p[1], p[2]) : p \in pairs}
  BY Zenon DEF Longer, On, Road
<1>2. \A w \in ws, d \in roads : w.node = d.from /\ TileOf[d.to] \in tiles =>
        <<w, d>> \in pairs /\ <<w, d>>[1] = w /\ <<w, d>>[2] = d
  OBVIOUS
<1>3. \A p \in pairs : /\ p[1] \in ws /\ p[2] \in roads
                       /\ p[1].node = p[2].from /\ TileOf[p[2].to] \in tiles
  OBVIOUS
<1> HIDE DEF pairs
<1>4. \A w \in ws, d \in roads : w.node = d.from /\ TileOf[d.to] \in tiles =>
        On(w, d) \in Longer(roads, tiles, ws)
  <2> TAKE w \in ws, d \in roads
  <2> HAVE w.node = d.from /\ TileOf[d.to] \in tiles
  <2>1. On(<<w, d>>[1], <<w, d>>[2]) \in Longer(roads, tiles, ws)
    BY <1>1, <1>2
  <2> QED
    BY <1>2, <2>1
<1>5. \A v \in Longer(roads, tiles, ws) : \E w \in ws, d \in roads :
        w.node = d.from /\ TileOf[d.to] \in tiles /\ v = On(w, d)
  BY <1>1, <1>3
<1>6. \A w \in Roads, d \in Edge : On(w, d) \in Roads
  <2> SUFFICES ASSUME NEW w \in Roads, NEW d \in Edge PROVE On(w, d) \in Roads
    OBVIOUS
  <2>1. d.to \in Nodes /\ w.time + d.time \in Nat /\ w.len + d.len \in Nat
    BY DEF Roads, Edge
  <2> QED
    BY <2>1 DEF On, Road, Roads
<1> QED
  BY <1>4, <1>5, <1>6

LEMMA WalksAre ==
  ASSUME NEW roads, roads \subseteq Edge, NEW tiles
  PROVE  /\ Walks(roads, tiles) \in [Nat -> SUBSET Roads]
         /\ Walks(roads, tiles)[0] = {Road(Source, 0, 0)}
         /\ \A k \in Nat : Walks(roads, tiles)[k + 1] =
                Walks(roads, tiles)[k] \cup Longer(roads, tiles, Walks(roads, tiles)[k])
<1> DEFINE S == SUBSET Roads
           step == [ws \in S |-> ws \cup Longer(roads, tiles, ws)]
           base == {Road(Source, 0, 0)}
           F(f) == [k \in Nat |-> IF k = 0 THEN base
                                  ELSE f[k - 1] \cup Longer(roads, tiles, f[k - 1])]
<1>1. base \in S
  BY NodesAssumption DEF Road, Roads
<1>2. step \in [S -> S]
  BY LongerIs
<1>3. Walks(roads, tiles) = CHOOSE f : f = F(f)
  BY DEF Walks, Road
<1> HIDE DEF step, base, S
<1>4. PICK f \in [Nat -> S] : f[0] = base /\ \A k \in Nat : f[k + 1] = step[f[k]]
  BY <1>1, <1>2, SequenceExists
<1>5. \A ws \in S : step[ws] = ws \cup Longer(roads, tiles, ws)
  BY DEF step
<1>6. f = F(f)
  <2>1. ASSUME NEW k \in Nat, k # 0 PROVE f[k] = f[k - 1] \cup Longer(roads, tiles, f[k - 1])
    <3>1. k - 1 \in Nat /\ k - 1 + 1 = k
      BY <2>1
    <3> QED
      BY <1>4, <1>5, <3>1
  <2> QED
    BY <1>4, <2>1
<1> DEFINE g == CHOOSE h : h = F(h)
<1>7. g = F(g)
  <2> HIDE DEF F
  <2> QED
    BY <1>6, Zenon
<1> HIDE DEF g
<1>8. g[0] = base
  BY <1>7
<1>9. ASSUME NEW k \in Nat PROVE g[k + 1] = g[k] \cup Longer(roads, tiles, g[k])
  <2>1. k + 1 \in Nat /\ k + 1 # 0 /\ k + 1 - 1 = k
    OBVIOUS
  <2>2. g[k + 1] = F(g)[k + 1]
    BY <1>7, Zenon
  <2> QED
    BY <2>1, <2>2
<1>10. \A k \in Nat : g[k] = f[k]
  <2> DEFINE P == {k \in Nat : g[k] = f[k]}
  <2>1. 0 \in P
    BY <1>4, <1>8
  <2>2. ASSUME NEW k \in Nat, k \in P PROVE k + 1 \in P
    <3>1. g[k] = f[k] /\ f[k] \in S
      BY <1>4, <2>2
    <3>2. f[k + 1] = g[k + 1]
      BY <1>4, <1>5, <1>9, <3>1
    <3> QED
      BY <3>2
  <2> HIDE DEF P
  <2>3. Nat \subseteq P
    BY <2>1, <2>2, SetOfAll
  <2> QED
    BY <2>3 DEF P
<1>11. g \in [Nat -> S]
  BY <1>4, <1>7, <1>10
<1> QED
  BY <1>3, <1>8, <1>9, <1>11 DEF base, g, S

\* The same of the walks of the network at hand, for citing.
LEMMA WalkIs ==
  ASSUME edges \in Graphs, request \in Requests, NEW k \in Nat
  PROVE  /\ Walk(k) \subseteq Roads /\ Walk(0) = {Road(Source, 0, 0)}
         /\ \A w \in Walk(k), d \in edges : w.node = d.from /\ Known(d.to) =>
                On(w, d) \in Walk(k + 1)
         /\ \A v \in Walk(k + 1) : v \in Walk(k) \/ \E w \in Walk(k), d \in edges :
                w.node = d.from /\ Known(d.to) /\ v = On(w, d)
         /\ Walk(k) \subseteq Walk(k + 1)
<1> DEFINE L == Longer(edges, present, Walk(k))
<1>1. edges \subseteq Edge
  BY InputsAre
<1>2. /\ Walks(edges, present) \in [Nat -> SUBSET Roads] /\ Walk(0) = {Road(Source, 0, 0)}
      /\ Walk(k + 1) = Walk(k) \cup L
  BY <1>1, WalksAre DEF Walk
<1>3. Walk(k) \subseteq Roads
  BY <1>2 DEF Walk
<1>4. /\ \A w \in Walk(k), d \in edges : w.node = d.from /\ Known(d.to) => On(w, d) \in L
      /\ \A v \in L : \E w \in Walk(k), d \in edges :
            w.node = d.from /\ Known(d.to) /\ v = On(w, d)
  BY <1>1, <1>3, LongerIs DEF Known
<1> HIDE DEF L
<1> QED
  BY <1>2, <1>3, <1>4

LEMMA WalksGrow ==
  ASSUME edges \in Graphs, request \in Requests, NEW j \in Nat, NEW k \in Nat, j <= k
  PROVE  Walk(j) \subseteq Walk(k)
<1> DEFINE P == {i \in Nat : Walk(j) \subseteq Walk(j + i)}
<1>1. \A i \in Nat : Walk(i) \subseteq Walk(i + 1)
  BY WalkIs
<1>2. 0 \in P
  OBVIOUS
<1>3. ASSUME NEW i \in Nat, i \in P PROVE i + 1 \in P
  <2>1. Walk(j + i) \subseteq Walk(j + i + 1)
    BY <1>1
  <2>2. j + i + 1 = j + (i + 1)
    OBVIOUS
  <2> QED
    BY <1>3, <2>1, <2>2
<1> HIDE DEF P
<1>4. k - j \in P
  BY <1>2, <1>3, SetOfAll
<1>5. j + (k - j) = k
  OBVIOUS
<1> QED
  BY <1>4, <1>5 DEF P
-----------------------------------------------------------------------------
(* What holds between any two turns of the loop.                           *)

Typed ==
    /\ edges \in Graphs /\ request \in Requests
    /\ heap \subseteq Entry
    /\ dist \in [Nodes -> Nat \cup {Infinity}]
    /\ visited \subseteq Nodes
    /\ loaded \subseteq present
    /\ \A g \in DOMAIN out : g \in Groups /\ out[g] \in Leg
    /\ status \in {"new", "run", "done", "stopped"}

\* Before the loop there is nothing, and the loop has the tiles of its nodes.
Started ==
    /\ status = "new" =>
        /\ heap = {} /\ visited = {} /\ DOMAIN out = {}
        /\ \A n \in Nodes : dist[n] = Infinity
    /\ status = "run" => Known(Source)
    /\ \A n \in visited : TileOf[n] \in loaded
    /\ \A n \in Nodes : dist[n] # Infinity => TileOf[n] \in loaded

\* An entry that may be settled has the time and the length of a road through
\* settled nodes, none twice.
Over(e, P) == e.node \notin P /\ Road(e.node, e.time, e.len) \in Walk(Cardinality(P))
Traced == \A e \in heap : Known(e.node) => \E P \in SUBSET visited : Over(e, P)

\* A leg is a road to a target of its group, and a target that was settled has
\* given its group a leg.
Legged(g) ==
    \E w \in Walk(Cardinality(Nodes) - 1) :
        w.node \in Goals(request, g) /\ w.time = out[g].time /\ w.len = out[g].len
Legs == \A g \in DOMAIN out : Legged(g)
Served(n) == \A g \in Groups : n \in Goals(request, g) => g \in DOMAIN out
Satisfied == status = "run" => Served(Source) /\ \A n \in visited : Served(n)

\* The nodes next to the settled ones are settled or queued.
Queued(n) == \E e \in heap : e.node = n
Reach ==
    Searching =>
        /\ Source \in visited \/ Queued(Source)
        /\ \A d \in edges : d.from \in visited /\ Known(d.to) => d.to \in visited \/ Queued(d.to)

\* An open node of a loaded tile is queued with its best time so far, and until a
\* group is satisfied with the estimate of now.
Estimated(n) == Height(request, DOMAIN out, n)
NoneFound == \A g \in DOMAIN out : Source \in Goals(request, g)
Best(n) ==
    \E e \in heap : /\ e.node = n /\ e.time = dist[n]
                    /\ NoneFound => e.key = 2 * dist[n] + Estimated(n)
Current == Searching => \A n \in Nodes : dist[n] # Infinity /\ n \notin visited => Best(n)

\* Until a group is satisfied, a key is at most the estimate of a crossing below
\* what it should be, and the first open node of every road is queued in time.
Slack(k) == 6 * (k * Span(edges))
Keyed == \A e \in heap : 2 * e.time + Estimated(e.node) <= e.key + 3 * Span(edges)
SourceQueued ==
    Source \notin visited => \E e \in heap : e.node = Source /\ e.key <= Estimated(Source)
InTime(n, time, k) ==
    \E e \in heap : e.node = n /\ e.key <= 3 * time + Estimated(n) + Slack(k)
Ahead ==
    \A k \in Nat : \A w \in Walk(k) : \A d \in edges :
        d.from = w.node /\ d.from \in visited /\ d.to \notin visited /\ Known(d.to)
            => InTime(d.to, w.time + d.time, k + 1)
Early == Searching /\ Fair(edges) /\ NoneFound => Keyed /\ SourceQueued /\ Ahead

\* The first leg is near every road.
Near(g, k, w) ==
    2 * out[g].time <= 3 * w.time + 3 * Distance(Pos[w.node], request.at[g])
                       + Slack(k) + 3 * Span(edges)
First(g) ==
    /\ Source \notin Goals(request, g)
    /\ \A h \in DOMAIN out : Source \in Goals(request, h) \/ h = g
FirstLeg ==
    Fair(edges) => \A g \in DOMAIN out : First(g) =>
        \A k \in Nat : \A w \in Walk(k) : w.node \in Goals(request, g) => Near(g, k, w)

\* ReachableIsFound in the terms of this module.
Complete ==
    status = "done" /\ Known(Source) =>
        \A g \in Groups : \A w \in Walk(Cardinality(Nodes) - 1) :
            w.node \in Goals(request, g) => g \in DOMAIN out

Inv == /\ Typed /\ Started /\ Traced /\ Legs /\ Satisfied /\ Reach /\ Current
       /\ Early /\ FirstLeg /\ Complete
-----------------------------------------------------------------------------
(* What the operators of a turn do.                                        *)

LEMMA WithLegsIs ==
  ASSUME NEW legs, NEW gs, NEW time \in Nat, NEW len \in Nat
  PROVE  /\ DOMAIN WithLegs(legs, gs, time, len) = gs \cup DOMAIN legs
         /\ \A g \in gs : WithLegs(legs, gs, time, len)[g] = [time |-> time, len |-> len]
         /\ \A g \in DOMAIN legs : g \notin gs => WithLegs(legs, gs, time, len)[g] = legs[g]
BY DEF WithLegs

LEMMA PushedIs ==
  ASSUME Typed, NEW e \in heap, NEW d \in edges, NEW legs, NEW sat, DOMAIN legs = sat
  PROVE  /\ Pushed(d, e, legs) \in Entry
         /\ Pushed(d, e, legs).node = d.to
         /\ Pushed(d, e, legs).time = e.time + d.time
         /\ Pushed(d, e, legs).len = e.len + d.len
         /\ TileOf[d.to] \in loaded' =>
                Pushed(d, e, legs).key = 2 * (e.time + d.time) + Height(request, sat, d.to)
         /\ TileOf[d.to] \notin loaded' =>
                Pushed(d, e, legs).key = 2 * (e.time + d.time) + Height(request, sat, e.node)
<1>1. /\ edges \in Graphs /\ request \in Requests
      /\ e.time \in Nat /\ e.len \in Nat /\ e.node \in Nodes
  BY DEF Typed, Entry
<1>2. d.to \in Nodes /\ d.time \in Nat /\ d.len \in Nat
  BY <1>1, InputsAre
<1>3. \A n \in {d.to, e.node} : Estimate(n, legs) = Height(request, sat, n)
                                /\ Height(request, sat, n) \in Nat
  BY <1>1, <1>2, HeightIs
<1>4. e.time + d.time \in Nat /\ e.len + d.len \in Nat
  BY <1>1, <1>2
<1>5. CASE TileOf[d.to] \in loaded'
  <2>1. Pushed(d, e, legs) =
            [key |-> 2 * (e.time + d.time) + Height(request, sat, d.to),
             time |-> e.time + d.time, node |-> d.to, len |-> e.len + d.len]
    BY <1>3, <1>5 DEF Pushed
  <2>2. 2 * (e.time + d.time) + Height(request, sat, d.to) \in Nat
    BY <1>3, <1>4
  <2> QED
    BY <1>2, <1>4, <1>5, <2>1, <2>2 DEF Entry
<1>6. CASE TileOf[d.to] \notin loaded'
  <2>1. Pushed(d, e, legs) =
            [key |-> 2 * (e.time + d.time) + Height(request, sat, e.node),
             time |-> e.time + d.time, node |-> d.to, len |-> e.len + d.len]
    BY <1>3, <1>6 DEF Pushed
  <2>2. 2 * (e.time + d.time) + Height(request, sat, e.node) \in Nat
    BY <1>3, <1>4
  <2> QED
    BY <1>2, <1>4, <1>6, <2>1, <2>2 DEF Entry
<1> QED
  BY <1>5, <1>6

\* A turn that goes on: what is queued and what is known of the nodes after it.
Came(x, d, e) ==
    /\ d.from = e.node
    /\ TileOf[d.to] \in loaded' => d.to \notin visited'
    /\ x = Pushed(d, e, out')
LEMMA SettleTurn ==
  ASSUME Typed, NEW e \in heap, Settle(e), Remaining(out') # {}
  PROVE  /\ heap \ {e} \subseteq heap'
         /\ \A x \in heap' : (x \in heap /\ x # e) \/ \E d \in edges : Came(x, d, e)
         /\ \A d \in edges : d.from = e.node /\ TileOf[d.to] \notin loaded' =>
                Pushed(d, e, out') \in heap'
         /\ \A d \in edges : d.from = e.node /\ TileOf[d.to] \in loaded' /\ d.to \notin visited' =>
                \/ \E p \in edges : /\ p.to = d.to /\ p.time <= d.time
                                    /\ Pushed(p, e, out') \in heap'
                \/ dist[d.to] # Infinity /\ dist[d.to] <= e.time + d.time
         /\ \A n \in Nodes :
                \/ dist'[n] = dist[n]
                \/ \E p \in edges : /\ p.to = n /\ TileOf[n] \in loaded'
                                    /\ dist'[n] = e.time + p.time
                                    /\ Pushed(p, e, out') \in heap'
         /\ dist' \in [Nodes -> Nat \cup {Infinity}]
<1> DEFINE better == {d \in edges : d.from = e.node /\ Improves(d, e.time)}
<1>1. PICK some \in Pushes(better) :
            /\ heap' = (heap \ {e}) \cup {Pushed(d, e, out') : d \in some}
            /\ dist' = [n \in Nodes |->
                 IF TileOf[n] \in loaded' /\ \E d \in some : d.to = n
                 THEN e.time + Min({d.time : d \in {d \in some : d.to = n}})
                 ELSE dist[n]]
  BY DEF Settle
<1>2. /\ some \subseteq better
      /\ \A d \in better : TileOf[d.to] \in loaded' =>
            \E p \in some : p.to = d.to /\ p.time <= d.time
      /\ \A d \in better : TileOf[d.to] \notin loaded' => d \in some
  BY <1>1, Zenon DEF Pushes
<1>3. \A d \in edges : d.from = e.node =>
        /\ d \in better => TileOf[d.to] \notin loaded' \/ d.to \notin visited'
        /\ TileOf[d.to] \notin loaded' => d \in better
        /\ d \notin better /\ d.to \notin visited' =>
                dist[d.to] # Infinity /\ ~(e.time + d.time < dist[d.to])
  BY DEF Improves
<1>4. some \subseteq edges /\ \A d \in some : d.from = e.node
  BY <1>2
<1>5. /\ e.time \in Nat /\ dist \in [Nodes -> Nat \cup {Infinity}]
      /\ \A d \in edges : d.time \in Nat /\ d.to \in Nodes
  <2>1. edges \in Graphs /\ request \in Requests
    BY DEF Typed
  <2> QED
    BY <2>1, InputsAre DEF Typed, Entry
<1> HIDE DEF better
<1>6. \A n \in Nodes : (\E d \in some : d.to = n) =>
        \E p \in some : p.to = n /\ Min({d.time : d \in {d \in some : d.to = n}}) = p.time
  <2> SUFFICES ASSUME NEW n \in Nodes, \E d \in some : d.to = n
               PROVE  \E p \in some :
                        p.to = n /\ Min({d.time : d \in {d \in some : d.to = n}}) = p.time
    OBVIOUS
  <2> DEFINE T == {d.time : d \in {d \in some : d.to = n}}
  <2>1. T \subseteq Nat /\ T # {} /\ \A t \in T : \E p \in some : p.to = n /\ t = p.time
    BY <1>4, <1>5
  <2> HIDE DEF T
  <2>2. Min(T) \in T
    BY <2>1, MinIs
  <2>3. \E p \in some : p.to = n /\ Min(T) = p.time
    BY <2>1, <2>2
  <2> QED
    BY <2>3 DEF T
<1>7. \A d \in some : Pushed(d, e, out') \in heap'
  BY <1>1
<1>8. \A n \in Nodes :
        \/ dist'[n] = dist[n]
        \/ \E p \in some : p.to = n /\ TileOf[n] \in loaded' /\ dist'[n] = e.time + p.time
  <2> TAKE n \in Nodes
  <2>1. CASE TileOf[n] \in loaded' /\ \E d \in some : d.to = n
    <3>1. PICK p \in some : p.to = n /\ Min({d.time : d \in {d \in some : d.to = n}}) = p.time
      BY <1>6, <2>1
    <3>2. dist'[n] = e.time + Min({d.time : d \in {d \in some : d.to = n}})
      BY <1>1, <2>1
    <3> QED
      BY <2>1, <3>1, <3>2
  <2>2. CASE ~(TileOf[n] \in loaded' /\ \E d \in some : d.to = n)
    BY <1>1, <2>2
  <2> QED
    BY <2>1, <2>2
<1>9. dist' \in [Nodes -> Nat \cup {Infinity}]
  <2>1. \A n \in Nodes : dist'[n] \in Nat \cup {Infinity}
    BY <1>4, <1>5, <1>8
  <2>2. dist' = [n \in Nodes |-> dist'[n]]
    BY <1>1
  <2> QED
    BY <2>1, <2>2
<1>10. \A x \in heap' : (x \in heap /\ x # e) \/ \E d \in edges : Came(x, d, e)
  <2> TAKE x \in heap'
  <2>1. CASE x \in heap \ {e}
    BY <2>1
  <2>2. ASSUME NEW d \in some, x = Pushed(d, e, out') PROVE Came(x, d, e)
    BY <1>2, <1>3, <1>4, <2>2 DEF Came
  <2> QED
    BY <1>1, <1>4, <2>1, <2>2
<1>11. \A d \in edges : d.from = e.node /\ TileOf[d.to] \notin loaded' =>
                Pushed(d, e, out') \in heap'
  BY <1>2, <1>3, <1>7
<1>12. ASSUME NEW d \in edges, d.from = e.node, TileOf[d.to] \in loaded', d.to \notin visited'
       PROVE  \/ \E p \in edges : /\ p.to = d.to /\ p.time <= d.time
                                  /\ Pushed(p, e, out') \in heap'
              \/ dist[d.to] # Infinity /\ dist[d.to] <= e.time + d.time
  <2>1. CASE d \in better
    BY <1>2, <1>4, <1>7, <1>12, <2>1
  <2>2. CASE d \notin better
    <3>1. dist[d.to] # Infinity /\ ~(e.time + d.time < dist[d.to])
      BY <1>3, <1>12, <2>2
    <3>2. dist[d.to] \in Nat
      BY <1>5, <3>1
    <3> QED
      BY <1>5, <3>1, <3>2
  <2> QED
    BY <2>1, <2>2
<1>13. heap \ {e} \subseteq heap'
  BY <1>1
<1>14. \A n \in Nodes :
        \/ dist'[n] = dist[n]
        \/ \E p \in edges : /\ p.to = n /\ TileOf[n] \in loaded'
                            /\ dist'[n] = e.time + p.time
                            /\ Pushed(p, e, out') \in heap'
  BY <1>4, <1>7, <1>8
<1> QED
  BY <1>9, <1>10, <1>11, <1>12, <1>13, <1>14
-----------------------------------------------------------------------------
(* Each step keeps the types and what a search starts with.                *)

LEMMA BeginIs ==
  ASSUME Typed, Begin, status' = "run"
  PROVE  /\ status = "new" /\ Known(Source) /\ TileOf[Source] \in loaded'
         /\ DOMAIN out' = Reached(Source, out) \cup DOMAIN out
         /\ \E x \in Entry : /\ heap' = {x}
                             /\ x.node = Source /\ x.time = 0 /\ x.len = 0
                             /\ x.key = Height(request, DOMAIN out', Source)
         /\ dist' = [dist EXCEPT ![Source] = 0]
<1>1. /\ status = "new" /\ Known(Source)
      /\ loaded' = LoadScratch(TileOf[Source])
      /\ out' = WithLegs(out, Reached(Source, out), 0, 0)
      /\ dist' = [dist EXCEPT ![Source] = 0]
      /\ heap' = {[key |-> Estimate(Source, out'), time |-> 0, node |-> Source, len |-> 0]}
  BY DEF Begin, Known
<1>2. DOMAIN out' = Reached(Source, out) \cup DOMAIN out
  BY <1>1, WithLegsIs
<1>3. Source \in Nodes /\ edges \in Graphs /\ request \in Requests
  BY NodesAssumption DEF Typed
<1>4. /\ Estimate(Source, out') = Height(request, DOMAIN out', Source)
      /\ Height(request, DOMAIN out', Source) \in Nat
  BY <1>3, HeightIs
<1> DEFINE x == [key |-> Estimate(Source, out'), time |-> 0, node |-> Source, len |-> 0]
<1>5. x \in Entry /\ x.node = Source /\ x.time = 0 /\ x.len = 0 /\ x.key = Estimate(Source, out')
  BY <1>3, <1>4 DEF Entry
<1> HIDE DEF x
<1>6. heap' = {x}
  BY <1>1 DEF x
<1>7. TileOf[Source] \in loaded'
  BY <1>1 DEF LoadScratch, Known
<1> QED
  BY <1>1, <1>2, <1>4, <1>5, <1>6, <1>7

LEMMA NextTyped == Typed /\ [Next]_vars => Typed'
<1> SUFFICES ASSUME Typed, [Next]_vars PROVE Typed'
  OBVIOUS
<1>0. /\ edges \in Graphs /\ request \in Requests /\ heap \subseteq Entry
      /\ dist \in [Nodes -> Nat \cup {Infinity}] /\ visited \subseteq Nodes /\ loaded \subseteq present
      /\ \A g \in DOMAIN out : g \in Groups /\ out[g] \in Leg
      /\ status \in {"new", "run", "done", "stopped"}
      /\ Source \in Nodes
  BY NodesAssumption DEF Typed
<1>1. \A t : LoadScratch(t) \subseteq present
  BY <1>0 DEF LoadScratch
<1>2. ASSUME NEW n, NEW time \in Nat, NEW len \in Nat,
             request' = request, out' = WithLegs(out, Reached(n, out), time, len)
      PROVE  \A g \in DOMAIN out' : g \in Groups' /\ out'[g] \in Leg
  <2>1. Groups' = Groups /\ Reached(n, out) \subseteq Groups
    BY <1>2 DEF Groups, Reached
  <2>2. [time |-> time, len |-> len] \in Leg
    BY DEF Leg
  <2>3. /\ DOMAIN out' = Reached(n, out) \cup DOMAIN out
        /\ \A g \in Reached(n, out) : out'[g] = [time |-> time, len |-> len]
        /\ \A g \in DOMAIN out : g \notin Reached(n, out) => out'[g] = out[g]
    BY <1>2 DEF WithLegs
  <2> QED
    BY <1>0, <2>1, <2>2, <2>3
<1>3. CASE Begin
  <2>1. edges' = edges /\ request' = request /\ present' = present /\ visited' = visited
    BY <1>3 DEF Begin, inputVars
  <2>2. CASE UNCHANGED <<heap, dist, loaded, out>> /\ status' = "done"
    BY <1>0, <2>1, <2>2 DEF Typed, Groups
  <2>3. CASE /\ loaded' = LoadScratch(TileOf[Source])
             /\ dist' = [dist EXCEPT ![Source] = 0]
             /\ out' = WithLegs(out, Reached(Source, out), 0, 0)
             /\ \/ status' = "done" /\ UNCHANGED heap
                \/ status' = "run"
    <3>1. \A g \in DOMAIN out' : g \in Groups' /\ out'[g] \in Leg
      BY <1>2, <2>1, <2>3
    <3>2. dist' \in [Nodes -> Nat \cup {Infinity}]
      BY <1>0, <2>3
    <3>3. heap' \subseteq Entry
      <4>1. CASE status' = "run"
        <5>1. PICK x \in Entry : heap' = {x}
          BY <1>3, <4>1, BeginIs
        <5> QED
          BY <5>1
      <4> QED
        BY <1>0, <2>3, <4>1
    <3> QED
      BY <1>0, <1>1, <2>1, <2>3, <3>1, <3>2, <3>3 DEF Typed
  <2> QED
    BY <1>3, <2>2, <2>3 DEF Begin
<1>4. ASSUME NEW e \in heap, Pass(e) PROVE Typed'
  <2>1. /\ UNCHANGED <<edges, request, present, dist, visited, out, status>>
        /\ heap' = heap \ {e} /\ loaded' = LoadScratch(TileOf[e.node])
    BY <1>4 DEF Pass, inputVars
  <2> QED
    BY <1>0, <1>1, <2>1 DEF Typed, Groups
<1>5. ASSUME NEW e \in heap, Deadline(e) PROVE Typed'
  <2>1. /\ UNCHANGED <<edges, request, present, dist, out>> /\ status' = "stopped"
        /\ heap' = heap \ {e} /\ loaded' = LoadScratch(TileOf[e.node])
        /\ visited' = visited \cup {e.node}
    BY <1>5 DEF Deadline, inputVars
  <2>2. e.node \in Nodes
    BY <1>0 DEF Entry
  <2> QED
    BY <1>0, <1>1, <2>1, <2>2 DEF Typed, Groups
<1>6. ASSUME NEW e \in heap, Settle(e) PROVE Typed'
  <2>1. /\ UNCHANGED <<edges, request, present, status>>
        /\ loaded' = LoadScratch(TileOf[e.node])
        /\ visited' = visited \cup {e.node}
        /\ out' = WithLegs(out, Reached(e.node, out), e.time, e.len)
    BY <1>6 DEF Settle, inputVars
  <2>2. e.node \in Nodes /\ e.time \in Nat /\ e.len \in Nat
    BY <1>0 DEF Entry
  <2>3. \A g \in DOMAIN out' : g \in Groups' /\ out'[g] \in Leg
    BY <1>2, <2>1, <2>2
  <2>4. heap' \subseteq Entry /\ dist' \in [Nodes -> Nat \cup {Infinity}]
    <3>1. CASE Remaining(out') = {}
      BY <1>0, <1>6, <3>1 DEF Settle
    <3>2. CASE Remaining(out') # {}
      <4>1. /\ dist' \in [Nodes -> Nat \cup {Infinity}]
            /\ \A x \in heap' : (x \in heap /\ x # e) \/ \E d \in edges : Came(x, d, e)
        BY <1>6, <3>2, SettleTurn
      <4>2. \A d \in edges : Pushed(d, e, out') \in Entry
        BY PushedIs
      <4> QED
        BY <1>0, <4>1, <4>2 DEF Came
    <3> QED
      BY <3>1, <3>2
  <2> QED
    BY <1>0, <1>1, <2>1, <2>2, <2>3, <2>4 DEF Typed
<1>7. CASE Return
  BY <1>0, <1>7 DEF Return, Typed, inputVars, Groups
<1>8. CASE UNCHANGED vars
  BY <1>0, <1>8 DEF vars, inputVars, Typed, Groups
<1> QED
  BY <1>3, <1>4, <1>5, <1>6, <1>7, <1>8 DEF Next

LEMMA NextStarted == Typed /\ Started /\ [Next]_vars => Started'
<1> SUFFICES ASSUME Typed, Started, [Next]_vars PROVE Started'
  OBVIOUS
<1>0. /\ Source \in Nodes /\ dist \in [Nodes -> Nat \cup {Infinity}] /\ heap \subseteq Entry
      /\ \A n \in visited : TileOf[n] \in loaded
      /\ \A n \in Nodes : dist[n] # Infinity => TileOf[n] \in loaded
      /\ \A t : loaded \subseteq LoadScratch(t) /\ (t \in present => t \in LoadScratch(t))
  BY NodesAssumption DEF Typed, Started, LoadScratch
<1>3. CASE Begin
  <2>1. /\ present' = present /\ visited' = visited /\ status' # "new" /\ visited = {}
        /\ \A n \in Nodes : dist[n] = Infinity
    BY <1>3 DEF Begin, inputVars, Started
  <2>2. status' = "run" => Known(Source)'
    BY <1>3, <2>1 DEF Begin, Known
  <2>3. \A n \in Nodes : dist'[n] # Infinity => TileOf[n] \in loaded'
    <3>1. CASE dist' = dist
      BY <2>1, <3>1
    <3>2. CASE dist' = [dist EXCEPT ![Source] = 0] /\ TileOf[Source] \in loaded'
      BY <1>0, <2>1, <3>2
    <3> QED
      BY <1>0, <1>3, <3>1, <3>2 DEF Begin
  <2> QED
    BY <2>1, <2>2, <2>3 DEF Started
<1>4. ASSUME NEW e \in heap, Pass(e) \/ Deadline(e) PROVE Started'
  <2>1. /\ UNCHANGED <<present, dist, out>> /\ loaded' = LoadScratch(TileOf[e.node])
        /\ status = "run" /\ (status' = "run" \/ status' = "stopped")
        /\ \/ visited' = visited
           \/ visited' = visited \cup {e.node} /\ TileOf[e.node] \in present
    BY <1>4 DEF Pass, Deadline, Running, inputVars
  <2>2. \A n \in visited' : TileOf[n] \in loaded'
    BY <1>0, <2>1
  <2> QED
    BY <1>0, <2>1, <2>2 DEF Started, Known
<1>5. ASSUME NEW e \in heap, Settle(e) PROVE Started'
  <2>1. /\ present' = present /\ loaded' = LoadScratch(TileOf[e.node])
        /\ status = "run" /\ status' = "run"
        /\ visited' = visited \cup {e.node} /\ TileOf[e.node] \in present
    BY <1>5 DEF Settle, Running, inputVars
  <2>2. \A n \in visited' : TileOf[n] \in loaded'
    BY <1>0, <2>1
  <2>3. \A n \in Nodes : dist'[n] # Infinity => TileOf[n] \in loaded'
    <3>1. CASE Remaining(out') = {}
      BY <1>0, <1>5, <2>1, <3>1 DEF Settle
    <3>2. CASE Remaining(out') # {}
      <4>1. \A n \in Nodes : dist'[n] = dist[n] \/ TileOf[n] \in loaded'
        BY <1>5, <3>2, SettleTurn
      <4> QED
        BY <1>0, <2>1, <4>1
    <3> QED
      BY <3>1, <3>2
  <2> QED
    BY <2>1, <2>2, <2>3 DEF Started, Known
<1>6. CASE Return
  BY <1>6 DEF Return, Started, Known, inputVars
<1>7. CASE UNCHANGED vars
  BY <1>7 DEF vars, inputVars, Started, Known
<1> QED
  BY <1>3, <1>4, <1>5, <1>6, <1>7 DEF Next
LEMMA InputsKept ==
  ASSUME [Next]_vars
  PROVE  edges' = edges /\ request' = request /\ present' = present
BY DEF Next, Begin, Pass, Settle, Deadline, Return, inputVars, vars
-----------------------------------------------------------------------------
(* The roads of entries and legs.                                          *)

\* A road over a set of nodes without its own has fewer edges than there are nodes.
LEMMA OverIsShort ==
  ASSUME Typed, NEW e \in heap, NEW P \in SUBSET Nodes, Over(e, P)
  PROVE  /\ Cardinality(P) \in Nat /\ IsFiniteSet(P)
         /\ Cardinality(P) <= Cardinality(Nodes) - 1 /\ Cardinality(Nodes) - 1 \in Nat
         /\ Road(e.node, e.time, e.len) \in Walk(Cardinality(Nodes) - 1)
<1>1. e.node \in Nodes /\ e.node \notin P /\ IsFiniteSet(Nodes)
  BY NodesAssumption DEF Typed, Entry, Over
<1>2. P \subseteq Nodes \ {e.node} /\ IsFiniteSet(Nodes \ {e.node})
  BY <1>1, FS_Subset
<1>3. IsFiniteSet(P) /\ Cardinality(P) <= Cardinality(Nodes \ {e.node})
  BY <1>2, FS_Subset
<1>4. Cardinality(Nodes \ {e.node}) = Cardinality(Nodes) - 1
  BY <1>1, FS_RemoveElement
<1>5. Cardinality(P) \in Nat /\ Cardinality(Nodes \ {e.node}) \in Nat
  BY <1>2, <1>3, FS_CardinalityType
<1>6. edges \in Graphs /\ request \in Requests
  BY DEF Typed
<1>7. Walk(Cardinality(P)) \subseteq Walk(Cardinality(Nodes) - 1)
  <2> DEFINE j == Cardinality(P)
             k == Cardinality(Nodes) - 1
  <2>1. j \in Nat /\ k \in Nat /\ j <= k
    BY <1>3, <1>4, <1>5
  <2> HIDE DEF j, k
  <2>2. Walk(j) \subseteq Walk(k)
    BY <1>6, <2>1, WalksGrow
  <2> QED
    BY <2>2 DEF j, k
<1> QED
  BY <1>3, <1>4, <1>5, <1>7 DEF Over

LEMMA NextTraced == Typed /\ Started /\ Traced /\ [Next]_vars => Traced'
<1> SUFFICES ASSUME Typed, Started, Traced, [Next]_vars PROVE Traced'
  OBVIOUS
<1>0. edges' = edges /\ request' = request /\ present' = present
  BY InputsKept
<1>1. /\ \A k : Walk(k)' = Walk(k)
      /\ \A n : Known(n)' <=> Known(n)
      /\ \A x, P : Over(x, P)' <=> Over(x, P)
  BY <1>0 DEF Walk, Known, Over
<1>2. \A x \in heap : Known(x.node) => \E P \in SUBSET visited : Over(x, P)
  BY DEF Traced
<1>3. ASSUME heap' \subseteq heap, visited \subseteq visited' PROVE Traced'
  BY <1>1, <1>2, <1>3 DEF Traced
<1>4. CASE Begin
  <2>1. CASE status' = "run"
    <3>1. PICK x \in Entry : heap' = {x} /\ x.node = Source /\ x.time = 0 /\ x.len = 0
      BY <1>4, <2>1, BeginIs
    <3>2. edges \in Graphs /\ request \in Requests
      BY DEF Typed
    <3>3. Road(Source, 0, 0) \in Walk(0)
      BY <3>2, WalkIs
    <3>4. Over(x, {})
      BY <3>1, <3>3, FS_EmptySet DEF Over
    <3> QED
      BY <1>1, <3>1, <3>4 DEF Traced
  <2>2. CASE status' # "run"
    BY <1>3, <1>4, <2>2 DEF Begin
  <2> QED
    BY <2>1, <2>2
<1>5. ASSUME NEW e \in heap, Pass(e) \/ Deadline(e) PROVE Traced'
  BY <1>3, <1>5 DEF Pass, Deadline
<1>6. ASSUME NEW e \in heap, Settle(e) PROVE Traced'
  <2>1. CASE Remaining(out') = {}
    BY <1>3, <1>6, <2>1 DEF Settle
  <2>2. CASE Remaining(out') # {}
    <3>1. \A x \in heap' : (x \in heap /\ x # e) \/ \E d \in edges : Came(x, d, e)
      BY <1>6, <2>2, SettleTurn
    <3>2. Known(e.node) /\ visited' = visited \cup {e.node}
      BY <1>6 DEF Settle, Known
    <3>3. PICK P \in SUBSET visited : Over(e, P)
      BY <1>2, <3>2
    <3>4. visited \subseteq Nodes /\ edges \in Graphs /\ request \in Requests
      BY DEF Typed
    <3>5. \A n \in visited' : TileOf[n] \in loaded'
      BY NextStarted DEF Started
    <3>6. ASSUME NEW d \in edges, NEW x, Came(x, d, e), Known(x.node)
          PROVE  \E Q \in SUBSET visited' : Over(x, Q)
      <4> DEFINE Q == P \cup {e.node}
                 w == Road(e.node, e.time, e.len)
                 k == Cardinality(P)
      <4>1. x.node = d.to /\ x.time = e.time + d.time /\ x.len = e.len + d.len
        BY <3>6, PushedIs DEF Came
      <4>2. d.from = e.node /\ d.to \notin visited'
        BY <3>5, <3>6 DEF Came
      <4>3. k \in Nat /\ IsFiniteSet(P)
        BY <3>3, <3>4, OverIsShort
      <4>4. Cardinality(Q) = k + 1
        BY <3>3, <4>3, FS_AddElement DEF Over
      <4>5. w \in Walk(k) /\ w.node = d.from /\ Known(d.to)
        BY <3>3, <3>6, <4>1, <4>2 DEF Over, Road
      <4> HIDE DEF k, w
      <4>6. On(w, d) \in Walk(k + 1)
        BY <3>4, <4>3, <4>5, WalkIs
      <4>7. On(w, d) = Road(x.node, x.time, x.len)
        BY <4>1 DEF On, Road, w
      <4>8. x.node \notin Q
        BY <3>2, <4>1, <4>2
      <4>9. Over(x, Q)
        BY <4>4, <4>6, <4>7, <4>8 DEF Over
      <4> QED
        BY <3>2, <4>9
    <3>7. \A x \in heap' : Known(x.node) => \E Q \in SUBSET visited' : Over(x, Q)
      <4> SUFFICES ASSUME NEW x \in heap', Known(x.node)
                   PROVE  \E Q \in SUBSET visited' : Over(x, Q)
        OBVIOUS
      <4>1. CASE x \in heap
        BY <1>2, <3>2, <4>1
      <4>2. CASE \E d \in edges : Came(x, d, e)
        BY <3>6, <4>2
      <4> QED
        BY <3>1, <4>1, <4>2
    <3> QED
      BY <1>1, <3>7 DEF Traced
  <2> QED
    BY <2>1, <2>2
<1>7. CASE Return \/ UNCHANGED vars
  BY <1>3, <1>7 DEF Return, vars
<1> QED
  BY <1>4, <1>5, <1>6, <1>7 DEF Next

LEMMA NextLegs == Typed /\ Started /\ Traced /\ Legs /\ [Next]_vars => Legs'
<1> SUFFICES ASSUME Typed, Started, Traced, Legs, [Next]_vars PROVE Legs'
  OBVIOUS
<1> DEFINE N == Cardinality(Nodes) - 1
           Leads(g, time, len) == \E w \in Walk(N) :
                w.node \in Goals(request, g) /\ w.time = time /\ w.len = len
<1>0. edges' = edges /\ request' = request /\ present' = present
  BY InputsKept
<1>1. \A g : Legged(g) <=> Leads(g, out[g].time, out[g].len)
  BY DEF Legged
<1>2. \A g : Legged(g)' <=> Leads(g, out'[g].time, out'[g].len)
  BY <1>0 DEF Legged, Walk
<1>3. edges \in Graphs /\ request \in Requests
  BY DEF Typed
<1>4. \A g, n, time, len : Road(n, time, len) \in Walk(N) /\ n \in Goals(request, g)
        => Leads(g, time, len)
  BY DEF Road
<1> HIDE DEF Leads, N
<1>5. \A g \in DOMAIN out : Leads(g, out[g].time, out[g].len)
  BY <1>1 DEF Legs
<1>6. ASSUME NEW n, NEW time \in Nat, NEW len \in Nat, Road(n, time, len) \in Walk(N),
             out' = WithLegs(out, Reached(n, out), time, len)
      PROVE  Legs'
  <2>1. /\ DOMAIN out' = Reached(n, out) \cup DOMAIN out
        /\ \A g \in Reached(n, out) : out'[g].time = time /\ out'[g].len = len
        /\ \A g \in DOMAIN out : g \notin Reached(n, out) => out'[g] = out[g]
    BY <1>6 DEF WithLegs
  <2>2. \A g \in Reached(n, out) : n \in Goals(request, g)
    BY <1>3, InputsAre DEF Reached
  <2>3. \A g \in DOMAIN out' : Leads(g, out'[g].time, out'[g].len)
    BY <1>4, <1>5, <1>6, <2>1, <2>2
  <2> QED
    BY <1>2, <2>3 DEF Legs
<1>7. ASSUME out' = out PROVE Legs'
  BY <1>2, <1>5, <1>7 DEF Legs
<1>8. CASE Begin
  <2>1. Road(Source, 0, 0) \in Walk(N)
    <3>1. IsFiniteSet(Nodes) /\ Source \in Nodes
      BY NodesAssumption
    <3>2. Cardinality(Nodes) \in Nat /\ Cardinality(Nodes) # 0
      BY <3>1, FS_CardinalityType, FS_EmptySet
    <3>3. N \in Nat
      BY <3>2 DEF N
    <3>4. Walk(0) \subseteq Walk(N)
      BY <1>3, <3>3, WalksGrow
    <3>5. Road(Source, 0, 0) \in Walk(0)
      BY <1>3, WalkIs
    <3> QED
      BY <3>4, <3>5
  <2> QED
    BY <1>6, <1>7, <1>8, <2>1 DEF Begin
<1>9. ASSUME NEW e \in heap, Settle(e) PROVE Legs'
  <2>1. e.time \in Nat /\ e.len \in Nat /\ out' = WithLegs(out, Reached(e.node, out), e.time, e.len)
    BY <1>9 DEF Settle, Typed, Entry
  <2>2. Known(e.node)
    BY <1>9 DEF Settle, Known
  <2>3. PICK P \in SUBSET visited : Over(e, P)
    BY <2>2 DEF Traced
  <2>4. P \in SUBSET Nodes
    BY DEF Typed
  <2>5. Road(e.node, e.time, e.len) \in Walk(N)
    BY <2>3, <2>4, OverIsShort DEF N
  <2> QED
    BY <1>6, <2>1, <2>5
<1>10. ASSUME NEW e \in heap, Pass(e) \/ Deadline(e) PROVE Legs'
  BY <1>7, <1>10 DEF Pass, Deadline
<1>11. CASE Return \/ UNCHANGED vars
  BY <1>7, <1>11 DEF Return, vars
<1> QED
  BY <1>8, <1>9, <1>10, <1>11 DEF Next
-----------------------------------------------------------------------------
(* The nodes the search may leave out: none that a road reaches.           *)

LEMMA RemainingIs ==
  ASSUME Typed, request' = request
  PROVE  /\ Remaining(out)' = Remaining(out')
         /\ \A legs, g : g \in Groups /\ g \notin DOMAIN legs /\ g \notin Remaining(legs)
                => request.cands[g] = {} /\ Goals(request, g) = {}
BY DEF Remaining, Groups, Goals

LEMMA ReachedIs ==
  ASSUME Typed, NEW n, NEW legs
  PROVE  Reached(n, legs) = {g \in Groups : n \in Goals(request, g)} \ DOMAIN legs
<1>1. \A g : Targets(g) = Goals(request, g)
  BY InputsAre DEF Typed
<1> QED
  BY <1>1 DEF Reached

LEMMA NextSatisfied == Typed /\ Started /\ Satisfied /\ [Next]_vars => Satisfied'
<1> SUFFICES ASSUME Typed, Started, Satisfied, [Next]_vars, status' = "run" PROVE Satisfied'
  BY DEF Satisfied
<1>0. request' = request /\ Groups' = Groups
  BY InputsKept DEF Groups
<1>1. \A n : Served(n) <=> \A g \in Groups : n \in Goals(request, g) => g \in DOMAIN out
  BY DEF Served
<1>2. \A n : Served(n)' <=> \A g \in Groups : n \in Goals(request, g) => g \in DOMAIN out'
  BY <1>0 DEF Served
<1>3. ASSUME NEW n, DOMAIN out' = Reached(n, out) \cup DOMAIN out
      PROVE  Served(n)' /\ \A m : Served(m) => Served(m)'
  BY <1>1, <1>2, <1>3, ReachedIs
<1>4. ASSUME UNCHANGED <<visited, out, status>> PROVE Satisfied'
  BY <1>1, <1>2, <1>4 DEF Satisfied
<1>5. CASE Begin
  <2>1. DOMAIN out' = Reached(Source, out) \cup DOMAIN out /\ visited' = visited /\ status = "new"
    BY <1>5, BeginIs DEF Begin
  <2>2. visited' = {}
    BY <2>1 DEF Started
  <2> QED
    BY <1>3, <2>1, <2>2 DEF Satisfied
<1>6. ASSUME NEW e \in heap, Settle(e) PROVE Satisfied'
  <2>1. /\ out' = WithLegs(out, Reached(e.node, out), e.time, e.len)
        /\ visited' = visited \cup {e.node} /\ status = "run"
    BY <1>6 DEF Settle, Running
  <2>2. DOMAIN out' = Reached(e.node, out) \cup DOMAIN out
    BY <2>1 DEF WithLegs
  <2>3. Served(e.node)' /\ \A m : Served(m) => Served(m)'
    BY <1>3, <2>2
  <2>4. Served(Source) /\ \A n \in visited : Served(n)
    BY <2>1 DEF Satisfied
  <2> QED
    BY <2>1, <2>3, <2>4 DEF Satisfied
<1>7. ASSUME NEW e \in heap, Pass(e) PROVE Satisfied'
  BY <1>4, <1>7 DEF Pass
<1>8. ASSUME NEW e \in heap, Deadline(e) PROVE FALSE
  BY <1>8 DEF Deadline
<1>9. CASE Return
  BY <1>9 DEF Return
<1>10. CASE UNCHANGED vars
  BY <1>4, <1>10 DEF vars
<1> QED
  BY <1>5, <1>6, <1>7, <1>8, <1>9, <1>10 DEF Next

\* The steps that the loop goes on after.
LEMMA Onward ==
  ASSUME Typed, [Next]_vars, Searching'
  PROVE  \/ Begin /\ status' = "run"
         \/ \E e \in heap : Pass(e) /\ Searching
         \/ \E e \in heap : Settle(e) /\ Searching /\ Remaining(out') # {}
         \/ UNCHANGED vars /\ Searching
<1>1. status' = "run" /\ Remaining(out)' # {} /\ request' = request
  BY InputsKept DEF Searching
<1>2. Remaining(out') # {}
  BY <1>1, RemainingIs
<1>3. CASE Begin
  BY <1>1, <1>3
<1>4. ASSUME NEW e \in heap, Pass(e) \/ Settle(e) PROVE Searching
  BY <1>4 DEF Pass, Settle, Running, Searching
<1>5. ASSUME NEW e \in heap, Deadline(e) PROVE FALSE
  BY <1>1, <1>5 DEF Deadline
<1>6. CASE Return
  BY <1>1, <1>6 DEF Return
<1>7. CASE UNCHANGED vars
  <2>1. status = "run" /\ out' = out
    BY <1>1, <1>7 DEF vars
  <2> QED
    BY <1>2, <1>7, <2>1 DEF Searching
<1> QED
  BY <1>2, <1>3, <1>4, <1>5, <1>6, <1>7 DEF Next

\* What a passed entry was not needed for.
LEMMA PassIs ==
  ASSUME Typed, Started, NEW e \in heap, Pass(e)
  PROVE  /\ heap' = heap \ {e} /\ UNCHANGED <<inputVars, dist, visited, out, status>>
         /\ \A x \in heap : x.node \notin visited /\ Known(x.node) => x \in heap'
         /\ \A n \in Nodes : dist[n] # Infinity => Known(n)
<1>1. /\ heap' = heap \ {e} /\ UNCHANGED <<inputVars, dist, visited, out, status>>
      /\ ~Known(e.node) \/ e.node \in visited
  BY DEF Pass, Known
<1>2. \A n \in Nodes : dist[n] # Infinity => Known(n)
  BY DEF Started, Known, Typed
<1> QED
  BY <1>1, <1>2

LEMMA NextCurrent ==
  Typed /\ Started /\ Satisfied /\ Current /\ [Next]_vars => Current'
<1> SUFFICES ASSUME Typed, Started, Satisfied, Current, [Next]_vars, Searching' PROVE Current'
  BY DEF Current
<1>0. edges' = edges /\ request' = request /\ present' = present
  BY InputsKept
<1>1. \A n : Best(n)' <=>
        \E x \in heap' : /\ x.node = n /\ x.time = dist'[n]
                         /\ NoneFound' => x.key = 2 * dist'[n] + Height(request, DOMAIN out', n)
  BY <1>0 DEF Best, Estimated
<1>2. NoneFound' <=> \A g \in DOMAIN out' : Source \in Goals(request, g)
  BY <1>0 DEF NoneFound
<1>3. CASE Begin /\ status' = "run"
  <2>1. /\ status = "new" /\ dist' = [dist EXCEPT ![Source] = 0]
        /\ \E x \in Entry : heap' = {x} /\ x.node = Source /\ x.time = 0
                            /\ x.key = Height(request, DOMAIN out', Source)
    BY <1>3, BeginIs
  <2>2. PICK x \in Entry : heap' = {x} /\ x.node = Source /\ x.time = 0
                            /\ x.key = Height(request, DOMAIN out', Source)
    BY <2>1
  <2>3. Source \in Nodes /\ dist \in [Nodes -> Nat \cup {Infinity}]
    BY NodesAssumption DEF Typed
  <2>4. dist'[Source] = 0 /\ \A n \in Nodes : n # Source => dist'[n] = Infinity
    BY <2>1, <2>3 DEF Started
  <2>5. x.key = 2 * dist'[Source] + Height(request, DOMAIN out', Source)
    BY <2>2, <2>4 DEF Entry
  <2>6. Best(Source)'
    BY <1>1, <2>2, <2>4, <2>5
  <2> QED
    BY <2>4, <2>6 DEF Current
<1>4. ASSUME NEW e \in heap, Pass(e), Searching PROVE Current'
  <2>1. /\ UNCHANGED <<dist, visited, out>>
        /\ \A x \in heap : x.node \notin visited /\ Known(x.node) => x \in heap'
        /\ \A n \in Nodes : dist[n] # Infinity => Known(n)
    BY <1>4, PassIs
  <2>2. ASSUME NEW n \in Nodes, dist'[n] # Infinity, n \notin visited' PROVE Best(n)'
    <3>1. Known(n) /\ Best(n)
      BY <1>4, <2>1, <2>2 DEF Current
    <3>2. PICK x \in heap : /\ x.node = n /\ x.time = dist[n]
                            /\ NoneFound => x.key = 2 * dist[n] + Height(request, DOMAIN out, n)
      BY <3>1 DEF Best, Estimated
    <3>3. x \in heap'
      BY <2>1, <2>2, <3>1, <3>2
    <3>4. NoneFound' <=> NoneFound
      BY <1>2, <2>1 DEF NoneFound
    <3> QED
      BY <1>1, <2>1, <3>2, <3>3, <3>4
  <2> QED
    BY <2>2 DEF Current
<1>5. ASSUME NEW e \in heap, Settle(e), Searching, Remaining(out') # {} PROVE Current'
  <2>1. /\ heap \ {e} \subseteq heap'
        /\ \A n \in Nodes :
              \/ dist'[n] = dist[n]
              \/ \E p \in edges : /\ p.to = n /\ TileOf[n] \in loaded'
                                  /\ dist'[n] = e.time + p.time
                                  /\ Pushed(p, e, out') \in heap'
    BY <1>5, SettleTurn
  <2>2. visited' = visited \cup {e.node} /\ DOMAIN out \subseteq DOMAIN out'
    BY <1>5 DEF Settle, WithLegs
  <2>3. ASSUME NEW n \in Nodes, dist'[n] # Infinity, n \notin visited' PROVE Best(n)'
    <3>1. CASE dist'[n] = dist[n]
      <4>1. Best(n)
        BY <1>5, <2>2, <2>3, <3>1 DEF Current
      <4>2. PICK x \in heap : /\ x.node = n /\ x.time = dist[n]
                              /\ NoneFound => x.key = 2 * dist[n] + Height(request, DOMAIN out, n)
        BY <4>1 DEF Best, Estimated
      <4>3. x \in heap'
        BY <2>1, <2>2, <2>3, <4>2
      <4>4. NoneFound' => NoneFound /\ DOMAIN out' = DOMAIN out
        <5>1. SUFFICES ASSUME NoneFound' PROVE NoneFound /\ DOMAIN out' = DOMAIN out
          OBVIOUS
        <5>2. NoneFound
          BY <1>2, <2>2, <5>1 DEF NoneFound
        <5>3. \A g \in DOMAIN out' : g \in Groups /\ Source \in Goals(request, g)
          <6>1. \A g \in DOMAIN out' : g \in Groups'
            BY NextTyped DEF Typed
          <6> QED
            BY <1>0, <1>2, <5>1, <6>1 DEF Groups
        <5>4. Served(Source)
          BY <1>5 DEF Satisfied, Searching
        <5> QED
          BY <2>2, <5>2, <5>3, <5>4 DEF Served
      <4> QED
        BY <1>1, <3>1, <4>2, <4>3, <4>4
    <3>2. ASSUME NEW p \in edges, p.to = n, TileOf[n] \in loaded', dist'[n] = e.time + p.time,
                 Pushed(p, e, out') \in heap'
          PROVE  Best(n)'
      <4>1. /\ Pushed(p, e, out').node = n /\ Pushed(p, e, out').time = dist'[n]
            /\ Pushed(p, e, out').key = 2 * dist'[n] + Height(request, DOMAIN out', n)
        BY <3>2, PushedIs
      <4> QED
        BY <1>1, <3>2, <4>1
    <3> QED
      BY <2>1, <3>1, <3>2
  <2> QED
    BY <2>3 DEF Current
<1>6. CASE UNCHANGED vars /\ Searching
  <2>1. heap' = heap /\ dist' = dist /\ visited' = visited /\ out' = out
    BY <1>6 DEF vars
  <2>2. \A n : Best(n)' <=> Best(n)
    BY <1>0, <2>1 DEF Best, Estimated, NoneFound
  <2> QED
    BY <1>6, <2>1, <2>2 DEF Current
<1> QED
  BY <1>3, <1>4, <1>5, <1>6, Onward
LEMMA NextReach ==
  Typed /\ Started /\ Reach /\ Current /\ [Next]_vars => Reach'
<1> SUFFICES ASSUME Typed, Started, Reach, Current, [Next]_vars, Searching' PROVE Reach'
  BY DEF Reach
<1>0. edges' = edges /\ request' = request /\ present' = present
  BY InputsKept
<1>1. \A n : Queued(n)' <=> \E x \in heap' : x.node = n
  BY DEF Queued
<1>2. \A n : Known(n)' <=> Known(n)
  BY <1>0 DEF Known
<1>3. CASE Begin /\ status' = "run"
  <2>1. /\ status = "new" /\ visited' = visited
        /\ \E x \in Entry : heap' = {x} /\ x.node = Source
    BY <1>3, BeginIs DEF Begin
  <2>2. visited' = {}
    BY <2>1 DEF Started
  <2> QED
    BY <1>1, <2>1, <2>2 DEF Reach
<1>4. ASSUME NEW e \in heap, Pass(e), Searching PROVE Reach'
  <2>1. /\ UNCHANGED <<dist, visited, out, status>>
        /\ \A x \in heap : x.node \notin visited /\ Known(x.node) => x \in heap'
    BY <1>4, PassIs
  <2>2. Known(Source)
    BY <1>4 DEF Started, Searching
  <2>3. \A n : Known(n) /\ (n \in visited \/ Queued(n)) => n \in visited' \/ Queued(n)'
    BY <1>1, <2>1 DEF Queued
  <2>4. /\ Source \in visited \/ Queued(Source)
        /\ \A d \in edges : d.from \in visited /\ Known(d.to) => d.to \in visited \/ Queued(d.to)
    BY <1>4 DEF Reach
  <2> QED
    BY <1>0, <1>2, <2>1, <2>2, <2>3, <2>4 DEF Reach
<1>5. ASSUME NEW e \in heap, Settle(e), Searching, Remaining(out') # {} PROVE Reach'
  <2>1. /\ heap \ {e} \subseteq heap'
        /\ \A d \in edges : d.from = e.node /\ TileOf[d.to] \notin loaded' =>
                Pushed(d, e, out') \in heap'
        /\ \A d \in edges : d.from = e.node /\ TileOf[d.to] \in loaded' /\ d.to \notin visited' =>
                \/ \E p \in edges : /\ p.to = d.to /\ p.time <= d.time
                                    /\ Pushed(p, e, out') \in heap'
                \/ dist[d.to] # Infinity /\ dist[d.to] <= e.time + d.time
    BY <1>5, SettleTurn
  <2>2. visited' = visited \cup {e.node}
    BY <1>5 DEF Settle
  <2>3. \A d \in edges : Pushed(d, e, out').node = d.to /\ d.to \in Nodes
    BY PushedIs, InputsAre DEF Typed
  <2>4. \A n : n \in visited \/ Queued(n) => n \in visited' \/ Queued(n)'
    BY <1>1, <2>1, <2>2 DEF Queued
  <2>5. /\ Source \in visited \/ Queued(Source)
        /\ \A d \in edges : d.from \in visited /\ Known(d.to) => d.to \in visited \/ Queued(d.to)
    BY <1>5 DEF Reach
  <2>6. \A n \in Nodes : dist[n] # Infinity => n \in visited \/ Queued(n)
    BY <1>5 DEF Current, Best, Queued
  <2>7. ASSUME NEW d \in edges, d.from = e.node, d.to \notin visited' PROVE Queued(d.to)'
    <3>1. CASE TileOf[d.to] \notin loaded'
      BY <1>1, <2>1, <2>3, <2>7, <3>1
    <3>2. CASE \E p \in edges : p.to = d.to /\ Pushed(p, e, out') \in heap'
      BY <1>1, <2>3, <3>2
    <3>3. CASE dist[d.to] # Infinity
      BY <2>3, <2>4, <2>6, <2>7, <3>3
    <3> QED
      BY <2>1, <2>7, <3>1, <3>2, <3>3
  <2> QED
    BY <1>0, <1>2, <2>2, <2>4, <2>5, <2>7 DEF Reach
<1>6. CASE UNCHANGED vars /\ Searching
  BY <1>0, <1>6 DEF vars, Reach, Queued, Known
<1> QED
  BY <1>3, <1>4, <1>5, <1>6, Onward

\* With an empty heap every node that a road reaches is settled.
LEMMA AllSettled ==
  ASSUME Typed, Reach, Searching, heap = {}, NEW j \in Nat, NEW w \in Walk(j)
  PROVE  w.node \in visited
<1> DEFINE P == {k \in Nat : \A v \in Walk(k) : v.node \in visited}
<1>1. edges \in Graphs /\ request \in Requests
  BY DEF Typed
<1>2. /\ Source \in visited
      /\ \A d \in edges : d.from \in visited /\ Known(d.to) => d.to \in visited
  BY DEF Reach, Queued
<1>3. 0 \in P
  <2>1. Walk(0) = {Road(Source, 0, 0)}
    BY <1>1, WalkIs
  <2> QED
    BY <1>2, <2>1 DEF Road
<1>4. ASSUME NEW k \in Nat, k \in P PROVE k + 1 \in P
  <2>1. ASSUME NEW v \in Walk(k + 1) PROVE v.node \in visited
    <3>1. v \in Walk(k) \/ \E u \in Walk(k), d \in edges :
            u.node = d.from /\ Known(d.to) /\ v = On(u, d)
      BY <1>1, WalkIs
    <3>2. \A u, d : On(u, d).node = d.to
      BY DEF On, Road
    <3> QED
      BY <1>2, <1>4, <3>1, <3>2
  <2> QED
    BY <2>1
<1> HIDE DEF P
<1>5. j \in P
  BY <1>3, <1>4, SetOfAll
<1> QED
  BY <1>5 DEF P

LEMMA NextFound ==
  Typed /\ Started /\ Satisfied /\ Reach /\ Complete /\ [Next]_vars => Complete'
<1> SUFFICES ASSUME Typed, Started, Satisfied, Reach, Complete, [Next]_vars, status' = "done",
                    Known(Source)
             PROVE  \A g \in Groups : \A w \in Walk(Cardinality(Nodes) - 1) :
                        w.node \in Goals(request, g) => g \in DOMAIN out'
  BY InputsKept DEF Complete, Known, Walk, Groups
<1>1. \A legs, g : g \in Groups /\ g \notin DOMAIN legs /\ g \notin Remaining(legs)
                => Goals(request, g) = {}
  BY InputsKept, RemainingIs
<1>2. CASE Begin
  <2>1. CASE Groups = {}
    BY <2>1
  <2>2. CASE Groups # {}
    <3>1. Remaining(out') = {}
      BY <1>2, <2>2 DEF Begin, Known
    <3> QED
      BY <1>1, <3>1
  <2> QED
    BY <2>1, <2>2
<1>3. CASE Return
  <2>1. status = "run" /\ out' = out /\ (heap = {} \/ Remaining(out) = {})
    BY <1>3 DEF Return
  <2>2. CASE Remaining(out) = {}
    BY <1>1, <2>1, <2>2
  <2>3. CASE Remaining(out) # {}
    <3>1. Searching /\ heap = {}
      BY <2>1, <2>3 DEF Searching
    <3> DEFINE N == Cardinality(Nodes) - 1
    <3>2. N \in Nat
      <4>1. IsFiniteSet(Nodes) /\ Source \in Nodes
        BY NodesAssumption
      <4>2. Cardinality(Nodes) \in Nat /\ Cardinality(Nodes) # 0
        BY <4>1, FS_CardinalityType, FS_EmptySet
      <4> QED
        BY <4>2
    <3> HIDE DEF N
    <3>3. \A w \in Walk(N) : w.node \in visited
      BY <3>1, <3>2, AllSettled
    <3>4. \A n \in visited : Served(n)
      BY <2>1 DEF Satisfied
    <3> QED
      BY <2>1, <3>3, <3>4 DEF Served, N
  <2> QED
    BY <2>2, <2>3
<1>4. ASSUME NEW e \in heap, Pass(e) \/ Settle(e) \/ Deadline(e) PROVE FALSE
  BY <1>4 DEF Pass, Settle, Deadline, Running
<1>5. CASE UNCHANGED vars
  BY <1>5 DEF vars, Complete
<1> QED
  BY <1>2, <1>3, <1>4, <1>5 DEF Next
-----------------------------------------------------------------------------
(* The weighted search, until a group is satisfied.                        *)

LEMMA SlackIs ==
  ASSUME Typed, NEW k \in Nat
  PROVE  /\ Span(edges) \in Nat /\ Slack(0) = 0
         /\ Slack(k) \in Nat /\ Slack(k + 1) = Slack(k) + 6 * Span(edges)
         /\ (6 * k + 3) * Span(edges) = Slack(k) + 3 * Span(edges)
<1>1. Span(edges) \in Nat
  BY CrossingIs DEF Typed
<1> DEFINE s == Span(edges)
<1>2. k * s \in Nat /\ (k + 1) * s = k * s + s /\ (6 * k + 3) * s = 6 * (k * s) + 3 * s /\ 0 * s = 0
  <2> HIDE DEF s
  <2> QED
    BY <1>1 DEF s
<1>3. 6 * (k * s) \in Nat /\ 6 * (k * s + s) = 6 * (k * s) + 6 * s
  BY <1>1, <1>2
<1> QED
  BY <1>1, <1>2, <1>3 DEF Slack

LEMMA EstimatedIs ==
  ASSUME Typed, NEW n \in Nodes, NEW m \in Nodes
  PROVE  /\ Estimated(n) \in Nat
         /\ Distance(Pos[n], Pos[m]) \in Nat
         /\ Estimated(n) <= Estimated(m) + 3 * Distance(Pos[n], Pos[m])
<1>1. edges \in Graphs /\ request \in Requests
  BY DEF Typed
<1>2. Estimated(n) \in Nat /\ Estimated(n) <= Estimated(m) + 3 * Distance(Pos[n], Pos[m])
  BY <1>1, HeightIs, HeightMoves DEF Estimated
<1>3. Pos[n] \in Int /\ Pos[m] \in Int
  BY <1>1, InputsAre
<1> QED
  BY <1>2, <1>3, DistanceIs

\* On every road to an open node there is a first open node, and it is queued with a
\* key within the bound for the whole road.
Ready(w, k) == \E x \in heap : x.key <= 3 * w.time + Estimated(w.node) + Slack(k)
LEMMA Frontier ==
  ASSUME Typed, Fair(edges), SourceQueued, Ahead,
         NEW j \in Nat, NEW w \in Walk(j), w.node \notin visited
  PROVE  Ready(w, j)
<1> DEFINE P == {k \in Nat : \A v \in Walk(k) : v.node \notin visited => Ready(v, k)}
<1>1. edges \in Graphs /\ request \in Requests /\ heap \subseteq Entry
  BY DEF Typed
<1>2. \A x \in heap : x.key \in Nat
  BY <1>1 DEF Entry
<1>3. 0 \in P
  <2>1. SUFFICES ASSUME NEW v \in Walk(0), v.node \notin visited PROVE Ready(v, 0)
    OBVIOUS
  <2>2. v = Road(Source, 0, 0)
    BY <1>1, WalkIs
  <2>3. v.node = Source /\ v.time = 0
    BY <2>2 DEF Road
  <2>4. PICK x \in heap : x.key <= Estimated(Source)
    BY <2>1, <2>3 DEF SourceQueued
  <2>5. Estimated(Source) \in Nat /\ Slack(0) = 0
    BY NodesAssumption, EstimatedIs, SlackIs
  <2>6. x.key <= 3 * v.time + Estimated(v.node) + Slack(0)
    BY <1>2, <2>3, <2>4, <2>5
  <2> QED
    BY <2>6 DEF Ready
<1>4. ASSUME NEW k \in Nat, k \in P PROVE k + 1 \in P
  <2>1. SUFFICES ASSUME NEW v \in Walk(k + 1), v.node \notin visited PROVE Ready(v, k + 1)
    BY <1>4
  <2>2. /\ Slack(k) \in Nat /\ Slack(k + 1) \in Nat /\ Slack(k) <= Slack(k + 1)
        /\ Walk(k + 1) \subseteq Roads /\ Walk(k) \subseteq Roads
    <3>1. \A i \in Nat : Walk(i) \subseteq Roads
      BY <1>1, WalkIs
    <3>2. Slack(k) \in Nat /\ Slack(k + 1) = Slack(k) + 6 * Span(edges) /\ Span(edges) \in Nat
      BY SlackIs
    <3> QED
      BY <3>1, <3>2
  <2>3. v.node \in Nodes /\ v.time \in Nat /\ Estimated(v.node) \in Nat
    BY <2>2, EstimatedIs DEF Roads
  <2>4. CASE v \in Walk(k)
    <3>1. Ready(v, k)
      BY <1>4, <2>1, <2>4
    <3>2. PICK x \in heap : x.key <= 3 * v.time + Estimated(v.node) + Slack(k)
      BY <3>1 DEF Ready
    <3>3. x.key <= 3 * v.time + Estimated(v.node) + Slack(k + 1)
      BY <1>2, <2>2, <2>3, <3>2
    <3> QED
      BY <3>3 DEF Ready
  <2>5. ASSUME NEW u \in Walk(k), NEW d \in edges, u.node = d.from, Known(d.to), v = On(u, d)
        PROVE  Ready(v, k + 1)
    <3>1. v.node = d.to /\ v.time = u.time + d.time
      BY <2>5 DEF On, Road
    <3>2. /\ u.time \in Nat /\ u.node \in Nodes /\ d.time \in Nat
      BY <1>1, <2>2, InputsAre DEF Roads
    <3>3. CASE u.node \in visited
      <4>1. InTime(d.to, u.time + d.time, k + 1)
        BY <2>1, <2>5, <3>1, <3>3 DEF Ahead
      <4>2. PICK x \in heap : x.key <= 3 * (u.time + d.time) + Estimated(d.to) + Slack(k + 1)
        BY <4>1 DEF InTime
      <4> QED
        BY <3>1, <4>2 DEF Ready
    <3>4. CASE u.node \notin visited
      <4>1. Ready(u, k)
        BY <1>4, <3>4
      <4>2. PICK x \in heap : x.key <= 3 * u.time + Estimated(u.node) + Slack(k)
        BY <4>1 DEF Ready
      <4>3. /\ Estimated(u.node) \in Nat
            /\ Estimated(u.node) <= Estimated(v.node) + 3 * Distance(Pos[u.node], Pos[v.node])
            /\ Distance(Pos[u.node], Pos[v.node]) \in Nat
        BY <2>3, <3>2, EstimatedIs
      <4>4. Distance(Pos[u.node], Pos[v.node]) <= d.time
        BY <2>5, <3>1 DEF Fair
      <4>5. x.key <= 3 * v.time + Estimated(v.node) + Slack(k + 1)
        BY <1>2, <2>2, <2>3, <3>1, <3>2, <4>2, <4>3, <4>4
      <4> QED
        BY <4>5 DEF Ready
    <3> QED
      BY <3>3, <3>4
  <2> QED
    BY <1>1, <2>4, <2>5, WalkIs
<1> HIDE DEF P
<1>5. j \in P
  BY <1>3, <1>4, SetOfAll
<1> QED
  BY <1>5 DEF P

\* So the entry that is settled is in time as well.
LEMMA SettledInTime ==
  ASSUME Typed, Fair(edges), Keyed, SourceQueued, Ahead, NEW e \in heap, e \in Least,
         NEW k \in Nat, NEW w \in Walk(k), w.node \notin visited
  PROVE  /\ e.time \in Nat /\ w.time \in Nat /\ w.node \in Nodes /\ e.node \in Nodes
         /\ Estimated(e.node) \in Nat /\ Estimated(w.node) \in Nat
         /\ 2 * e.time + Estimated(e.node)
                <= 3 * w.time + Estimated(w.node) + Slack(k) + 3 * Span(edges)
<1>1. PICK x \in heap : x.key <= 3 * w.time + Estimated(w.node) + Slack(k)
  BY Frontier DEF Ready
<1>2. /\ edges \in Graphs /\ request \in Requests /\ Walk(k) \subseteq Roads
      /\ e \in Entry /\ x \in Entry
  BY WalkIs DEF Typed
<1>3. /\ e.time \in Nat /\ e.key \in Nat /\ x.key \in Nat /\ e.node \in Nodes
      /\ w.time \in Nat /\ w.node \in Nodes
  BY <1>2 DEF Entry, Roads
<1>4. Estimated(e.node) \in Nat /\ Estimated(w.node) \in Nat
      /\ Slack(k) \in Nat /\ Span(edges) \in Nat
  BY <1>3, EstimatedIs, SlackIs
<1>5. e.key <= x.key /\ 2 * e.time + Estimated(e.node) <= e.key + 3 * Span(edges)
  BY DEF Least, Keyed
<1> QED
  BY <1>1, <1>3, <1>4, <1>5
\* While no group is found, a turn leaves the legs alone.
LEMMA StillNone ==
  ASSUME Typed, Satisfied, [Next]_vars, status = "run", DOMAIN out \subseteq DOMAIN out', NoneFound'
  PROVE  NoneFound /\ DOMAIN out' = DOMAIN out
<1>1. request' = request
  BY InputsKept
<1>2. \A g \in DOMAIN out' : g \in Groups /\ Source \in Goals(request, g)
  BY <1>1, NextTyped DEF NoneFound, Typed, Groups
<1>3. \A g \in Groups : Source \in Goals(request, g) => g \in DOMAIN out
  BY DEF Satisfied, Served
<1> QED
  BY <1>2, <1>3 DEF NoneFound

LEMMA NextEarly ==
  Typed /\ Started /\ Satisfied /\ Current /\ Early /\ [Next]_vars => Early'
<1> SUFFICES ASSUME Typed, Started, Satisfied, Current, Early, [Next]_vars,
                    Searching', Fair(edges)', NoneFound'
             PROVE  Keyed' /\ SourceQueued' /\ Ahead'
  BY DEF Early
<1>0. edges' = edges /\ request' = request /\ present' = present
  BY InputsKept
<1>1. /\ Fair(edges) /\ edges \in Graphs /\ request \in Requests /\ heap \subseteq Entry
      /\ Source \in Nodes
  BY <1>0, NodesAssumption DEF Typed
<1> DEFINE Est(n) == Height(request, DOMAIN out', n)
           Soon(n, time, k) ==
                \E x \in heap' : x.node = n /\ x.key <= 3 * time + Est(n) + Slack(k)
<1>2. /\ \A n : Known(n)' <=> Known(n)
      /\ \A k : Walk(k)' = Walk(k)
      /\ \A n, time, k : InTime(n, time, k)' <=> Soon(n, time, k)
  BY <1>0 DEF Known, Walk, InTime, Estimated, Slack
<1>3. Keyed' <=> \A x \in heap' : 2 * x.time + Est(x.node) <= x.key + 3 * Span(edges)
  BY <1>0 DEF Keyed, Estimated
<1>4. SourceQueued' <=>
        (Source \notin visited' => \E x \in heap' : x.node = Source /\ x.key <= Est(Source))
  BY <1>0 DEF SourceQueued, Estimated
<1>5. Ahead' <=> \A k \in Nat : \A w \in Walk(k) : \A d \in edges :
        d.from = w.node /\ d.from \in visited' /\ d.to \notin visited' /\ Known(d.to)
            => Soon(d.to, w.time + d.time, k + 1)
  BY <1>0, <1>2 DEF Ahead
<1> HIDE DEF Est, Soon
<1>6. CASE Begin /\ status' = "run"
  <2>1. PICK x \in Entry : /\ heap' = {x} /\ x.node = Source /\ x.time = 0
                           /\ x.key = Height(request, DOMAIN out', Source)
    BY <1>6, BeginIs
  <2>2. status = "new" /\ visited' = visited
    BY <1>6, BeginIs DEF Begin
  <2>3. visited' = {}
    BY <2>2 DEF Started
  <2>4. Span(edges) \in Nat /\ x.key \in Nat
    BY <1>1, CrossingIs DEF Entry
  <2>5. x.key = Est(Source)
    BY <2>1 DEF Est
  <2> QED
    BY <1>3, <1>4, <1>5, <2>1, <2>3, <2>4, <2>5
<1>7. CASE (\E e \in heap : Pass(e) /\ Searching) \/ (UNCHANGED vars /\ Searching)
  <2>1. /\ UNCHANGED <<visited, out>> /\ heap' \subseteq heap /\ Searching
        /\ \A x \in heap : x.node \notin visited /\ Known(x.node) => x \in heap'
    <3>1. CASE UNCHANGED vars /\ Searching
      BY <3>1 DEF vars
    <3>2. ASSUME NEW e \in heap, Pass(e), Searching
          PROVE  /\ UNCHANGED <<visited, out>> /\ heap' \subseteq heap /\ Searching
                 /\ \A x \in heap : x.node \notin visited /\ Known(x.node) => x \in heap'
      BY <3>2, PassIs
    <3> QED
      BY <1>7, <3>1, <3>2
  <2>2. NoneFound /\ Known(Source)
    BY <1>0, <2>1 DEF NoneFound, Started, Searching
  <2>3. Keyed /\ SourceQueued /\ Ahead
    BY <1>1, <2>1, <2>2 DEF Early
  <2>4. \A n : Est(n) = Estimated(n)
    BY <2>1 DEF Est, Estimated
  <2>5. Keyed'
    BY <1>3, <2>1, <2>3, <2>4 DEF Keyed
  <2>6. SourceQueued'
    BY <1>4, <2>1, <2>2, <2>3, <2>4 DEF SourceQueued
  <2>7. Ahead'
    <3>1. \A n, time, k : InTime(n, time, k) /\ n \notin visited /\ Known(n) => Soon(n, time, k)
      BY <2>1, <2>4 DEF InTime, Soon
    <3> QED
      BY <1>5, <2>1, <2>3, <3>1 DEF Ahead
  <2> QED
    BY <2>5, <2>6, <2>7
<1>8. ASSUME NEW e \in heap, Settle(e), Searching, Remaining(out') # {}
      PROVE  Keyed' /\ SourceQueued' /\ Ahead'
  <2>1. /\ visited' = visited \cup {e.node} /\ e.node \notin visited /\ e \in Least
        /\ loaded' = LoadScratch(TileOf[e.node]) /\ TileOf[e.node] \in present
        /\ DOMAIN out \subseteq DOMAIN out' /\ status = "run"
    BY <1>8 DEF Settle, WithLegs, Running
  <2>2. NoneFound /\ DOMAIN out' = DOMAIN out
    BY <2>1, StillNone
  <2>3. Keyed /\ SourceQueued /\ Ahead
    BY <1>1, <1>8, <2>2 DEF Early
  <2>4. \A n : Est(n) = Estimated(n)
    BY <2>2 DEF Est, Estimated
  <2>5. /\ heap \ {e} \subseteq heap'
        /\ \A x \in heap' : (x \in heap /\ x # e) \/ \E d \in edges : Came(x, d, e)
        /\ \A d \in edges : d.from = e.node /\ TileOf[d.to] \notin loaded' =>
                Pushed(d, e, out') \in heap'
        /\ \A d \in edges : d.from = e.node /\ TileOf[d.to] \in loaded' /\ d.to \notin visited' =>
                \/ \E p \in edges : /\ p.to = d.to /\ p.time <= d.time
                                    /\ Pushed(p, e, out') \in heap'
                \/ dist[d.to] # Infinity /\ dist[d.to] <= e.time + d.time
    BY <1>8, SettleTurn
  <2>6. /\ e.node \in Nodes /\ e.time \in Nat /\ Span(edges) \in Nat
        /\ \A d \in edges : d.from \in Nodes /\ d.to \in Nodes /\ d.time \in Nat
        /\ \A n \in Nodes : Estimated(n) \in Nat
    BY <1>1, InputsAre, SlackIs, EstimatedIs DEF Entry
  <2>7. ASSUME NEW d \in edges
        PROVE  /\ Pushed(d, e, out') \in Entry
               /\ Pushed(d, e, out').node = d.to
               /\ Pushed(d, e, out').time = e.time + d.time
               /\ TileOf[d.to] \in loaded' =>
                    Pushed(d, e, out').key = 2 * (e.time + d.time) + Estimated(d.to)
               /\ TileOf[d.to] \notin loaded' =>
                    Pushed(d, e, out').key = 2 * (e.time + d.time) + Estimated(e.node)
    BY <2>2, PushedIs DEF Estimated
  \* A node of a tile that is not loaded is estimated from the near end.
  <2>8. ASSUME NEW d \in edges, d.from = e.node, TileOf[d.to] \notin loaded'
        PROVE  /\ Estimated(e.node) <= Estimated(d.to) + 3 * Span(edges)
               /\ Estimated(d.to) <= Estimated(e.node) + 3 * Span(edges)
    <3>1. TileOf[d.from] # TileOf[d.to]
      BY <2>1, <2>8 DEF LoadScratch
    <3>2. Distance(Pos[e.node], Pos[d.to]) <= Span(edges)
      BY <1>1, <2>8, <3>1, CrossingIs
    <3>3. Distance(Pos[d.to], Pos[e.node]) = Distance(Pos[e.node], Pos[d.to])
      BY <1>1, <2>6, InputsAre, DistanceIs
    <3>4. /\ Estimated(e.node) <= Estimated(d.to) + 3 * Distance(Pos[e.node], Pos[d.to])
          /\ Estimated(d.to) <= Estimated(e.node) + 3 * Distance(Pos[d.to], Pos[e.node])
          /\ Distance(Pos[e.node], Pos[d.to]) \in Nat
      BY <2>6, EstimatedIs
    <3> QED
      BY <2>6, <3>2, <3>3, <3>4
  <2>9. Keyed'
    <3>1. ASSUME NEW x \in heap' PROVE 2 * x.time + Estimated(x.node) <= x.key + 3 * Span(edges)
      <4>1. CASE x \in heap
        BY <2>3, <4>1 DEF Keyed
      <4>2. ASSUME NEW d \in edges, Came(x, d, e)
            PROVE  2 * x.time + Estimated(x.node) <= x.key + 3 * Span(edges)
        <5>1. d.from = e.node /\ x = Pushed(d, e, out')
          BY <4>2 DEF Came
        <5>2. x.node = d.to /\ x.time = e.time + d.time /\ e.time + d.time \in Nat
          BY <2>6, <2>7, <5>1
        <5>3. CASE TileOf[d.to] \in loaded'
          <6>1. x.key = 2 * (e.time + d.time) + Estimated(d.to)
            BY <2>7, <5>1, <5>3
          <6> QED
            BY <2>6, <5>2, <6>1
        <5>4. CASE TileOf[d.to] \notin loaded'
          <6>1. x.key = 2 * (e.time + d.time) + Estimated(e.node)
            BY <2>7, <5>1, <5>4
          <6>2. Estimated(d.to) <= Estimated(e.node) + 3 * Span(edges)
            BY <2>8, <5>1, <5>4
          <6> QED
            BY <2>6, <5>2, <6>1, <6>2
        <5> QED
          BY <5>3, <5>4
      <4> QED
        BY <2>5, <4>1, <4>2
    <3> QED
      BY <1>3, <2>4, <3>1
  <2>10. SourceQueued'
    BY <1>4, <2>1, <2>3, <2>4, <2>5 DEF SourceQueued
  <2>11. ASSUME NEW k \in Nat, NEW w \in Walk(k), NEW d \in edges,
                d.from = w.node, d.from \in visited', d.to \notin visited', Known(d.to)
         PROVE  Soon(d.to, w.time + d.time, k + 1)
    <3>1. CASE d.from \in visited
      <4>1. InTime(d.to, w.time + d.time, k + 1)
        BY <2>1, <2>3, <2>11, <3>1 DEF Ahead
      <4>2. PICK x \in heap : /\ x.node = d.to
                              /\ x.key <= 3 * (w.time + d.time) + Estimated(d.to) + Slack(k + 1)
        BY <4>1 DEF InTime
      <4>3. x \in heap'
        BY <2>1, <2>5, <2>11, <4>2
      <4> QED
        BY <2>4, <4>2, <4>3 DEF Soon
    <3>2. CASE d.from = e.node
      <4>1. /\ w.time \in Nat
            /\ 2 * e.time + Estimated(e.node)
                    <= 3 * w.time + Estimated(w.node) + Slack(k) + 3 * Span(edges)
        BY <1>1, <2>1, <2>3, <2>11, <3>2, SettledInTime
      <4>2. Slack(k + 1) = Slack(k) + 6 * Span(edges) /\ Slack(k) \in Nat
        BY SlackIs
      <4>3. w.node = e.node /\ d.to \in Nodes /\ d.time \in Nat /\ Estimated(d.to) \in Nat
            /\ Estimated(e.node) \in Nat
        BY <2>6, <2>11, <3>2
      <4>4. 2 * e.time <= 3 * w.time + Slack(k) + 3 * Span(edges)
        BY <2>6, <4>1, <4>2, <4>3
      <4> DEFINE bound == 3 * (w.time + d.time) + Estimated(d.to) + Slack(k + 1)
      <4>5. 2 * (e.time + d.time) + Estimated(d.to) + 3 * Span(edges) <= bound
        BY <2>6, <4>1, <4>2, <4>3, <4>4
      <4>6. CASE TileOf[d.to] \notin loaded'
        <5>1. /\ Pushed(d, e, out') \in heap' /\ Pushed(d, e, out').node = d.to
              /\ Pushed(d, e, out').key = 2 * (e.time + d.time) + Estimated(e.node)
          BY <2>5, <2>7, <3>2, <4>6
        <5>2. Estimated(e.node) <= Estimated(d.to) + 3 * Span(edges)
          BY <2>8, <3>2, <4>6
        <5>3. 2 * (e.time + d.time) + Estimated(e.node) <= bound
          BY <2>6, <4>1, <4>2, <4>3, <4>5, <5>2
        <5> QED
          BY <2>4, <5>1, <5>3 DEF Soon
      <4>7. ASSUME NEW p \in edges, p.to = d.to, p.time <= d.time, Pushed(p, e, out') \in heap',
                   TileOf[d.to] \in loaded'
            PROVE  Soon(d.to, w.time + d.time, k + 1)
        <5>1. /\ Pushed(p, e, out').node = d.to
              /\ Pushed(p, e, out').key = 2 * (e.time + p.time) + Estimated(d.to)
          BY <2>7, <4>7
        <5>2. p.time \in Nat
          BY <2>6
        <5>3. 2 * (e.time + p.time) + Estimated(d.to) <= bound
          BY <2>6, <4>1, <4>2, <4>3, <4>5, <4>7, <5>2
        <5> QED
          BY <2>4, <4>7, <5>1, <5>3 DEF Soon
      <4>8. CASE dist[d.to] # Infinity /\ dist[d.to] <= e.time + d.time
        <5>1. d.to \notin visited /\ d.to # e.node
          BY <2>1, <2>11
        <5>2. Best(d.to)
          BY <1>8, <4>3, <4>8, <5>1 DEF Current
        <5>3. PICK x \in heap : /\ x.node = d.to
                                /\ x.key = 2 * dist[d.to] + Estimated(d.to)
          BY <2>2, <5>2 DEF Best
        <5>4. x \in heap' /\ dist[d.to] \in Nat
          BY <2>5, <4>3, <4>8, <5>1, <5>3 DEF Typed
        <5>5. 2 * dist[d.to] + Estimated(d.to) <= bound
          BY <2>6, <4>1, <4>2, <4>3, <4>5, <4>8, <5>4
        <5> QED
          BY <2>4, <5>3, <5>4, <5>5 DEF Soon
      <4> QED
        BY <2>5, <2>11, <3>2, <4>6, <4>7, <4>8
    <3> QED
      BY <2>1, <2>11, <3>1, <3>2
  <2>12. Ahead'
    BY <1>5, <2>11
  <2> QED
    BY <2>9, <2>10, <2>12
<1> QED
  BY <1>6, <1>7, <1>8, Onward
LEMMA NextFirstLeg ==
  Typed /\ Started /\ Satisfied /\ Early /\ FirstLeg /\ [Next]_vars => FirstLeg'
<1> SUFFICES ASSUME Typed, Started, Satisfied, Early, FirstLeg, [Next]_vars, Fair(edges)
             PROVE  FirstLeg'
  BY InputsKept DEF FirstLeg
<1>0. edges' = edges /\ request' = request /\ present' = present
  BY InputsKept
<1> DEFINE Bound(g, k, w) == 3 * w.time + 3 * Distance(Pos[w.node], request.at[g])
                             + Slack(k) + 3 * Span(edges)
           Nears(g, time) == \A k \in Nat : \A w \in Walk(k) :
                w.node \in Goals(request, g) => 2 * time <= Bound(g, k, w)
           Only(g, gs) == Source \notin Goals(request, g)
                          /\ \A h \in gs : Source \in Goals(request, h) \/ h = g
<1>1. FirstLeg => \A g \in DOMAIN out : Only(g, DOMAIN out) => Nears(g, out[g].time)
  BY DEF FirstLeg, First, Near
<1>2. (\A g \in DOMAIN out' : Only(g, DOMAIN out') => Nears(g, out'[g].time)) => FirstLeg'
  BY <1>0 DEF FirstLeg, First, Near, Walk, Slack
<1> HIDE DEF Nears
<1>3. CASE out' = out
  BY <1>1, <1>2, <1>3
<1>4. CASE Begin
  <2>1. CASE out' = WithLegs(out, Reached(Source, out), 0, 0)
    <3>1. DOMAIN out' = Reached(Source, out) \cup DOMAIN out /\ DOMAIN out = {}
      BY <1>4, <2>1 DEF WithLegs, Begin, Started
    <3>2. \A g \in Reached(Source, out) : Source \in Goals(request, g)
      BY ReachedIs
    <3> QED
      BY <1>2, <3>1, <3>2
  <2> QED
    BY <1>3, <1>4, <2>1 DEF Begin
<1>5. ASSUME NEW e \in heap, Settle(e) PROVE FirstLeg'
  <2>1. /\ out' = WithLegs(out, Reached(e.node, out), e.time, e.len)
        /\ e \in Least /\ Searching /\ status = "run"
    BY <1>5 DEF Settle, Running, Searching
  <2>2. /\ DOMAIN out' = Reached(e.node, out) \cup DOMAIN out
        /\ \A g \in Reached(e.node, out) : out'[g].time = e.time
        /\ \A g \in DOMAIN out : g \notin Reached(e.node, out) => out'[g] = out[g]
    BY <2>1 DEF WithLegs
  <2>3. Reached(e.node, out) = {g \in Groups : e.node \in Goals(request, g)} \ DOMAIN out
    BY ReachedIs
  <2>4. ASSUME NEW g \in DOMAIN out', Only(g, DOMAIN out') PROVE Nears(g, out'[g].time)
    <3>1. CASE g \in DOMAIN out
      BY <1>1, <2>2, <2>3, <2>4, <3>1
    <3>2. CASE g \notin DOMAIN out
      <4>1. g \in Groups \ DOMAIN out /\ out'[g].time = e.time
        BY <2>2, <2>3, <3>2
      <4>2. NoneFound
        BY <2>2, <2>4, <3>2 DEF NoneFound
      <4>3. Keyed /\ SourceQueued /\ Ahead
        BY <2>1, <4>2 DEF Early
      <4>4. ASSUME NEW k \in Nat, NEW w \in Walk(k), w.node \in Goals(request, g)
            PROVE  2 * e.time <= Bound(g, k, w)
        <5>1. w.node \notin visited
          BY <2>1, <4>1, <4>4 DEF Satisfied, Served
        <5>2. /\ e.time \in Nat /\ w.time \in Nat /\ w.node \in Nodes /\ e.node \in Nodes
              /\ Estimated(e.node) \in Nat /\ Estimated(w.node) \in Nat
              /\ 2 * e.time + Estimated(e.node)
                     <= 3 * w.time + Estimated(w.node) + Slack(k) + 3 * Span(edges)
          BY <2>1, <4>3, <5>1, SettledInTime
        <5>3. edges \in Graphs /\ request \in Requests
          BY DEF Typed
        <5>4. Estimated(w.node) <= 3 * Distance(Pos[w.node], request.at[g])
          BY <4>1, <5>2, <5>3, HeightIs DEF Estimated
        <5>5. Distance(Pos[w.node], request.at[g]) \in Nat
          BY <4>1, <5>2, <5>3, InputsAre, DistanceIs
        <5>6. Slack(k) \in Nat /\ Span(edges) \in Nat
          BY SlackIs
        <5> QED
          BY <5>2, <5>4, <5>5, <5>6
      <4> QED
        BY <4>1, <4>4 DEF Nears
    <3> QED
      BY <3>1, <3>2
  <2> QED
    BY <1>2, <2>4
<1>6. ASSUME NEW e \in heap, Pass(e) \/ Deadline(e) PROVE out' = out
  BY <1>6 DEF Pass, Deadline
<1>7. CASE Return \/ UNCHANGED vars
  BY <1>3, <1>7 DEF Return, vars
<1> QED
  BY <1>3, <1>4, <1>5, <1>6, <1>7 DEF Next
-----------------------------------------------------------------------------
(* The theorems.                                                           *)

LEMMA InitInv == Init => Inv
<1> SUFFICES ASSUME Init PROVE Inv
  OBVIOUS
<1>1. Typed /\ Started
  BY DEF Init, Typed, Started
<1>2. Traced /\ Legs /\ Satisfied /\ Reach /\ Current /\ Early
  BY DEF Init, Traced, Legs, Satisfied, Reach, Current, Early, Searching
<1>3. FirstLeg /\ Complete
  BY DEF Init, FirstLeg, Complete
<1> QED
  BY <1>1, <1>2, <1>3 DEF Inv

LEMMA NextInv == Inv /\ [Next]_vars => Inv'
<1> SUFFICES ASSUME Inv, [Next]_vars PROVE Inv'
  OBVIOUS
<1>1. /\ Typed /\ Started /\ Traced /\ Legs /\ Satisfied /\ Reach /\ Current
      /\ Early /\ FirstLeg /\ Complete
  BY DEF Inv
<1>2. Typed' /\ Started' /\ Traced' /\ Legs' /\ Satisfied'
  BY <1>1, NextTyped, NextStarted, NextTraced, NextLegs, NextSatisfied
<1>3. Reach' /\ Current' /\ Early' /\ FirstLeg' /\ Complete'
  BY <1>1, NextReach, NextCurrent, NextEarly, NextFirstLeg, NextFound
<1> QED
  BY <1>2, <1>3 DEF Inv

\* oneToMany of src/router.ts: entries, scratch times, legs and tiles keep their
\* types, and only tiles that R2 holds have scratch arrays.
THEOREM TypeCorrect == Spec => []TypeOK
<1>1. Inv => TypeOK
  <2> SUFFICES ASSUME Typed PROVE TypeOK
    BY DEF Inv
  <2> QED
    BY DEF Typed, TypeOK
<1> QED
  BY <1>1, InitInv, NextInv, PTL DEF Spec

\* However often a node is pushed, and whichever entry settles it: the duration and
\* the length of a leg are of one road through tiles that R2 holds, to a candidate of
\* the leg's group.
THEOREM LegsAreOfRoads == Spec => []LegsAreRoads
<1>1. Inv => LegsAreRoads
  <2> SUFFICES ASSUME Typed, Legs, NEW g \in DOMAIN out
               PROVE  \E w \in WalksTo(request.cands[g]) :
                          w.time = out[g].time /\ w.len = out[g].len
    BY DEF Inv, LegsAreRoads
  <2>1. PICK w \in Walk(Cardinality(Nodes) - 1) :
            w.node \in Goals(request, g) /\ w.time = out[g].time /\ w.len = out[g].len
    BY DEF Legs, Legged
  <2>2. w \in WalksTo(request.cands[g])
    BY <2>1 DEF WalksTo, Walk, Goals
  <2> QED
    BY <2>1, <2>2
<1> QED
  BY <1>1, InitInv, NextInv, PTL DEF Spec

\* A search that ends by itself has a leg for every group that a road leads to, over
\* any tile boundaries and around any missing tile.
THEOREM ReachableAreFound == Spec => []ReachableIsFound
<1>1. Inv => ReachableIsFound
  <2> SUFFICES ASSUME Typed, Complete, status = "done", NEW g \in Groups,
                      TileOf[Source] \in present, WalksTo(Targets(g)) # {}
               PROVE  g \in DOMAIN out
    BY DEF Inv, ReachableIsFound
  <2>1. PICK w \in Walk(Cardinality(Nodes) - 1) : w.node \in Targets(g)
    BY DEF WalksTo, Walk
  <2>2. w.node \in Goals(request, g)
    BY <2>1, InputsAre DEF Typed
  <2> QED
    BY <2>1, <2>2 DEF Complete, Known
<1> QED
  BY <1>1, InitInv, NextInv, PTL DEF Spec

\* The weight of 1.5 and the estimates across tile boundaries: how much longer than
\* the best road the leg found first may be.
THEOREM FirstIsNear == Spec => []FirstLegIsNear
<1>1. Inv => FirstLegIsNear
  <2> SUFFICES ASSUME Typed, FirstLeg, Honest, NEW g \in Found, Found = {g},
                      NEW k \in 0..(Cardinality(Nodes) - 1),
                      NEW w \in Walks(edges, present)[k], w.node \in Targets(g)
               PROVE  2 * out[g].time <= 3 * w.time
                            + 3 * Distance(Pos[w.node], request.at[g]) + (6 * k + 3) * Crossing
    BY DEF Inv, FirstLegIsNear
  <2>1. /\ edges \in Graphs /\ request \in Requests /\ k \in Nat /\ w \in Walk(k)
        /\ g \in DOMAIN out /\ g \in Groups
    BY DEF Typed, Walk, Found
  <2>2. /\ Fair(edges) /\ Crossing = Span(edges)
        /\ \A h : Targets(h) = Goals(request, h)
    BY <2>1, InputsAre
  <2>3. First(g)
    BY <2>2 DEF Found, First
  <2>4. Near(g, k, w)
    BY <2>1, <2>2, <2>3 DEF FirstLeg
  <2>5. (6 * k + 3) * Crossing = Slack(k) + 3 * Span(edges) /\ Slack(k) \in Nat /\ Span(edges) \in Nat
    BY <2>1, <2>2, SlackIs
  <2>6. w.time \in Nat /\ Distance(Pos[w.node], request.at[g]) \in Nat
    BY <2>1, WalkIs, InputsAre, DistanceIs DEF Roads
  <2> QED
    BY <2>4, <2>5, <2>6 DEF Near
<1> QED
  BY <1>1, InitInv, NextInv, PTL DEF Spec
=============================================================================
