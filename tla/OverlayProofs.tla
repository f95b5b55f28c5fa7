--------------------------- MODULE OverlayProofs ---------------------------
(***************************************************************************)
(* Proofs about the overlay object, for any calls, overlays, routes and    *)
(* numbers of evictions.                                                   *)
(***************************************************************************)
EXTENDS Overlay, SetFacts

\* OneReadPerLife with what makes it inductive: the promise is gone once the graph
\* is there, and a read is counted for the promise alone.
Loading ==
    /\ reads \in {0, 1}
    /\ graph \/ load # "none" <=> reads = 1
    /\ graph => load = "none"

LEMMA InitLoading == Init => Loading
  BY DEF Init, Loading

LEMMA NextLoading == Loading /\ [Next]_vars => Loading'
<1> SUFFICES ASSUME Loading, [Next]_vars PROVE Loading'
  OBVIOUS
<1>1. ASSUME UNCHANGED <<graph, load, reads>> PROVE Loading'
  BY <1>1 DEF Loading
<1>2. ASSUME NEW c \in Calls, Route(c) PROVE Loading'
  BY <1>2 DEF Route, Loading
<1>3. CASE GotObject \/ GotBody
  BY <1>3 DEF GotObject, GotBody, Loading
<1>4. CASE Evict
  BY <1>4 DEF Evict, Loading
<1>5. ASSUME NEW c \in Calls,
             Status(c) \/ LoadFailed(c) \/ SnapFailed(c) \/ SameNode(c) \/ Begin(c)
      PROVE  Loading'
  BY <1>1, <1>5 DEF Status, LoadFailed, SnapFailed, SameNode, Begin, objectVars
<1>6. CASE SearchMoves
  BY <1>1, <1>6 DEF SearchMoves, Finish, Skip, Settle, objectVars
<1>7. CASE UNCHANGED vars
  BY <1>1, <1>7 DEF vars, objectVars
<1> QED
  BY <1>2, <1>3, <1>4, <1>5, <1>6, <1>7 DEF Next, Work

\* getGraph of src/l1_router.ts: however many calls meet at it, one life of the
\* object reads the overlay at most once, and holds a graph or a promise just when
\* it has.
THEOREM OneLoad == Spec => []OneReadPerLife
<1>1. Loading => OneReadPerLife
  BY DEF Loading, OneReadPerLife
<1> QED
  BY <1>1, InitLoading, NextLoading, PTL DEF Spec
-----------------------------------------------------------------------------
(* The roads: what the reference walks are, and that two of them join.     *)

Origin(n) == [node |-> n, time |-> 0, len |-> 0]

LEMMA FarIs ==
  ASSUME NEW d \in Edge, NEW u \in d.ends
  PROVE  /\ Far(d, u) \in d.ends /\ d.ends = {u, Far(d, u)} /\ Far(d, Far(d, u)) = u
         /\ Far(d, u) \in Nodes /\ u \in Nodes
<1>1. PICK m \in Nodes, n \in Nodes : d.ends = {m, n}
  BY DEF Edge
<1>2. \E v \in d.ends : d.ends = {u, v}
  BY <1>1
<1>3. Far(d, u) \in d.ends /\ d.ends = {u, Far(d, u)}
  BY <1>2, Zenon DEF Far
<1>4. \E v \in d.ends : d.ends = {Far(d, u), v}
  BY <1>3
<1>5. d.ends = {Far(d, u), Far(d, Far(d, u))}
  BY <1>4, Zenon DEF Far
<1>6. Far(d, Far(d, u)) = u
  BY <1>3, <1>5
<1> QED
  BY <1>1, <1>3, <1>6

\* A road that goes on along an edge.
On(w, d) == [node |-> Far(d, w.node), time |-> w.time + d.time, len |-> w.len + d.len]

LEMMA LongerIs ==
  ASSUME NEW edges, edges \subseteq Edge, NEW ws, ws \subseteq Label
  PROVE  /\ Longer(edges, ws) \subseteq Label
         /\ \A w \in ws, d \in edges : w.node \in d.ends => On(w, d) \in Longer(edges, ws)
<1> DEFINE pairs == {q \in ws \X edges : q[1].node \in q[2].ends}
<1>1. Longer(edges, ws) = {On(p[1], p[2]) : p \in pairs}
  BY Zenon DEF Longer, On
<1>2. \A w \in ws, d \in edges : w.node \in d.ends =>
        <<w, d>> \in pairs /\ <<w, d>>[1] = w /\ <<w, d>>[2] = d
  OBVIOUS
<1>3. \A p \in pairs : p[1] \in ws /\ p[2] \in edges /\ p[1].node \in p[2].ends
  OBVIOUS
<1> HIDE DEF pairs
<1>4. \A w \in ws, d \in edges : w.node \in d.ends => On(w, d) \in Longer(edges, ws)
  <2> TAKE w \in ws, d \in edges
  <2> HAVE w.node \in d.ends
  <2>1. On(<<w, d>>[1], <<w, d>>[2]) \in Longer(edges, ws)
    BY <1>1, <1>2
  <2> QED
    BY <1>2, <2>1
<1>5. \A v \in Longer(edges, ws) : \E w \in ws, d \in edges :
        w.node \in d.ends /\ v = On(w, d)
  BY <1>1, <1>3
<1>6. \A w \in Label, d \in Edge : w.node \in d.ends => On(w, d) \in Label
  <2> SUFFICES ASSUME NEW w \in Label, NEW d \in Edge, w.node \in d.ends
               PROVE  On(w, d) \in Label
    OBVIOUS
  <2>1. Far(d, w.node) \in Nodes
    BY FarIs
  <2>2. w.time + d.time \in Nat /\ w.len + d.len \in Nat
    BY DEF Label, Edge
  <2> QED
    BY <2>1, <2>2 DEF On, Label
<1> QED
  BY <1>4, <1>5, <1>6

LEMMA LongerOf ==
  ASSUME NEW edges, edges \subseteq Edge, NEW ws, ws \subseteq Label, NEW v \in Longer(edges, ws)
  PROVE  \E w \in ws, d \in edges : w.node \in d.ends /\ v = On(w, d)
<1> DEFINE pairs == {q \in ws \X edges : q[1].node \in q[2].ends}
<1>1. Longer(edges, ws) = {On(p[1], p[2]) : p \in pairs}
  BY Zenon DEF Longer, On
<1>2. \A p \in pairs : p[1] \in ws /\ p[2] \in edges /\ p[1].node \in p[2].ends
  OBVIOUS
<1> HIDE DEF pairs
<1>3. PICK p \in pairs : v = On(p[1], p[2])
  BY <1>1
<1> QED
  BY <1>2, <1>3

LEMMA WalksAre ==
  ASSUME NEW edges, edges \subseteq Edge, NEW n \in Nodes
  PROVE  /\ Walks(edges, n) \in [Nat -> SUBSET Label]
         /\ Walks(edges, n)[0] = {Origin(n)}
         /\ \A k \in Nat : Walks(edges, n)[k + 1] =
                Walks(edges, n)[k] \cup Longer(edges, Walks(edges, n)[k])
<1> DEFINE S == SUBSET Label
           step == [ws \in S |-> ws \cup Longer(edges, ws)]
           base == {Origin(n)}
           F(f) == [k \in Nat |-> IF k = 0 THEN base
                                  ELSE f[k - 1] \cup Longer(edges, f[k - 1])]
<1>1. base \in S
  BY DEF Label, Origin
<1>2. step \in [S -> S]
  BY LongerIs
<1>3. Walks(edges, n) = CHOOSE f : f = F(f)
  BY DEF Walks, Origin
<1> HIDE DEF step, base, S
<1>4. PICK f \in [Nat -> S] : f[0] = base /\ \A k \in Nat : f[k + 1] = step[f[k]]
  BY <1>1, <1>2, SequenceExists
<1>5. \A ws \in S : step[ws] = ws \cup Longer(edges, ws)
  BY DEF step
<1>6. f = F(f)
  <2>1. ASSUME NEW k \in Nat, k # 0 PROVE f[k] = f[k - 1] \cup Longer(edges, f[k - 1])
    <3>1. k - 1 \in Nat /\ k - 1 + 1 = k
      BY <2>1
    <3> QED
      BY <1>4, <1>5, <3>1
  <2> QED
    BY <1>4, <2>1
<1> DEFINE g == CHOOSE f_1 : f_1 = F(f_1)
<1>7. g = F(g)
  <2> HIDE DEF F
  <2> QED
    BY <1>6, Zenon
<1> HIDE DEF g
<1>8. g[0] = base
  BY <1>7
<1>9. ASSUME NEW k \in Nat PROVE g[k + 1] = g[k] \cup Longer(edges, g[k])
  <2>1. k + 1 \in Nat /\ k + 1 # 0 /\ k + 1 - 1 = k
    OBVIOUS
  <2>2. g[k + 1] = F(g)[k + 1]
    BY <1>7, Zenon
  <2> QED
    BY <2>1, <2>2
<1>10. \A k \in Nat : g[k] = f[k]
  <2> DEFINE P == {k \in Nat : g[k] = f[k]}
  <2>1. 0 \in P
    BY <1>4, <1>8
  <2>2. ASSUME NEW k \in Nat, k \in P PROVE k + 1 \in P
    <3>1. g[k] = f[k] /\ f[k] \in S
      BY <1>4, <2>2
    <3>2. f[k + 1] = g[k + 1]
      BY <1>4, <1>5, <1>9, <3>1
    <3> QED
      BY <3>2
  <2> HIDE DEF P
  <2>3. Nat \subseteq P
    BY <2>1, <2>2, SetOfAll
  <2> QED
    BY <2>3 DEF P
<1>11. g \in [Nat -> S]
  BY <1>4, <1>7, <1>10
<1> QED
  BY <1>3, <1>8, <1>9, <1>11 DEF base, g, S
\* A road of so many edges at most is one of more at most.
LEMMA WalksGrow ==
  ASSUME NEW edges, edges \subseteq Edge, NEW n \in Nodes, NEW j \in Nat, NEW k \in Nat, j <= k
  PROVE  Walks(edges, n)[j] \subseteq Walks(edges, n)[k]
<1> DEFINE W == Walks(edges, n)
           P == {i \in Nat : W[j] \subseteq W[j + i]}
<1>1. \A i \in Nat : W[i] \subseteq W[i + 1]
  BY WalksAre
<1> HIDE DEF W
<1>2. 0 \in P
  BY DEF P
<1>3. ASSUME NEW i \in Nat, i \in P PROVE i + 1 \in P
  <2>1. W[j + i] \subseteq W[j + i + 1]
    BY <1>1
  <2>2. j + i + 1 = j + (i + 1)
    OBVIOUS
  <2> QED
    BY <1>3, <2>1, <2>2
<1> HIDE DEF P
<1>4. k - j \in P
  BY <1>2, <1>3, SetOfAll
<1>5. j + (k - j) = k
  OBVIOUS
<1> QED
  BY <1>4, <1>5 DEF P, W

\* A road to a node and one from elsewhere to the same node join: the edges go
\* both ways.
Joined(w, v, z) == [node |-> z, time |-> w.time + v.time, len |-> w.len + v.len]
LEMMA WalksJoin ==
  ASSUME NEW edges, edges \subseteq Edge, NEW a \in Nodes, NEW z \in Nodes, NEW k \in Nat
  PROVE  \A j \in Nat : \A w \in Walks(edges, a)[j], v \in Walks(edges, z)[k] :
            w.node = v.node => Joined(w, v, z) \in Walks(edges, a)[j + k]
<1> DEFINE A == Walks(edges, a)
           Z == Walks(edges, z)
           Joins(i) == \A j \in Nat : \A w \in A[j], v \in Z[i] :
                          w.node = v.node => Joined(w, v, z) \in A[j + i]
           P == {i \in Nat : Joins(i)}
<1>1. /\ A \in [Nat -> SUBSET Label] /\ \A i \in Nat : A[i + 1] = A[i] \cup Longer(edges, A[i])
      /\ Z \in [Nat -> SUBSET Label] /\ \A i \in Nat : Z[i + 1] = Z[i] \cup Longer(edges, Z[i])
      /\ Z[0] = {Origin(z)}
  BY WalksAre
<1> HIDE DEF A, Z
<1>2. 0 \in P
  <2> SUFFICES ASSUME NEW j \in Nat, NEW w \in A[j], NEW v \in Z[0], w.node = v.node
               PROVE  Joined(w, v, z) \in A[j + 0]
    OBVIOUS
  <2>1. w \in Label /\ v = Origin(z)
    BY <1>1
  <2>2. w = [node |-> w.node, time |-> w.time, len |-> w.len] /\ w.time \in Nat /\ w.len \in Nat
    BY <2>1 DEF Label
  <2>3. Joined(w, v, z) = w
    BY <2>1, <2>2 DEF Joined, Origin
  <2> QED
    BY <2>3
<1>3. ASSUME NEW i \in Nat, i \in P PROVE i + 1 \in P
  <2> SUFFICES ASSUME NEW j \in Nat, NEW w \in A[j], NEW v \in Z[i + 1], w.node = v.node
               PROVE  Joined(w, v, z) \in A[j + (i + 1)]
    OBVIOUS
  <2>1. Joins(i)
    BY <1>3
  <2> HIDE DEF P, Joins
  <2>2. CASE v \in Z[i]
    <3>1. Joined(w, v, z) \in A[j + i]
      BY <2>1, <2>2 DEF Joins
    <3>2. A[j + i] \subseteq A[j + i + 1] /\ j + i + 1 = j + (i + 1)
      BY <1>1
    <3> QED
      BY <3>1, <3>2
  <2>3. CASE v \in Longer(edges, Z[i])
    <3>1. PICK x \in Z[i], d \in edges : x.node \in d.ends /\ v = On(x, d)
      <4>1. Z[i] \subseteq Label
        BY <1>1
      <4>2. \E x \in Z[i], d \in edges : x.node \in d.ends /\ v = On(x, d)
        BY <2>3, <4>1, LongerOf
      <4> QED
        BY <4>2
    <3>2. /\ x \in Label /\ w \in Label /\ d \in Edge /\ x.time \in Nat /\ x.len \in Nat
          /\ w.time \in Nat /\ w.len \in Nat /\ d.time \in Nat /\ d.len \in Nat
      BY <1>1, <3>1 DEF Label, Edge
    <3>3. w.node = Far(d, x.node) /\ w.node \in d.ends /\ Far(d, w.node) = x.node
      BY <3>1, <3>2, FarIs DEF On
    <3>4. On(w, d) \in A[j + 1]
      BY <1>1, <3>1, <3>3, LongerIs
    <3>5. On(w, d).node = x.node
      BY <3>3 DEF On
    <3>6. Joined(On(w, d), x, z) \in A[j + 1 + i]
      BY <2>1, <3>1, <3>4, <3>5 DEF Joins
    <3>7. Joined(On(w, d), x, z) = Joined(w, v, z)
      <4>1. On(w, d).time = w.time + d.time /\ On(w, d).len = w.len + d.len
        BY DEF On
      <4>2. v.time = x.time + d.time /\ v.len = x.len + d.len
        BY <3>1 DEF On
      <4>3. /\ w.time + d.time + x.time = w.time + (x.time + d.time)
            /\ w.len + d.len + x.len = w.len + (x.len + d.len)
        BY <3>2
      <4> QED
        BY <4>1, <4>2, <4>3 DEF Joined
    <3>8. j + 1 + i = j + (i + 1)
      OBVIOUS
    <3> QED
      BY <3>6, <3>7, <3>8
  <2> QED
    BY <1>1, <2>2, <2>3
<1> HIDE DEF P
<1>4. k \in P
  BY <1>2, <1>3, SetOfAll
<1> QED
  BY <1>4 DEF P, A, Z

LEMMA WalksBack ==
  ASSUME NEW edges, edges \subseteq Edge, NEW a \in Nodes, NEW k \in Nat,
         NEW w \in Walks(edges, a)[k]
  PROVE  Joined(Origin(w.node), w, a) \in Walks(edges, w.node)[k]
<1>1. w \in Label /\ w.node \in Nodes
  <2>1. Walks(edges, a) \in [Nat -> SUBSET Label]
    BY WalksAre
  <2>2. w \in Label
    BY <2>1
  <2> QED
    BY <2>2 DEF Label
<1>2. Origin(w.node) \in Walks(edges, w.node)[0] /\ Origin(w.node).node = w.node
  <2>1. Walks(edges, w.node)[0] = {Origin(w.node)}
    BY <1>1, WalksAre
  <2> QED
    BY <2>1 DEF Origin
<1>3. Joined(Origin(w.node), w, a) \in Walks(edges, w.node)[0 + k]
  BY <1>1, <1>2, WalksJoin
<1> QED
  BY <1>3
-----------------------------------------------------------------------------
(* The search: what holds between any two turns of its loop.               *)

From(s) == Start(s, ends)
To(s) == Start(Other(s), ends)
Queues(s, w) == [key |-> Key(s, ends, w.node, w.time), node |-> w.node]

\* A node has one label, and the side's own end has that of the empty road.
Labelled(s) ==
    /\ heap[s] \subseteq Entry /\ label[s] \subseteq Label /\ settled[s] \subseteq Known(s)
    /\ \A v, w \in label[s] : v.node = w.node => v = w
    /\ Origin(From(s)) \in label[s]

\* Every open label is queued, and no entry is lower than the label of its node.
Queued(s) ==
    /\ \A w \in label[s] : w.node \notin settled[s] => Queues(s, w) \in heap[s]
    /\ \A e \in heap[s] : \E w \in label[s] : w.node = e.node /\ Queues(s, w).key <= e.key

\* The edges of a settled node were relaxed.
Expanded(s) ==
    \A w \in label[s], d \in overlay : w.node \in settled[s] /\ w.node \in d.ends =>
        \E v \in label[s] :
            /\ v.node = Far(d, w.node)
            /\ v.node \in settled[s] \/ v.time <= w.time + d.time

\* A label is that of a road through settled nodes of earlier times, none twice.
Over(s, w, P) ==
    /\ w.node \notin P /\ w \in Walks(overlay, From(s))[Cardinality(P)]
    /\ \A v \in label[s] : v.node \in P => v.time < w.time
Traced(s) == \A w \in label[s] : \E P \in SUBSET settled[s] : Over(s, w, P)

\* A settled label is within half as long again of every road to its node.
NearBest(s) ==
    Honest => \A w \in label[s] : w.node \in settled[s] =>
        \A k \in Nat : \A v \in Walks(overlay, From(s))[k] :
            v.node = w.node => 2 * w.time <= 3 * v.time

\* The best road so far is a road, and none worse than through a node both sides
\* have settled, or through the far end once one side has.
Beaten(time) == mu # NoRoad /\ mu.time <= time
Met ==
    /\ \A s \in Side : \A w \in label[s], v \in label[Other(s)] :
            w.node = v.node /\ w.node \in settled[s] \cap settled[Other(s)] =>
                Beaten(w.time + v.time)
    /\ \A s \in Side : \A w \in label[s] :
            w.node = To(s) /\ w.node \in settled[s] => Beaten(w.time)
    /\ mu = NoRoad \/ \E w \in RoadsOf(ends) : mu = [time |-> w.time, len |-> w.len]

Sided(s) == Labelled(s) /\ Queued(s) /\ Expanded(s) /\ Traced(s) /\ NearBest(s)
Search ==
    IF searching = None
    THEN mu = NoRoad /\ \A s \in Side : heap[s] = {} /\ label[s] = {} /\ settled[s] = {}
    ELSE /\ ends \in [src : Nodes, dst : Nodes]
         /\ \A s \in Side : Sided(s)
         /\ Met

Typed ==
    /\ overlay \in Graphs /\ graph \in BOOLEAN
    /\ load \in {"none", "get", "body", "failed"} /\ (graph => load = "none")
    /\ pc \in [Calls -> {"idle", "waiting", "searching", "answered"}]
    /\ answer \in [Calls -> Answer \cup {None}]
    /\ heap = [s \in Side |-> heap[s]] /\ label = [s \in Side |-> label[s]]
    /\ settled = [s \in Side |-> settled[s]]
    /\ searching \in Calls \cup {None}
    /\ \A c \in Calls : /\ pc[c] = "answered" <=> answer[c] # None
                        /\ pc[c] = "searching" <=> searching = c

\* What an answer says is true.
True(a) ==
    /\ a.reason = "route" =>
        /\ \E w \in RoadsOf(a) : w.time = a.time /\ w.len = a.len
        /\ Honest /\ a.settled < SettledCap => \A w \in RoadsOf(a) : a.time <= 3 * w.time
    /\ a.reason = "no path" => a.settled >= SettledCap \/ RoadsOf(a) = {}
Truthful == \A c \in Calls : answer[c] # None => True(answer[c])

Inv == Typed /\ Search /\ Truthful
-----------------------------------------------------------------------------
LEMMA DistanceIs ==
  ASSUME NEW p \in Int \X Int, NEW q \in Int \X Int, NEW r \in Int \X Int
  PROVE  /\ Distance(p, q) \in Nat /\ Distance(p, q) = Distance(q, p) /\ Distance(p, p) = 0
         /\ Distance(p, r) <= Distance(p, q) + Distance(q, r)
<1>1. p[1] \in Int /\ p[2] \in Int /\ q[1] \in Int /\ q[2] \in Int /\ r[1] \in Int /\ r[2] \in Int
  OBVIOUS
<1> QED
  BY <1>1 DEF Distance, Larger, Gap

Apart(m, n) == Distance(Pos[m], Pos[n])

LEMMA ApartIs ==
  ASSUME NEW m \in Nodes, NEW n \in Nodes, NEW o \in Nodes
  PROVE  /\ Apart(m, n) \in Nat /\ Apart(m, n) = Apart(n, m) /\ Apart(m, m) = 0
         /\ Apart(m, o) <= Apart(m, n) + Apart(n, o)
<1>1. Pos[m] \in Int \X Int /\ Pos[n] \in Int \X Int /\ Pos[o] \in Int \X Int
  BY NodesAssumption
<1> QED
  BY <1>1, DistanceIs DEF Apart

\* What the sides are.
Between == overlay \in Graphs /\ ends \in [src : Nodes, dst : Nodes]

LEMMA SidesAre ==
  ASSUME Between, NEW s \in Side
  PROVE  /\ Other(s) \in Side /\ Other(s) # s /\ Other(Other(s)) = s /\ Side = {s, Other(s)}
         /\ From(s) \in Nodes /\ To(s) \in Nodes /\ From(Other(s)) = To(s) /\ To(Other(s)) = From(s)
         /\ overlay \subseteq Edge
  BY GraphsAssumption DEF Between, Side, Other, From, To, Start

\* An open label that is low enough lies before every road that no settled label
\* is near: the first node of the road that is not settled.
LEMMA Frontier ==
  ASSUME Between, NEW s \in Side, Sided(s), Honest, NEW k \in Nat
  PROVE  \A v \in Walks(overlay, From(s))[k] : \E w \in label[s] :
            \/ w.node \in settled[s] /\ w.node = v.node /\ 2 * w.time <= 3 * v.time
            \/ w.node \notin settled[s] /\ 2 * w.time + 3 * Apart(w.node, v.node) <= 3 * v.time
<1> DEFINE W == Walks(overlay, From(s))
           Held(v, w) == \/ w.node \in settled[s] /\ w.node = v.node /\ 2 * w.time <= 3 * v.time
                         \/ /\ w.node \notin settled[s]
                            /\ 2 * w.time + 3 * Apart(w.node, v.node) <= 3 * v.time
           P == {i \in Nat : \A v \in W[i] : \E w \in label[s] : Held(v, w)}
<1>1. /\ W \in [Nat -> SUBSET Label] /\ W[0] = {Origin(From(s))}
      /\ \A i \in Nat : W[i + 1] = W[i] \cup Longer(overlay, W[i])
  <2>1. overlay \subseteq Edge /\ From(s) \in Nodes
    BY SidesAre
  <2> QED
    BY <2>1, WalksAre
<1>2. \A i \in Nat : \A v \in W[i] : \A w \in label[s] :
        w.node \in settled[s] /\ w.node = v.node => 2 * w.time <= 3 * v.time
  BY DEF Sided, NearBest
<1>3. overlay \subseteq Edge
  BY SidesAre
<1>4. label[s] \subseteq Label /\ Origin(From(s)) \in label[s]
  BY DEF Sided, Labelled
<1>5. From(s) \in Nodes
  BY SidesAre
<1> HIDE DEF W
<1>6. 0 \in P
  <2> SUFFICES ASSUME NEW v \in W[0] PROVE Held(v, v) /\ v \in label[s]
    BY DEF P
  <2>1. v = Origin(From(s)) /\ v \in label[s]
    BY <1>1, <1>4
  <2>2. Apart(From(s), From(s)) = 0
    BY <1>5, ApartIs
  <2> QED
    BY <2>1, <2>2 DEF Origin
<1>7. ASSUME NEW i \in Nat, i \in P PROVE i + 1 \in P
  <2> SUFFICES ASSUME NEW v \in W[i + 1] PROVE \E w \in label[s] : Held(v, w)
    BY DEF P
  <2> HIDE DEF Held
  <2>1. CASE v \in W[i]
    BY <1>7, <2>1 DEF P
  <2>2. CASE v \in Longer(overlay, W[i])
    <3>1. W[i] \subseteq Label
      BY <1>1
    <3>2. PICK x \in W[i], d \in overlay : x.node \in d.ends /\ v = On(x, d)
      BY <1>3, <2>2, <3>1, LongerOf
    <3>3. PICK w \in label[s] : Held(x, w)
      BY <1>7 DEF P
    <3>4. /\ x.node \in Nodes /\ x.time \in Nat /\ w.node \in Nodes /\ w.time \in Nat
          /\ d.time \in Nat
      BY <1>3, <1>4, <3>1 DEF Label, Edge
    <3>5. v.node = Far(d, x.node) /\ v.time = x.time + d.time
      BY <3>2 DEF On
    <3>6. v.node \in d.ends /\ v.node \in Nodes
      BY <1>3, <3>2, <3>5, FarIs
    <3>7. CASE w.node \in settled[s] /\ w.node = x.node /\ 2 * w.time <= 3 * x.time
      <4>1. PICK y \in label[s] :
                y.node = v.node /\ (y.node \in settled[s] \/ y.time <= w.time + d.time)
        BY <3>2, <3>5, <3>7 DEF Sided, Expanded
      <4>2. y.time \in Nat
        BY <1>4 DEF Label
      <4>3. CASE y.node \in settled[s]
        BY <1>2, <4>1, <4>3 DEF Held
      <4>4. CASE y.node \notin settled[s]
        <5>1. Apart(y.node, v.node) = 0
          BY <3>6, <4>1, ApartIs
        <5>2. 2 * y.time + 3 * Apart(y.node, v.node) <= 3 * v.time
          BY <3>4, <3>5, <3>7, <4>1, <4>2, <4>4, <5>1
        <5> QED
          BY <4>4, <5>2 DEF Held
      <4> QED
        BY <4>3, <4>4
    <3>8. CASE /\ w.node \notin settled[s]
               /\ 2 * w.time + 3 * Apart(w.node, x.node) <= 3 * x.time
      <4>1. Apart(x.node, v.node) <= d.time
        BY <3>2, <3>6 DEF Honest, Apart
      <4>2. /\ Apart(w.node, v.node) <= Apart(w.node, x.node) + Apart(x.node, v.node)
            /\ Apart(w.node, v.node) \in Nat /\ Apart(w.node, x.node) \in Nat
            /\ Apart(x.node, v.node) \in Nat
        BY <3>4, <3>6, ApartIs
      <4>3. 2 * w.time + 3 * Apart(w.node, v.node) <= 3 * v.time
        BY <3>4, <3>5, <3>8, <4>1, <4>2
      <4> QED
        BY <3>8, <4>3 DEF Held
    <3> QED
      BY <3>3, <3>7, <3>8 DEF Held
  <2> QED
    BY <1>1, <2>1, <2>2
<1> HIDE DEF P
<1>8. k \in P
  BY <1>6, <1>7, SetOfAll
<1> QED
  BY <1>8 DEF P, W

\* A side with an empty heap has settled every node it can reach.
LEMMA Emptied ==
  ASSUME Between, NEW s \in Side, Sided(s), heap[s] = {}, NEW k \in Nat,
         NEW v \in Walks(overlay, From(s))[k]
  PROVE  v.node \in settled[s]
<1> DEFINE W == Walks(overlay, From(s))
           P == {i \in Nat : \A x \in W[i] : x.node \in settled[s]}
<1>1. /\ W \in [Nat -> SUBSET Label] /\ W[0] = {Origin(From(s))}
      /\ \A i \in Nat : W[i + 1] = W[i] \cup Longer(overlay, W[i])
  <2>1. overlay \subseteq Edge /\ From(s) \in Nodes
    BY SidesAre
  <2> QED
    BY <2>1, WalksAre
<1>2. overlay \subseteq Edge
  BY SidesAre
<1>3. /\ Origin(From(s)) \in label[s] /\ settled[s] \subseteq Known(s)
      /\ \A w \in label[s] : w.node \in settled[s]
  BY DEF Sided, Labelled, Queued
<1> HIDE DEF W
<1>4. 0 \in P
  BY <1>1, <1>3 DEF Origin
<1>5. ASSUME NEW i \in Nat, i \in P PROVE i + 1 \in P
  <2> SUFFICES ASSUME NEW x \in W[i + 1] PROVE x.node \in settled[s]
    BY DEF P
  <2>1. CASE x \in W[i]
    BY <1>5, <2>1 DEF P
  <2>2. CASE x \in Longer(overlay, W[i])
    <3>1. W[i] \subseteq Label
      BY <1>1
    <3>2. PICK y \in W[i], d \in overlay : y.node \in d.ends /\ x = On(y, d)
      BY <1>2, <2>2, <3>1, LongerOf
    <3>3. y.node \in settled[s]
      BY <1>5 DEF P
    <3>4. PICK w \in label[s] : w.node = y.node
      BY <1>3, <3>3 DEF Known
    <3>5. \E z \in label[s] : z.node = Far(d, w.node)
      BY <3>2, <3>3, <3>4 DEF Sided, Expanded
    <3> QED
      BY <1>3, <3>2, <3>4, <3>5 DEF On
  <2> QED
    BY <1>1, <2>1, <2>2
<1> HIDE DEF P
<1>6. k \in P
  BY <1>4, <1>5, SetOfAll
<1> QED
  BY <1>6 DEF P, W
-----------------------------------------------------------------------------
(* A turn of the loop that settles a node.                                 *)

LEMMA LabelIs ==
  ASSUME NEW s \in Side, Labelled(s), NEW w \in label[s]
  PROVE  /\ At(s, w.node) = w /\ w.node \in Known(s) /\ w \in Label
         /\ w.node \in Nodes /\ w.time \in Nat /\ w.len \in Nat
<1>1. \E v \in label[s] : v.node = w.node
  OBVIOUS
<1>2. At(s, w.node) \in label[s] /\ At(s, w.node).node = w.node
  BY <1>1, Zenon DEF At
<1>3. At(s, w.node) = w
  BY <1>2 DEF Labelled
<1> QED
  BY <1>3 DEF Labelled, Known, Label

\* The label of a node that has one.
LEMMA KnownIs ==
  ASSUME NEW s \in Side, Labelled(s), NEW n \in Known(s)
  PROVE  At(s, n) \in label[s] /\ At(s, n).node = n
<1>1. \E w \in label[s] : w.node = n
  BY DEF Known
<1> QED
  BY <1>1, Zenon DEF At

LEMMA KeyIs ==
  ASSUME Between, NEW s \in Side, NEW w, w.node \in Nodes, w.time \in Nat
  PROVE  /\ Queues(s, w) \in Entry /\ Queues(s, w).node = w.node
         /\ Queues(s, w).key = 2 * w.time + 3 * Apart(w.node, To(s))
<1>1. To(s) \in Nodes
  BY SidesAre
<1>2. Apart(w.node, To(s)) \in Nat
  BY <1>1, ApartIs
<1>3. Queues(s, w).key = 2 * w.time + 3 * Apart(w.node, To(s))
  BY DEF Queues, Key, Apart, To
<1> QED
  BY <1>2, <1>3 DEF Queues, Entry

\* The least key of a heap.
LEMMA TopIs ==
  ASSUME NEW s \in Side, heap[s] \subseteq Entry, heap[s] # {}
  PROVE  Top(s) \in Nat /\ \A o \in heap[s] : Top(s) <= o.key
<1> DEFINE keys == {o.key : o \in heap[s]}
<1>1. keys \subseteq Nat /\ keys # {}
  BY DEF Entry
<1> HIDE DEF keys
<1>2. PICK k \in keys : \A j \in keys : k <= j
  BY <1>1, LeastNumber
<1>3. \E e \in heap[s] : \A o \in heap[s] : e.key <= o.key
  BY <1>2 DEF keys
<1> DEFINE top == CHOOSE e \in heap[s] : \A o \in heap[s] : e.key <= o.key
<1>4. top \in heap[s] /\ \A o \in heap[s] : top.key <= o.key
  BY <1>3, Zenon
<1>5. Top(s) = top.key
  BY DEF Top
<1> HIDE DEF top
<1> QED
  BY <1>4, <1>5 DEF Entry

\* What a settling step does to its side: x is the label of the node.
Settles(s, x) ==
    /\ x \in label[s] /\ x.node \notin settled[s]
    /\ \A w \in label[s] : w.node \notin settled[s] => Queues(s, x).key <= Queues(s, w).key
    /\ settled'[s] = settled[s] \cup {x.node}
    \* labels: each is an old one or one step on from x, sooner than the old one
    /\ label'[s] \subseteq Label /\ \A v, w \in label'[s] : v.node = w.node => v = w
    /\ \A w \in label[s] : w.node \in settled'[s] => w \in label'[s]
    /\ \A w \in label[s] : \E v \in label'[s] : v.node = w.node /\ v.time <= w.time
    /\ \A v \in label'[s] :
        \/ v \in label[s]
        \/ v.node \notin settled'[s] /\ \E d \in overlay : x.node \in d.ends /\ v = On(x, d)
    /\ \A d \in overlay : x.node \in d.ends =>
        \E v \in label'[s] : /\ v.node = Far(d, x.node)
                             /\ v.node \in settled'[s] \/ v.time <= x.time + d.time

LEMMA RelaxedIs ==
  ASSUME Between, NEW s \in Side, Labelled(s), NEW x \in label[s], NEW v \in Relaxed(s, x.node)
  PROVE  /\ \E d \in overlay : x.node \in d.ends /\ v = On(x, d)
         /\ v \in Label /\ v.node \notin settled[s] /\ v.node # x.node
         /\ \A w \in label[s] : w.node = v.node => v.time < w.time
<1>1. At(s, x.node) = x /\ x \in Label /\ x.time \in Nat /\ x.len \in Nat
  BY LabelIs
<1>2. v \in Through(s, x.node) /\ v.node \notin settled[s]
      /\ (v.node \in Known(s) => v.time < At(s, v.node).time)
  BY DEF Relaxed
<1>3. PICK d \in overlay : x.node \in d.ends /\ v = On(x, d)
  BY <1>1, <1>2 DEF Through, On
<1>4. d \in Edge
  BY SidesAre
<1>5. d.time \in Nat \ {0} /\ d.len \in Nat /\ Far(d, x.node) \in Nodes
  BY <1>3, <1>4, FarIs DEF Edge
<1>6. /\ v.node = Far(d, x.node) /\ v.time = x.time + d.time /\ v.len = x.len + d.len
      /\ v \in Label
  BY <1>1, <1>3, <1>5 DEF On, Label
<1>7. \A w \in label[s] : w.node = v.node => v.time < w.time
  BY <1>2, LabelIs
<1>8. v.node # x.node
  BY <1>1, <1>5, <1>6, <1>7
<1> QED
  BY <1>2, <1>3, <1>6, <1>7, <1>8

LEMMA SettleIs ==
  ASSUME Between, Typed, NEW s \in Side, Sided(s), NEW e \in heap[s], Settle(s, e)
  PROVE  LET x == At(s, e.node) IN
         /\ x.node = e.node /\ Settles(s, x) /\ Labelled(s)' /\ Queued(s)'
         /\ mu' = Meeting(s, x.node)
<1> DEFINE R == Relaxed(s, e.node)
           L == label[s]
           L1 == label'[s]
           x == At(s, e.node)
<1>1. /\ Pop(s, e) /\ e.node \notin settled[s] /\ ends' = ends /\ overlay' = overlay
      /\ mu' = Meeting(s, e.node)
      /\ label = [t \in Side |-> label[t]] /\ heap = [t \in Side |-> heap[t]]
      /\ settled = [t \in Side |-> settled[t]]
  BY DEF Settle, Typed, objectVars
<1>2. PICK pushed \in SUBSET R, best \in Quickest(R) :
        /\ best \subseteq pushed
        /\ label' = [label EXCEPT ![s] = best \cup {w \in @ : \A v \in best : v.node # w.node}]
        /\ heap' = [heap EXCEPT ![s] = (@ \ {e}) \cup
              {[key |-> Key(s, ends, w.node, w.time), node |-> w.node] : w \in pushed}]
  BY DEF Settle
<1>3. /\ L1 = best \cup {w \in L : \A v \in best : v.node # w.node}
      /\ heap'[s] = (heap[s] \ {e}) \cup {Queues(s, w) : w \in pushed}
      /\ settled'[s] = settled[s] \cup {e.node}
  BY <1>1, <1>2 DEF Settle, Queues
<1>4. /\ Labelled(s) /\ Queued(s)
  BY DEF Sided
<1>5. PICK y \in L : y.node = e.node /\ Queues(s, y).key <= e.key
  BY <1>4 DEF Queued
<1>6. x = y /\ x \in L /\ x.node = e.node /\ x.node \in Nodes /\ x.time \in Nat /\ x.len \in Nat
  BY <1>4, <1>5, LabelIs
<1> HIDE DEF x
<1>7. ASSUME NEW v \in R
      PROVE  /\ \E d \in overlay : x.node \in d.ends /\ v = On(x, d)
             /\ v \in Label /\ v.node \notin settled[s] /\ v.node # x.node
             /\ \A w \in L : w.node = v.node => v.time < w.time
  BY <1>4, <1>6, RelaxedIs
<1>8. /\ best \subseteq R /\ pushed \subseteq R
      /\ \A v, w \in best : v.node = w.node => v = w
      /\ \A w \in R : \E v \in best : v.node = w.node /\ v.time <= w.time
  BY <1>2 DEF Quickest
<1>9. L \subseteq Label /\ L1 \subseteq Label
  BY <1>3, <1>4, <1>7, <1>8 DEF Labelled
<1>10. \A v, w \in L1 : v.node = w.node => v = w
  BY <1>3, <1>4, <1>8 DEF Labelled
<1>11. \A w \in L : w.node \in settled'[s] => w \in L1
  BY <1>3, <1>6, <1>7, <1>8
<1>12. \A w \in L : \E v \in L1 : v.node = w.node /\ v.time <= w.time
  <2> SUFFICES ASSUME NEW w \in L PROVE \E v \in L1 : v.node = w.node /\ v.time <= w.time
    OBVIOUS
  <2>1. CASE \E v \in best : v.node = w.node
    <3>1. PICK v \in best : v.node = w.node
      BY <2>1
    <3>2. v \in L1 /\ v.time < w.time /\ v.time \in Nat /\ w.time \in Nat
      BY <1>3, <1>7, <1>8, <1>9, <3>1 DEF Label
    <3> QED
      BY <3>1, <3>2
  <2>2. CASE \A v \in best : v.node # w.node
    <3>1. w \in L1 /\ w.time \in Nat
      BY <1>3, <1>9, <2>2 DEF Label
    <3> QED
      BY <3>1
  <2> QED
    BY <2>1, <2>2
<1>13. \A v \in L1 : \/ v \in L
                     \/ /\ v.node \notin settled'[s]
                        /\ \E d \in overlay : x.node \in d.ends /\ v = On(x, d)
  BY <1>3, <1>6, <1>7, <1>8
<1>14. ASSUME NEW d \in overlay, x.node \in d.ends
       PROVE  \E v \in L1 : /\ v.node = Far(d, x.node)
                            /\ v.node \in settled'[s] \/ v.time <= x.time + d.time
  <2> DEFINE n == Far(d, x.node)
             o == On(x, d)
  <2>1. d \in Edge /\ d.time \in Nat /\ o.node = n /\ o.time = x.time + d.time
    BY SidesAre DEF On, Edge
  <2> HIDE DEF n, o
  <2>2. CASE n \in settled[s]
    <3>1. PICK w \in L : w.node = n
      BY <1>4, <2>2 DEF Labelled, Known
    <3> QED
      BY <1>3, <1>11, <2>2, <3>1 DEF n
  <2>3. CASE n \notin settled[s] /\ \E w \in L : w.node = n /\ w.time <= o.time
    <3>1. PICK w \in L : w.node = n /\ w.time <= o.time
      BY <2>3
    <3>2. PICK v \in L1 : v.node = w.node /\ v.time <= w.time
      BY <1>12
    <3>3. v.time \in Nat /\ w.time \in Nat
      BY <1>9, <3>1, <3>2 DEF Label
    <3>4. v.time <= x.time + d.time
      BY <1>6, <2>1, <3>1, <3>2, <3>3
    <3> QED
      BY <3>1, <3>2, <3>4 DEF n
  <2>4. CASE n \notin settled[s] /\ \A w \in L : w.node = n => o.time < w.time
    <3>1. o \in Through(s, e.node)
      BY <1>6, <1>14 DEF Through, o, On, x
    <3>2. n \in Known(s) => o.time < At(s, n).time
      BY <1>4, <2>4, KnownIs
    <3>3. o \in R
      BY <2>1, <2>4, <3>1, <3>2 DEF Relaxed
    <3>4. PICK v \in best : v.node = o.node /\ v.time <= o.time
      BY <1>8, <3>3
    <3> QED
      BY <1>3, <2>1, <3>4 DEF n
  <2>5. \A w \in L : w.node = n => w.time <= o.time \/ o.time < w.time
    BY <1>6, <1>9, <2>1 DEF Label
  <2> QED
    BY <2>2, <2>3, <2>4, <2>5
<1>15. ASSUME NEW w \in L, w.node \notin settled[s]
       PROVE  Queues(s, x).key <= Queues(s, w).key
  <2>1. Queues(s, w) \in heap[s]
    BY <1>4, <1>15 DEF Queued
  <2>2. e.key = Top(s) /\ heap[s] \subseteq Entry /\ heap[s] # {}
    BY <1>1, <1>4 DEF Pop, Labelled
  <2>3. e.key <= Queues(s, w).key /\ e.key \in Nat
    BY <2>1, <2>2, TopIs
  <2>4. Queues(s, x) \in Entry /\ Queues(s, w) \in Entry
    BY <1>4, <1>6, KeyIs, LabelIs
  <2>5. Queues(s, x).key \in Nat /\ Queues(s, w).key \in Nat
    BY <2>4 DEF Entry
  <2> QED
    BY <1>5, <1>6, <2>3, <2>5
<1>16. Settles(s, x)
  BY <1>1, <1>3, <1>6, <1>9, <1>10, <1>11, <1>12, <1>13, <1>14, <1>15 DEF Settles
<1>17. \A w : Queues(s, w)' = Queues(s, w)
  BY <1>1 DEF Queues, Key
<1>18. \A w \in L1 : w.node \in Nodes /\ w.time \in Nat
  BY <1>9 DEF Label
<1>19. ASSUME NEW w \in pushed
       PROVE  /\ Queues(s, w) \in Entry
              /\ \E v \in L1 : v.node = Queues(s, w).node /\ Queues(s, v).key <= Queues(s, w).key
  <2>1. PICK v \in best : v.node = w.node /\ v.time <= w.time
    BY <1>8
  <2>2. v \in Label /\ w \in Label /\ v \in L1
    BY <1>3, <1>7, <1>8, <2>1
  <2>3. v.node \in Nodes /\ v.time \in Nat /\ w.node \in Nodes /\ w.time \in Nat
    BY <2>2 DEF Label
  <2>4. /\ Queues(s, w) \in Entry /\ Queues(s, w).node = w.node
        /\ Queues(s, w).key = 2 * w.time + 3 * Apart(w.node, To(s))
        /\ Queues(s, v).key = 2 * v.time + 3 * Apart(v.node, To(s))
    BY <2>3, KeyIs
  <2>5. Apart(w.node, To(s)) \in Nat
    BY <2>3, SidesAre, ApartIs
  <2>6. Queues(s, v).key <= Queues(s, w).key
    BY <2>1, <2>3, <2>4, <2>5
  <2> QED
    BY <2>1, <2>2, <2>4, <2>6
<1>20. \A w \in L1 : w.node \notin settled'[s] => Queues(s, w) \in heap'[s]
  <2> SUFFICES ASSUME NEW w \in L1, w.node \notin settled'[s] PROVE Queues(s, w) \in heap'[s]
    OBVIOUS
  <2>1. CASE w \in best
    BY <1>2, <1>3, <2>1
  <2>2. CASE w \in L
    <3>1. w.node \notin settled[s] /\ w.node # e.node
      BY <1>3
    <3>2. Queues(s, w) \in heap[s] /\ Queues(s, w).node = w.node
      BY <1>4, <2>2, <3>1 DEF Queued, Queues
    <3> QED
      BY <1>3, <3>1, <3>2
  <2> QED
    BY <1>3, <2>1, <2>2
<1>21. \A o \in heap'[s] : \E w \in L1 : w.node = o.node /\ Queues(s, w).key <= o.key
  <2> SUFFICES ASSUME NEW o \in heap[s]
               PROVE  \E w \in L1 : w.node = o.node /\ Queues(s, w).key <= o.key
    BY <1>3, <1>19
  <2>1. PICK w \in L : w.node = o.node /\ Queues(s, w).key <= o.key
    BY <1>4 DEF Queued
  <2>2. PICK v \in L1 : v.node = w.node /\ v.time <= w.time
    BY <1>12
  <2>3. v.node \in Nodes /\ v.time \in Nat /\ w.time \in Nat /\ w.node \in Nodes
    BY <1>9, <2>1, <2>2 DEF Label
  <2>4. /\ Queues(s, w).key = 2 * w.time + 3 * Apart(w.node, To(s))
        /\ Queues(s, v).key = 2 * v.time + 3 * Apart(v.node, To(s))
    BY <2>3, KeyIs
  <2>5. Apart(w.node, To(s)) \in Nat /\ o.key \in Nat
    BY <1>4, <2>3, SidesAre, ApartIs DEF Labelled, Entry
  <2>6. Queues(s, v).key <= o.key
    BY <2>1, <2>2, <2>3, <2>4, <2>5
  <2> QED
    BY <2>1, <2>2, <2>6
<1>22. Queued(s)'
  BY <1>17, <1>20, <1>21 DEF Queued
<1>23. Labelled(s)'
  <2>1. heap'[s] \subseteq Entry
    BY <1>3, <1>4, <1>19 DEF Labelled
  <2>2. settled'[s] \subseteq Known(s)'
    BY <1>3, <1>4, <1>6, <1>11 DEF Labelled, Known
  <2>3. Origin(From(s)) \in L1
    <3>1. Origin(From(s)) \in L
      BY <1>4 DEF Labelled
    <3>2. PICK v \in L1 : v.node = From(s) /\ v.time <= 0
      BY <1>12, <3>1 DEF Origin
    <3>3. \A w \in best : ~(w.node = From(s))
      <4> SUFFICES ASSUME NEW w \in best, w.node = From(s) PROVE FALSE
        OBVIOUS
      <4>1. w.time < Origin(From(s)).time
        BY <1>7, <1>8, <3>1 DEF Origin
      <4>2. w.time \in Nat
        BY <1>3, <1>18
      <4> QED
        BY <4>1, <4>2 DEF Origin
    <3> QED
      BY <1>3, <3>1, <3>3 DEF Origin
  <2>4. From(s)' = From(s)
    BY <1>1 DEF From, Start
  <2> QED
    BY <1>9, <1>10, <2>1, <2>2, <2>3, <2>4 DEF Labelled
<1> QED
  BY <1>1, <1>6, <1>16, <1>22, <1>23 DEF x
\* What does not change in a turn of the loop.
LEMMA SettleFrame ==
  ASSUME Between, Typed, NEW s \in Side, NEW e \in heap[s], Settle(s, e)
  PROVE  /\ overlay' = overlay /\ ends' = ends /\ searching' = searching
         /\ \A t \in Side \ {s} : /\ label'[t] = label[t] /\ heap'[t] = heap[t]
                                  /\ settled'[t] = settled[t]
         /\ \A t \in Side : From(t)' = From(t) /\ To(t)' = To(t)
         /\ Honest' = Honest
<1>1. /\ overlay' = overlay /\ ends' = ends /\ searching' = searching
      /\ label = [t \in Side |-> label[t]] /\ heap = [t \in Side |-> heap[t]]
      /\ settled = [t \in Side |-> settled[t]]
  BY DEF Settle, Typed, objectVars, callVars
<1>2. \A t \in Side \ {s} : /\ label'[t] = label[t] /\ heap'[t] = heap[t]
                            /\ settled'[t] = settled[t]
  BY <1>1 DEF Settle
<1> QED
  BY <1>1, <1>2 DEF From, To, Start, Honest

LEMMA SettleExpanded ==
  ASSUME Between, Typed, NEW s \in Side, Sided(s), NEW e \in heap[s], Settle(s, e)
  PROVE  Expanded(s)'
<1> DEFINE x == At(s, e.node)
           L1 == label'[s]
<1>1. Settles(s, x) /\ overlay' = overlay
  BY SettleIs, SettleFrame
<1> HIDE DEF x
<1>2. label[s] \subseteq Label /\ L1 \subseteq Label
  BY <1>1 DEF Sided, Labelled, Settles
<1> SUFFICES ASSUME NEW w \in L1, NEW d \in overlay, w.node \in settled'[s], w.node \in d.ends
             PROVE  \E v \in L1 : /\ v.node = Far(d, w.node)
                                  /\ v.node \in settled'[s] \/ v.time <= w.time + d.time
  BY <1>1 DEF Expanded
<1>3. CASE w.node = x.node
  <2>1. x \in L1
    BY <1>1 DEF Settles
  <2>2. w = x
    BY <1>1, <1>3, <2>1 DEF Settles
  <2> QED
    BY <1>1, <2>2 DEF Settles
<1>4. CASE w.node # x.node
  <2>1. w \in label[s] /\ w.node \in settled[s]
    BY <1>1, <1>4 DEF Settles
  <2>2. PICK v \in label[s] :
            v.node = Far(d, w.node) /\ (v.node \in settled[s] \/ v.time <= w.time + d.time)
    BY <2>1 DEF Sided, Expanded
  <2>3. PICK y \in L1 : y.node = v.node /\ y.time <= v.time
    BY <1>1 DEF Settles
  <2>4. y.time \in Nat /\ v.time \in Nat /\ w.time \in Nat /\ d.time \in Nat
    BY <1>2, <2>1, <2>2, <2>3, SidesAre DEF Label, Edge
  <2>5. v.time <= w.time + d.time => y.time <= w.time + d.time
    BY <2>3, <2>4
  <2>6. v.node \in settled[s] => y.node \in settled'[s]
    BY <1>1, <2>3 DEF Settles
  <2> QED
    BY <2>2, <2>3, <2>5, <2>6
<1> QED
  BY <1>3, <1>4

\* The road to a node reached from x is that of x and the edge.
LEMMA SettleTraced ==
  ASSUME Between, Typed, NEW s \in Side, Sided(s), NEW e \in heap[s], Settle(s, e)
  PROVE  Traced(s)'
<1> DEFINE x == At(s, e.node)
           L1 == label'[s]
           W == Walks(overlay, From(s))
<1>1. Settles(s, x) /\ overlay' = overlay /\ From(s)' = From(s) /\ x.node = e.node
  BY SettleIs, SettleFrame
<1> HIDE DEF x
<1>2. /\ label[s] \subseteq Label /\ L1 \subseteq Label /\ x \in label[s] /\ x \in L1
      /\ x.node \notin settled[s] /\ settled'[s] = settled[s] \cup {x.node}
      /\ settled[s] \subseteq Nodes
  <2>1. label[s] \subseteq Label /\ settled[s] \subseteq Known(s)
    BY DEF Sided, Labelled
  <2>2. Known(s) \subseteq Nodes
    BY <2>1 DEF Known, Label
  <2> QED
    BY <1>1, <2>1, <2>2 DEF Settles
\* A settled node keeps its label.
<1>3. \A v \in L1 : v.node \in settled'[s] => v \in label[s]
  BY <1>1 DEF Settles
<1>4. PICK P \in SUBSET settled[s] : Over(s, x, P)
  BY <1>2 DEF Sided, Traced
<1> SUFFICES ASSUME NEW w \in L1
             PROVE  \E Q \in SUBSET settled'[s] : 
                        /\ w.node \notin Q /\ w \in W[Cardinality(Q)]
                        /\ \A v \in L1 : v.node \in Q => v.time < w.time
  BY <1>1 DEF Traced, Over
<1>5. CASE w \in label[s]
  <2>1. PICK Q \in SUBSET settled[s] : Over(s, w, Q)
    BY <1>5 DEF Sided, Traced
  <2>2. \A v \in L1 : v.node \in Q => v.time < w.time
    BY <1>2, <1>3, <2>1 DEF Over
  <2> QED
    BY <1>2, <2>1, <2>2 DEF Over
<1>6. CASE w.node \notin settled'[s] /\ \E d \in overlay : x.node \in d.ends /\ w = On(x, d)
  <2> DEFINE Q == P \cup {x.node}
  <2>1. PICK d \in overlay : x.node \in d.ends /\ w = On(x, d)
    BY <1>6
  <2>2. /\ Q \subseteq settled'[s] /\ w.node \notin Q /\ x.node \notin P
    BY <1>2, <1>4, <1>6 DEF Over
  <2>3. x.time \in Nat /\ d.time \in Nat \ {0} /\ w.time = x.time + d.time
    BY <1>2, <2>1, SidesAre DEF Label, Edge, On
  <2>4. Cardinality(Q) = Cardinality(P) + 1 /\ Cardinality(P) \in Nat
    <3>1. IsFiniteSet(P)
      <4>1. P \subseteq Nodes
        BY <1>2
      <4> QED
        BY <4>1, NodesAssumption, FS_Subset
    <3> QED
      BY <2>2, <3>1, FS_AddElement, FS_CardinalityType
  <2>5. w \in W[Cardinality(Q)]
    <3>1. x \in W[Cardinality(P)]
      BY <1>4 DEF Over
    <3>2. overlay \subseteq Edge /\ From(s) \in Nodes
      BY SidesAre
    <3>3. W \in [Nat -> SUBSET Label]
      BY <3>2, WalksAre
    <3>4. W[Cardinality(P) + 1] = W[Cardinality(P)] \cup Longer(overlay, W[Cardinality(P)])
      <4>1. \A i \in Nat : W[i + 1] = W[i] \cup Longer(overlay, W[i])
        BY <3>2, WalksAre
      <4> HIDE DEF W
      <4> QED
        BY <2>4, <4>1
    <3>5. W[Cardinality(P)] \subseteq Label
      BY <2>4, <3>3
    <3> HIDE DEF W
    <3>6. On(x, d) \in Longer(overlay, W[Cardinality(P)])
      BY <2>1, <3>1, <3>2, <3>5, LongerIs
    <3> QED
      BY <2>1, <2>4, <3>4, <3>6
  <2>6. ASSUME NEW v \in L1, v.node \in Q PROVE v.time < w.time
    <3>1. v \in label[s] /\ v.time \in Nat
      BY <1>2, <1>3, <2>2, <2>6 DEF Label
    <3>2. CASE v.node \in P
      <4>1. v.time < x.time
        BY <1>4, <3>1, <3>2 DEF Over
      <4> QED
        BY <2>3, <3>1, <4>1
    <3>3. CASE v.node = x.node
      <4>1. v = x
        BY <1>2, <3>1, <3>3 DEF Sided, Labelled
      <4> QED
        BY <2>3, <4>1
    <3> QED
      BY <2>6, <3>2, <3>3
  <2> HIDE DEF Q
  <2> QED
    BY <2>2, <2>5, <2>6
<1> QED
  BY <1>1, <1>5, <1>6 DEF Settles

\* The node that is settled is within the bound: the label that lies before a road
\* to it is queued no lower.
LEMMA SettleNearBest ==
  ASSUME Between, Typed, NEW s \in Side, Sided(s), NEW e \in heap[s], Settle(s, e)
  PROVE  NearBest(s)'
<1> DEFINE x == At(s, e.node)
           L1 == label'[s]
           W == Walks(overlay, From(s))
<1>1. /\ Settles(s, x) /\ overlay' = overlay /\ From(s)' = From(s) /\ x.node = e.node
      /\ Honest' = Honest
  BY SettleIs, SettleFrame
<1> HIDE DEF x
<1> SUFFICES ASSUME Honest, NEW w \in L1, w.node \in settled'[s], NEW k \in Nat, NEW v \in W[k],
                    v.node = w.node
             PROVE  2 * w.time <= 3 * v.time
  BY <1>1 DEF NearBest
<1>2. w \in label[s]
  BY <1>1 DEF Settles
<1>3. CASE w.node \in settled[s]
  BY <1>2, <1>3 DEF Sided, NearBest
<1>4. CASE w.node \notin settled[s]
  <2>1. w.node = x.node /\ x \in label[s]
    BY <1>1, <1>4 DEF Settles
  <2>2. w = x
    BY <1>2, <2>1 DEF Sided, Labelled
  <2>3. PICK y \in label[s] :
            \/ y.node \in settled[s] /\ y.node = v.node /\ 2 * y.time <= 3 * v.time
            \/ y.node \notin settled[s] /\ 2 * y.time + 3 * Apart(y.node, v.node) <= 3 * v.time
    BY Frontier
  <2>4. y.node \notin settled[s] /\ 2 * y.time + 3 * Apart(y.node, w.node) <= 3 * v.time
    BY <1>4, <2>3
  <2>5. Queues(s, w).key <= Queues(s, y).key
    BY <1>1, <2>2, <2>4 DEF Settles
  <2>6. w.node \in Nodes /\ w.time \in Nat /\ y.node \in Nodes /\ y.time \in Nat
    BY <1>2, LabelIs DEF Sided
  <2>7. To(s) \in Nodes /\ From(s) \in Nodes /\ overlay \subseteq Edge
    BY SidesAre
  <2>8. /\ Queues(s, w).key = 2 * w.time + 3 * Apart(w.node, To(s))
        /\ Queues(s, y).key = 2 * y.time + 3 * Apart(y.node, To(s))
    BY <2>6, KeyIs
  <2>9. /\ Apart(y.node, To(s)) <= Apart(y.node, w.node) + Apart(w.node, To(s))
        /\ Apart(y.node, To(s)) \in Nat /\ Apart(y.node, w.node) \in Nat
        /\ Apart(w.node, To(s)) \in Nat
    BY <2>6, <2>7, ApartIs
  <2>10. v.time \in Nat
    <3>1. W \in [Nat -> SUBSET Label]
      BY <2>7, WalksAre
    <3>2. v \in Label
      BY <3>1
    <3> QED
      BY <3>2 DEF Label
  <2> QED
    BY <2>4, <2>5, <2>6, <2>8, <2>9, <2>10
<1> QED
  BY <1>3, <1>4

LEMMA SettleSided ==
  ASSUME Between, Typed, \A t \in Side : Sided(t), NEW s \in Side, NEW e \in heap[s], Settle(s, e)
  PROVE  \A t \in Side : Sided(t)'
<1>1. Sided(s)'
  <2>1. Labelled(s)' /\ Queued(s)'
    BY SettleIs
  <2> QED
    BY <2>1, SettleExpanded, SettleTraced, SettleNearBest DEF Sided
<1>2. ASSUME NEW t \in Side, t # s PROVE Sided(t)'
  <2>1. /\ overlay' = overlay /\ ends' = ends
        /\ label'[t] = label[t] /\ heap'[t] = heap[t] /\ settled'[t] = settled[t]
        /\ From(t)' = From(t) /\ Honest' = Honest
    BY <1>2, SettleFrame
  <2>2. Sided(t)
    OBVIOUS
  <2>3. Labelled(t)'
    BY <2>1, <2>2 DEF Sided, Labelled, Known
  <2>4. Queued(t)'
    BY <2>1, <2>2 DEF Sided, Queued, Queues, Key
  <2>5. Expanded(t)'
    BY <2>1, <2>2 DEF Sided, Expanded
  <2>6. Traced(t)'
    BY <2>1, <2>2 DEF Sided, Traced, Over
  <2>7. NearBest(t)'
    BY <2>1, <2>2 DEF Sided, NearBest
  <2> QED
    BY <2>3, <2>4, <2>5, <2>6, <2>7 DEF Sided
<1> QED
  BY <1>1, <1>2
\* A road of each side to one node make a road between the ends, of no more edges
\* than the reference has, when no node is on both.
LEMMA RoadIs ==
  ASSUME Between, NEW w \in label["f"], NEW v \in label["b"], w.node = v.node,
         Sided("f"), Sided("b"), NEW P \in SUBSET settled["f"], NEW Q \in SUBSET settled["b"],
         Over("f", w, P), Over("b", v, Q), P \cap Q = {}
  PROVE  Joined(w, v, ends.dst) \in RoadsOf(ends)
<1> DEFINE A == Walks(overlay, ends.src)
           i == Cardinality(P)
           j == Cardinality(Q)
           N == Cardinality(Nodes)
<1>1. /\ "f" \in Side /\ "b" \in Side /\ From("f") = ends.src /\ From("b") = ends.dst
      /\ ends.src \in Nodes /\ ends.dst \in Nodes /\ overlay \subseteq Edge /\ overlay \in Graphs
  BY GraphsAssumption DEF Between, Side, From, Start
<1>2. P \subseteq Nodes /\ Q \subseteq Nodes /\ w.node \in Nodes
  BY <1>1 DEF Sided, Labelled, Known, Label
<1>3. IsFiniteSet(P) /\ IsFiniteSet(Q) /\ i \in Nat /\ j \in Nat
  <2>1. IsFiniteSet(P) /\ IsFiniteSet(Q)
    BY <1>2, NodesAssumption, FS_Subset
  <2> QED
    BY <2>1, FS_CardinalityType
<1>4. w.node \notin P \cup Q
  BY DEF Over
<1>5. i + j + 1 <= N /\ N \in Nat
  <2>1. IsFiniteSet(P \cup Q) /\ Cardinality(P \cup Q) = i + j
    <3>1. IsFiniteSet(P \cup Q)
      BY <1>3, FS_Union
    <3>2. Cardinality(P \cup Q) = i + j - Cardinality(P \cap Q)
      BY <1>3, FS_Union
    <3>3. Cardinality(P \cap Q) = 0
      BY FS_EmptySet
    <3> QED
      BY <1>3, <3>1, <3>2, <3>3
  <2>2. IsFiniteSet((P \cup Q) \cup {w.node}) /\ Cardinality((P \cup Q) \cup {w.node}) = i + j + 1
    BY <1>4, <2>1, FS_AddElement
  <2>3. (P \cup Q) \cup {w.node} \subseteq Nodes
    BY <1>2
  <2>4. Cardinality((P \cup Q) \cup {w.node}) <= N
    BY <2>3, NodesAssumption, FS_Subset
  <2>5. N \in Nat
    BY NodesAssumption, FS_CardinalityType
  <2> QED
    BY <2>2, <2>4, <2>5
<1>6. w \in A[i] /\ v \in Walks(overlay, ends.dst)[j]
  BY <1>1 DEF Over
<1>7. Joined(w, v, ends.dst) \in A[i + j]
  <2> HIDE DEF i, j
  <2> QED
    BY <1>1, <1>3, <1>6, WalksJoin
<1>8. A[i + j] \subseteq A[N - 1]
  <2> HIDE DEF i, j, N
  <2>1. i + j \in Nat /\ N - 1 \in Nat /\ i + j <= N - 1
    BY <1>3, <1>5
  <2> QED
    BY <1>1, <2>1, WalksGrow
<1>9. Roads[overlay][ends.src] = A[N - 1]
  BY <1>1 DEF Roads
<1>10. Joined(w, v, ends.dst) \in Roads[overlay][ends.src]
  BY <1>7, <1>8, <1>9
<1> QED
  BY <1>10 DEF RoadsOf, Joined

LEMMA RoadsAre ==
  ASSUME overlay \in Graphs, NEW a, a.src \in Nodes, NEW w \in RoadsOf(a)
  PROVE  /\ w \in Label /\ w.time \in Nat /\ w.len \in Nat /\ w.node = a.dst
         /\ \E k \in Nat : w \in Walks(overlay, a.src)[k]
<1> DEFINE N == Cardinality(Nodes)
           W == Walks(overlay, a.src)
<1>1. w \in W[N - 1] /\ w.node = a.dst
  BY DEF RoadsOf, Roads
<1>2. N - 1 \in Nat
  <2>1. N \in Nat /\ N # 0
    BY NodesAssumption, FS_CardinalityType, FS_EmptySet
  <2> QED
    BY <2>1
<1>3. W \in [Nat -> SUBSET Label]
  BY GraphsAssumption, WalksAre
<1> HIDE DEF N, W
<1>4. w \in Label
  BY <1>1, <1>2, <1>3
<1> QED
  BY <1>1, <1>2, <1>4 DEF Label, W

LEMMA SettleMet ==
  ASSUME Between, Typed, \A t \in Side : Sided(t), Met, NEW s \in Side, NEW e \in heap[s],
         Settle(s, e)
  PROVE  Met'
<1> DEFINE x == At(s, e.node)
           o == Other(s)
<1>1. /\ Settles(s, x) /\ overlay' = overlay /\ ends' = ends /\ x \in label[s]
      /\ mu' = Meeting(s, x.node)
      /\ \A t \in Side : From(t)' = From(t) /\ To(t)' = To(t)
  BY SettleIs, SettleFrame DEF Settles
<1>2. o \in Side /\ Other(o) = s /\ o # s /\ Side = {s, o} /\ From(o) = To(s)
  BY SidesAre
<1>3. label'[o] = label[o] /\ settled'[o] = settled[o]
  BY <1>2, SettleFrame
<1>4. \A t \in Side : \A w \in label'[t] : w.node \in settled'[t] =>
        w \in label[t] /\ (w.node \in settled[t] \/ (t = s /\ w = x))
  <2>1. ASSUME NEW w \in label'[s], w.node \in settled'[s]
        PROVE  w \in label[s] /\ (w.node \in settled[s] \/ w = x)
    <3>1. w \in label[s] /\ settled'[s] = settled[s] \cup {x.node}
      BY <1>1, <2>1 DEF Settles
    <3>2. w.node = x.node => w = x
      BY <1>1, <3>1 DEF Sided, Labelled
    <3> QED
      BY <2>1, <3>1, <3>2
  <2>2. \A w \in label'[o] : w.node \in settled'[o] => w \in label[o] /\ w.node \in settled[o]
    BY <1>3
  <2>3. \A t \in Side : t = s \/ t = o
    BY <1>2
  <2> SUFFICES ASSUME NEW t \in Side, NEW w \in label'[t], w.node \in settled'[t]
               PROVE  w \in label[t] /\ (w.node \in settled[t] \/ (t = s /\ w = x))
    OBVIOUS
  <2>4. CASE t = s
    BY <2>1, <2>4
  <2>5. CASE t = o
    BY <2>2, <2>5
  <2> QED
    BY <2>3, <2>4, <2>5
<1>5. \A t \in Side : \A w \in label[t] : At(t, w.node) = w /\ w.time \in Nat /\ w.len \in Nat
  BY LabelIs DEF Sided
<1>6. mu = NoRoad \/ mu.time \in Nat
  <2>1. ends.src \in Nodes /\ overlay \in Graphs
    BY DEF Between
  <2>2. \A w \in RoadsOf(ends) : w.time \in Nat
    BY <2>1, RoadsAre
  <2> QED
    BY <2>2 DEF Met
<1> HIDE DEF x, o
\* A meeting at a node that the other side knows by y.
<1>7. ASSUME NEW y \in label[o], y.node = x.node
      PROVE  /\ mu' = IF mu = NoRoad \/ x.time + y.time < mu.time
                      THEN [time |-> x.time + y.time, len |-> x.len + y.len] ELSE mu
             /\ mu' # NoRoad /\ mu'.time <= x.time + y.time
             /\ mu # NoRoad => mu'.time <= mu.time
  <2>1. x.node \in Known(Other(s))
    BY <1>7 DEF Known, o
  <2>2. At(s, x.node) = x /\ At(o, x.node) = y /\ x.time \in Nat /\ y.time \in Nat
        /\ x.len \in Nat /\ y.len \in Nat
    BY <1>1, <1>2, <1>5, <1>7
  <2>3. /\ At("f", x.node).time + At("b", x.node).time = x.time + y.time
        /\ At("f", x.node).len + At("b", x.node).len = x.len + y.len
    <3>1. CASE s = "f"
      BY <2>2, <3>1 DEF o, Other
    <3>2. CASE s = "b"
      BY <2>2, <3>2 DEF o, Other
    <3> QED
      BY <3>1, <3>2 DEF Side
  <2>4. mu' = IF mu = NoRoad \/ x.time + y.time < mu.time
              THEN [time |-> x.time + y.time, len |-> x.len + y.len] ELSE mu
    BY <1>1, <2>1, <2>3 DEF Meeting
  <2>5. CASE mu = NoRoad \/ x.time + y.time < mu.time
    <3>1. mu' = [time |-> x.time + y.time, len |-> x.len + y.len]
      BY <2>4, <2>5
    <3>2. mu'.time = x.time + y.time /\ x.time + y.time \in Nat
      BY <2>2, <3>1
    <3>3. mu'.time # NoRoad.time
      BY <3>2 DEF NoRoad
    <3>4. mu # NoRoad => mu'.time <= mu.time
      BY <1>6, <2>2, <2>5, <3>2
    <3> QED
      BY <2>2, <2>4, <3>2, <3>3, <3>4
  <2>6. CASE mu # NoRoad /\ ~(x.time + y.time < mu.time)
    BY <1>6, <2>2, <2>4, <2>6
  <2> QED
    BY <2>5, <2>6
<1>8. ASSUME \A y \in label[o] : y.node # x.node PROVE mu' = mu
  <2>1. x.node \notin Known(Other(s))
    BY <1>8 DEF Known, o
  <2> QED
    BY <1>1, <2>1 DEF Meeting
<1>9. ASSUME NEW time \in Nat, Beaten(time) PROVE Beaten(time)'
  <2>1. CASE \A y \in label[o] : y.node # x.node
    BY <1>8, <1>9, <2>1 DEF Beaten
  <2>2. CASE \E y \in label[o] : y.node = x.node
    <3>1. PICK y \in label[o] : y.node = x.node
      BY <2>2
    <3>2. mu # NoRoad /\ mu.time <= time /\ mu.time \in Nat
      BY <1>6, <1>9 DEF Beaten
    <3>3. mu' # NoRoad /\ mu'.time <= mu.time /\ (mu' = mu \/ mu'.time = x.time + y.time)
      BY <1>7, <3>1, <3>2
    <3>4. mu'.time \in Nat
      BY <1>1, <1>2, <1>5, <3>1, <3>2, <3>3
    <3> QED
      BY <3>2, <3>3, <3>4 DEF Beaten
  <2> QED
    BY <2>1, <2>2
<1>10. ASSUME NEW t \in Side, NEW w \in label'[t], NEW v \in label'[Other(t)], w.node = v.node,
              w.node \in settled'[t] \cap settled'[Other(t)]
       PROVE  Beaten(w.time + v.time)'
  <2>1. Other(t) \in Side
    BY SidesAre
  <2>2. /\ w \in label[t] /\ (w.node \in settled[t] \/ (t = s /\ w = x))
        /\ v \in label[Other(t)] /\ (v.node \in settled[Other(t)] \/ (Other(t) = s /\ v = x))
    BY <1>4, <1>10, <2>1
  <2>3. w.time \in Nat /\ v.time \in Nat /\ w.time + v.time \in Nat
        /\ w.time + v.time = v.time + w.time
    BY <1>5, <2>1, <2>2
  <2>4. CASE w.node \in settled[t] /\ v.node \in settled[Other(t)]
    <3>1. Beaten(w.time + v.time)
      BY <1>10, <2>2, <2>4 DEF Met
    <3> QED
      BY <1>9, <2>3, <3>1
  <2>5. CASE t = s /\ w = x
    <3>1. v \in label[o] /\ v.node = x.node
      BY <1>10, <2>2, <2>5 DEF o
    <3> QED
      BY <1>7, <2>5, <3>1 DEF Beaten
  <2>6. CASE Other(t) = s /\ v = x
    <3>1. w \in label[o] /\ w.node = x.node
      BY <1>2, <1>10, <2>2, <2>6, SidesAre
    <3> QED
      BY <1>7, <2>3, <2>6, <3>1 DEF Beaten
  <2> QED
    BY <2>2, <2>4, <2>5, <2>6
<1>11. ASSUME NEW t \in Side, NEW w \in label'[t], w.node = To(t), w.node \in settled'[t]
       PROVE  Beaten(w.time)'
  <2>1. w \in label[t] /\ (w.node \in settled[t] \/ (t = s /\ w = x)) /\ w.time \in Nat
    BY <1>4, <1>5, <1>11
  <2>2. CASE w.node \in settled[t]
    <3>1. Beaten(w.time)
      BY <1>11, <2>1, <2>2 DEF Met
    <3> QED
      BY <1>9, <2>1, <3>1
  <2>3. CASE t = s /\ w = x
    <3>1. Origin(From(o)) \in label[o]
      BY <1>2 DEF Sided, Labelled
    <3>2. Origin(From(o)).node = x.node /\ Origin(From(o)).time = 0
      BY <1>2, <1>11, <2>3 DEF Origin
    <3>3. mu' # NoRoad /\ mu'.time <= x.time + Origin(From(o)).time
      BY <1>7, <3>1, <3>2
    <3>4. x.time + Origin(From(o)).time = x.time
      BY <2>1, <2>3, <3>2
    <3> QED
      BY <2>3, <3>3, <3>4 DEF Beaten
  <2> QED
    BY <2>1, <2>2, <2>3
\* No node is on both roads where they improve on the best: they met there before.
<1>12. ASSUME NEW y \in label[o], y.node = x.node, mu = NoRoad \/ x.time + y.time < mu.time,
              NEW P \in SUBSET settled[s], NEW Q \in SUBSET settled[o], Over(s, x, P), Over(o, y, Q)
       PROVE  P \cap Q = {}
  <2> SUFFICES ASSUME NEW n \in P \cap Q PROVE FALSE
    OBVIOUS
  <2>1. settled[s] \subseteq Known(s) /\ settled[o] \subseteq Known(o)
    BY <1>2 DEF Sided, Labelled
  <2>2. PICK w \in label[s] : w.node = n
    BY <2>1 DEF Known
  <2>3. PICK v \in label[o] : v.node = n
    BY <2>1 DEF Known
  <2>4. Beaten(w.time + v.time)
    BY <2>2, <2>3 DEF Met, o
  <2>5. w.time < x.time /\ v.time < y.time
    BY <1>12, <2>2, <2>3 DEF Over
  <2>6. w.time \in Nat /\ v.time \in Nat /\ x.time \in Nat /\ y.time \in Nat
    BY <1>1, <1>2, <1>5
  <2> QED
    BY <1>6, <1>12, <2>4, <2>5, <2>6 DEF Beaten
<1>13. mu' = NoRoad \/ \E w \in RoadsOf(ends) : mu' = [time |-> w.time, len |-> w.len]
  <2>1. CASE mu' = mu
    BY <2>1 DEF Met
  <2>2. ASSUME mu' # mu
        PROVE  \E w \in RoadsOf(ends) : mu' = [time |-> w.time, len |-> w.len]
    <3>1. PICK y \in label[o] : y.node = x.node
      BY <1>8, <2>2
    <3>2. /\ mu = NoRoad \/ x.time + y.time < mu.time
          /\ mu' = [time |-> x.time + y.time, len |-> x.len + y.len]
      BY <1>7, <2>2, <3>1
    <3>3. PICK P \in SUBSET settled[s] : Over(s, x, P)
      BY <1>1 DEF Sided, Traced
    <3>4. PICK Q \in SUBSET settled[o] : Over(o, y, Q)
      BY <1>2 DEF Sided, Traced
    <3>5. P \cap Q = {}
      BY <1>12, <3>1, <3>2, <3>3, <3>4
    <3>6. x.time \in Nat /\ y.time \in Nat /\ x.len \in Nat /\ y.len \in Nat
      BY <1>1, <1>2, <1>5
    <3>7. CASE s = "f"
      <4>1. o = "b" /\ Sided("f") /\ Sided("b")
        BY <3>7 DEF o, Other, Side
      <4>2. Joined(x, y, ends.dst) \in RoadsOf(ends)
        BY <1>1, <3>1, <3>3, <3>4, <3>5, <3>7, <4>1, RoadIs
      <4>3. mu' = [time |-> Joined(x, y, ends.dst).time, len |-> Joined(x, y, ends.dst).len]
        BY <3>2 DEF Joined
      <4> QED
        BY <4>2, <4>3
    <3>8. CASE s = "b"
      <4>1. o = "f" /\ Sided("f") /\ Sided("b") /\ Q \cap P = {}
        BY <3>5, <3>8 DEF o, Other, Side
      <4>2. Joined(y, x, ends.dst) \in RoadsOf(ends)
        BY <1>1, <3>1, <3>3, <3>4, <3>8, <4>1, RoadIs
      <4>3. mu' = [time |-> Joined(y, x, ends.dst).time, len |-> Joined(y, x, ends.dst).len]
        BY <3>2, <3>6 DEF Joined
      <4> QED
        BY <4>2, <4>3
    <3> QED
      BY <3>7, <3>8 DEF Side
  <2> QED
    BY <2>1, <2>2
<1>14. RoadsOf(ends)' = RoadsOf(ends)
  BY <1>1 DEF RoadsOf
<1> QED
  BY <1>1, <1>10, <1>11, <1>13, <1>14 DEF Met
-----------------------------------------------------------------------------
(* The answer of a search that ends.                                       *)

\* The far end has a road from the near one of the same time, and the other way.
LEMMA FromEitherEnd ==
  ASSUME Between, NEW s \in Side, NEW w \in RoadsOf(ends)
  PROVE  \E k \in Nat : \E v \in Walks(overlay, From(s))[k] : v.node = To(s) /\ v.time = w.time
<1>1. /\ ends.src \in Nodes /\ ends.dst \in Nodes /\ overlay \in Graphs /\ overlay \subseteq Edge
  BY GraphsAssumption DEF Between
<1>2. PICK k \in Nat : w \in Walks(overlay, ends.src)[k]
  BY <1>1, RoadsAre
<1>3. w.node = ends.dst /\ w.time \in Nat
  BY <1>1, RoadsAre
<1>4. CASE s = "f"
  BY <1>2, <1>3, <1>4 DEF From, To, Start, Other
<1>5. CASE s = "b"
  <2>1. Joined(Origin(w.node), w, ends.src) \in Walks(overlay, w.node)[k]
    BY <1>1, <1>2, WalksBack
  <2>2. /\ Joined(Origin(w.node), w, ends.src).node = ends.src
        /\ Joined(Origin(w.node), w, ends.src).time = w.time
    BY <1>3 DEF Joined, Origin
  <2>3. From(s) = w.node /\ To(s) = ends.src
    BY <1>3, <1>5 DEF From, To, Start, Other
  <2> QED
    BY <2>1, <2>2, <2>3
<1> QED
  BY <1>4, <1>5 DEF Side

\* A side that has run out has reached its far end if a road does, and the best road
\* is no worse than that.
LEMMA RunsOut ==
  ASSUME Between, NEW s \in Side, Sided(s), Met, heap[s] = {}, RoadsOf(ends) # {}
  PROVE  mu # NoRoad
<1>1. PICK w \in RoadsOf(ends) : TRUE
  OBVIOUS
<1>2. \E k \in Nat : \E v \in Walks(overlay, From(s))[k] : v.node = To(s)
  BY <1>1, FromEitherEnd
<1>3. To(s) \in settled[s]
  BY <1>2, Emptied
<1>4. PICK x \in label[s] : x.node = To(s)
  BY <1>3 DEF Sided, Labelled, Known
<1> QED
  BY <1>3, <1>4 DEF Met, Beaten

\* Each side either has a road to its far end within half as long again, or its
\* top is low.
LEMMA SideBound ==
  ASSUME Between, NEW s \in Side, Sided(s), Met, Honest, NEW w \in RoadsOf(ends)
  PROVE  \/ mu # NoRoad /\ 2 * mu.time <= 3 * w.time
         \/ heap[s] # {} /\ Top(s) <= 3 * w.time
<1>1. PICK k \in Nat : \E v \in Walks(overlay, From(s))[k] : v.node = To(s) /\ v.time = w.time
  BY FromEitherEnd
<1>2. PICK v \in Walks(overlay, From(s))[k] : v.node = To(s) /\ v.time = w.time
  BY <1>1
<1>3. PICK y \in label[s] :
        \/ y.node \in settled[s] /\ y.node = v.node /\ 2 * y.time <= 3 * v.time
        \/ y.node \notin settled[s] /\ 2 * y.time + 3 * Apart(y.node, v.node) <= 3 * v.time
  BY Frontier
<1>4. y.node \in Nodes /\ y.time \in Nat
  BY LabelIs DEF Sided
<1>5. w.time \in Nat /\ \A r \in RoadsOf(ends) : r.time \in Nat
  BY RoadsAre DEF Between
<1>6. CASE y.node \in settled[s] /\ y.node = v.node /\ 2 * y.time <= 3 * v.time
  <2>1. Beaten(y.time)
    BY <1>2, <1>6 DEF Met
  <2>2. mu.time \in Nat /\ mu # NoRoad /\ mu.time <= y.time
    BY <1>5, <2>1 DEF Met, Beaten
  <2> QED
    BY <1>2, <1>4, <1>5, <1>6, <2>2
<1>7. CASE /\ y.node \notin settled[s]
           /\ 2 * y.time + 3 * Apart(y.node, v.node) <= 3 * v.time
  <2>1. Queues(s, y) \in heap[s]
    BY <1>7 DEF Sided, Queued
  <2>2. heap[s] \subseteq Entry
    BY DEF Sided, Labelled
  <2>3. Top(s) \in Nat /\ Top(s) <= Queues(s, y).key
    BY <2>1, <2>2, TopIs
  <2>4. Queues(s, y).key = 2 * y.time + 3 * Apart(y.node, To(s))
    BY <1>4, KeyIs
  <2>5. To(s) \in Nodes
    BY SidesAre
  <2>6. Apart(y.node, To(s)) \in Nat
    BY <1>4, <2>5, ApartIs
  <2>7. Top(s) <= 3 * w.time
    BY <1>2, <1>4, <1>5, <1>7, <2>3, <2>4, <2>6
  <2> QED
    BY <2>1, <2>7
<1> QED
  BY <1>3, <1>6, <1>7

\* What Finish replies.
LEMMA FinishTrue ==
  ASSUME Between, \A t \in Side : Sided(t), Met, searching # None, ~Running
  PROVE  LET a == Reply(IF mu = NoRoad THEN "no path" ELSE "route", mu, Settled, ends.src, ends.dst)
         IN  a \in Answer /\ True(a)
<1> DEFINE a == Reply(IF mu = NoRoad THEN "no path" ELSE "route", mu, Settled, ends.src, ends.dst)
<1>1. /\ ends.src \in Nodes /\ ends.dst \in Nodes /\ overlay \in Graphs
      /\ Sided("f") /\ Sided("b") /\ "f" \in Side /\ "b" \in Side
  BY DEF Between, Side
<1>2. Settled \in Nat
  <2>1. settled["f"] \subseteq Nodes /\ settled["b"] \subseteq Nodes
    BY <1>1 DEF Sided, Labelled, Known, Label
  <2>2. IsFiniteSet(settled["f"]) /\ IsFiniteSet(settled["b"])
    BY <2>1, NodesAssumption, FS_Subset
  <2> QED
    BY <2>2, FS_CardinalityType DEF Settled
<1>3. \A r \in RoadsOf(ends) : r.time \in Nat /\ r.len \in Nat
  BY <1>1, RoadsAre
<1>4. /\ a.time = mu.time /\ a.len = mu.len /\ a.settled = Settled
      /\ a.src = ends.src /\ a.dst = ends.dst
  BY DEF Reply
<1>5. /\ a.reason = "route" <=> mu # NoRoad
      /\ a.reason = "no path" <=> mu = NoRoad
  BY DEF Reply
<1>6. mu.time \in Int /\ mu.len \in Int
  <2>1. CASE mu = NoRoad
    BY <2>1 DEF NoRoad
  <2>2. CASE mu # NoRoad
    BY <1>3, <2>2 DEF Met
  <2> QED
    BY <2>1, <2>2
<1>7. a \in Answer
  BY <1>1, <1>2, <1>6 DEF Answer, Reply
<1>8. RoadsOf(a) = RoadsOf(ends)
  BY <1>4 DEF RoadsOf
<1> HIDE DEF a
<1>9. ASSUME mu # NoRoad PROVE \E w \in RoadsOf(a) : w.time = a.time /\ w.len = a.len
  BY <1>4, <1>8, <1>9 DEF Met
<1>10. ASSUME Honest, mu # NoRoad, a.settled < SettledCap, NEW w \in RoadsOf(a)
      PROVE  a.time <= 3 * w.time
  <2>1. w.time \in Nat /\ mu.time \in Nat
    BY <1>3, <1>8, <1>10 DEF Met
  <2>2. \/ 2 * mu.time <= 3 * w.time
        \/ /\ heap["f"] # {} /\ Top("f") <= 3 * w.time
           /\ heap["b"] # {} /\ Top("b") <= 3 * w.time
    BY <1>1, <1>8, <1>10, SideBound
  <2>3. CASE 2 * mu.time <= 3 * w.time
    BY <1>4, <2>1, <2>3
  <2>4. CASE /\ heap["f"] # {} /\ Top("f") <= 3 * w.time
             /\ heap["b"] # {} /\ Top("b") <= 3 * w.time
    <3>1. ~(Top("f") + Top("b") < 2 * mu.time)
      BY <1>4, <1>10, <2>4 DEF Running
    <3>2. Top("f") \in Nat /\ Top("b") \in Nat
      BY <1>1, <2>4, TopIs DEF Sided, Labelled
    <3> QED
      BY <1>4, <2>1, <2>4, <3>1, <3>2
  <2> QED
    BY <2>2, <2>3, <2>4
<1>11. ASSUME mu = NoRoad PROVE a.settled >= SettledCap \/ RoadsOf(a) = {}
  <2>1. heap["f"] = {} \/ heap["b"] = {} \/ ~(Settled < SettledCap)
    BY <1>11 DEF Running
  <2>2. heap["f"] = {} \/ heap["b"] = {} => RoadsOf(ends) = {}
    BY <1>1, <1>11, RunsOut
  <2> QED
    BY <1>2, <1>4, <1>8, <2>1, <2>2, CapAssumption
<1>12. True(a)
  BY <1>9, <1>10, <1>11, <1>5 DEF True
<1> QED
  BY <1>7, <1>12 DEF a
-----------------------------------------------------------------------------
(* Every step.                                                             *)

LEMMA InitInv == Init => Inv
<1> SUFFICES ASSUME Init PROVE Inv
  OBVIOUS
<1>1. Typed
  BY NoneAssumption DEF Init, Typed
<1>2. Search
  BY DEF Init, Search
<1>3. Truthful
  BY DEF Init, Truthful
<1> QED
  BY <1>1, <1>2, <1>3 DEF Inv

\* An answer stays true, so that only a new one counts.
LEMMA TruthKept ==
  ASSUME Truthful, overlay' = overlay,
         \A c \in Calls : answer'[c] = answer[c] \/ answer'[c] = None \/ True(answer'[c])
  PROVE  Truthful'
<1>1. \A a : RoadsOf(a)' = RoadsOf(a)
  BY DEF RoadsOf
<1>2. Honest' = Honest
  BY DEF Honest
<1>3. \A a : True(a) => True(a)'
  BY <1>1, <1>2 DEF True
<1> QED
  BY <1>3 DEF Truthful

\* A step that leaves the search.
LEMMA SearchKept ==
  ASSUME Search, UNCHANGED <<overlay, searching, searchVars>>
  PROVE  Search'
<1>1. UNCHANGED <<overlay, searching, ends, heap, label, settled, mu>>
  BY DEF searchVars
<1>2. CASE searching = None
  BY <1>1, <1>2 DEF Search
<1>3. CASE searching # None
  <2>1. /\ \A s \in Side : From(s)' = From(s) /\ To(s)' = To(s)
        /\ Honest' = Honest /\ RoadsOf(ends)' = RoadsOf(ends)
    BY <1>1 DEF From, To, Start, Honest, RoadsOf
  <2>2. ASSUME NEW s \in Side PROVE Sided(s)'
    <3>1. Sided(s)
      BY <1>3 DEF Search
    <3>2. Labelled(s)'
      BY <1>1, <2>1, <3>1 DEF Sided, Labelled, Known
    <3>3. Queued(s)'
      BY <1>1, <2>1, <3>1 DEF Sided, Queued, Queues, Key
    <3>4. Expanded(s)'
      BY <1>1, <3>1 DEF Sided, Expanded
    <3>5. Traced(s)'
      BY <1>1, <2>1, <3>1 DEF Sided, Traced, Over
    <3>6. NearBest(s)'
      BY <1>1, <2>1, <3>1 DEF Sided, NearBest
    <3> QED
      BY <3>2, <3>3, <3>4, <3>5, <3>6 DEF Sided
  <2>3. Met'
    BY <1>1, <1>3, <2>1 DEF Search, Met, Beaten
  <2> QED
    BY <1>1, <1>3, <2>2, <2>3 DEF Search
<1> QED
  BY <1>2, <1>3

\* A call that gets its answer without a search.
LEMMA AnsweredInv ==
  ASSUME Inv, NEW c \in Calls, pc[c] # "searching", NEW a \in Answer, True(a), Answered(c, a),
         UNCHANGED <<objectVars, searching, searchVars>>
  PROVE  Inv'
<1>1. overlay' = overlay /\ graph' = graph /\ load' = load
  BY DEF objectVars
<1>2. a # None
  BY NoneAssumption
<1>3. /\ pc' = [pc EXCEPT ![c] = "answered"] /\ answer' = [answer EXCEPT ![c] = a]
      /\ heap' = heap /\ label' = label /\ settled' = settled /\ searching' = searching
  BY DEF Answered, searchVars
<1>4. Typed /\ Search /\ Truthful
  BY DEF Inv
<1>5. Typed'
  <2>1. /\ pc' \in [Calls -> {"idle", "waiting", "searching", "answered"}]
        /\ answer' \in [Calls -> Answer \cup {None}]
    BY <1>3, <1>4 DEF Typed
  <2>2. ASSUME NEW k \in Calls
        PROVE  /\ pc'[k] = "answered" <=> answer'[k] # None
               /\ pc'[k] = "searching" <=> searching' = k
    <3>1. /\ pc[k] = "answered" <=> answer[k] # None
          /\ pc[k] = "searching" <=> searching = k
      BY <1>4 DEF Typed
    <3>2. CASE k = c
      BY <1>2, <1>3, <1>4, <3>1, <3>2 DEF Typed
    <3>3. CASE k # c
      BY <1>3, <1>4, <3>1, <3>3 DEF Typed
    <3> QED
      BY <3>2, <3>3
  <2> QED
    BY <1>1, <1>3, <1>4, <2>1, <2>2 DEF Typed
<1>6. Search'
  BY <1>1, <1>4, SearchKept
<1>7. Truthful'
  <2>1. \A k \in Calls : answer'[k] = answer[k] \/ answer'[k] = a
    BY <1>3, <1>4 DEF Typed
  <2> QED
    BY <1>1, <1>4, <2>1, TruthKept
<1> QED
  BY <1>5, <1>6, <1>7 DEF Inv

LEMMA RefusalIs ==
  ASSUME NEW why \in {"src", "dst", "load", "lost", "loaded", "unloaded"}
  PROVE  Refusal(why) \in Answer /\ True(Refusal(why))
<1> DEFINE a == Refusal(why)
<1>1. a = [reason |-> why, time |-> NoRoad.time, len |-> NoRoad.len, settled |-> 0,
           src |-> None, dst |-> None]
  BY DEF Refusal, Reply
<1> HIDE DEF a
<1>2. a \in Answer
  <2>1. NoRoad.time \in Int /\ NoRoad.len \in Int
    BY DEF NoRoad
  <2> QED
    BY <1>1, <2>1 DEF Answer
<1>3. a.reason # "route" /\ a.reason # "no path"
  BY <1>1
<1>4. True(a)
  BY <1>3 DEF True
<1> QED
  BY <1>2, <1>4 DEF a

LEMMA SnapsAre == ASSUME NEW p, NEW outgoing \in BOOLEAN PROVE Snaps(p, outgoing) \subseteq Nodes
  BY DEF Snaps, Hits

LEMMA RefusedInv ==
  ASSUME Inv, NEW c \in Calls, Status(c) \/ LoadFailed(c) \/ SnapFailed(c)
  PROVE  Inv'
<1>1. PICK why \in {"src", "dst", "load", "loaded", "unloaded"} : Answered(c, Refusal(why))
  BY DEF Status, LoadFailed, SnapFailed
<1>2. Refusal(why) \in Answer /\ True(Refusal(why))
  BY RefusalIs
<1>3. pc[c] # "searching" /\ UNCHANGED <<objectVars, searching, searchVars>>
  BY DEF Status, LoadFailed, SnapFailed, Resumes
<1> QED
  BY <1>1, <1>2, <1>3, AnsweredInv

LEMMA SameNodeInv == ASSUME Inv, NEW c \in Calls, SameNode(c) PROVE Inv'
<1>1. PICK n \in Snaps(route[c].src, TRUE) :
        Answered(c, Reply("route", [time |-> 0, len |-> 0], 0, n, n))
  BY DEF SameNode
<1> DEFINE a == Reply("route", [time |-> 0, len |-> 0], 0, n, n)
<1>2. n \in Nodes
  BY <1>1, SnapsAre
<1>3. a \in Answer
  BY <1>2 DEF Reply, Answer
<1>4. /\ a.src = n /\ a.dst = n /\ a.time = 0 /\ a.len = 0 /\ a.reason = "route"
  BY DEF Reply
<1>5. overlay \in Graphs /\ overlay \subseteq Edge
  BY GraphsAssumption DEF Inv, Typed
<1> HIDE DEF a
<1>6. Origin(n) \in RoadsOf(a)
  <2> DEFINE N == Cardinality(Nodes)
             W == Walks(overlay, n)
  <2>1. N \in Nat /\ N # 0
    BY <1>2, NodesAssumption, FS_CardinalityType, FS_EmptySet
  <2>2. N - 1 \in Nat /\ 0 <= N - 1
    BY <2>1
  <2>3. W[0] \subseteq W[N - 1]
    <3> HIDE DEF N
    <3> QED
      BY <1>2, <1>5, <2>2, WalksGrow
  <2>4. Origin(n) \in W[0]
    BY <1>2, <1>5, WalksAre
  <2>5. Roads[overlay][n] = W[N - 1]
    BY <1>2, <1>5 DEF Roads
  <2> HIDE DEF W, N
  <2>6. Origin(n) \in Roads[overlay][n]
    BY <2>3, <2>4, <2>5
  <2> QED
    BY <1>4, <2>6 DEF RoadsOf, Origin
<1>7. \A w \in RoadsOf(a) : w.time \in Nat
  BY <1>2, <1>4, <1>5, RoadsAre
<1>8. True(a)
  <2>1. \E w \in RoadsOf(a) : w.time = a.time /\ w.len = a.len
    BY <1>4, <1>6 DEF Origin
  <2>2. \A w \in RoadsOf(a) : a.time <= 3 * w.time
    BY <1>4, <1>7
  <2> QED
    BY <1>4, <2>1, <2>2 DEF True
<1>9. Answered(c, a)
  BY <1>1 DEF a
<1>10. pc[c] # "searching" /\ UNCHANGED <<objectVars, searching, searchVars>>
  BY DEF SameNode, Resumes
<1> QED
  BY <1>3, <1>8, <1>9, <1>10, AnsweredInv
\* A search begins with each end known to its side.
LEMMA BeginInv == ASSUME Inv, NEW c \in Calls, Begin(c) PROVE Inv'
<1>1. Typed /\ Search /\ Truthful
  BY DEF Inv
<1>2. PICK a \in Snaps(route[c].src, TRUE), b \in Snaps(route[c].dst, FALSE) :
        a # b /\ ends' = [src |-> a, dst |-> b]
  BY DEF Begin
<1>3. /\ searching = None /\ searching' = c /\ pc' = [pc EXCEPT ![c] = "searching"]
      /\ pc[c] = "waiting" /\ UNCHANGED <<objectVars, answer, settled, mu>>
      /\ heap' = [s \in Side |->
            {[key |-> Key(s, ends', Start(s, ends'), 0), node |-> Start(s, ends')]}]
      /\ label' = [s \in Side |-> {[node |-> Start(s, ends'), time |-> 0, len |-> 0]}]
  BY DEF Begin, Resumes
<1>4. c # None
  BY NoneAssumption
<1>5. overlay' = overlay /\ graph' = graph /\ load' = load /\ Between'
  <2>1. a \in Nodes /\ b \in Nodes
    BY <1>2, SnapsAre
  <2>2. overlay' = overlay /\ graph' = graph /\ load' = load
    BY <1>3 DEF objectVars
  <2> QED
    BY <1>1, <1>2, <2>1, <2>2 DEF Between, Typed
<1>6. mu = NoRoad /\ \A s \in Side : settled[s] = {}
  BY <1>1, <1>3 DEF Search
<1>7. ASSUME NEW s \in Side
      PROVE  /\ label'[s] = {Origin(From(s)')} /\ heap'[s] = {Queues(s, Origin(From(s)))'}
             /\ settled'[s] = {} /\ From(s)' \in Nodes /\ To(s)' \in Nodes
  <2>1. From(s)' \in Nodes /\ To(s)' \in Nodes
    BY <1>5 DEF Between, From, To, Start, Other
  <2>2. label'[s] = {Origin(From(s)')}
    BY <1>3 DEF Origin, From
  <2>3. heap'[s] = {Queues(s, Origin(From(s)))'}
    BY <1>3 DEF Queues, Origin, From
  <2> QED
    BY <1>3, <1>6, <2>1, <2>2, <2>3
<1>8. ASSUME NEW s \in Side PROVE Sided(s)'
  <2> DEFINE o == Origin(From(s))
  <2>1. o'.node = From(s)' /\ o'.time = 0 /\ o' \in Label
    BY <1>7 DEF Origin, Label
  <2>2. Queues(s, o)' \in Entry /\ Queues(s, o)'.node = o'.node
    <3>1. Apart(o'.node, To(s)') \in Nat
      BY <1>7, <2>1, ApartIs
    <3>2. Queues(s, o)' = [key |-> 2 * 0 + 3 * Apart(o'.node, To(s)'), node |-> o'.node]
      BY <2>1 DEF Queues, Key, Apart, To
    <3> QED
      BY <1>7, <2>1, <3>1, <3>2 DEF Entry
  <2>3. label'[s] = {o'} /\ heap'[s] = {Queues(s, o)'} /\ settled'[s] = {}
    BY <1>7
  <2> HIDE DEF o
  <2>4. Labelled(s)'
    BY <2>1, <2>2, <2>3 DEF Labelled, o
  <2>5. Queued(s)'
    <3>1. Queues(s, o)'.key <= Queues(s, o)'.key
      BY <2>2 DEF Entry
    <3> QED
      BY <2>2, <2>3, <3>1 DEF Queued
  <2>6. Expanded(s)' /\ NearBest(s)'
    BY <2>3 DEF Expanded, NearBest
  <2>7. Traced(s)'
    <3>1. Cardinality({}) = 0
      BY FS_EmptySet
    <3>2. overlay \subseteq Edge
      BY <1>1, GraphsAssumption DEF Typed
    <3>3. o' \in Walks(overlay', From(s)')[Cardinality({})]
      <4>1. Walks(overlay, From(s)')[0] = {Origin(From(s)')}
        BY <1>7, <3>2, WalksAre
      <4> QED
        BY <1>5, <3>1, <4>1 DEF o
    <3>4. Over(s, o, {})'
      BY <3>3 DEF Over
    <3> QED
      BY <2>3, <3>4 DEF Traced
  <2> QED
    BY <2>4, <2>5, <2>6, <2>7 DEF Sided
<1>9. Met'
  BY <1>3, <1>6, <1>7 DEF Met
<1>10. Search'
  BY <1>3, <1>4, <1>5, <1>8, <1>9 DEF Search, Between
<1>11. Typed'
  <2>1. ASSUME NEW k \in Calls
        PROVE  /\ pc'[k] = "answered" <=> answer'[k] # None
               /\ pc'[k] = "searching" <=> searching' = k
    <3>1. /\ pc[k] = "answered" <=> answer[k] # None
          /\ pc[k] = "searching" <=> searching = k
          /\ k # None /\ pc \in [Calls -> {"idle", "waiting", "searching", "answered"}]
      BY <1>1, NoneAssumption DEF Typed
    <3>2. CASE k = c
      BY <1>3, <3>1, <3>2
    <3>3. CASE k # c
      BY <1>3, <3>1, <3>3
    <3> QED
      BY <3>2, <3>3
  <2>2. pc' \in [Calls -> {"idle", "waiting", "searching", "answered"}]
    BY <1>1, <1>3 DEF Typed
  <2>3. heap' = [s \in Side |-> heap'[s]] /\ label' = [s \in Side |-> label'[s]]
    BY <1>3
  <2> QED
    BY <1>1, <1>3, <1>5, <2>1, <2>2, <2>3 DEF Typed
<1>12. Truthful'
  BY <1>1, <1>3, <1>5, TruthKept
<1> QED
  BY <1>10, <1>11, <1>12 DEF Inv

\* A stale entry is of a settled node.
LEMMA SkipInv == ASSUME Inv, NEW s \in Side, NEW e \in heap[s], Skip(s, e) PROVE Inv'
<1>1. Typed /\ Search /\ Truthful
  BY DEF Inv
<1>2. /\ searching # None /\ e.node \in settled[s] /\ heap' = [heap EXCEPT ![s] = @ \ {e}]
      /\ UNCHANGED <<overlay, graph, load, pc, answer, searching, ends, label, settled, mu>>
  BY DEF Skip, Pop, Running, objectVars, callVars
<1>3. \A t \in Side : heap'[t] \subseteq heap[t] /\ \A o \in heap[t] : o.node \notin settled[t] => o \in heap'[t]
  BY <1>1, <1>2 DEF Typed
<1>4. /\ \A t \in Side : From(t)' = From(t) /\ To(t)' = To(t)
      /\ Honest' = Honest /\ RoadsOf(ends)' = RoadsOf(ends)
  BY <1>2 DEF From, To, Start, Honest, RoadsOf
<1>5. ASSUME NEW t \in Side PROVE Sided(t)'
  <2>1. Sided(t)
    BY <1>1, <1>2 DEF Search
  <2>2. Labelled(t)'
    BY <1>2, <1>3, <1>4, <2>1 DEF Sided, Labelled, Known
  <2>3. Queued(t)'
    <3>1. \A w : Queues(t, w)' = Queues(t, w) /\ Queues(t, w).node = w.node
      BY <1>2 DEF Queues, Key
    <3>2. \A w \in label[t] : w.node \notin settled[t] => Queues(t, w) \in heap'[t]
      BY <1>3, <2>1, <3>1 DEF Sided, Queued
    <3>3. \A o \in heap'[t] : \E w \in label[t] : w.node = o.node /\ Queues(t, w).key <= o.key
      BY <1>3, <2>1 DEF Sided, Queued
    <3> QED
      BY <1>2, <3>1, <3>2, <3>3 DEF Queued
  <2>4. Expanded(t)'
    BY <1>2, <2>1 DEF Sided, Expanded
  <2>5. Traced(t)'
    BY <1>2, <1>4, <2>1 DEF Sided, Traced, Over
  <2>6. NearBest(t)'
    BY <1>2, <1>4, <2>1 DEF Sided, NearBest
  <2> QED
    BY <2>2, <2>3, <2>4, <2>5, <2>6 DEF Sided
<1>6. Met'
  BY <1>1, <1>2, <1>4 DEF Search, Met, Beaten
<1>7. Search'
  BY <1>1, <1>2, <1>5, <1>6 DEF Search
<1>8. Typed'
  BY <1>1, <1>2 DEF Typed
<1>9. Truthful'
  BY <1>1, <1>2, TruthKept
<1> QED
  BY <1>7, <1>8, <1>9 DEF Inv

LEMMA SettleInv == ASSUME Inv, NEW s \in Side, NEW e \in heap[s], Settle(s, e) PROVE Inv'
<1>1. Typed /\ Search /\ Truthful
  BY DEF Inv
<1>2. /\ searching # None
      /\ UNCHANGED <<overlay, graph, load, pc, answer, searching, ends>>
  BY DEF Settle, Pop, Running, objectVars, callVars
<1>3. Between /\ Met /\ \A t \in Side : Sided(t)
  BY <1>1, <1>2 DEF Search, Between, Typed
<1>4. \A t \in Side : Sided(t)'
  BY <1>1, <1>3, SettleSided
<1>5. Met'
  BY <1>1, <1>3, SettleMet
<1>6. Search'
  BY <1>1, <1>2, <1>4, <1>5 DEF Search
<1>7. Typed'
  <2>1. /\ heap' = [t \in Side |-> heap'[t]] /\ label' = [t \in Side |-> label'[t]]
        /\ settled' = [t \in Side |-> settled'[t]]
    BY <1>1 DEF Settle, Typed
  <2> QED
    BY <1>1, <1>2, <2>1 DEF Typed
<1>8. Truthful'
  BY <1>1, <1>2, TruthKept
<1> QED
  BY <1>6, <1>7, <1>8 DEF Inv

LEMMA NoSearchIs ==
  ASSUME NoSearch
  PROVE  /\ Search' /\ searching' = None
         /\ heap' = [s \in Side |-> heap'[s]] /\ label' = [s \in Side |-> label'[s]]
         /\ settled' = [s \in Side |-> settled'[s]]
  BY DEF NoSearch, Search

LEMMA FinishInv == ASSUME Inv, Finish PROVE Inv'
<1>1. Typed /\ Search /\ Truthful
  BY DEF Inv
<1> DEFINE c == searching
           a == Reply(IF mu = NoRoad THEN "no path" ELSE "route", mu, Settled, ends.src, ends.dst)
<1>2. /\ c # None /\ ~Running /\ Answered(c, a) /\ NoSearch
      /\ UNCHANGED <<overlay, graph, load>>
  BY DEF Finish, objectVars
<1>3. Between /\ Met /\ \A t \in Side : Sided(t)
  BY <1>1, <1>2 DEF Search, Between, Typed
<1>4. a \in Answer /\ True(a)
  BY <1>2, <1>3, FinishTrue
<1> HIDE DEF a
<1>5. c \in Calls /\ a # None
  BY <1>1, <1>2, <1>4, NoneAssumption DEF Typed
<1>6. /\ pc' = [pc EXCEPT ![c] = "answered"] /\ answer' = [answer EXCEPT ![c] = a]
  BY <1>2 DEF Answered
<1>7. Typed'
  <2>1. ASSUME NEW k \in Calls
        PROVE  /\ pc'[k] = "answered" <=> answer'[k] # None
               /\ pc'[k] = "searching" <=> searching' = k
    <3>1. /\ pc[k] = "answered" <=> answer[k] # None
          /\ pc[k] = "searching" <=> c = k
          /\ k # None /\ pc \in [Calls -> {"idle", "waiting", "searching", "answered"}]
          /\ answer \in [Calls -> Answer \cup {None}] /\ searching' = None
      BY <1>1, <1>2, NoneAssumption, NoSearchIs DEF Typed
    <3>2. CASE k = c
      BY <1>5, <1>6, <3>1, <3>2
    <3>3. CASE k # c
      BY <1>5, <1>6, <3>1, <3>3
    <3> QED
      BY <3>2, <3>3
  <2>2. /\ pc' \in [Calls -> {"idle", "waiting", "searching", "answered"}]
        /\ answer' \in [Calls -> Answer \cup {None}]
    BY <1>1, <1>4, <1>6 DEF Typed
  <2> QED
    BY <1>1, <1>2, <2>1, <2>2, NoSearchIs DEF Typed
<1>8. Truthful'
  <2>1. \A k \in Calls : answer'[k] = answer[k] \/ answer'[k] = a
    BY <1>1, <1>6 DEF Typed
  <2> QED
    BY <1>1, <1>2, <1>4, <2>1, TruthKept
<1> QED
  BY <1>2, <1>7, <1>8, NoSearchIs DEF Inv

LEMMA EvictInv == ASSUME Inv, Evict PROVE Inv'
<1>1. Typed /\ Search /\ Truthful
  BY DEF Inv
<1>2. /\ overlay' = overlay /\ graph' = FALSE /\ load' = "none" /\ NoSearch
      /\ pc' = [c \in Calls |-> IF pc[c] \in {"waiting", "searching"} THEN "answered" ELSE pc[c]]
      /\ answer' = [c \in Calls |->
            IF pc[c] \in {"waiting", "searching"} THEN Refusal("lost") ELSE answer[c]]
  BY DEF Evict
<1>3. Refusal("lost") \in Answer /\ True(Refusal("lost")) /\ Refusal("lost") # None
  BY RefusalIs, NoneAssumption
<1>4. Typed'
  <2>1. ASSUME NEW k \in Calls
        PROVE  /\ pc'[k] = "answered" <=> answer'[k] # None
               /\ pc'[k] = "searching" <=> searching' = k
    BY <1>1, <1>2, <1>3, NoneAssumption, NoSearchIs DEF Typed
  <2>2. pc' \in [Calls -> {"idle", "waiting", "searching", "answered"}]
    BY <1>1, <1>2 DEF Typed
  <2>3. answer' \in [Calls -> Answer \cup {None}]
    BY <1>1, <1>2, <1>3 DEF Typed
  <2> QED
    BY <1>1, <1>2, <2>1, <2>2, <2>3, NoSearchIs DEF Typed
<1>5. Truthful'
  <2>1. \A k \in Calls : answer'[k] = answer[k] \/ True(answer'[k])
    BY <1>2, <1>3
  <2> QED
    BY <1>1, <1>2, <2>1, TruthKept
<1> QED
  BY <1>2, <1>4, <1>5, NoSearchIs DEF Inv

\* The load, and a call that comes to wait for it.
LEMMA LoadInv ==
  ASSUME Inv, GotObject \/ GotBody \/ (\E c \in Calls : Route(c)) \/ UNCHANGED vars
  PROVE  Inv'
<1>1. Typed /\ Search /\ Truthful
  BY DEF Inv
<1>2. /\ overlay' = overlay /\ searching' = searching /\ answer' = answer
      /\ UNCHANGED <<overlay, searching, searchVars>>
      /\ heap' = heap /\ label' = label /\ settled' = settled
  BY DEF GotObject, GotBody, Route, callVars, searchVars, vars, objectVars
<1>3. /\ graph' \in BOOLEAN /\ load' \in {"none", "get", "body", "failed"}
      /\ graph' => load' = "none"
  <2>1. /\ graph \in BOOLEAN /\ load \in {"none", "get", "body", "failed"}
        /\ graph => load = "none"
    BY <1>1 DEF Typed
  <2>2. ASSUME GotObject
        PROVE  graph' = graph /\ ~graph /\ load' \in {"body", "failed"}
    BY <2>1, <2>2 DEF GotObject
  <2>3. ASSUME GotBody
        PROVE  (graph' = TRUE /\ load' = "none") \/ (graph' = FALSE /\ load' = "failed")
    BY <2>1, <2>3 DEF GotBody
  <2>4. ASSUME NEW c \in Calls, Route(c)
        PROVE  graph' = graph /\ (load' = load \/ (load' = "get" /\ ~graph))
    BY <2>4 DEF Route
  <2>5. ASSUME UNCHANGED vars
        PROVE  graph' = graph /\ load' = load
    BY <2>5 DEF vars, objectVars
  <2>6. ASSUME NEW c \in Calls, Route(c)
        PROVE  /\ graph' \in BOOLEAN /\ load' \in {"none", "get", "body", "failed"}
               /\ graph' => load' = "none"
    BY <2>1, <2>4, <2>6
  <2>7. ASSUME GotObject \/ GotBody
        PROVE  /\ graph' \in BOOLEAN /\ load' \in {"none", "get", "body", "failed"}
               /\ graph' => load' = "none"
    <3>1. CASE GotObject
      <4>1. graph' = graph /\ ~graph /\ load' \in {"body", "failed"}
        BY <2>2, <3>1
      <4> QED
        BY <2>1, <4>1
    <3>2. CASE GotBody
      <4>1. (graph' = TRUE /\ load' = "none") \/ (graph' = FALSE /\ load' = "failed")
        BY <2>3, <3>2
      <4> QED
        BY <4>1
    <3> QED
      BY <2>7, <3>1, <3>2
  <2>8. ASSUME UNCHANGED vars
        PROVE  /\ graph' \in BOOLEAN /\ load' \in {"none", "get", "body", "failed"}
               /\ graph' => load' = "none"
    BY <2>1, <2>5, <2>8
  <2> QED
    BY <2>6, <2>7, <2>8
<1>4. \/ pc' = pc
      \/ \E c \in Calls : pc[c] = "idle" /\ pc' = [pc EXCEPT ![c] = "waiting"]
  BY DEF GotObject, GotBody, Route, callVars, vars
<1>5. /\ pc' \in [Calls -> {"idle", "waiting", "searching", "answered"}]
      /\ \A k \in Calls : (pc'[k] = "answered" <=> pc[k] = "answered")
                          /\ (pc'[k] = "searching" <=> pc[k] = "searching")
  BY <1>1, <1>4 DEF Typed
<1>6. Typed'
  BY <1>1, <1>2, <1>3, <1>5 DEF Typed
<1>7. Search'
  BY <1>1, <1>2, SearchKept
<1>8. Truthful'
  BY <1>1, <1>2, TruthKept
<1> QED
  BY <1>6, <1>7, <1>8 DEF Inv

LEMMA NextInv == Inv /\ [Next]_vars => Inv'
<1> SUFFICES ASSUME Inv, [Next]_vars PROVE Inv'
  OBVIOUS
<1>1. CASE GotObject \/ GotBody \/ (\E c \in Calls : Route(c)) \/ UNCHANGED vars
  BY <1>1, LoadInv
<1>2. ASSUME NEW c \in Calls, Status(c) \/ LoadFailed(c) \/ SnapFailed(c) PROVE Inv'
  BY <1>2, RefusedInv
<1>3. ASSUME NEW c \in Calls, SameNode(c) PROVE Inv'
  BY <1>3, SameNodeInv
<1>4. ASSUME NEW c \in Calls, Begin(c) PROVE Inv'
  BY <1>4, BeginInv
<1>5. CASE Finish
  BY <1>5, FinishInv
<1>6. ASSUME NEW s \in Side, NEW e \in heap[s], Skip(s, e) PROVE Inv'
  BY <1>6, SkipInv
<1>7. ASSUME NEW s \in Side, NEW e \in heap[s], Settle(s, e) PROVE Inv'
  BY <1>7, SettleInv
<1>8. CASE Evict
  BY <1>8, EvictInv
<1> QED
  BY <1>1, <1>2, <1>3, <1>4, <1>5, <1>6, <1>7, <1>8 DEF Next, Work, SearchMoves-----------------------------------------------------------------------------
(* The theorems.                                                           *)

\* The loop of bidirAStarL1 keeps, whatever the overlay and the order of equal keys,
\* the labels of each side those of roads, every open label queued, every settled
\* node relaxed, and the best road no worse than any the two sides have closed; and
\* what the object has answered stays true.
THEOREM Invariance == Spec => []Inv
  BY InitInv, NextInv, PTL DEF Spec

LEMMA OneLabelEach ==
  ASSUME NEW s \in Side, Labelled(s)
  PROVE  Cardinality(label[s]) = Cardinality(Known(s))
<1> DEFINE at == [n \in Known(s) |-> At(s, n)]
<1>1. \A w \in label[s] : w.node \in Nodes
  BY DEF Labelled, Label
<1>2. Known(s) \subseteq Nodes
  BY <1>1 DEF Known
<1>3. IsFiniteSet(Known(s))
  BY <1>2, NodesAssumption, FS_Subset
<1>4. \A n \in Known(s) : \E w \in label[s] : w.node = n
  BY DEF Known
<1>5. \A n \in Known(s) : at[n] \in label[s] /\ at[n].node = n
  BY <1>4 DEF At
<1>6. \A w \in label[s] : w.node \in Known(s) /\ at[w.node] = w
  <2>1. ASSUME NEW w \in label[s] PROVE w.node \in Known(s)
    BY DEF Known
  <2>2. ASSUME NEW w \in label[s] PROVE at[w.node] = w
    BY <1>5, <2>1 DEF Labelled
  <2> QED
    BY <2>1, <2>2
<1> HIDE DEF at
<1>7. at \in [Known(s) -> label[s]]
  BY <1>5 DEF at
<1>8. at \in Bijection(Known(s), label[s])
  <2>1. \A m, n \in Known(s) : at[m] = at[n] => m = n
    BY <1>5
  <2>2. \A w \in label[s] : \E n \in Known(s) : at[n] = w
    BY <1>6
  <2> QED
    BY <1>7, <2>1, <2>2, Zenon DEF Bijection, Injection, Surjection, IsInjective
<1>9. ExistsBijection(Known(s), label[s])
  BY <1>8 DEF ExistsBijection
<1> QED
  BY <1>3, <1>9, FS_Bijection

\* The state of the object and of a search is what L1Graph and the arrays of
\* bidirAStarL1 can hold: one label for each node reached, and no node settled that
\* was not reached.
THEOREM TypeCorrect == Spec => []TypeOK
<1>1. Inv => TypeOK
  <2> SUFFICES ASSUME Inv PROVE TypeOK
    OBVIOUS
  <2>1. Typed /\ Search
    BY DEF Inv
  <2>2. overlay \subseteq Edge
    BY <2>1, GraphsAssumption DEF Typed
  <2>3. ASSUME NEW s \in Side
        PROVE  /\ heap[s] \subseteq Entry
               /\ label[s] \subseteq Label /\ Cardinality(label[s]) = Cardinality(Known(s))
               /\ settled[s] \subseteq Known(s)
    <3>1. CASE searching # None
      <4>1. Labelled(s)
        BY <2>1, <3>1 DEF Search, Sided
      <4> QED
        BY <4>1, OneLabelEach DEF Labelled
    <3>2. CASE searching = None
      <4>1. heap[s] = {} /\ label[s] = {} /\ settled[s] = {}
        BY <2>1, <3>2 DEF Search
      <4>2. Known(s) = {}
        BY <4>1 DEF Known
      <4> QED
        BY <4>1, <4>2
    <3> QED
      BY <3>1, <3>2
  <2>4. \A c \in Calls : answer[c] \in Answer \cup {None}
    BY <2>1 DEF Typed
  <2> QED
    BY <2>1, <2>2, <2>3, <2>4 DEF Typed, TypeOK
<1> QED
  BY <1>1, Invariance, PTL

\* The totals a route answer gives, of bidirAStarL1 in src/l1_graph.ts, are the time
\* and the length of one road of the overlay between the two snap nodes.
THEOREM AnswersAreRoads == Spec => []AnswerIsRoad
<1>1. Inv => AnswerIsRoad
  BY DEF Inv, Truthful, True, AnswerIsRoad, Routed
<1> QED
  BY <1>1, Invariance, PTL

\* bidirAStarL1 finds no path only where there is none or at settledCap.
THEOREM ConnectedAreFound == Spec => []ConnectedIsFound
<1>1. Inv => ConnectedIsFound
  BY DEF Inv, Truthful, True, ConnectedIsFound
<1> QED
  BY <1>1, Invariance, PTL

\* With HEURISTIC_WEIGHT = 1.5 and the stop rule of bidirAStarL1, an answer of an
\* overlay that no road crosses faster than MAX_ROAD_SPEED_M_S is within three times
\* the best road, unless settledCap cut the search short.
THEOREM ThriceTheBest == Spec => []ThriceAtMost
<1>1. Inv => ThriceAtMost
  BY DEF Inv, Truthful, True, ThriceAtMost, Routed
<1> QED
  BY <1>1, Invariance, PTL
=============================================================================
