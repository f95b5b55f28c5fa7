-------------------------- MODULE TileCacheProofs --------------------------
(***************************************************************************)
(* Proofs about the promise maps of the tile caches, for any tiles,        *)
(* callers, sizes, budgets and numbers of reads.                           *)
(***************************************************************************)
EXTENDS TileCache, SetFacts, SequenceTheorems

\* The part of TypeOK that the promise maps are about.
ReadsType ==
    /\ fetch \in [Fetches -> Fetch]
    /\ pending \in [Layer -> [Tiles -> Fetches \cup {None}]]
    /\ started \in 0..MaxFetches

\* SingleFlight with the types that make it inductive.
Reads == ReadsType /\ SingleFlight

-----------------------------------------------------------------------------
\* A promise that ends has its own name in the map and no other, so that it leaves
\* the reads of other tiles alone.
LEMMA FinishedReads ==
  ASSUME Reads, NEW f \in Fetches, InFlight(f), NEW phase \in {"done", "failed"},
         Finished(f, phase), UNCHANGED started
  PROVE  Reads'
<1> DEFINE own(l, t) == l = fetch[f].layer /\ t = fetch[f].tile
<1>1. /\ fetch[f] \in Fetch /\ fetch[f].layer \in Layer /\ fetch[f].tile \in Tiles
      /\ f <= started /\ f \in Nat \ {0}
  BY DEF Reads, ReadsType, InFlight, Fetch, Fetches
<1>2. /\ fetch' \in [Fetches -> Fetch]
      /\ \A g \in Fetches \ {f} : fetch'[g] = fetch[g]
      /\ fetch'[f] = [fetch[f] EXCEPT !.phase = phase]
      /\ fetch'[f].phase = phase
  BY <1>1 DEF Reads, ReadsType, Finished, Fetch, FetchPhase
<1>3. /\ pending' \in [Layer -> [Tiles -> Fetches \cup {None}]]
      /\ \A l \in Layer, t \in Tiles : pending'[l][t] = IF own(l, t) THEN None ELSE pending[l][t]
  BY <1>1 DEF Reads, ReadsType, Finished
<1>4. ReadsType'
  BY <1>2, <1>3 DEF Reads, ReadsType
<1>5. ASSUME NEW g \in Fetches, InFlight(g)'
      PROVE  pending'[fetch'[g].layer][fetch'[g].tile] = g
  <2>1. g # f /\ fetch'[g] = fetch[g] /\ InFlight(g)
    BY <1>2, <1>5 DEF InFlight
  <2>2. pending[fetch[g].layer][fetch[g].tile] = g
    BY <2>1 DEF Reads, SingleFlight
  <2>3. pending[fetch[f].layer][fetch[f].tile] = f
    BY DEF Reads, SingleFlight
  <2>4. ~own(fetch[g].layer, fetch[g].tile)
    BY <2>1, <2>2, <2>3
  <2>5. fetch[g].layer \in Layer /\ fetch[g].tile \in Tiles
    BY DEF Reads, ReadsType, Fetch
  <2> QED
    BY <1>3, <2>1, <2>2, <2>4, <2>5
<1>6. ASSUME NEW l \in Layer, NEW t \in Tiles, pending'[l][t] # None
      PROVE  /\ pending'[l][t] <= started'
             /\ fetch'[pending'[l][t]].phase \in {"get", "body", "missing"}
             /\ fetch'[pending'[l][t]].layer = l /\ fetch'[pending'[l][t]].tile = t
  <2>1. ~own(l, t) /\ pending'[l][t] = pending[l][t] /\ pending[l][t] \in Fetches
    BY <1>3, <1>6 DEF Reads, ReadsType
  <2>2. /\ pending[l][t] <= started
        /\ fetch[pending[l][t]].phase \in {"get", "body", "missing"}
        /\ fetch[pending[l][t]].layer = l /\ fetch[pending[l][t]].tile = t
    BY <1>6, <2>1 DEF Reads, SingleFlight
  <2>3. pending[l][t] # f
    BY <2>1, <2>2
  <2> QED
    BY <1>2, <2>1, <2>2, <2>3
<1> QED
  BY <1>4, <1>5, <1>6 DEF Reads, SingleFlight

\* A new promise is named where no read was, and no older one has its number.
LEMMA MissReads ==
  ASSUME Reads, NEW c \in Callers, NEW l \in Layer, NEW t \in Tiles, Miss(c, l, t)
  PROVE  Reads'
<1>1. /\ started \in Nat /\ started' = started + 1 /\ started' \in Fetches /\ started' # None
      /\ started' \in 0..MaxFetches
  BY SizesAssumption DEF Reads, ReadsType, Miss, Fetches, None
<1>2. /\ fetch' \in [Fetches -> Fetch]
      /\ \A g \in Fetches \ {started'} : fetch'[g] = fetch[g]
      /\ fetch'[started'] = [layer |-> l, tile |-> t, phase |-> "get"]
  BY <1>1 DEF Reads, ReadsType, Miss, Fetch, FetchPhase
<1>3. /\ pending' \in [Layer -> [Tiles -> Fetches \cup {None}]]
      /\ \A k \in Layer, u \in Tiles :
            pending'[k][u] = IF k = l /\ u = t THEN started' ELSE pending[k][u]
  BY <1>1 DEF Reads, ReadsType, Miss
<1>4. ReadsType'
  BY <1>1, <1>2, <1>3 DEF Reads, ReadsType
<1>5. ASSUME NEW g \in Fetches, InFlight(g)'
      PROVE  pending'[fetch'[g].layer][fetch'[g].tile] = g
  <2>1. CASE g = started'
    BY <1>2, <1>3, <2>1
  <2>2. CASE g # started'
    <3>1. fetch'[g] = fetch[g] /\ InFlight(g)
      BY <1>1, <1>2, <1>5, <2>2 DEF InFlight, Fetches
    <3>2. pending[fetch[g].layer][fetch[g].tile] = g /\ g # None
      BY <3>1 DEF Reads, SingleFlight, Fetches, None
    <3>3. ~(fetch[g].layer = l /\ fetch[g].tile = t)
      BY <3>2 DEF Miss
    <3>4. fetch[g].layer \in Layer /\ fetch[g].tile \in Tiles
      BY DEF Reads, ReadsType, Fetch
    <3> QED
      BY <1>3, <3>1, <3>2, <3>3, <3>4
  <2> QED
    BY <2>1, <2>2
<1>6. ASSUME NEW k \in Layer, NEW u \in Tiles, pending'[k][u] # None
      PROVE  /\ pending'[k][u] <= started'
             /\ fetch'[pending'[k][u]].phase \in {"get", "body", "missing"}
             /\ fetch'[pending'[k][u]].layer = k /\ fetch'[pending'[k][u]].tile = u
  <2>1. CASE k = l /\ u = t
    BY <1>1, <1>2, <1>3, <2>1
  <2>2. CASE ~(k = l /\ u = t)
    <3>1. pending'[k][u] = pending[k][u] /\ pending[k][u] \in Fetches /\ pending[k][u] <= started
      BY <1>3, <1>6, <2>2 DEF Reads, ReadsType, SingleFlight
    <3>2. pending[k][u] # started' /\ pending[k][u] <= started'
      BY <1>1, <3>1 DEF Fetches
    <3> QED
      BY <1>2, <1>6, <3>1, <3>2 DEF Reads, SingleFlight
  <2> QED
    BY <2>1, <2>2
<1> QED
  BY <1>4, <1>5, <1>6 DEF Reads, SingleFlight

\* The answer of R2 moves a read from one phase a map may name to another.
LEMMA GotObjectReads ==
  ASSUME Reads, NEW f \in Fetches, GotObject(f)
  PROVE  Reads'
<1>1. /\ started' = started /\ pending' = pending
      /\ fetch' \in [Fetches -> Fetch]
      /\ \A g \in Fetches \ {f} : fetch'[g] = fetch[g]
      /\ fetch'[f].phase \in {"missing", "body"}
      /\ fetch'[f].layer = fetch[f].layer /\ fetch'[f].tile = fetch[f].tile
  BY DEF Reads, ReadsType, GotObject, Fetch, FetchPhase
<1>2. ReadsType'
  BY <1>1 DEF Reads, ReadsType
<1>3. ASSUME NEW g \in Fetches, InFlight(g)'
      PROVE  InFlight(g) /\ fetch'[g].layer = fetch[g].layer /\ fetch'[g].tile = fetch[g].tile
  BY <1>1, <1>3 DEF InFlight, GotObject
<1>4. ASSUME NEW l \in Layer, NEW t \in Tiles, pending[l][t] # None
      PROVE  /\ fetch'[pending[l][t]].phase \in {"get", "body", "missing"}
             /\ fetch'[pending[l][t]].layer = l /\ fetch'[pending[l][t]].tile = t
  <2>1. pending[l][t] \in Fetches
    BY <1>4 DEF Reads, ReadsType
  <2> QED
    BY <1>1, <1>4, <2>1 DEF Reads, SingleFlight
<1> QED
  BY <1>1, <1>2, <1>3, <1>4 DEF Reads, SingleFlight

-----------------------------------------------------------------------------
LEMMA InitReads == Init => Reads
<1> SUFFICES ASSUME Init PROVE Reads
  OBVIOUS
<1>1. (CHOOSE t \in Tiles : TRUE) \in Tiles
  BY TilesAssumption
<1>2. ReadsType
  BY <1>1, SizesAssumption DEF Init, ReadsType, Fetch, FetchPhase, Layer, None
<1>3. \A f \in Fetches : ~InFlight(f)
  BY DEF Init, InFlight, Fetches
<1> QED
  BY <1>2, <1>3 DEF Init, Reads, SingleFlight

LEMMA NextReads == Reads /\ [Next]_vars => Reads'
<1> SUFFICES ASSUME Reads, [Next]_vars PROVE Reads'
  OBVIOUS
<1>1. ASSUME UNCHANGED <<pending, fetch, started>> PROVE Reads'
  BY <1>1 DEF Reads, ReadsType, SingleFlight, InFlight
<1>2. ASSUME NEW c \in Callers, NEW l \in Layer, NEW t \in Tiles,
             Hit(c, l, t) \/ Join(c, l, t) \/ Miss(c, l, t)
      PROVE  Reads'
  BY <1>1, <1>2, MissReads DEF Hit, Join
<1>3. ASSUME NEW f \in Fetches, Settle(f) PROVE Reads'
  <2>1. CASE GotObject(f)
    BY <2>1, GotObjectReads
  <2>2. CASE GotBody(f)
    <3>1. PICK phase \in {"done", "failed"} : Finished(f, phase)
      BY <2>2 DEF GotBody
    <3> QED
      BY <2>2, <3>1, FinishedReads DEF GotBody
  <2>3. CASE R2Failed(f)
    BY <2>3, FinishedReads DEF R2Failed
  <2> QED
    BY <1>3, <2>1, <2>2, <2>3 DEF Settle
<1>4. ASSUME NEW c \in Callers, Resume(c) PROVE Reads'
  BY <1>1, <1>4 DEF Resume
<1>5. ASSUME NEW t \in Tiles, Upload(t) PROVE Reads'
  BY <1>1, <1>5 DEF Upload
<1>6. CASE UNCHANGED vars
  BY <1>1, <1>6 DEF vars
<1> QED
  BY <1>2, <1>3, <1>4, <1>5, <1>6 DEF Next

\* getTile and getTileBytes: the promise maps name every read in flight, and besides
\* only reads that found no object (tiles.ts, the early return before the delete).
THEOREM OneRead == Spec => []SingleFlight
<1>1. Reads => SingleFlight
  BY DEF Reads
<1> QED
  BY <1>1, InitReads, NextReads, PTL DEF Spec

\* Two reads in flight are never of one tile for one cache.
THEOREM NoDoubleRead ==
  Spec => [](\A f, g \in Fetches : InFlight(f) /\ InFlight(g)
                /\ fetch[f].layer = fetch[g].layer /\ fetch[f].tile = fetch[g].tile => f = g)
<1>1. SingleFlight => \A f, g \in Fetches : InFlight(f) /\ InFlight(g)
                /\ fetch[f].layer = fetch[g].layer /\ fetch[f].tile = fetch[g].tile => f = g
  BY DEF SingleFlight
<1> QED
  BY <1>1, OneRead, PTL
-----------------------------------------------------------------------------
(* The bytes of a list of tiles: those of its set of tiles, when it holds  *)
(* each of them once.                                                      *)

LEMMA BytesAre ==
  ASSUME NEW seq \in Seq(Tiles)
  PROVE  Bytes(seq) = Sum([i \in 1..Len(seq) |-> Size[seq[i]]], 1..Len(seq))
<1> DEFINE D == 1..Len(seq)
           w == [i \in D |-> Size[seq[i]]]
<1>1. DOMAIN seq = D /\ \A i \in D : w[i] \in Int /\ w[i] = Size[seq[i]]
  BY SizesAssumption
<1>2. IsFiniteSet(D)
  BY FS_Interval
<1> DEFINE F(it) == it = [s \in SUBSET D |->
                IF s = {} THEN 0 ELSE Size[seq[AnyOf(s)]] + it[s \ {AnyOf(s)}]]
           jt == CHOOSE it : F(it)
<1>3. Bytes(seq) = jt[D]
  BY <1>1, Zenon DEF Bytes, FoldSeq, FoldFunction, FoldFunctionOnSet, MapThenFoldSet, AnyOf
<1>4. \A it : Sums(it, w, D) <=> F(it)
  <2> TAKE it
  <2>1. \A s \in SUBSET D : s # {} => w[AnyOf(s)] = Size[seq[AnyOf(s)]]
    <3> TAKE s \in SUBSET D
    <3> HAVE s # {}
    <3>1. AnyOf(s) \in D
      BY DEF AnyOf
    <3> QED
      BY <1>1, <3>1
  <2> HIDE DEF w, D
  <2> QED
    BY <2>1 DEF Sums
<1>5. PICK it \in [SUBSET D -> Int] : Sums(it, w, D) /\ Sum(w, D) = it[D]
  <2>1. \A x \in D : w[x] \in Int
    BY <1>1
  <2> HIDE DEF w, D
  <2> QED
    BY <1>2, <2>1, SumIs, Zenon
<1>6. Sums(jt, w, D)
  <2>1. F(jt)
    <3> HIDE DEF F
    <3> QED
      BY <1>4, <1>5
  <2> HIDE DEF F, jt
  <2> QED
    BY <1>4, <2>1
<1> HIDE DEF jt, w, D
<1>7. jt[D] = it[D]
  BY <1>2, <1>5, <1>6, SumsAgree
<1> QED
  BY <1>3, <1>5, <1>7 DEF w, D

Once(seq) == seq \in Seq(Tiles) /\ IsInjective(seq)

LEMMA BytesOf ==
  ASSUME NEW seq, Once(seq)
  PROVE  /\ Bytes(seq) = Sum(Size, ToSet(seq)) /\ Bytes(seq) \in Nat
         /\ IsFiniteSet(ToSet(seq)) /\ ToSet(seq) \subseteq Tiles
<1> DEFINE N == Len(seq)
           w == [i \in 1..N |-> Size[seq[i]]]
           Part(m) == {seq[i] : i \in 1..m}
           P == {m \in Nat : m <= N => /\ IsFiniteSet(Part(m))
                                       /\ Sum(w, 1..m) = Sum(Size, Part(m))}
<1>1. /\ N \in Nat /\ DOMAIN seq = 1..N /\ \A i \in 1..N : seq[i] \in Tiles
      /\ \A i, j \in 1..N : seq[i] = seq[j] => i = j
  BY DEF Once, IsInjective
<1>2. \A t \in Tiles : Size[t] \in Nat
  BY SizesAssumption
<1>3. \A i \in 1..N : w[i] = Size[seq[i]] /\ w[i] \in Nat
  BY <1>1, <1>2
<1> HIDE DEF N, w
<1>4. 0 \in P
  <2>1. Part(0) = {} /\ 1..0 = {}
    OBVIOUS
  <2>2. Sum(w, {}) = 0 /\ Sum(Size, {}) = 0 /\ IsFiniteSet({})
    BY SumEmpty, FS_EmptySet
  <2> QED
    BY <2>1, <2>2
<1>5. ASSUME NEW m \in Nat, m \in P PROVE m + 1 \in P
  <2> SUFFICES ASSUME m + 1 <= N
               PROVE  IsFiniteSet(Part(m + 1)) /\ Sum(w, 1..(m + 1)) = Sum(Size, Part(m + 1))
    OBVIOUS
  <2>1. IsFiniteSet(Part(m)) /\ Sum(w, 1..m) = Sum(Size, Part(m))
    BY <1>1, <1>5
  <2>2. /\ 1..(m + 1) = (1..m) \cup {m + 1} /\ m + 1 \notin 1..m /\ m + 1 \in 1..N
        /\ 1..m \subseteq 1..N
    BY <1>1
  <2>3. Part(m + 1) = Part(m) \cup {seq[m + 1]} /\ seq[m + 1] \notin Part(m)
    BY <1>1, <2>2
  <2>4. Part(m) \cup {seq[m + 1]} \subseteq Tiles
    BY <1>1, <2>2
  <2> HIDE DEF Part
  <2>5. Sum(w, (1..m) \cup {m + 1}) = Sum(w, 1..m) + w[m + 1]
    <3>1. IsFiniteSet(1..m)
      BY FS_Interval
    <3>2. \A y \in (1..m) \cup {m + 1} : w[y] \in Int
      BY <1>3, <2>2
    <3> QED
      BY <2>2, <3>1, <3>2, SumAdd
  <2>6. Sum(Size, Part(m) \cup {seq[m + 1]}) = Sum(Size, Part(m)) + Size[seq[m + 1]]
    <3>1. \A y \in Part(m) \cup {seq[m + 1]} : Size[y] \in Int
      BY <1>2, <2>4
    <3> QED
      BY <2>1, <2>3, <3>1, SumAdd
  <2>7. IsFiniteSet(Part(m + 1))
    BY <2>1, <2>3, FS_AddElement
  <2> QED
    BY <1>3, <2>1, <2>2, <2>3, <2>5, <2>6, <2>7
<1>6. N \in P
  <2> HIDE DEF P
  <2> QED
    BY <1>1, <1>4, <1>5, SetOfAll
<1>7. Part(N) = ToSet(seq)
  BY <1>1 DEF ToSet
<1>8. Bytes(seq) = Sum(w, 1..N)
  BY BytesAre DEF w, N, Once
<1>9. IsFiniteSet(ToSet(seq)) /\ Bytes(seq) = Sum(Size, ToSet(seq))
  <2>1. IsFiniteSet(Part(N)) /\ Sum(w, 1..N) = Sum(Size, Part(N))
    BY <1>1, <1>6
  <2> HIDE DEF Part
  <2> QED
    BY <1>7, <1>8, <2>1
<1>10. ToSet(seq) \subseteq Tiles
  BY <1>1 DEF ToSet
<1>11. Sum(Size, ToSet(seq)) \in Nat
  <2>1. \A x \in ToSet(seq) : Size[x] \in Nat
    BY <1>2, <1>10
  <2> QED
    BY <1>9, <2>1, SumPart
<1> QED
  BY <1>9, <1>10, <1>11

-----------------------------------------------------------------------------
(* What delete + set and the eviction loop leave.                          *)

LEMMA RemoveIs ==
  ASSUME NEW seq \in Seq(Tiles), NEW i \in 1..Len(seq)
  PROVE  /\ RemoveAt(seq, i) \in Seq(Tiles) /\ Len(RemoveAt(seq, i)) = Len(seq) - 1
         /\ \A j \in 1..(Len(seq) - 1) :
                RemoveAt(seq, i)[j] = IF j < i THEN seq[j] ELSE seq[j + 1]
<1> DEFINE N == Len(seq)
           a == SubSeq(seq, 1, i - 1)
           b == SubSeq(seq, i + 1, N)
<1>1. N \in Nat /\ i \in 1..N /\ \A j \in 1..N : seq[j] \in Tiles
  OBVIOUS
<1>2. RemoveAt(seq, i) = a \o b
  BY Zenon DEF RemoveAt
<1> HIDE DEF N
<1>3. /\ a \in Seq(Tiles) /\ Len(a) = i - 1 /\ \A j \in 1..(i - 1) : a[j] = seq[j]
  <2>1. \A j \in 1..(i - 1) : seq[j] \in Tiles
    BY <1>1
  <2>2. i - 1 \in Int /\ 1 \in Int
    BY <1>1
  <2>3. /\ a \in Seq(Tiles) /\ Len(a) = (IF 1 <= i - 1 THEN (i - 1) - 1 + 1 ELSE 0)
        /\ \A j \in 1..((i - 1) - 1 + 1) : a[j] = seq[1 + j - 1]
    BY <2>1, <2>2, SubSeqProperties
  <2> HIDE DEF a
  <2> QED
    BY <1>1, <2>3
<1>4. /\ b \in Seq(Tiles) /\ Len(b) = N - i /\ \A j \in 1..(N - i) : b[j] = seq[i + j]
  <2>1. \A j \in (i + 1)..N : seq[j] \in Tiles
    BY <1>1
  <2>2. i + 1 \in Int /\ N \in Int
    BY <1>1
  <2>3. /\ b \in Seq(Tiles) /\ Len(b) = (IF i + 1 <= N THEN N - (i + 1) + 1 ELSE 0)
        /\ \A j \in 1..(N - (i + 1) + 1) : b[j] = seq[(i + 1) + j - 1]
    BY <2>1, <2>2, SubSeqProperties
  <2> HIDE DEF b
  <2> QED
    BY <1>1, <2>3
<1> HIDE DEF a, b
<1>5. /\ a \o b \in Seq(Tiles) /\ Len(a \o b) = Len(a) + Len(b)
      /\ \A j \in 1..(Len(a) + Len(b)) :
            (a \o b)[j] = IF j <= Len(a) THEN a[j] ELSE b[j - Len(a)]
  BY <1>3, <1>4, ConcatProperties
<1> DEFINE c == a \o b
<1> HIDE DEF c
<1>6. c \in Seq(Tiles) /\ Len(c) = N - 1
  BY <1>1, <1>3, <1>4, <1>5 DEF c
<1>7. \A j \in 1..(N - 1) : c[j] = IF j < i THEN seq[j] ELSE seq[j + 1]
  <2> TAKE j \in 1..(N - 1)
  <2>1. c[j] = IF j <= i - 1 THEN a[j] ELSE b[j - (i - 1)]
    BY <1>1, <1>3, <1>4, <1>5 DEF c
  <2>2. CASE j < i
    BY <1>1, <1>3, <2>1, <2>2
  <2>3. CASE ~(j < i)
    <3>1. j - (i - 1) \in 1..(N - i) /\ i + (j - (i - 1)) = j + 1
      BY <1>1, <2>3
    <3>2. b[j - (i - 1)] = seq[j + 1]
      BY <1>4, <3>1
    <3> QED
      BY <1>1, <2>1, <2>3, <3>2
  <2> QED
    BY <2>2, <2>3
<1> QED
  BY <1>2, <1>6, <1>7 DEF c, N

\* delete + set: the same tiles and the one more, each once.
LEMMA TouchIs ==
  ASSUME NEW seq, Once(seq), NEW t \in Tiles
  PROVE  /\ Once(Touch(seq, t)) /\ ToSet(Touch(seq, t)) = ToSet(seq) \cup {t}
         /\ Touch(seq, t) # <<>>
<1> DEFINE N == Len(seq)
           c == CHOOSE i \in DOMAIN seq : seq[i] = t
           rest == IF Contains(seq, t) THEN RemoveAt(seq, c) ELSE seq
           u == Touch(seq, t)
<1>1. /\ N \in Nat /\ DOMAIN seq = 1..N /\ \A i \in 1..N : seq[i] \in Tiles
      /\ \A i, j \in 1..N : seq[i] = seq[j] => i = j
  BY DEF Once, IsInjective
<1>2. /\ rest \in Seq(Tiles) /\ Len(rest) \in Nat
      /\ \A i, j \in 1..Len(rest) : rest[i] = rest[j] => i = j
      /\ {rest[i] : i \in 1..Len(rest)} = {seq[i] : i \in 1..N} \ {t}
  <2>1. CASE Contains(seq, t)
    <3>1. c \in 1..N /\ seq[c] = t
      BY <1>1, <2>1 DEF Contains
    <3> HIDE DEF c
    <3>2. /\ rest = RemoveAt(seq, c) /\ rest \in Seq(Tiles) /\ Len(rest) = N - 1
          /\ \A j \in 1..(N - 1) : rest[j] = IF j < c THEN seq[j] ELSE seq[j + 1]
      BY <2>1, <3>1, RemoveIs DEF Once
    <3> HIDE DEF rest, N
    <3>3. \A j \in 1..(N - 1) : IF j < c THEN j \in 1..N /\ j # c
                                ELSE j + 1 \in 1..N /\ j + 1 # c
      BY <1>1, <3>1
    <3>4. ASSUME NEW i \in 1..(N - 1), NEW j \in 1..(N - 1), rest[i] = rest[j] PROVE i = j
      BY <1>1, <3>1, <3>2, <3>3, <3>4
    <3>5. \A j \in 1..(N - 1) : rest[j] \in {seq[i] : i \in 1..N} \ {t}
      <4> TAKE j \in 1..(N - 1)
      <4>1. PICK k \in 1..N : k # c /\ rest[j] = seq[k]
        BY <3>2, <3>3
      <4> QED
        BY <1>1, <3>1, <4>1
    <3>6. ASSUME NEW k \in 1..N, seq[k] # t PROVE \E j \in 1..(N - 1) : rest[j] = seq[k]
      <4>1. k # c
        BY <3>1, <3>6
      <4>2. CASE k < c
        <5>1. k \in 1..(N - 1)
          BY <1>1, <3>1, <4>2
        <5> QED
          BY <3>2, <4>2, <5>1
      <4>3. CASE ~(k < c)
        <5>1. k - 1 \in 1..(N - 1) /\ ~(k - 1 < c) /\ (k - 1) + 1 = k
          BY <1>1, <3>1, <4>1, <4>3
        <5>2. rest[k - 1] = seq[k]
          BY <3>2, <5>1
        <5> QED
          BY <5>1, <5>2
      <4> QED
        BY <4>2, <4>3
    <3>7. {rest[i] : i \in 1..(N - 1)} = {seq[i] : i \in 1..N} \ {t}
      BY <3>5, <3>6
    <3>8. N - 1 \in Nat
      BY <1>1, <3>1
    <3> QED
      BY <3>2, <3>4, <3>7, <3>8
  <2>2. CASE ~Contains(seq, t)
    <3>1. \A i \in 1..N : seq[i] # t
      BY <2>2 DEF Contains
    <3>2. rest = seq /\ Len(rest) = N
      BY <2>2
    <3> HIDE DEF rest
    <3> QED
      BY <1>1, <3>1, <3>2 DEF Once
  <2> QED
    BY <2>1, <2>2
<1>3. u = Append(rest, t)
  BY Zenon DEF Touch
<1> HIDE DEF rest, u, N, c
<1>4. /\ u \in Seq(Tiles) /\ Len(u) = Len(rest) + 1 /\ u[Len(rest) + 1] = t
      /\ \A i \in 1..Len(rest) : u[i] = rest[i]
  BY <1>2, <1>3, AppendProperties
<1>5. DOMAIN u = 1..(Len(rest) + 1) /\ u # <<>>
  BY <1>2, <1>4
<1>6. t \notin {rest[i] : i \in 1..Len(rest)}
  BY <1>2
<1>7. ASSUME NEW i \in DOMAIN u, NEW j \in DOMAIN u, u[i] = u[j] PROVE i = j
  <2>1. i \in 1..Len(rest) \/ i = Len(rest) + 1
    BY <1>2, <1>5
  <2>2. j \in 1..Len(rest) \/ j = Len(rest) + 1
    BY <1>2, <1>5
  <2> QED
    BY <1>2, <1>4, <1>6, <1>7, <2>1, <2>2
<1>8. ToSet(u) = {rest[i] : i \in 1..Len(rest)} \cup {t}
  <2>1. \A i \in 1..(Len(rest) + 1) : i \in 1..Len(rest) \/ i = Len(rest) + 1
    BY <1>2
  <2>2. Len(rest) + 1 \in DOMAIN u /\ 1..Len(rest) \subseteq DOMAIN u
    BY <1>2, <1>5
  <2> QED
    BY <1>4, <1>5, <2>1, <2>2 DEF ToSet
<1>9. ToSet(seq) = {seq[i] : i \in 1..N}
  BY <1>1 DEF ToSet
<1>10. ToSet(u) = ToSet(seq) \cup {t}
  BY <1>2, <1>8, <1>9
<1>11. Once(u)
  BY <1>4, <1>7 DEF Once, IsInjective
<1> QED
  BY <1>5, <1>10, <1>11 DEF u
LEMMA PartsAre ==
  ASSUME NEW seq, Once(seq), NEW k \in 0..Len(seq)
  PROVE  /\ Once(SubSeq(seq, k + 1, Len(seq))) /\ Bytes(SubSeq(seq, 1, k)) \in Nat
         /\ Bytes(seq) = Bytes(SubSeq(seq, 1, k)) + Bytes(SubSeq(seq, k + 1, Len(seq)))
         /\ ToSet(SubSeq(seq, k + 1, Len(seq))) \subseteq ToSet(seq)
         /\ Len(SubSeq(seq, k + 1, Len(seq))) = Len(seq) - k
<1> DEFINE N == Len(seq)
           a == SubSeq(seq, 1, k)
           b == SubSeq(seq, k + 1, N)
<1>1. /\ N \in Nat /\ k \in 0..N /\ DOMAIN seq = 1..N /\ \A i \in 1..N : seq[i] \in Tiles
      /\ \A i, j \in 1..N : seq[i] = seq[j] => i = j
  BY DEF Once, IsInjective
<1> HIDE DEF N
<1>2. a \in Seq(Tiles) /\ Len(a) = k /\ \A j \in 1..k : a[j] = seq[j]
  <2>1. \A j \in 1..k : seq[j] \in Tiles
    BY <1>1
  <2>2. k \in Int /\ 1 \in Int
    BY <1>1
  <2>3. /\ a \in Seq(Tiles) /\ Len(a) = (IF 1 <= k THEN k - 1 + 1 ELSE 0)
        /\ \A j \in 1..(k - 1 + 1) : a[j] = seq[1 + j - 1]
    BY <2>1, <2>2, SubSeqProperties
  <2> HIDE DEF a
  <2> QED
    BY <1>1, <2>3
<1>3. b \in Seq(Tiles) /\ Len(b) = N - k /\ \A j \in 1..(N - k) : b[j] = seq[k + j]
  <2>1. \A j \in (k + 1)..N : seq[j] \in Tiles
    BY <1>1
  <2>2. k + 1 \in Int /\ N \in Int
    BY <1>1
  <2>3. /\ b \in Seq(Tiles) /\ Len(b) = (IF k + 1 <= N THEN N - (k + 1) + 1 ELSE 0)
        /\ \A j \in 1..(N - (k + 1) + 1) : b[j] = seq[(k + 1) + j - 1]
    BY <2>1, <2>2, SubSeqProperties
  <2> HIDE DEF b
  <2> QED
    BY <1>1, <2>3
<1> HIDE DEF a, b
<1>4. DOMAIN a = 1..k /\ DOMAIN b = 1..(N - k)
  BY <1>2, <1>3
<1>5. Once(a)
  BY <1>1, <1>2, <1>4 DEF Once, IsInjective
<1>6. Once(b)
  <2> SUFFICES ASSUME NEW i \in 1..(N - k), NEW j \in 1..(N - k), b[i] = b[j] PROVE i = j
    BY <1>3, <1>4 DEF Once, IsInjective
  <2>1. k + i \in 1..N /\ k + j \in 1..N
    BY <1>1
  <2>2. seq[k + i] = seq[k + j]
    BY <1>3
  <2> QED
    BY <1>1, <2>1, <2>2
<1>7. ToSet(a) = {seq[i] : i \in 1..k}
  BY <1>2, <1>4 DEF ToSet
<1>8. ToSet(b) = {seq[i] : i \in (k + 1)..N}
  <2>1. \A j \in 1..(N - k) : k + j \in (k + 1)..N
    BY <1>1
  <2>2. \A i \in (k + 1)..N : i - k \in 1..(N - k) /\ k + (i - k) = i
    BY <1>1
  <2>3. \A j \in 1..(N - k) : b[j] \in {seq[i] : i \in (k + 1)..N}
    BY <1>3, <2>1
  <2>4. \A i \in (k + 1)..N : b[i - k] = seq[i] /\ i - k \in 1..(N - k)
    BY <1>3, <2>2
  <2>5. ToSet(b) = {b[j] : j \in 1..(N - k)}
    BY <1>4 DEF ToSet
  <2> QED
    BY <2>3, <2>4, <2>5
<1>9. ToSet(seq) = {seq[i] : i \in 1..N}
  BY <1>1 DEF ToSet
<1>10. ToSet(seq) = ToSet(a) \cup ToSet(b) /\ ToSet(a) \cap ToSet(b) = {}
  <2>1. \A i \in 1..N : i \in 1..k \/ i \in (k + 1)..N
    BY <1>1
  <2>2. \A i \in 1..k : i \in 1..N /\ i \notin (k + 1)..N
    BY <1>1
  <2>3. \A i \in (k + 1)..N : i \in 1..N
    BY <1>1
  <2>4. ToSet(seq) = ToSet(a) \cup ToSet(b)
    BY <1>7, <1>8, <1>9, <2>1, <2>2, <2>3
  <2>5. ToSet(a) \cap ToSet(b) = {}
    BY <1>1, <1>7, <1>8, <2>2, <2>3
  <2> QED
    BY <2>4, <2>5
<1>11. /\ Bytes(a) = Sum(Size, ToSet(a)) /\ Bytes(a) \in Nat /\ IsFiniteSet(ToSet(a))
       /\ Bytes(b) = Sum(Size, ToSet(b)) /\ IsFiniteSet(ToSet(b))
       /\ Bytes(seq) = Sum(Size, ToSet(seq)) /\ ToSet(seq) \subseteq Tiles
  BY <1>5, <1>6, BytesOf
<1>12. Sum(Size, ToSet(a) \cup ToSet(b)) = Sum(Size, ToSet(a)) + Sum(Size, ToSet(b))
  <2>1. \A x \in ToSet(a) \cup ToSet(b) : Size[x] \in Int
    BY <1>10, <1>11, SizesAssumption
  <2> QED
    BY <1>10, <1>11, <2>1, SumUnion
<1>13. Bytes(seq) = Bytes(a) + Bytes(b)
  BY <1>10, <1>11, <1>12
<1> QED
  BY <1>3, <1>6, <1>10, <1>11, <1>13 DEF a, b, N

\* What the eviction loop leaves, and the count with it.
Left(seq, n, kept) == n - (Bytes(seq) - Bytes(kept))

\* What is left of a map of bytes n is part of it, is counted at least in full,
\* exactly when the map was, and fits the budget unless it is one tile.
Trimmed(seq, n, budget, kept) ==
    /\ Once(kept) /\ ToSet(kept) \subseteq ToSet(seq) /\ Bytes(kept) \in Nat
    /\ Left(seq, n, kept) \in Nat /\ Left(seq, n, kept) >= Bytes(kept)
    /\ n = Bytes(seq) => Left(seq, n, kept) = Bytes(kept)
    /\ Bytes(kept) <= budget \/ Len(kept) = 1

LEMMA KeptIs ==
  ASSUME NEW seq, Once(seq), seq # <<>>, NEW budget \in Nat, NEW n \in Nat, n >= Bytes(seq),
         NEW kept, kept = Kept(seq, n, budget)
  PROVE  Trimmed(seq, n, budget, kept)
<1> DEFINE N == Len(seq)
           fits(k) == n - Bytes(SubSeq(seq, 1, k)) <= budget
           Final(k) == /\ fits(k) \/ k >= N - 1
                       /\ \A j \in 0..(k - 1) : ~fits(j) /\ j < N - 1
           d == CHOOSE k \in 0..N : Final(k)
           R == {k \in 0..N : fits(k) \/ k >= N - 1}
<1>1. N \in Nat \ {0} /\ seq \in Seq(Tiles)
  <2>1. seq \in Seq(Tiles)
    BY DEF Once
  <2> QED
    BY <2>1, EmptySeq
<1>2. kept = SubSeq(seq, d + 1, N)
  BY Zenon DEF Kept
<1> HIDE DEF fits, N
<1>3. PICK k \in 0..N : Final(k)
  <2>1. N - 1 \in R /\ R \subseteq Nat
    BY <1>1
  <2>2. PICK k \in R : \A j \in R : k <= j
    <3> HIDE DEF R
    <3> QED
      BY <2>1, LeastNumber
  <2>3. \A j \in 0..(k - 1) : ~fits(j) /\ j < N - 1
    <3> TAKE j \in 0..(k - 1)
    <3>1. j \in 0..N /\ ~(k <= j)
      BY <1>1
    <3>2. j \notin R
      BY <2>2, <3>1
    <3> QED
      BY <1>1, <3>1, <3>2
  <2> QED
    BY <2>3
<1>4. d \in 0..N /\ Final(d)
  <2> HIDE DEF Final
  <2> QED
    BY <1>3
<1> HIDE DEF d
<1>5. d <= N - 1
  BY <1>1, <1>4
<1> DEFINE a == SubSeq(seq, 1, d)
<1>6. /\ Once(kept) /\ Bytes(a) \in Nat /\ Bytes(seq) = Bytes(a) + Bytes(kept)
      /\ ToSet(kept) \subseteq ToSet(seq) /\ Len(kept) = N - d
  BY <1>2, <1>4, PartsAre DEF N
<1>7. Bytes(kept) \in Nat
  BY <1>6, BytesOf
<1> HIDE DEF a
<1>8. Left(seq, n, kept) = n - Bytes(a)
  BY <1>6, <1>7 DEF Left
<1>9. Left(seq, n, kept) \in Nat /\ Left(seq, n, kept) >= Bytes(kept)
  BY <1>6, <1>7, <1>8
<1>10. n = Bytes(seq) => Left(seq, n, kept) = Bytes(kept)
  BY <1>6, <1>7, <1>8
<1>11. fits(d) => Bytes(kept) <= budget
  <2>1. fits(d) <=> n - Bytes(a) <= budget
    BY Zenon DEF fits, a
  <2> QED
    BY <1>7, <1>8, <1>9, <2>1
<1>12. d >= N - 1 => Len(kept) = 1
  BY <1>1, <1>4, <1>5, <1>6
<1> QED
  BY <1>4, <1>6, <1>7, <1>9, <1>10, <1>11, <1>12 DEF Trimmed
-----------------------------------------------------------------------------
(* The budgets.                                                            *)

\* A layer whose counter is not below what its map holds, within the budget.
Keeps(l, seq, n) ==
    /\ Once(seq) /\ n \in Nat /\ n >= Bytes(seq)
    /\ Bytes(seq) <= Budget[l] \/ Len(seq) = 1

\* No tile is held decoded while a decoded read of it is in flight, so that its
\* counter counts the tile once.
Absent ==
    \A f \in Fetches : InFlight(f) /\ fetch[f].layer = "decoded" =>
        fetch[f].tile \notin ToSet(lru["decoded"])

Held ==
    /\ r2 \in [Tiles -> R2State] /\ awaits \in [Callers -> Fetches \cup {None}]
    /\ lru = [l \in Layer |-> lru[l]] /\ counted = [l \in Layer |-> counted[l]]
    /\ \A l \in Layer : Keeps(l, lru[l], counted[l])
    /\ counted["decoded"] = Bytes(lru["decoded"])

Inv == Reads /\ Held /\ Absent

LEMMA TouchedBytes ==
  ASSUME NEW seq, Once(seq), NEW t \in Tiles
  PROVE  Bytes(Touch(seq, t)) = IF t \in ToSet(seq) THEN Bytes(seq) ELSE Bytes(seq) + Size[t]
<1>1. Once(Touch(seq, t)) /\ ToSet(Touch(seq, t)) = ToSet(seq) \cup {t}
  BY TouchIs
<1>2. Bytes(Touch(seq, t)) = Sum(Size, ToSet(seq) \cup {t})
  BY <1>1, BytesOf
<1>3. /\ Bytes(seq) = Sum(Size, ToSet(seq)) /\ IsFiniteSet(ToSet(seq))
      /\ ToSet(seq) \subseteq Tiles
  BY BytesOf
<1>4. CASE t \in ToSet(seq)
  <2>1. ToSet(seq) \cup {t} = ToSet(seq)
    BY <1>4
  <2> QED
    BY <1>2, <1>3, <1>4, <2>1
<1>5. CASE t \notin ToSet(seq)
  <2>1. \A y \in ToSet(seq) \cup {t} : Size[y] \in Int
    BY <1>3, SizesAssumption
  <2>2. Sum(Size, ToSet(seq) \cup {t}) = Sum(Size, ToSet(seq)) + Size[t]
    BY <1>3, <1>5, <2>1, SumAdd
  <2> QED
    BY <1>2, <1>3, <1>5, <2>2
<1> QED
  BY <1>4, <1>5

LEMMA InsertedIs ==
  ASSUME NEW l \in Layer, Keeps(l, lru[l], counted[l]), NEW t \in Tiles
  PROVE  /\ Keeps(l, Inserted(l, t).seq, Inserted(l, t).n)
         /\ ToSet(Inserted(l, t).seq) \subseteq ToSet(lru[l]) \cup {t}
         /\ counted[l] = Bytes(lru[l]) /\ t \notin ToSet(lru[l]) =>
                Inserted(l, t).n = Bytes(Inserted(l, t).seq)
<1> DEFINE seq == Touch(lru[l], t)
           n == counted[l] + Size[t]
           kept == Kept(seq, n, Budget[l])
<1>1. /\ Inserted(l, t).seq = kept
      /\ Inserted(l, t).n = Left(seq, n, kept)
  BY DEF Inserted, Left
<1>2. Once(seq) /\ seq # <<>> /\ ToSet(seq) = ToSet(lru[l]) \cup {t}
  BY TouchIs DEF Keeps
<1>3. Bytes(seq) = IF t \in ToSet(lru[l]) THEN Bytes(lru[l]) ELSE Bytes(lru[l]) + Size[t]
  BY TouchedBytes DEF Keeps
<1>4. counted[l] \in Nat /\ counted[l] >= Bytes(lru[l]) /\ Size[t] \in Nat /\ Budget[l] \in Nat
  BY SizesAssumption DEF Keeps
<1>5. Bytes(lru[l]) \in Nat
  BY BytesOf DEF Keeps
<1> HIDE DEF seq
<1>6. n \in Nat /\ n >= Bytes(seq)
  BY <1>3, <1>4, <1>5
<1>7. counted[l] = Bytes(lru[l]) /\ t \notin ToSet(lru[l]) => n = Bytes(seq)
  BY <1>3
<1> DEFINE budget == Budget[l]
<1>8. kept = Kept(seq, n, budget)
  OBVIOUS
<1>9. budget \in Nat
  BY <1>4
<1> HIDE DEF n, kept, budget
<1>10. Trimmed(seq, n, budget, kept)
  BY <1>2, <1>6, <1>8, <1>9, KeptIs, Zenon
<1> DEFINE left == Left(seq, n, kept)
<1>11. /\ Keeps(l, kept, left) /\ ToSet(kept) \subseteq ToSet(lru[l]) \cup {t}
       /\ n = Bytes(seq) => left = Bytes(kept)
  <2> HIDE DEF left
  <2>1. /\ Once(kept) /\ ToSet(kept) \subseteq ToSet(seq) /\ left \in Nat /\ left >= Bytes(kept)
        /\ n = Bytes(seq) => left = Bytes(kept)
        /\ Bytes(kept) <= budget \/ Len(kept) = 1
    BY <1>10 DEF Trimmed, left
  <2> QED
    BY <1>2, <2>1 DEF Keeps, budget
<1> HIDE DEF left
<1>12. Inserted(l, t).seq = kept /\ Inserted(l, t).n = left
  BY <1>1 DEF left
<1> QED
  BY <1>7, <1>11, <1>12

\* What a hit moves to the end is held as before.
LEMMA HitKeeps ==
  ASSUME NEW l \in Layer, NEW seq, NEW n, Keeps(l, seq, n), NEW t \in Tiles, Contains(seq, t)
  PROVE  /\ Keeps(l, Touch(seq, t), n) /\ ToSet(Touch(seq, t)) = ToSet(seq)
         /\ Bytes(Touch(seq, t)) = Bytes(seq)
<1> DEFINE u == Touch(seq, t)
<1>1. t \in ToSet(seq) /\ seq \in Seq(Tiles)
  BY DEF Contains, ToSet, Keeps, Once
<1>2. Once(u) /\ ToSet(u) = ToSet(seq) \cup {t} /\ u # <<>>
  BY TouchIs DEF Keeps
<1>3. ToSet(u) = ToSet(seq)
  BY <1>1, <1>2
<1>4. Bytes(u) = Bytes(seq)
  BY <1>1, TouchedBytes DEF Keeps
<1> HIDE DEF u
<1>5. ASSUME Len(seq) = 1 PROVE Len(u) = 1
  <2>1. ToSet(seq) = {t}
    <3>1. DOMAIN seq = {1}
      BY <1>1, <1>5
    <3> QED
      BY <1>1, <3>1 DEF ToSet
  <2>2. u \in Seq(Tiles) /\ \A i, j \in DOMAIN u : u[i] = u[j] => i = j
    BY <1>2 DEF Once, IsInjective
  <2>3. \A i \in 1..Len(u) : u[i] = t
    <3>1. DOMAIN u = 1..Len(u)
      BY <2>2
    <3>2. \A i \in DOMAIN u : u[i] \in ToSet(u)
      BY DEF ToSet
    <3> QED
      BY <1>3, <2>1, <3>1, <3>2
  <2>4. Len(u) \in Nat \ {0}
    BY <1>2, <2>2, EmptySeq
  <2>5. Len(u) <= 1
    <3> SUFFICES ASSUME ~(Len(u) <= 1) PROVE FALSE
      OBVIOUS
    <3>1. 1 \in 1..Len(u) /\ 2 \in 1..Len(u) /\ DOMAIN u = 1..Len(u)
      BY <2>2, <2>4
    <3>2. u[1] = u[2]
      BY <2>3, <3>1
    <3> QED
      BY <2>2, <3>1, <3>2
  <2>6. \A k \in Nat \ {0} : k <= 1 => k = 1
    OBVIOUS
  <2> QED
    BY <2>4, <2>5, <2>6, Zenon
<1>6. Keeps(l, u, n)
  BY <1>2, <1>4, <1>5 DEF Keeps
<1> QED
  BY <1>3, <1>4, <1>6 DEF u

-----------------------------------------------------------------------------
LEMMA InitInv == Init => Inv
<1> SUFFICES ASSUME Init PROVE Inv
  OBVIOUS
<1>1. Reads
  BY InitReads
<1>2. Once(<<>>)
  BY DEF Once, IsInjective
<1>3. Bytes(<<>>) = 0
  <2>1. ToSet(<<>>) = {}
    BY DEF ToSet
  <2>2. Bytes(<<>>) = Sum(Size, ToSet(<<>>))
    BY <1>2, BytesOf
  <2> QED
    BY <2>1, <2>2, SumEmpty
<1>4. \A l \in Layer : Keeps(l, <<>>, 0)
  BY <1>2, <1>3, SizesAssumption DEF Keeps
<1>5. Held
  BY <1>3, <1>4 DEF Init, Held, Layer
<1>6. Absent
  BY DEF Init, Absent, InFlight, Fetches
<1> QED
  BY <1>1, <1>5, <1>6 DEF Inv

\* A step that starts no read and leaves the maps and counters.
LEMMA SameHeld ==
  ASSUME Inv, UNCHANGED <<lru, counted>>, r2' \in [Tiles -> R2State],
         awaits' \in [Callers -> Fetches \cup {None}], Reads',
         \A f \in Fetches : InFlight(f)' => \/ InFlight(f) /\ fetch'[f].layer = fetch[f].layer
                                               /\ fetch'[f].tile = fetch[f].tile
                                            \/ fetch'[f].tile \notin ToSet(lru[fetch'[f].layer])
  PROVE  Inv'
<1>1. Held'
  BY DEF Inv, Held
<1>2. Absent'
  <2> SUFFICES ASSUME NEW f \in Fetches, InFlight(f)', fetch'[f].layer = "decoded"
               PROVE  fetch'[f].tile \notin ToSet(lru["decoded"])
    BY DEF Absent
  <2> QED
    BY DEF Inv, Absent
<1> QED
  BY <1>1, <1>2 DEF Inv

LEMMA MissInv ==
  ASSUME Inv, NEW c \in Callers, NEW l \in Layer, NEW t \in Tiles, Miss(c, l, t)
  PROVE  Inv'
<1>1. Reads'
  BY MissReads DEF Inv
<1>2. /\ started \in Nat /\ started' = started + 1 /\ started' \in Fetches
      /\ UNCHANGED <<r2, lru, counted>>
  BY SizesAssumption DEF Inv, Reads, ReadsType, Miss, Fetches
<1>3. awaits' \in [Callers -> Fetches \cup {None}] /\ r2 \in [Tiles -> R2State]
  BY <1>2 DEF Inv, Held, Miss, Awaits
<1>4. /\ \A g \in Fetches \ {started'} : fetch'[g] = fetch[g]
      /\ fetch'[started'].layer = l /\ fetch'[started'].tile = t
  BY <1>2 DEF Inv, Reads, ReadsType, Miss
<1>5. t \notin ToSet(lru[l])
  <2>1. lru[l] \in Seq(Tiles)
    BY DEF Inv, Held, Keeps, Once
  <2> QED
    BY <2>1 DEF Miss, Contains, ToSet
<1>6. ASSUME NEW f \in Fetches, InFlight(f)', f # started'
      PROVE  InFlight(f) /\ fetch'[f] = fetch[f]
  BY <1>2, <1>4, <1>6 DEF InFlight, Fetches
<1> QED
  BY <1>1, <1>2, <1>3, <1>4, <1>5, <1>6, SameHeld

LEMMA HitInv ==
  ASSUME Inv, NEW c \in Callers, NEW l \in Layer, NEW t \in Tiles, Hit(c, l, t)
  PROVE  Inv'
<1>1. /\ UNCHANGED <<r2, counted, pending, fetch, started, awaits>> /\ Contains(lru[l], t)
      /\ lru' = [lru EXCEPT ![l] = Touch(@, t)]
  BY DEF Hit
<1>2. Held /\ Reads /\ Absent
  BY DEF Inv
<1>3. /\ lru'[l] = Touch(lru[l], t) /\ \A k \in Layer \ {l} : lru'[k] = lru[k]
      /\ lru' = [k \in Layer |-> lru'[k]]
  BY <1>1, <1>2 DEF Held
<1>4. Keeps(l, lru[l], counted[l])
  BY <1>2 DEF Held
<1>5. /\ Keeps(l, lru'[l], counted[l]) /\ ToSet(lru'[l]) = ToSet(lru[l])
      /\ Bytes(lru'[l]) = Bytes(lru[l])
  BY <1>1, <1>3, <1>4, HitKeeps
<1>6. Held'
  <2>1. \A k \in Layer : Keeps(k, lru'[k], counted[k])
    BY <1>2, <1>3, <1>5 DEF Held
  <2>2. "decoded" \in Layer
    BY DEF Layer
  <2>3. Bytes(lru'["decoded"]) = Bytes(lru["decoded"])
    BY <1>3, <1>5, <2>2
  <2> QED
    BY <1>1, <1>2, <1>3, <2>1, <2>3 DEF Held
<1>7. Reads'
  BY <1>1, <1>2 DEF Reads, ReadsType, SingleFlight, InFlight
<1>8. Absent'
  <2>1. ToSet(lru'["decoded"]) = ToSet(lru["decoded"])
    BY <1>3, <1>5 DEF Layer
  <2> QED
    BY <1>1, <1>2, <2>1 DEF Absent, InFlight
<1> QED
  BY <1>6, <1>7, <1>8 DEF Inv

\* A body that arrives is counted once in a map that did not hold its tile.
LEMMA BodyInv == ASSUME Inv, NEW f \in Fetches, GotBody(f) PROVE Inv'
<1> DEFINE t == fetch[f].tile
           S == {"bytes"} \cup (IF Decodes(f) THEN {fetch[f].layer} ELSE {})
<1>1. Held /\ Reads /\ Absent
  BY DEF Inv
<1>2. /\ InFlight(f) /\ UNCHANGED <<r2, started, awaits>>
      /\ lru' = [l \in Layer |-> IF l \in S THEN Inserted(l, t).seq ELSE lru[l]]
      /\ counted' = [l \in Layer |-> IF l \in S THEN Inserted(l, t).n ELSE counted[l]]
  BY DEF GotBody, Insert
<1>3. PICK phase \in {"done", "failed"} : Finished(f, phase)
  BY DEF GotBody
<1>4. t \in Tiles /\ fetch[f].layer \in Layer
  BY <1>1 DEF Reads, ReadsType, Fetch
<1>5. "decoded" \in S => fetch[f].layer = "decoded"
  OBVIOUS
<1> HIDE DEF S, t
<1>6. Reads'
  BY <1>1, <1>2, <1>3, FinishedReads
<1>7. ASSUME NEW l \in Layer
      PROVE  /\ Keeps(l, lru'[l], counted'[l]) /\ ToSet(lru'[l]) \subseteq ToSet(lru[l]) \cup {t}
             /\ l \notin S => lru'[l] = lru[l] /\ counted'[l] = counted[l]
             /\ counted[l] = Bytes(lru[l]) /\ t \notin ToSet(lru[l]) => counted'[l] = Bytes(lru'[l])
  <2>1. Keeps(l, lru[l], counted[l])
    BY <1>1 DEF Held
  <2>2. CASE l \in S
    <3>1. lru'[l] = Inserted(l, t).seq /\ counted'[l] = Inserted(l, t).n
      BY <1>2, <2>2
    <3> QED
      BY <1>4, <2>1, <2>2, <3>1, InsertedIs
  <2>3. CASE l \notin S
    <3>1. lru'[l] = lru[l] /\ counted'[l] = counted[l]
      BY <1>2, <2>3
    <3> QED
      BY <2>1, <3>1
  <2> QED
    BY <2>2, <2>3
<1>8. "decoded" \in Layer
  BY DEF Layer
<1>9. fetch[f].layer = "decoded" => t \notin ToSet(lru["decoded"])
  BY <1>1, <1>2 DEF Absent, t
<1>10. Held'
  <2>1. counted["decoded"] = Bytes(lru["decoded"])
    BY <1>1 DEF Held
  <2>2. counted'["decoded"] = Bytes(lru'["decoded"])
    BY <1>5, <1>7, <1>8, <1>9, <2>1
  <2>3. lru' = [l \in Layer |-> lru'[l]] /\ counted' = [l \in Layer |-> counted'[l]]
    BY <1>2
  <2> QED
    BY <1>1, <1>2, <1>7, <2>2, <2>3 DEF Held
<1>11. Absent'
  <2> SUFFICES ASSUME NEW g \in Fetches, InFlight(g)', fetch'[g].layer = "decoded"
               PROVE  fetch'[g].tile \notin ToSet(lru'["decoded"])
    BY DEF Absent
  <2>1. fetch'[f].phase = phase /\ \A h \in Fetches \ {f} : fetch'[h] = fetch[h]
    BY <1>1, <1>3 DEF Finished, Reads, ReadsType, Fetch
  <2>2. g # f /\ fetch'[g] = fetch[g] /\ InFlight(g)
    BY <1>2, <2>1 DEF InFlight
  <2>3. fetch[g].tile \notin ToSet(lru["decoded"])
    BY <1>1, <2>2 DEF Absent
  <2>4. CASE "decoded" \in S
    <3>1. pending[fetch[g].layer][fetch[g].tile] = g /\ pending[fetch[f].layer][t] = f
      BY <1>1, <1>2, <2>2 DEF Reads, SingleFlight, t
    <3>2. fetch[g].tile # t
      BY <1>5, <2>2, <2>4, <3>1
    <3> QED
      BY <1>7, <1>8, <2>2, <2>3, <3>2
  <2>5. CASE "decoded" \notin S
    BY <1>7, <1>8, <2>2, <2>3, <2>5
  <2> QED
    BY <2>4, <2>5
<1> QED
  BY <1>6, <1>10, <1>11 DEF Inv

LEMMA NextInv == Inv /\ [Next]_vars => Inv'
<1> SUFFICES ASSUME Inv, [Next]_vars PROVE Inv'
  OBVIOUS
<1>1. Reads' /\ Held /\ Reads
  BY NextReads DEF Inv
<1>2. r2 \in [Tiles -> R2State] /\ awaits \in [Callers -> Fetches \cup {None}]
  BY <1>1 DEF Held
<1>3. ASSUME NEW c \in Callers, NEW l \in Layer, NEW t \in Tiles,
             Hit(c, l, t) \/ Join(c, l, t) \/ Miss(c, l, t)
      PROVE  Inv'
  <2>1. CASE Join(c, l, t)
    <3>1. awaits' \in [Callers -> Fetches \cup {None}]
      BY <1>1, <1>2, <2>1 DEF Join, Awaits, Reads, ReadsType
    <3>2. UNCHANGED <<r2, lru, counted, fetch, started>>
      BY <2>1 DEF Join
    <3> QED
      BY <1>1, <1>2, <3>1, <3>2, SameHeld DEF InFlight
  <2> QED
    BY <1>3, <2>1, HitInv, MissInv
<1>4. ASSUME NEW f \in Fetches, Settle(f) PROVE Inv'
  <2>1. CASE GotObject(f)
    <3>1. /\ \A g \in Fetches \ {f} : fetch'[g] = fetch[g]
          /\ fetch'[f].layer = fetch[f].layer /\ fetch'[f].tile = fetch[f].tile
          /\ InFlight(f) /\ UNCHANGED <<r2, lru, counted, started, awaits>>
      BY <1>1, <2>1 DEF GotObject, Reads, ReadsType, Fetch
    <3>2. \A g \in Fetches : InFlight(g)' => InFlight(g) /\ fetch'[g].layer = fetch[g].layer
                                             /\ fetch'[g].tile = fetch[g].tile
      BY <3>1 DEF InFlight
    <3> QED
      BY <1>1, <1>2, <3>1, <3>2, SameHeld
  <2>2. CASE GotBody(f)
    BY <2>2, BodyInv
  <2>3. CASE R2Failed(f)
    <3>1. /\ \A g \in Fetches \ {f} : fetch'[g] = fetch[g]
          /\ fetch'[f].phase = "failed" /\ UNCHANGED <<r2, lru, counted, started, awaits>>
      BY <1>1, <2>3 DEF R2Failed, Finished, Reads, ReadsType, Fetch
    <3>2. \A g \in Fetches : InFlight(g)' => InFlight(g) /\ fetch'[g].layer = fetch[g].layer
                                             /\ fetch'[g].tile = fetch[g].tile
      BY <3>1 DEF InFlight
    <3> QED
      BY <1>1, <1>2, <3>1, <3>2, SameHeld
  <2> QED
    BY <1>4, <2>1, <2>2, <2>3 DEF Settle
<1>5. ASSUME NEW c \in Callers, Resume(c) PROVE Inv'
  <2>1. awaits' \in [Callers -> Fetches \cup {None}] /\ UNCHANGED <<r2, lru, counted, fetch, started>>
    BY <1>2, <1>5 DEF Resume, Awaits
  <2> QED
    BY <1>1, <1>2, <2>1, SameHeld DEF InFlight
<1>6. ASSUME NEW t \in Tiles, Upload(t) PROVE Inv'
  <2>1. r2' \in [Tiles -> R2State] /\ UNCHANGED <<lru, counted, fetch, started, awaits>>
    BY <1>2, <1>6 DEF Upload, R2State
  <2> QED
    BY <1>1, <1>2, <2>1, SameHeld DEF InFlight
<1>7. CASE UNCHANGED vars
  <2>1. UNCHANGED <<r2, lru, counted, fetch, started, awaits>>
    BY <1>7 DEF vars
  <2> QED
    BY <1>1, <1>2, <2>1, SameHeld DEF InFlight
<1> QED
  BY <1>3, <1>4, <1>5, <1>6, <1>7 DEF Next

\* The reads, the maps and the counters, and that no decoded read is of a tile held.
THEOREM Invariance == Spec => []Inv
  BY InitInv, NextInv, PTL DEF Spec

\* The counters are never negative, and the maps and promises are of tiles and reads.
THEOREM TypeCorrect == Spec => []TypeOK
<1>1. Inv => TypeOK
  <2> SUFFICES ASSUME Inv PROVE TypeOK
    OBVIOUS
  <2>1. lru \in [Layer -> Seq(Tiles)] /\ counted \in [Layer -> Nat]
    BY DEF Inv, Held, Keeps, Once
  <2> QED
    BY <2>1 DEF Inv, Held, Reads, ReadsType, TypeOK
<1> QED
  BY <1>1, Invariance, PTL

\* lruTouch and bytesLruTouch: each map keeps a tile once and its budget, save for one
\* oversize tile; cacheBytes is exact, and bytesCacheBytes never below what is held.
THEOREM BudgetsHold == Spec => []BudgetsKept
<1>1. Inv => BudgetsKept
  <2> SUFFICES ASSUME Inv PROVE BudgetsKept
    OBVIOUS
  <2>1. "bytes" \in Layer
    BY DEF Layer
  <2> QED
    BY <2>1 DEF Inv, Held, Keeps, Once, BudgetsKept
<1> QED
  BY <1>1, Invariance, PTL
=============================================================================
