---------------------------- MODULE MatrixProofs ----------------------------
(***************************************************************************)
(* The leg cache of the Distance Matrix handler, proved for any requests,  *)
(* places, road networks, snaps and deployments.                           *)
(***************************************************************************)
EXTENDS Matrix, SetFacts, SequenceTheorems

\* A leg the tiled search found for a destination of the request at hand.
Routes(r, j, leg) ==
    /\ leg.by = "L0" /\ leg.from = Source(r)
    /\ <<Source(r), leg.to>> \in Reach[version[r]]
    /\ leg.to \in Candidates(version[r], Dest(r, j))

\* What a request computed is of its present origin and of its version.
Computed(r) ==
    /\ ask[r] \in Asks
    /\ \A j \in Indices(r) : computed[r][j] # None => Routes(r, j, computed[r][j])
    /\ pc[r] = "idle" => \A j \in Indices(r) : computed[r][j] = None

Tables ==
    /\ version = [r \in Requests |-> version[r]] /\ at = [r \in Requests |-> at[r]]
    /\ computed = [r \in Requests |-> computed[r]] /\ pc = [r \in Requests |-> pc[r]]

Cache == Tables /\ CachedLegsServe /\ \A r \in Requests : Computed(r)

-----------------------------------------------------------------------------
LEMMA InitCache == Init => Cache
<1> SUFFICES ASSUME Init PROVE Cache
  OBVIOUS
<1>1. Tables
  BY DEF Init, Tables, NoLegs
<1>2. CachedLegsServe
  BY DEF Init, CachedLegsServe
<1>3. ASSUME NEW r \in Requests PROVE Computed(r)
  BY DEF Init, Computed, NoLegs, Indices
<1> QED
  BY <1>1, <1>2, <1>3 DEF Cache

\* A step that writes no leg keeps the cache when, for the one request it is of, the
\* computed legs are none, or are those of before and of the same origin.
LEMMA QuietCache ==
  ASSUME Cache, NEW r \in Requests, UNCHANGED <<legs, ask>>, Tables', Computed(r)',
         \A o \in Requests \ {r} : UNCHANGED <<version[o], at[o], computed[o], pc[o]>>
  PROVE  Cache'
<1>1. CachedLegsServe'
  BY DEF Cache, CachedLegsServe
<1>2. ASSUME NEW o \in Requests PROVE Computed(o)'
  <2>1. CASE o = r
    BY <2>1
  <2>2. CASE o # r
    <3>1. UNCHANGED <<version[o], at[o], computed[o], pc[o], ask>> /\ Computed(o)
      BY <2>2 DEF Cache
    <3> QED
      BY <3>1 DEF Computed, Routes, Indices, Dest, Source, Origin
  <2> QED
    BY <2>1, <2>2
<1> QED
  BY <1>1, <1>2 DEF Cache

LEMMA SameSearch ==
  ASSUME Cache, NEW r \in Requests, UNCHANGED <<ask, version, at, computed>>, pc'[r] # "idle"
  PROVE  Computed(r)'
  BY DEF Cache, Computed, Routes, Indices, Dest, Source, Origin

LEMMA NoSearch ==
  ASSUME Cache, NEW r \in Requests, UNCHANGED ask,
         \A j \in Indices(r) : computed'[r][j] = None
  PROVE  Computed(r)'
  BY DEF Cache, Computed, Indices

-----------------------------------------------------------------------------
LEMMA BeginCache == ASSUME Cache, NEW r \in Requests, Begin(r) PROVE Cache'
<1>1. Tables'
  BY DEF Begin, Respond, Goto, Cache, Tables
<1>2. \A j \in Indices(r) : computed'[r][j] = None
  BY DEF Begin, Cache, Computed
<1>3. Computed(r)'
  BY <1>2, NoSearch DEF Begin
<1> QED
  BY <1>1, <1>3, QuietCache DEF Begin, Respond, Goto, Cache, Tables

LEMMA WasmCache ==
  ASSUME Cache, NEW r \in Requests,
         LoadWasm(r) \/ RunWasm(r) \/ SkipWasm(r) \/ LoadLegs(r) \/ Throws(r)
  PROVE  Cache'
<1>1. UNCHANGED <<legs, ask, version, at, computed>>
  BY DEF LoadWasm, RunWasm, SkipWasm, LoadLegs, Throws, progress
<1>2. /\ pc' = [o \in Requests |-> pc'[o]] /\ pc'[r] # "idle"
      /\ \A o \in Requests \ {r} : pc'[o] = pc[o]
  BY DEF LoadWasm, RunWasm, SkipWasm, LoadLegs, Throws, Fail, Respond, Goto, Cache, Tables
<1>3. Tables'
  BY <1>1, <1>2 DEF Cache, Tables
<1>4. Computed(r)'
  BY <1>1, <1>2, SameSearch
<1> QED
  BY <1>1, <1>2, <1>3, <1>4, QuietCache

\* The next origin starts with nothing computed.
LEMMA OriginCache ==
  ASSUME Cache, NEW r \in Requests, NoOrigin(r) \/ Assemble(r)
  PROVE  Cache'
<1>1. PICK row : NextOrigin(r, row) /\ UNCHANGED <<legs, ask, version>>
  BY DEF NoOrigin, Assemble
<1>2. /\ pc' = [o \in Requests |-> pc'[o]] /\ at' = [o \in Requests |-> at'[o]]
      /\ computed' = [o \in Requests |-> computed'[o]]
      /\ \A o \in Requests \ {r} : UNCHANGED <<pc[o], at[o], computed[o]>>
  BY <1>1 DEF NextOrigin, Respond, Goto, Cache, Tables
<1>3. \A j \in Indices(r) : computed'[r][j] = None
  BY <1>1 DEF NextOrigin, NoLegs, Indices, Cache, Tables
<1>4. Tables'
  BY <1>1, <1>2 DEF Cache, Tables
<1>5. Computed(r)'
  BY <1>1, <1>3, NoSearch
<1> QED
  BY <1>1, <1>2, <1>4, <1>5, QuietCache

LEMMA SearchCache == ASSUME Cache, NEW r \in Requests, Search(r) PROVE Cache'
<1>1. /\ UNCHANGED <<legs, ask, version, at>> /\ pc'[r] # "idle"
      /\ pc' = [o \in Requests |-> pc'[o]] /\ computed' = [o \in Requests |-> computed'[o]]
      /\ \A o \in Requests \ {r} : UNCHANGED <<pc[o], computed[o]>>
  BY DEF Search, Goto, Cache, Tables
<1>2. ASSUME NEW j \in Indices(r), computed'[r][j] # None
      PROVE  Routes(r, j, computed'[r][j])
  <2>1. PICK done \in SUBSET {i \in NeedRouting(r) : Found(r, i) # {}} :
            \E end \in [done -> Nodes] :
                /\ \A i \in done : end[i] \in Found(r, i)
                /\ computed' = [computed EXCEPT ![r] =
                        [i \in Indices(r) |-> IF i \in done THEN L0Leg(r, end[i]) ELSE None]]
    BY DEF Search
  <2>2. PICK end \in [done -> Nodes] :
                /\ \A i \in done : end[i] \in Found(r, i)
                /\ computed' = [computed EXCEPT ![r] =
                        [i \in Indices(r) |-> IF i \in done THEN L0Leg(r, end[i]) ELSE None]]
    BY <2>1
  <2>3. computed'[r][j] = IF j \in done THEN L0Leg(r, end[j]) ELSE None
    BY <2>2 DEF Cache, Tables
  <2>4. j \in done /\ end[j] \in Found(r, j) /\ computed'[r][j] = L0Leg(r, end[j])
    BY <1>2, <2>2, <2>3
  <2> QED
    BY <2>4 DEF Routes, L0Leg, Found, Served
<1>3. Computed(r)'
  BY <1>1, <1>2 DEF Cache, Computed, Routes, Indices, Dest, Source, Origin
<1>4. Tables'
  BY <1>1 DEF Cache, Tables
<1> QED
  BY <1>1, <1>3, <1>4, QuietCache

\* What is written is a computed leg, under the key of its own destination.
LEMMA WriteCache == ASSUME Cache, NEW r \in Requests, WriteLegs(r) PROVE Cache'
<1>1. UNCHANGED <<ask, version, at, computed>> /\ pc' = [pc EXCEPT ![r] = "overlay"]
  BY DEF WriteLegs, Goto, progress
<1>2. ASSUME NEW k \in DOMAIN legs', legs'[k] # legs[k]
      PROVE  \E j \in Indices(r) : computed[r][j] # None /\ LegCacheKey(r, j) = k
                                    /\ legs'[k] = computed[r][j]
  <2> DEFINE routed == {j \in Indices(r) : computed[r][j] # None}
             last == {j \in routed : \A i \in routed : Target(r, i) = Target(r, j) => i <= j}
  <2>1. legs' = [m \in DOMAIN legs |->
            IF \E j \in last : LegCacheKey(r, j) = m
            THEN computed[r][CHOOSE j \in last : LegCacheKey(r, j) = m] ELSE legs[m]]
    BY DEF WriteLegs
  <2>2. last \subseteq routed
    OBVIOUS
  <2> HIDE DEF last
  <2>3. \E j \in last : LegCacheKey(r, j) = k
    BY <1>2, <2>1
  <2>4. PICK j \in last : LegCacheKey(r, j) = k /\ j = CHOOSE i \in last : LegCacheKey(r, i) = k
    BY <2>3
  <2>5. legs'[k] = computed[r][j]
    BY <1>2, <2>1, <2>3, <2>4
  <2> QED
    BY <2>2, <2>4, <2>5
<1>3. DOMAIN legs' = DOMAIN legs
  BY DEF WriteLegs
<1>4. CachedLegsServe'
  <2> SUFFICES ASSUME NEW k \in DOMAIN legs', legs'[k] # None
               PROVE  /\ legs'[k].by = "L0" /\ legs'[k].from = k[2]
                      /\ <<k[2], legs'[k].to>> \in Reach[k[1]]
                      /\ \E q \in Dests : Top1(k[1], q) = k[3] /\ legs'[k].to \in Candidates(k[1], q)
    BY DEF CachedLegsServe
  <2>1. CASE legs'[k] = legs[k]
    BY <1>3, <2>1 DEF Cache, CachedLegsServe
  <2>2. CASE legs'[k] # legs[k]
    <3>1. PICK j \in Indices(r) : /\ computed[r][j] # None /\ LegCacheKey(r, j) = k
                                  /\ legs'[k] = computed[r][j]
      BY <1>2, <2>2
    <3>2. Routes(r, j, legs'[k]) /\ ask[r] \in Asks
      BY <3>1 DEF Cache, Computed
    <3>3. k[1] = version[r] /\ k[2] = Source(r) /\ k[3] = Target(r, j)
      BY <3>1 DEF LegCacheKey
    <3>4. Dest(r, j) \in Dests
      BY <3>2 DEF Dests, Dest, Indices, ToSet
    <3> QED
      BY <3>2, <3>3, <3>4 DEF Routes, Target
  <2> QED
    BY <2>1, <2>2
<1>5. ASSUME NEW o \in Requests PROVE Computed(o)'
  BY <1>1 DEF Cache, Tables, Computed, Routes, Indices, Dest, Source, Origin
<1>6. Tables'
  BY <1>1 DEF Cache, Tables
<1> QED
  BY <1>4, <1>5, <1>6 DEF Cache

-----------------------------------------------------------------------------
LEMMA NextCache == Cache /\ [Next]_vars => Cache'
<1> SUFFICES ASSUME Cache, [Next]_vars PROVE Cache'
  OBVIOUS
<1>1. ASSUME UNCHANGED <<legs, pc, ask, version, progress>> PROVE Cache'
  BY <1>1 DEF progress, Cache, Tables, CachedLegsServe, Computed, Routes, Indices, Dest, Source, Origin
<1>2. CASE Deploy
  BY <1>1, <1>2 DEF Deploy
<1>3. CASE UNCHANGED vars
  BY <1>1, <1>3 DEF vars
<1>4. ASSUME NEW r \in Requests,
             \/ Begin(r) \/ LoadWasm(r) \/ RunWasm(r) \/ SkipWasm(r)
             \/ NoOrigin(r) \/ LoadLegs(r) \/ Search(r) \/ WriteLegs(r) \/ Assemble(r) \/ Throws(r)
      PROVE  Cache'
  BY <1>4, BeginCache, WasmCache, OriginCache, SearchCache, WriteCache
<1> QED
  BY <1>2, <1>3, <1>4 DEF Next

\* loadLegCacheBatch and writeLegCacheBatch: whatever requests and deployments do, a
\* cached leg is a road of the version in its key, from the first node of the key to
\* a candidate of a destination whose first candidate is the other.
THEOREM LegsOfTheirKeys == Spec => []CachedLegsServe
<1>1. Cache => CachedLegsServe
  BY DEF Cache
<1> QED
  BY <1>1, InitCache, NextCache, PTL DEF Spec
-----------------------------------------------------------------------------
(* Snapping: the order of keys.                                            *)

LEMMA BeforeIrreflexive ==
  ASSUME NEW L \in Nat, NEW a \in [1..L -> Int] PROVE ~Before(a, a)
BY DEF Before

LEMMA BeforeTransitive ==
  ASSUME NEW L \in Nat, NEW a \in [1..L -> Int], NEW b \in [1..L -> Int], NEW c \in [1..L -> Int],
         Before(a, b), Before(b, c)
  PROVE  Before(a, c)
<1>1. PICK i \in 1..L : a[i] < b[i] /\ \A j \in 1..(i - 1) : a[j] = b[j]
  BY DEF Before
<1>2. PICK k \in 1..L : b[k] < c[k] /\ \A j \in 1..(k - 1) : b[j] = c[j]
  BY DEF Before
<1>3. CASE i < k
  <2>1. b[i] = c[i] /\ \A j \in 1..(i - 1) : a[j] = c[j]
    BY <1>1, <1>2, <1>3
  <2> QED
    BY <1>1, <2>1 DEF Before
<1>4. CASE k < i
  <2>1. a[k] = b[k] /\ \A j \in 1..(k - 1) : a[j] = c[j]
    BY <1>1, <1>2, <1>4
  <2> QED
    BY <1>2, <2>1 DEF Before
<1>5. CASE i = k
  <2>1. a[i] \in Int /\ b[i] \in Int /\ c[i] \in Int /\ a[i] < c[i]
    BY <1>1, <1>2, <1>5
  <2>2. \A j \in 1..(i - 1) : a[j] = c[j]
    BY <1>1, <1>2, <1>5
  <2> QED
    BY <2>1, <2>2 DEF Before
<1> QED
  BY <1>3, <1>4, <1>5

LEMMA BeforeTotal ==
  ASSUME NEW L \in Nat, NEW a \in [1..L -> Int], NEW b \in [1..L -> Int], a # b
  PROVE  Before(a, b) \/ Before(b, a)
<1> DEFINE differ == {i \in 1..L : a[i] # b[i]}
<1>1. differ # {} /\ differ \subseteq Nat
  OBVIOUS
<1>2. PICK i \in differ : \A j \in differ : i <= j
  <2> HIDE DEF differ
  <2> QED
    BY <1>1, LeastNumber
<1>3. \A j \in 1..(i - 1) : a[j] = b[j]
  BY <1>2
<1>4. i \in 1..L /\ a[i] \in Int /\ b[i] \in Int /\ a[i] # b[i]
  OBVIOUS
<1>5. a[i] < b[i] \/ b[i] < a[i]
  BY <1>4
<1> HIDE DEF differ
<1> QED
  BY <1>3, <1>4, <1>5 DEF Before

Keys(S, key, L) ==
    /\ \A n \in S : key[n] \in [1..L -> Int]
    /\ \A m, n \in S : key[m] = key[n] => m = n

Lists(o, S, key) ==
    /\ o \in Seq(S) /\ Len(o) = Cardinality(S)
    /\ \A n \in S : \E i \in 1..Cardinality(S) : o[i] = n
    /\ S # {} => /\ o # <<>> /\ o[1] \in S
                 /\ \A n \in S : n = o[1] \/ Before(key[o[1]], key[n])

\* Ordered lists every element, and none is before the first.
LEMMA OrderedIs ==
  ASSUME NEW S, IsFiniteSet(S), NEW L \in Nat, NEW key, Keys(S, key, L)
  PROVE  Lists(Ordered(S, key), S, key)
<1> DEFINE less == {p \in S \X S : Before(key[p[1]], key[p[2]])}
           rank(n) == Cardinality(Under(S, less, n))
           c == Cardinality(S)
<1>1. \A x \in S : <<x, x>> \notin less
  BY BeforeIrreflexive DEF Keys
<1>2. \A x, y \in S : x = y \/ <<x, y>> \in less \/ <<y, x>> \in less
  <2> TAKE x, y \in S
  <2>1. CASE x = y
    BY <2>1
  <2>2. CASE x # y
    <3>1. key[x] # key[y] /\ key[x] \in [1..L -> Int] /\ key[y] \in [1..L -> Int]
      BY <2>2 DEF Keys
    <3>2. Before(key[x], key[y]) \/ Before(key[y], key[x])
      BY <3>1, BeforeTotal
    <3> QED
      BY <3>2
  <2> QED
    BY <2>1, <2>2
<1>3. \A x, y, z \in S : <<x, y>> \in less /\ <<y, z>> \in less => <<x, z>> \in less
  <2> TAKE x, y, z \in S
  <2> HAVE <<x, y>> \in less /\ <<y, z>> \in less
  <2>1. Before(key[x], key[y]) /\ Before(key[y], key[z])
    OBVIOUS
  <2>2. key[x] \in [1..L -> Int] /\ key[y] \in [1..L -> Int] /\ key[z] \in [1..L -> Int]
    BY DEF Keys
  <2>3. Before(key[x], key[z])
    BY <2>1, <2>2, BeforeTransitive
  <2> QED
    BY <2>3
<1>4. \A n \in S : {m \in S : Before(key[m], key[n])} = Under(S, less, n)
  BY DEF Under
<1> HIDE DEF less
<1>6. /\ c \in Nat
      /\ \A x \in S : rank(x) \in 0..(c - 1)
      /\ \A x, y \in S : rank(x) = rank(y) => x = y
      /\ \A i \in 1..c : \E x \in S : rank(x) = i - 1
  BY <1>1, <1>2, <1>3, RankIs
<1> DEFINE o == Ordered(S, key)
<1>5. \A n \in S : Cardinality({m \in S : Before(key[m], key[n])}) = rank(n)
  BY <1>4
<1>7. \A i \in 1..c : o[i] \in S /\ rank(o[i]) = i - 1
  <2> TAKE i \in 1..c
  <2> DEFINE P(n) == Cardinality({m \in S : Before(key[m], key[n])}) = i - 1
  <2>1. \E x \in S : P(x)
    BY <1>5, <1>6
  <2>2. o[i] = CHOOSE n \in S : P(n)
    BY Zenon DEF Ordered
  <2>3. o[i] \in S /\ P(o[i])
    <3> HIDE DEF o, P
    <3> QED
      BY <2>1, <2>2
  <2>4. P(o[i]) => rank(o[i]) = i - 1
    <3> HIDE DEF o
    <3> QED
      BY <1>5, <2>3
  <2> QED
    BY <2>3, <2>4
<1>8. DOMAIN o = 1..c /\ o = [i \in 1..c |-> o[i]]
  <2> DEFINE e(i) == CHOOSE n \in S : Cardinality({m \in S : Before(key[m], key[n])}) = i - 1
  <2>1. o = [i \in 1..c |-> e(i)]
    BY Zenon DEF Ordered
  <2> HIDE DEF e, o
  <2> QED
    BY <2>1
<1> HIDE DEF o, c
<1>9. o \in Seq(S) /\ Len(o) = c
  BY <1>6, <1>7, <1>8
<1>10. \A n \in S : \E i \in 1..c : o[i] = n
  <2> TAKE n \in S
  <2>1. rank(n) \in 0..(c - 1)
    BY <1>6
  <2>2. PICK i \in 1..c : i - 1 = rank(n)
    <3> HIDE DEF rank
    <3>1. rank(n) + 1 \in 1..c /\ (rank(n) + 1) - 1 = rank(n)
      BY <1>6, <2>1
    <3> QED
      BY <3>1
  <2>3. o[i] \in S /\ rank(o[i]) = rank(n)
    BY <1>7, <2>2
  <2>4. o[i] = n
    BY <1>6, <2>3
  <2> QED
    BY <2>4
<1>11. ASSUME S # {}
       PROVE  /\ o # <<>> /\ o[1] \in S
              /\ \A n \in S : n = o[1] \/ Before(key[o[1]], key[n])
  <2>1. 1 \in 1..c
    BY <1>6, <1>10, <1>11
  <2>2. o[1] \in S /\ rank(o[1]) = 0
    BY <1>7, <2>1
  <2>3. o # <<>>
    BY <1>9, <2>1
  <2>4. IsFiniteSet(Under(S, less, o[1]))
    <3>1. Under(S, less, o[1]) \subseteq S
      BY DEF Under
    <3> QED
      BY <3>1, FS_Subset
  <2>5. Under(S, less, o[1]) = {}
    BY <2>2, <2>4, FS_EmptySet
  <2>6. \A n \in S : <<n, o[1]>> \notin less
    BY <2>5 DEF Under
  <2>7. \A n \in S : n = o[1] \/ <<o[1], n>> \in less
    BY <1>2, <2>2, <2>6
  <2> QED
    BY <2>2, <2>3, <2>7 DEF less
<1> QED
  BY <1>9, <1>10, <1>11 DEF o, c, Lists

\* What comes before has no larger first entry.
LEMMA BeforeFirst ==
  ASSUME NEW L \in Nat, NEW a \in [1..L -> Int], NEW b \in [1..L -> Int], L > 0, Before(a, b)
  PROVE  a[1] <= b[1]
<1>1. PICK i \in 1..L : a[i] < b[i] /\ \A j \in 1..(i - 1) : a[j] = b[j]
  BY DEF Before
<1>2. CASE i = 1
  BY <1>1, <1>2
<1>3. CASE i # 1
  BY <1>1, <1>3
<1> QED
  BY <1>2, <1>3
-----------------------------------------------------------------------------
(* Snapping inside a tile.                                                 *)

LEMMA MaxIs ==
  ASSUME NEW n \in Nat, NEW s, s \subseteq 1..n, s # {}
  PROVE  Max(s) \in s /\ \A y \in s : y <= Max(s)
<1> DEFINE left == {i \in Nat : \E x \in s : i = n - x}
<1>1. left \subseteq Nat /\ left # {}
  <2>1. PICK x \in s : TRUE
    OBVIOUS
  <2>2. x \in 1..n /\ n - x \in Nat
    BY <2>1
  <2> QED
    BY <2>1, <2>2
<1>2. PICK i \in left : \A j \in left : i <= j
  <2> HIDE DEF left
  <2> QED
    BY <1>1, LeastNumber
<1>3. PICK x \in s : i = n - x
  BY <1>2
<1>4. \A y \in s : x >= y
  <2> TAKE y \in s
  <2>1. y \in 1..n /\ x \in 1..n /\ n - y \in Nat
    OBVIOUS
  <2>2. n - y \in left
    BY <2>1
  <2>3. i <= n - y
    BY <1>2, <2>2
  <2> QED
    BY <1>3, <2>1, <2>3
<1>5. Max(s) \in s /\ \A y \in s : Max(s) >= y
  BY <1>4, Zenon DEF Max
<1> QED
  BY <1>5

Chosen(pos, k, seq) == FoldLeft(LAMBDA chosen, n : Add(pos, k, chosen, n), <<>>, seq)

\* The nodes chosen of a list are of the list, and the first of it is the first of them.
LEMMA ChosenAre ==
  ASSUME NEW pos, NEW k \in Nat \ {0}, NEW S, NEW seq \in Seq(S)
  PROVE  /\ Chosen(pos, k, seq) \in Seq(S)
         /\ seq # <<>> => Chosen(pos, k, seq) # <<>> /\ Chosen(pos, k, seq)[1] = seq[1]
         /\ seq = <<>> => Chosen(pos, k, seq) = <<>>
<1> DEFINE f == Chosen(pos, k, seq)
           N == Len(seq)
           D == 1..N
           join == [p \in D \X Seq(S) |-> Add(pos, k, p[2], seq[p[1]])]
           pick == [s \in SUBSET D |-> Max(s)]
           F(it) == it = [s \in SUBSET D |-> IF s = {} THEN <<>>
                                             ELSE Add(pos, k, it[s \ {Max(s)}], seq[Max(s)])]
<1>1. N \in Nat /\ DOMAIN seq = D /\ \A i \in D : seq[i] \in S
  OBVIOUS
<1>2. \A c \in Seq(S), n \in S : Add(pos, k, c, n) \in Seq(S)
  BY DEF Add
<1>3. join \in [D \X Seq(S) -> Seq(S)]
  <2>1. \A p \in D \X Seq(S) : Add(pos, k, p[2], seq[p[1]]) \in Seq(S)
    BY <1>1, <1>2
  <2> HIDE DEF D
  <2> QED
    BY <2>1
<1>4. \A s \in SUBSET D : s # {} => Max(s) \in s
  BY <1>1, MaxIs
<1>5. PICK it \in [SUBSET D -> Seq(S)] : Folding(it, pick, join, <<>>, D)
  <2>1. IsFiniteSet(D)
    BY <1>1, FS_Interval
  <2>2. <<>> \in Seq(S)
    OBVIOUS
  <2>3. \A s \in SUBSET D : s # {} => pick[s] \in s
    BY <1>4
  <2> HIDE DEF D, join, pick
  <2> QED
    BY <1>3, <2>1, <2>2, <2>3, FoldExists, Zenon
<1>6. F(it)
  <2>1. ASSUME NEW s \in SUBSET D, s # {}
        PROVE  join[<<pick[s], it[s \ {pick[s]}]>>] = Add(pos, k, it[s \ {Max(s)}], seq[Max(s)])
    <3>1. pick[s] = Max(s) /\ Max(s) \in D /\ s \ {Max(s)} \in SUBSET D
      BY <1>4, <2>1
    <3>2. it[s \ {Max(s)}] \in Seq(S)
      BY <3>1
    <3>3. <<Max(s), it[s \ {Max(s)}]>> \in D \X Seq(S)
      BY <3>1, <3>2
    <3> HIDE DEF D, pick
    <3> QED
      BY <3>1, <3>3
  <2>2. it = [s \in SUBSET D |-> IF s = {} THEN <<>> ELSE join[<<pick[s], it[s \ {pick[s]}]>>]]
    BY <1>5 DEF Folding
  <2> HIDE DEF D, join, pick
  <2> QED
    BY <2>1, <2>2
<1> DEFINE jt == CHOOSE g : F(g)
<1>7. F(jt)
  <2> HIDE DEF F
  <2> QED
    BY <1>6
<1>8. f = jt[D]
  BY <1>1, Zenon DEF Chosen, FoldLeft, MapThenFoldSet
<1> HIDE DEF jt, join, pick, f
<1> DEFINE Good(m) == /\ jt[1..m] \in Seq(S)
                      /\ m > 0 => jt[1..m] # <<>> /\ jt[1..m][1] = seq[1]
                      /\ m = 0 => jt[1..m] = <<>>
           P == {m \in Nat : m <= N => Good(m)}
<1>9. 0 \in P
  <2>1. {} \in SUBSET D /\ 1..0 = {}
    OBVIOUS
  <2>2. jt[{}] = <<>>
    BY <1>7, <2>1
  <2>3. jt[1..0] = <<>> /\ <<>> \in Seq(S)
    BY <2>1, <2>2
  <2>4. Good(0)
    BY <2>3
  <2> HIDE DEF Good
  <2> QED
    BY <2>4
<1>10. ASSUME NEW m \in Nat, m \in P PROVE m + 1 \in P
  <2> SUFFICES ASSUME m + 1 <= N PROVE Good(m + 1)
    OBVIOUS
  <2>1. Good(m)
    BY <1>1, <1>10
  <2>2. 1..(m + 1) \in SUBSET D /\ 1..(m + 1) # {} /\ 1..(m + 1) \subseteq 1..(m + 1)
    BY <1>1
  <2>3. Max(1..(m + 1)) = m + 1
    <3>1. /\ Max(1..(m + 1)) \in 1..(m + 1)
          /\ \A y \in 1..(m + 1) : y <= Max(1..(m + 1))
      <4>1. m + 1 \in Nat
        OBVIOUS
      <4> QED
        BY <2>2, <4>1, MaxIs
    <3>2. m + 1 <= Max(1..(m + 1))
      BY <3>1
    <3> QED
      BY <3>1, <3>2
  <2>4. (1..(m + 1)) \ {m + 1} = 1..m
    OBVIOUS
  <2>5. jt[1..(m + 1)] = Add(pos, k, jt[1..m], seq[m + 1])
    <3>1. jt[1..(m + 1)] = Add(pos, k, jt[(1..(m + 1)) \ {Max(1..(m + 1))}], seq[Max(1..(m + 1))])
      BY <1>7, <2>2
    <3> QED
      BY <2>3, <2>4, <3>1
  <2>6. seq[m + 1] \in S
    BY <1>1
  <2>7. CASE m = 0
    <3>1. jt[1..m] = <<>>
      BY <2>1, <2>7
    <3>2. Add(pos, k, <<>>, seq[m + 1]) = Append(<<>>, seq[m + 1])
      BY DEF Add
    <3>3. Append(<<>>, seq[m + 1]) = <<seq[1]>>
      BY <2>7
    <3>4. jt[1..(m + 1)] = <<seq[1]>> /\ seq[1] \in S
      BY <2>5, <2>6, <2>7, <3>1, <3>2, <3>3
    <3> QED
      BY <3>4
  <2>8. CASE m > 0
    <3>1. jt[1..m] \in Seq(S) /\ jt[1..m] # <<>> /\ jt[1..m][1] = seq[1]
      BY <2>1, <2>8
    <3>2. jt[1..(m + 1)] = jt[1..m] \/ jt[1..(m + 1)] = Append(jt[1..m], seq[m + 1])
      BY <2>5 DEF Add
    <3> DEFINE c == jt[1..m]
    <3>3. c \in Seq(S) /\ c # <<>> /\ c[1] = seq[1]
      BY <3>1
    <3> HIDE DEF c
    <3>4. Append(c, seq[m + 1]) \in Seq(S) /\ Append(c, seq[m + 1]) # <<>>
          /\ Append(c, seq[m + 1])[1] = seq[1]
      BY <2>6, <3>3
    <3>5. jt[1..(m + 1)] = c \/ jt[1..(m + 1)] = Append(c, seq[m + 1])
      BY <3>2 DEF c
    <3> DEFINE d == jt[1..(m + 1)]
    <3>6. d \in Seq(S) /\ d # <<>> /\ d[1] = seq[1]
      BY <3>3, <3>4, <3>5
    <3> QED
      BY <3>6
  <2> QED
    BY <2>7, <2>8
<1>11. Good(N)
  <2>1. Nat \subseteq P
    <3> HIDE DEF P
    <3> QED
      BY <1>9, <1>10, SetOfAll
  <2>2. N \in P
    BY <1>1, <2>1
  <2> HIDE DEF Good, N
  <2> QED
    BY <1>1, <2>2
<1>12. seq # <<>> <=> N > 0
  BY <1>1
<1> QED
  BY <1>8, <1>11, <1>12 DEF f
-----------------------------------------------------------------------------
(* The keys the nodes are ordered by.                                      *)

Point == Int \X Int
Network(pos) ==
    /\ IsFiniteSet(DOMAIN pos) /\ pos \in [DOMAIN pos -> Point]
    /\ \A m, n \in DOMAIN pos : pos[m] = pos[n] => m = n

LEMMA DistanceNat == ASSUME NEW p \in Point, NEW q \in Point PROVE Distance(p, q) \in Nat
  BY DEF Distance, Larger, Gap, Point

LEMMA TileIs ==
  ASSUME NEW p \in Point
  PROVE  CellOf(p) \in Point /\ TileOf(p) \in Point
<1>1. CellSize \in Nat /\ CellSize > 0 /\ GridN \in Nat /\ GridN > 0
  BY GridAssumption
<1>2. \A x \in Int : x \div CellSize \in Int /\ x \div GridN \in Int
  BY <1>1
<1>3. p[1] \in Int /\ p[2] \in Int
  BY DEF Point
<1>4. CellOf(p) \in Point /\ CellOf(p)[1] \in Int /\ CellOf(p)[2] \in Int
  BY <1>2, <1>3 DEF CellOf, Point
<1>5. TileOf(p) \in Point
  BY <1>2, <1>4 DEF TileOf, Point
<1> QED
  BY <1>4, <1>5

LEMMA RingNat ==
  ASSUME NEW t \in Point, NEW p \in Point, NEW q \in Point
  PROVE  RingIn(t, p, q) \in Nat
<1>1. GridN \in Nat /\ GridN > 0
  BY GridAssumption
<1>2. CellOf(p) \in Point /\ CellOf(q) \in Point
  BY TileIs
<1>3. CellOf(p)[1] \in Int /\ CellOf(p)[2] \in Int /\ t[1] \in Int /\ t[2] \in Int
  BY <1>2 DEF Point
<1>4. \A c, i \in Int : Clamp(c, i) \in Int
  <2>1. \A i \in Int : i * GridN \in Int
    BY <1>1
  <2> QED
    BY <1>1, <2>1 DEF Clamp
<1>5. HomeCell(t, p) \in Point
  BY <1>3, <1>4 DEF HomeCell, Point
<1> QED
  BY <1>2, <1>5, DistanceNat DEF RingIn

\* A key that ends in the point of the node.
LEMMA KeyEnds ==
  ASSUME NEW l \in Nat \ {0}, NEW s \in Seq(Int), Len(s) = l, NEW q \in Point
  PROVE  /\ s \o q \in [1..(l + 2) -> Int] /\ (s \o q)[1] = s[1]
         /\ (s \o q)[l + 1] = q[1] /\ (s \o q)[l + 2] = q[2]
<1>1. q \in Seq(Int) /\ Len(q) = 2
  <2>1. q = <<q[1], q[2]>> /\ q[1] \in Int /\ q[2] \in Int
    BY DEF Point
  <2>2. <<q[1], q[2]>> \in Seq(Int) /\ Len(<<q[1], q[2]>>) = 2
    BY <2>1
  <2> QED
    BY <2>1, <2>2, Zenon
<1>2. /\ s \o q \in Seq(Int) /\ Len(s \o q) = l + 2
      /\ \A i \in 1..(l + 2) : (s \o q)[i] = IF i <= l THEN s[i] ELSE q[i - l]
  <2>1. /\ s \o q \in Seq(Int)
        /\ Len(s \o q) = Len(s) + Len(q)
        /\ \A i \in 1..Len(s) + Len(q) : (s \o q)[i] = IF i <= Len(s) THEN s[i] ELSE q[i - Len(s)]
    <3> HIDE DEF Point
    <3> QED
      BY <1>1, ConcatProperties, Zenon
  <2> QED
    BY <1>1, <2>1, Zenon
<1> DEFINE a == s \o q
<1> HIDE DEF a
<1>3. a \in Seq(Int) /\ Len(a) = l + 2 /\ \A i \in 1..(l + 2) : a[i] = IF i <= l THEN s[i] ELSE q[i - l]
  BY <1>2 DEF a
<1>4. a \in [1..(l + 2) -> Int]
  BY <1>3
<1>5. a[1] = s[1] /\ a[l + 1] = q[1] /\ a[l + 2] = q[2]
  BY <1>3
<1> QED
  BY <1>4, <1>5 DEF a

Heads(S, head, l) == \A n \in S : head[n] \in Seq(Int) /\ Len(head[n]) = l
Keyed(S, head, pos) == [n \in S |-> head[n] \o pos[n]]

LEMMA KeysOf ==
  ASSUME NEW pos, Network(pos), NEW S, S \subseteq DOMAIN pos, NEW l \in Nat \ {0},
         NEW head, Heads(S, head, l)
  PROVE  /\ Keys(S, Keyed(S, head, pos), l + 2) /\ IsFiniteSet(S)
         /\ \A n \in S : Keyed(S, head, pos)[n][1] = head[n][1]
<1> DEFINE key == Keyed(S, head, pos)
<1>1. \A n \in S : /\ pos[n] \in Point /\ key[n] = head[n] \o pos[n]
                   /\ head[n] \in Seq(Int) /\ Len(head[n]) = l
  BY DEF Network, Keyed, Heads
<1> HIDE DEF key
<1>2. ASSUME NEW n \in S
      PROVE  /\ key[n] \in [1..(l + 2) -> Int] /\ key[n][1] = head[n][1]
             /\ key[n][l + 1] = pos[n][1] /\ key[n][l + 2] = pos[n][2]
  <2>1. pos[n] \in Point /\ head[n] \in Seq(Int) /\ Len(head[n]) = l
    BY <1>1
  <2>2. /\ head[n] \o pos[n] \in [1..(l + 2) -> Int] /\ (head[n] \o pos[n])[1] = head[n][1]
        /\ (head[n] \o pos[n])[l + 1] = pos[n][1] /\ (head[n] \o pos[n])[l + 2] = pos[n][2]
    BY <2>1, KeyEnds, Zenon
  <2> QED
    BY <1>1, <2>2, Zenon
<1>3. ASSUME NEW m \in S, NEW n \in S, key[m] = key[n] PROVE m = n
  <2>1. /\ key[m][l + 1] = pos[m][1] /\ key[m][l + 2] = pos[m][2]
        /\ key[n][l + 1] = pos[n][1] /\ key[n][l + 2] = pos[n][2]
    BY <1>2
  <2>2. pos[m][1] = pos[n][1] /\ pos[m][2] = pos[n][2]
    BY <1>3, <2>1
  <2>3. \A q \in Point : q = <<q[1], q[2]>>
    BY DEF Point
  <2>4. pos[m] = <<pos[m][1], pos[m][2]>> /\ pos[n] = <<pos[n][1], pos[n][2]>>
    BY <1>1, <2>3
  <2>5. pos[m] = pos[n]
    BY <2>2, <2>4, Zenon
  <2> QED
    BY <2>5 DEF Network
<1>4. IsFiniteSet(S)
  BY FS_Subset DEF Network
<1> QED
  BY <1>2, <1>3, <1>4 DEF Keys, key

\* What ordering by such keys gives: every node, and first one that the first entry
\* of its key makes the least.
LEMMA OrderedBy ==
  ASSUME NEW pos, Network(pos), NEW S, S \subseteq DOMAIN pos, NEW l \in Nat \ {0},
         NEW head, Heads(S, head, l), NEW key, key = Keyed(S, head, pos)
  PROVE  /\ Ordered(S, key) \in Seq(S) /\ ToSet(Ordered(S, key)) = S
         /\ Ordered(S, key) = <<>> <=> S = {}
         /\ S # {} => Ordered(S, key)[1] \in S
         /\ \A n \in S : head[Ordered(S, key)[1]][1] <= head[n][1]
<1> DEFINE o == Ordered(S, key)
           L == l + 2
<1>1. Keys(S, key, L) /\ IsFiniteSet(S) /\ \A n \in S : key[n][1] = head[n][1]
  BY KeysOf
<1>2. L \in Nat /\ L > 0
  OBVIOUS
<1> HIDE DEF L
<1>3. /\ o \in Seq(S) /\ Len(o) = Cardinality(S)
      /\ \A n \in S : \E i \in 1..Cardinality(S) : o[i] = n
      /\ S # {} => /\ o # <<>> /\ o[1] \in S
                   /\ \A n \in S : n = o[1] \/ Before(key[o[1]], key[n])
  <2>1. Lists(o, S, key)
    BY <1>1, <1>2, OrderedIs
  <2> HIDE DEF o
  <2> QED
    BY <2>1 DEF Lists
<1> HIDE DEF o
<1>4. ToSet(o) = S
  BY <1>3 DEF ToSet
<1>5. o = <<>> <=> S = {}
  BY <1>3
<1>6. ASSUME NEW n \in S PROVE head[o[1]][1] <= head[n][1]
  <2>1. o[1] \in S /\ (n = o[1] \/ Before(key[o[1]], key[n]))
    BY <1>3
  <2>2. key[o[1]] \in [1..L -> Int] /\ key[n] \in [1..L -> Int]
    BY <1>1, <2>1 DEF Keys
  <2>3. CASE n = o[1]
    <3>1. key[n][1] \in Int
      BY <1>2, <2>2
    <3>2. head[n][1] \in Int
      BY <1>1, <3>1
    <3> QED
      BY <2>3, <3>2
  <2>4. CASE Before(key[o[1]], key[n])
    <3>1. key[o[1]][1] <= key[n][1]
      BY <1>2, <2>2, <2>4, BeforeFirst
    <3> QED
      BY <1>1, <2>1, <3>1
  <2> QED
    BY <2>1, <2>3, <2>4
<1> QED
  BY <1>3, <1>4, <1>5, <1>6 DEF o
-----------------------------------------------------------------------------
(* snapInTile: of the nodes in view of a tile, some, the first of them     *)
(* near or the nearest, and none only where there is none.                 *)

LEMMA PairHeads ==
  ASSUME NEW a \in Int, NEW q \in Point
  PROVE  <<a>> \o q \in Seq(Int) /\ Len(<<a>> \o q) = 3 /\ (<<a>> \o q)[1] = a
<1> DEFINE s == <<a>>
<1>1. s \in Seq(Int) /\ Len(s) = 1 /\ s[1] = a
  OBVIOUS
<1> HIDE DEF s
<1>2. s \o q \in [1..(1 + 2) -> Int] /\ (s \o q)[1] = s[1]
  <2>1. 1 \in Nat \ {0}
    OBVIOUS
  <2> QED
    BY <1>1, <2>1, KeyEnds, Zenon
<1> DEFINE c == s \o q
<1> HIDE DEF c
<1>3. c \in [1..3 -> Int] /\ c[1] = a
  BY <1>1, <1>2 DEF c
<1>4. c \in Seq(Int) /\ Len(c) = 3
  BY <1>3
<1> QED
  BY <1>3, <1>4 DEF c, s

\* What an order of the nodes S is of, whose keys begin with `first`.
OrderOf(o, S, first) ==
    /\ o \in Seq(S) /\ ToSet(o) = S
    /\ o = <<>> <=> S = {}
    /\ S # {} => o[1] \in S
    /\ \A n \in S : first[o[1]] <= first[n]

Rings(pos, t, p, S) == [n \in S |-> RingIn(t, p, pos[n])]
Distances(pos, p, S) == [n \in S |-> Distance(p, pos[n])]

LEMMA OrderFrom ==
  ASSUME NEW pos, Network(pos), NEW S, S \subseteq DOMAIN pos, NEW l \in Nat \ {0},
         NEW head, Heads(S, head, l), NEW key, key = Keyed(S, head, pos),
         NEW first, \A n \in S : head[n][1] = first[n]
  PROVE  OrderOf(Ordered(S, key), S, first)
<1> DEFINE o == Ordered(S, key)
<1>1. /\ o \in Seq(S) /\ ToSet(o) = S
      /\ o = <<>> <=> S = {}
      /\ S # {} => o[1] \in S
      /\ \A n \in S : head[o[1]][1] <= head[n][1]
  BY OrderedBy
<1> HIDE DEF o
<1>2. ASSUME NEW n \in S PROVE first[o[1]] <= first[n]
  BY <1>1
<1> QED
  BY <1>1, <1>2 DEF OrderOf, o

LEMMA ScanOrderIs ==
  ASSUME NEW pos, Network(pos), NEW S, S \subseteq DOMAIN pos, NEW t \in Point, NEW p \in Point
  PROVE  OrderOf(InScanOrder(pos, t, p, S), S, Rings(pos, t, p, S))
<1> DEFINE head == [n \in S |-> <<RingIn(t, p, pos[n])>> \o CellOf(pos[n])]
           key == [n \in S |-> <<RingIn(t, p, pos[n])>> \o CellOf(pos[n]) \o pos[n]]
           first == Rings(pos, t, p, S)
<1>1. ASSUME NEW n \in S
      PROVE  /\ head[n] \in Seq(Int) /\ Len(head[n]) = 3 /\ head[n][1] = first[n]
  <2>1. pos[n] \in Point
    BY DEF Network
  <2>2. RingIn(t, p, pos[n]) \in Int /\ CellOf(pos[n]) \in Point
    <3>1. RingIn(t, p, pos[n]) \in Nat
      BY <2>1, RingNat
    <3> QED
      BY <2>1, <3>1, TileIs
  <2>3. /\ <<RingIn(t, p, pos[n])>> \o CellOf(pos[n]) \in Seq(Int)
        /\ Len(<<RingIn(t, p, pos[n])>> \o CellOf(pos[n])) = 3
        /\ (<<RingIn(t, p, pos[n])>> \o CellOf(pos[n]))[1] = RingIn(t, p, pos[n])
    BY <2>2, PairHeads, Zenon
  <2>4. head[n] = <<RingIn(t, p, pos[n])>> \o CellOf(pos[n])
    OBVIOUS
  <2>5. first[n] = RingIn(t, p, pos[n])
    BY DEF Rings
  <2> HIDE DEF head, first
  <2> QED
    BY <2>3, <2>4, <2>5, Zenon
<1>2. key = Keyed(S, head, pos)
  <2>1. \A n \in S : head[n] = <<RingIn(t, p, pos[n])>> \o CellOf(pos[n])
    OBVIOUS
  <2> HIDE DEF head
  <2> QED
    BY <2>1, Zenon DEF Keyed
<1>3. InScanOrder(pos, t, p, S) = Ordered(S, key)
  BY Zenon DEF InScanOrder
<1> HIDE DEF head, key, first
<1>4. Heads(S, head, 3)
  BY <1>1 DEF Heads
<1>5. OrderOf(Ordered(S, key), S, first)
  BY <1>1, <1>2, <1>4, OrderFrom
<1> QED
  BY <1>3, <1>5, Zenon DEF first

LEMMA ByDistanceIs ==
  ASSUME NEW pos, Network(pos), NEW S, S \subseteq DOMAIN pos, NEW t \in Point, NEW p \in Point
  PROVE  OrderOf(ByDistance(pos, t, p, S), S, Distances(pos, p, S))
<1> DEFINE head == [n \in S |-> <<Distance(p, pos[n]), RingIn(t, p, pos[n])>>]
           key == [n \in S |-> <<Distance(p, pos[n]), RingIn(t, p, pos[n])>> \o pos[n]]
           first == Distances(pos, p, S)
<1>1. ASSUME NEW n \in S
      PROVE  /\ head[n] \in Seq(Int) /\ Len(head[n]) = 2 /\ head[n][1] = first[n]
  <2>1. pos[n] \in Point
    BY DEF Network
  <2>2. RingIn(t, p, pos[n]) \in Nat /\ Distance(p, pos[n]) \in Nat
    BY <2>1, RingNat, DistanceNat
  <2>3. \A a, b \in Nat : <<a, b>> \in Seq(Int) /\ Len(<<a, b>>) = 2 /\ <<a, b>>[1] = a
    OBVIOUS
  <2>4. head[n] = <<Distance(p, pos[n]), RingIn(t, p, pos[n])>>
    OBVIOUS
  <2>5. first[n] = Distance(p, pos[n])
    BY DEF Distances
  <2> HIDE DEF head, first
  <2> QED
    BY <2>2, <2>3, <2>4, <2>5, Zenon
<1>2. key = Keyed(S, head, pos)
  <2>1. \A n \in S : head[n] = <<Distance(p, pos[n]), RingIn(t, p, pos[n])>>
    OBVIOUS
  <2> HIDE DEF head
  <2> QED
    BY <2>1, Zenon DEF Keyed
<1>3. ByDistance(pos, t, p, S) = Ordered(S, key)
  BY Zenon DEF ByDistance
<1> HIDE DEF head, key, first
<1>4. Heads(S, head, 2)
  BY <1>1 DEF Heads
<1>5. OrderOf(Ordered(S, key), S, first)
  BY <1>1, <1>2, <1>4, OrderFrom
<1> QED
  BY <1>3, <1>5, Zenon DEF first

\* The nodes a tile has in view of the point.
Ringed(pos, t, p) == {n \in InTile(pos, t) : RingIn(t, p, pos[n]) <= MaxRing}

\* A list of nodes of C: none when C is empty, and else first a node that is near
\* or that no other of C is nearer than.
Nearest(pos, p, C, list) ==
    /\ list \in Seq(C)
    /\ list = <<>> <=> C = {}
    /\ C # {} => \/ Distance(p, pos[list[1]]) < Near
                 \/ \A n \in C : Distance(p, pos[list[1]]) <= Distance(p, pos[n])

LEMMA SnapInTileIs ==
  ASSUME NEW pos, Network(pos), NEW t \in Point, NEW p \in Point, NEW k \in Nat \ {0}
  PROVE  Nearest(pos, p, Ringed(pos, t, p), SnapInTile(pos, t, p, k))
<1> DEFINE C == Ringed(pos, t, p)
           seen == InScanOrder(pos, t, p, C)
           V == Scanned(pos, t, p, k)
           near == ByDistance(pos, t, p, V)
           snaps == SnapInTile(pos, t, p, k)
<1>1. C \subseteq DOMAIN pos
  BY DEF Ringed, InTile
<1>2. OrderOf(seen, C, Rings(pos, t, p, C))
  BY <1>1, ScanOrderIs
<1>3. V = {n \in ToSet(seen) : Distance(p, pos[seen[1]]) < Near =>
              RingIn(t, p, pos[n]) <= Larger(RingsToWiden(k), RingIn(t, p, pos[seen[1]]))}
  BY Zenon DEF Scanned, UntilNear, Ringed
<1> HIDE DEF C, seen, V
<1>4. ToSet(seen) = C /\ (C # {} => seen[1] \in C)
  BY <1>2 DEF OrderOf
<1>5. V \subseteq C
  BY <1>3, <1>4
<1>6. Distance(p, pos[seen[1]]) < Near \/ V = C
  BY <1>3, <1>4
<1>7. C # {} => seen[1] \in V
  <2> HAVE C # {}
  <2>1. seen[1] \in C /\ seen[1] \in DOMAIN pos
    BY <1>1, <1>4
  <2>2. RingIn(t, p, pos[seen[1]]) \in Nat
    <3>1. pos[seen[1]] \in Point
      BY <2>1 DEF Network
    <3> QED
      BY <3>1, RingNat
  <2>3. RingIn(t, p, pos[seen[1]]) <= Larger(RingsToWiden(k), RingIn(t, p, pos[seen[1]]))
    BY <2>2, GridAssumption DEF Larger, RingsToWiden
  <2> QED
    BY <1>3, <1>4, <2>1, <2>3
<1>8. OrderOf(near, V, Distances(pos, p, V))
  <2>1. V \subseteq DOMAIN pos
    BY <1>1, <1>5
  <2> QED
    BY <2>1, ByDistanceIs
<1> HIDE DEF near
<1>9. near \in Seq(V) /\ (near = <<>> <=> V = {}) /\ (V # {} => near[1] \in V)
  BY <1>8 DEF OrderOf
<1>10. \A n \in V : Distance(p, pos[near[1]]) <= Distance(p, pos[n])
  <2> TAKE n \in V
  <2>1. near[1] \in V
    BY <1>9
  <2>2. Distances(pos, p, V)[near[1]] <= Distances(pos, p, V)[n]
    BY <1>8 DEF OrderOf
  <2> QED
    BY <2>1, <2>2 DEF Distances
<1>11. snaps = Chosen(pos, k, near)
  BY Zenon DEF SnapInTile, Chosen, near, V
<1> HIDE DEF snaps
<1>12. /\ snaps \in Seq(V)
       /\ near # <<>> => snaps # <<>> /\ snaps[1] = near[1]
       /\ near = <<>> => snaps = <<>>
  <2>1. /\ Chosen(pos, k, near) \in Seq(V)
        /\ near # <<>> => Chosen(pos, k, near) # <<>> /\ Chosen(pos, k, near)[1] = near[1]
        /\ near = <<>> => Chosen(pos, k, near) = <<>>
    BY <1>9, ChosenAre
  <2> QED
    BY <1>11, <2>1, Zenon
<1>13. snaps \in Seq(C)
  BY <1>5, <1>12
<1>14. snaps = <<>> <=> C = {}
  BY <1>5, <1>7, <1>9, <1>12
<1>15. ASSUME C # {}
       PROVE  \/ Distance(p, pos[snaps[1]]) < Near
              \/ \A n \in C : Distance(p, pos[snaps[1]]) <= Distance(p, pos[n])
  <2>1. V # {} /\ seen[1] \in V /\ snaps[1] = near[1] /\ near[1] \in V
    BY <1>7, <1>9, <1>12, <1>15
  <2>2. CASE V = C
    BY <1>10, <2>1, <2>2
  <2>3. CASE Distance(p, pos[seen[1]]) < Near
    <3>1. Distance(p, pos[near[1]]) <= Distance(p, pos[seen[1]])
      BY <1>10, <2>1
    <3>2. pos[near[1]] \in Point /\ pos[seen[1]] \in Point
      BY <1>1, <1>5, <2>1 DEF Network
    <3>3. Distance(p, pos[near[1]]) \in Nat /\ Distance(p, pos[seen[1]]) \in Nat /\ Near \in Nat
      BY <3>2, DistanceNat, DistanceAssumption
    <3>4. Distance(p, pos[near[1]]) < Near
      BY <2>3, <3>1, <3>3
    <3> QED
      BY <2>1, <3>4
  <2> QED
    BY <1>6, <2>2, <2>3
<1> QED
  BY <1>13, <1>14, <1>15 DEF Nearest, C, snaps
-----------------------------------------------------------------------------
(* snapK: of the nodes in view of the tiles around the point.              *)

View(pos, p) ==
    {n \in DOMAIN pos : TileOf(pos[n]) \in TilesWithin(p, TileRings)
                         /\ RingIn(TileOf(pos[n]), p, pos[n]) <= MaxRing}
Visible(pos, p, r) == UNION {Ringed(pos, t, p) : t \in TilesWithin(p, r)}
Snapped(pos, p, k, r) == UNION {ToSet(SnapInTile(pos, t, p, k)) : t \in TilesWithin(p, r)}

LEMMA TilesAre ==
  ASSUME NEW p \in Point, NEW r \in 0..TileRings
  PROVE  TilesWithin(p, r) \subseteq Point /\ TilesWithin(p, r) \subseteq TilesWithin(p, TileRings)
<1>1. TileRings \in Nat
  BY GridAssumption
<1>2. TileOf(p)[1] \in Int /\ TileOf(p)[2] \in Int
  <2>1. TileOf(p) \in Point
    BY TileIs
  <2> QED
    BY <2>1 DEF Point
<1>3. (-r)..r \subseteq (-TileRings)..TileRings /\ (-r)..r \subseteq Int
  BY <1>1
<1> QED
  BY <1>2, <1>3 DEF TilesWithin, Point

LEMMA VisibleIs ==
  ASSUME NEW pos, Network(pos), NEW p \in Point, NEW r \in 0..TileRings
  PROVE  /\ Visible(pos, p, r) \subseteq View(pos, p)
         /\ r = TileRings => Visible(pos, p, r) = View(pos, p)
<1>1. TilesWithin(p, r) \subseteq TilesWithin(p, TileRings)
  BY TilesAre
<1>2. \A t : \A n \in Ringed(pos, t, p) :
        n \in DOMAIN pos /\ TileOf(pos[n]) = t /\ RingIn(TileOf(pos[n]), p, pos[n]) <= MaxRing
  BY DEF Ringed, InTile
<1>3. \A n \in View(pos, p) : n \in Ringed(pos, TileOf(pos[n]), p)
  BY DEF Ringed, InTile, View
<1> QED
  BY <1>1, <1>2, <1>3 DEF Visible, View

LEMMA InTileOrderIs ==
  ASSUME NEW pos, Network(pos), NEW S, S \subseteq DOMAIN pos, NEW p \in Point
  PROVE  OrderOf(InTileOrder(pos, p, S), S, Distances(pos, p, S))
<1> DEFINE head == [n \in S |-> <<Distance(p, pos[n]), Distance(TileOf(p), TileOf(pos[n])),
                                  TileOf(pos[n])[2], TileOf(pos[n])[1]>>]
           key == [n \in S |-> <<Distance(p, pos[n]), Distance(TileOf(p), TileOf(pos[n])),
                                 TileOf(pos[n])[2], TileOf(pos[n])[1]>> \o pos[n]]
           first == Distances(pos, p, S)
<1>1. ASSUME NEW n \in S
      PROVE  /\ head[n] \in Seq(Int) /\ Len(head[n]) = 4 /\ head[n][1] = first[n]
  <2>1. pos[n] \in Point
    BY DEF Network
  <2>2. TileOf(p) \in Point /\ TileOf(pos[n]) \in Point
    BY <2>1, TileIs
  <2>3. /\ Distance(p, pos[n]) \in Nat /\ Distance(TileOf(p), TileOf(pos[n])) \in Nat
        /\ TileOf(pos[n])[2] \in Int /\ TileOf(pos[n])[1] \in Int
    <3>1. \A q \in Point : q[1] \in Int /\ q[2] \in Int
      BY DEF Point
    <3> QED
      BY <2>1, <2>2, <3>1, DistanceNat
  <2>4. \A a, b \in Nat, c, d \in Int :
            <<a, b, c, d>> \in Seq(Int) /\ Len(<<a, b, c, d>>) = 4 /\ <<a, b, c, d>>[1] = a
    OBVIOUS
  <2>5. head[n] = <<Distance(p, pos[n]), Distance(TileOf(p), TileOf(pos[n])),
                    TileOf(pos[n])[2], TileOf(pos[n])[1]>>
    OBVIOUS
  <2>6. first[n] = Distance(p, pos[n])
    BY DEF Distances
  <2> DEFINE a == Distance(p, pos[n])
             b == Distance(TileOf(p), TileOf(pos[n]))
             c == TileOf(pos[n])[2]
             d == TileOf(pos[n])[1]
  <2>7. /\ a \in Nat /\ b \in Nat /\ c \in Int /\ d \in Int
        /\ head[n] = <<a, b, c, d>> /\ first[n] = a
    <3> HIDE DEF head, first
    <3> QED
      BY <2>3, <2>5, <2>6
  <2> HIDE DEF head, first, a, b, c, d
  <2> QED
    BY <2>4, <2>7
<1>2. key = Keyed(S, head, pos)
  <2>1. \A n \in S : head[n] = <<Distance(p, pos[n]), Distance(TileOf(p), TileOf(pos[n])),
                                 TileOf(pos[n])[2], TileOf(pos[n])[1]>>
    OBVIOUS
  <2> HIDE DEF head
  <2> QED
    BY <2>1, Zenon DEF Keyed
<1>3. InTileOrder(pos, p, S) = Ordered(S, key)
  BY Zenon DEF InTileOrder
<1> HIDE DEF head, key, first
<1>4. Heads(S, head, 4)
  BY <1>1 DEF Heads
<1>5. OrderOf(Ordered(S, key), S, first)
  BY <1>1, <1>2, <1>4, OrderFrom
<1> QED
  BY <1>3, <1>5, Zenon DEF first

LEMMA BestIs ==
  ASSUME NEW S, NEW s \in Seq(S), NEW k \in Nat \ {0}
  PROVE  /\ Best(k, s) \in Seq(S) /\ Len(Best(k, s)) <= k
         /\ s = <<>> <=> Best(k, s) = <<>>
         /\ s # <<>> => Best(k, s)[1] = s[1]
<1> DEFINE m == IF Len(s) < k THEN Len(s) ELSE k
           b == SubSeq(s, 1, m)
<1>1. m \in Nat /\ m <= Len(s) /\ m <= k /\ (m = 0 <=> Len(s) = 0)
  OBVIOUS
<1>2. Best(k, s) = b
  BY Zenon DEF Best
<1> HIDE DEF m, b
<1>3. \A i \in 1..m : s[i] \in S
  BY <1>1
<1>4. /\ b \in Seq(S)
      /\ Len(b) = IF 1 <= m THEN m - 1 + 1 ELSE 0
      /\ \A i \in 1..m - 1 + 1 : b[i] = s[1 + i - 1]
  <2>1. 1 \in Int /\ m \in Int
    BY <1>1
  <2> QED
    BY <1>3, <2>1, SubSeqProperties DEF b
<1>5. Len(b) = m /\ (m > 0 => b[1] = s[1])
  BY <1>1, <1>4
<1>6. s = <<>> <=> m = 0
  BY <1>1
<1> QED
  BY <1>1, <1>2, <1>4, <1>5, <1>6

LEMMA SnappedAre ==
  ASSUME NEW pos, Network(pos), NEW p \in Point, NEW k \in Nat \ {0}, NEW r \in 0..TileRings
  PROVE  /\ Snapped(pos, p, k, r) \subseteq Visible(pos, p, r)
         /\ \A n \in Visible(pos, p, r) : \E m \in Snapped(pos, p, k, r) :
                Distance(p, pos[m]) < Near \/ Distance(p, pos[m]) <= Distance(p, pos[n])
<1>1. ASSUME NEW t \in TilesWithin(p, r)
      PROVE  /\ ToSet(SnapInTile(pos, t, p, k)) \subseteq Ringed(pos, t, p)
             /\ \A n \in Ringed(pos, t, p) : \E m \in ToSet(SnapInTile(pos, t, p, k)) :
                Distance(p, pos[m]) < Near \/ Distance(p, pos[m]) <= Distance(p, pos[n])
  <2> DEFINE snaps == SnapInTile(pos, t, p, k)
             C == Ringed(pos, t, p)
  <2>1. t \in Point
    BY TilesAre
  <2>2. Nearest(pos, p, C, snaps)
    BY <2>1, SnapInTileIs
  <2> HIDE DEF snaps, C
  <2>3. /\ snaps \in Seq(C) /\ (snaps = <<>> <=> C = {})
        /\ C # {} => \/ Distance(p, pos[snaps[1]]) < Near
                     \/ \A n \in C : Distance(p, pos[snaps[1]]) <= Distance(p, pos[n])
    BY <2>2 DEF Nearest
  <2>4. ToSet(snaps) \subseteq C
    BY <2>3 DEF ToSet
  <2>5. C # {} => snaps[1] \in ToSet(snaps)
    BY <2>3 DEF ToSet
  <2>6. \A n \in C : \E m \in ToSet(snaps) :
                Distance(p, pos[m]) < Near \/ Distance(p, pos[m]) <= Distance(p, pos[n])
    BY <2>3, <2>5
  <2> QED
    BY <2>4, <2>6 DEF snaps, C
<1>2. Snapped(pos, p, k, r) \subseteq Visible(pos, p, r)
  BY <1>1 DEF Snapped, Visible
<1>3. ASSUME NEW n \in Visible(pos, p, r)
      PROVE  \E m \in Snapped(pos, p, k, r) :
                Distance(p, pos[m]) < Near \/ Distance(p, pos[m]) <= Distance(p, pos[n])
  <2>1. PICK t \in TilesWithin(p, r) : n \in Ringed(pos, t, p)
    BY DEF Visible
  <2>2. PICK m \in ToSet(SnapInTile(pos, t, p, k)) :
                Distance(p, pos[m]) < Near \/ Distance(p, pos[m]) <= Distance(p, pos[n])
    BY <1>1, <2>1
  <2>3. m \in Snapped(pos, p, k, r)
    BY <2>1, <2>2 DEF Snapped
  <2> QED
    BY <2>2, <2>3
<1> QED
  BY <1>2, <1>3

\* What is found in the tiles up to a ring, of what they have in view.
LEMMA FoundWithinIs ==
  ASSUME NEW pos, Network(pos), NEW p \in Point, NEW k \in Nat \ {0}, NEW r \in 0..TileRings
  PROVE  /\ Nearest(pos, p, Visible(pos, p, r), FoundWithin(pos, p, k, r))
         /\ Len(FoundWithin(pos, p, k, r)) <= k
<1> DEFINE C == Visible(pos, p, r)
           S == Snapped(pos, p, k, r)
           o == InTileOrder(pos, p, S)
           found == FoundWithin(pos, p, k, r)
<1>1. C \subseteq DOMAIN pos
  <2>1. C \subseteq View(pos, p)
    BY VisibleIs
  <2> QED
    BY <2>1 DEF View
<1>2. /\ S \subseteq C
      /\ \A n \in C : \E m \in S :
            Distance(p, pos[m]) < Near \/ Distance(p, pos[m]) <= Distance(p, pos[n])
  BY SnappedAre
<1>3. found = Best(k, o)
  BY Zenon DEF FoundWithin, Snapped
<1> HIDE DEF C, S
<1>4. OrderOf(o, S, Distances(pos, p, S))
  <2>1. S \subseteq DOMAIN pos
    BY <1>1, <1>2
  <2> QED
    BY <2>1, InTileOrderIs
<1> HIDE DEF o, found
<1>5. o \in Seq(S) /\ (o = <<>> <=> S = {}) /\ (S # {} => o[1] \in S)
  BY <1>4 DEF OrderOf
<1>6. \A n \in S : Distance(p, pos[o[1]]) <= Distance(p, pos[n])
  <2> TAKE n \in S
  <2>1. o[1] \in S
    BY <1>5
  <2>2. Distances(pos, p, S)[o[1]] <= Distances(pos, p, S)[n]
    BY <1>4 DEF OrderOf
  <2> QED
    BY <2>1, <2>2 DEF Distances
<1>7. /\ found \in Seq(S) /\ Len(found) <= k /\ (o = <<>> <=> found = <<>>)
      /\ o # <<>> => found[1] = o[1]
  BY <1>3, <1>5, BestIs
<1>8. found \in Seq(C) /\ (found = <<>> <=> C = {})
  BY <1>2, <1>5, <1>7
<1>9. ASSUME C # {}
      PROVE  \/ Distance(p, pos[found[1]]) < Near
             \/ \A n \in C : Distance(p, pos[found[1]]) <= Distance(p, pos[n])
  <2>1. S # {} /\ found[1] = o[1] /\ o[1] \in S
    BY <1>2, <1>5, <1>7, <1>9
  <2>2. \A n \in C : Distance(p, pos[n]) \in Nat
    BY <1>1, DistanceNat DEF Network
  <2>3. ASSUME NEW n \in C
        PROVE  Distance(p, pos[o[1]]) < Near \/ Distance(p, pos[o[1]]) <= Distance(p, pos[n])
    <3>1. PICK m \in S : Distance(p, pos[m]) < Near \/ Distance(p, pos[m]) <= Distance(p, pos[n])
      BY <1>2
    <3>2. Distance(p, pos[o[1]]) <= Distance(p, pos[m])
      BY <1>6
    <3>3. /\ Distance(p, pos[o[1]]) \in Nat /\ Distance(p, pos[m]) \in Nat
          /\ Distance(p, pos[n]) \in Nat
      BY <1>2, <2>1, <2>2
    <3> QED
      BY <3>1, <3>2, <3>3, DistanceAssumption
  <2> QED
    BY <2>1, <2>3
<1> QED
  BY <1>7, <1>8, <1>9 DEF Nearest, C, found

LEMMA SnapKIs ==
  ASSUME NEW pos, Network(pos), NEW p \in Point, NEW k \in Nat \ {0}
  PROVE  Nearest(pos, p, View(pos, p), SnapK(pos, p, k)) /\ Len(SnapK(pos, p, k)) <= k
<1> DEFINE found(r) == FoundWithin(pos, p, k, r)
           Stop(r) == r = TileRings \/ Enough(pos, p, k, found(r))
           Ends(r) == /\ r = TileRings \/ Enough(pos, p, k, found(r))
                      /\ \A s \in 0..(r - 1) : ~Enough(pos, p, k, found(s))
           R == {r \in 0..TileRings : Stop(r)}
           c == CHOOSE r \in 0..TileRings : Ends(r)
<1>1. TileRings \in Nat
  BY GridAssumption
<1>2. \E r \in 0..TileRings : Ends(r)
  <2>1. R \subseteq Nat /\ TileRings \in R
    BY <1>1
  <2>2. PICK r \in R : \A s \in R : r <= s
    <3> HIDE DEF R
    <3> QED
      BY <2>1, LeastNumber
  <2>3. \A s \in 0..(r - 1) : ~Enough(pos, p, k, found(s))
    <3> TAKE s \in 0..(r - 1)
    <3>1. s \in 0..TileRings /\ ~(r <= s)
      BY <1>1
    <3> QED
      BY <2>2, <3>1
  <2> QED
    BY <2>3
<1>3. SnapK(pos, p, k) = found(c)
  BY Zenon DEF SnapK
<1>4. c \in 0..TileRings /\ Ends(c)
  <2> HIDE DEF Ends
  <2> QED
    BY <1>2
<1> HIDE DEF c
<1>5. Nearest(pos, p, Visible(pos, p, c), found(c)) /\ Len(found(c)) <= k
  BY <1>4, FoundWithinIs
<1>6. /\ Visible(pos, p, c) \subseteq View(pos, p)
      /\ c = TileRings => Visible(pos, p, c) = View(pos, p)
  BY <1>4, VisibleIs
<1>7. CASE c = TileRings
  BY <1>3, <1>5, <1>6, <1>7
<1>8. CASE Enough(pos, p, k, found(c))
  <2> DEFINE f == found(c)
  <2>1. Len(f) >= k /\ Distance(p, pos[f[1]]) < Near
    BY <1>8 DEF Enough
  <2> HIDE DEF f
  <2>2. f \in Seq(Visible(pos, p, c))
    BY <1>5 DEF Nearest, f
  <2>3. f # <<>>
    BY <2>1, <2>2
  <2>4. f[1] \in Visible(pos, p, c)
    BY <2>2, <2>3
  <2>5. f \in Seq(View(pos, p)) /\ View(pos, p) # {}
    BY <1>6, <2>2, <2>4
  <2>6. Nearest(pos, p, View(pos, p), f)
    BY <2>1, <2>3, <2>5 DEF Nearest
  <2> QED
    BY <1>3, <1>5, <2>6 DEF f
<1> QED
  BY <1>4, <1>7, <1>8
-----------------------------------------------------------------------------
(* The elements of an answer.  A request is at one of its origins, with    *)
(* what it read and computed for it, and has a row of true elements for    *)
(* each origin before.                                                     *)

\* True, of the version and the destinations of a request.
Own(v, dests, a, j) ==
    {n \in Candidates(v, dests[j]) : <<Top1(v, a), n>> \in Reach[v]}
        \ UNION {Candidates(v, dests[i]) : i \in 1..(j - 1)}
Excused(v, dests, a, j, short) ==
    \/ short \/ Distance(Place[a], Place[dests[j]]) > L0_MAX \/ Own(v, dests, a, j) = {}
Holds(v, dests, a, j, element, short) ==
    /\ element[1] = "NOT_FOUND" <=> Unplaced(v, a, dests[j])
    /\ element[1] = "OK" => Leads(v, a, dests[j], element[2])
    /\ element[1] = "ZERO_RESULTS" => Excused(v, dests, a, j, short)

Types(r) ==
    /\ ask[r] \in Asks /\ version[r] \in Version
    /\ cached[r] \in LegsOf(r) /\ computed[r] \in LegsOf(r)
    /\ rows[r] \in Seq([Indices(r) -> Element])
    /\ pc[r] = "answered" <=> status[r] # None
Turn(r) ==
    /\ pc[r] \in {"idle", "wasm"} => at[r] = 1 /\ rows[r] = <<>>
    /\ pc[r] = "wasm" => Len(ask[r].origins) = 1
    /\ pc[r] \in {"origin", "search", "write", "overlay"} =>
            at[r] \in 1..Len(ask[r].origins) /\ Len(rows[r]) = at[r] - 1
    /\ pc[r] \in {"search", "write", "overlay"} => Source(r) # None
Held(r) ==
    /\ pc[r] \in {"idle", "wasm", "origin"} => \A j \in Indices(r) : cached[r][j] = None
    /\ pc[r] \in {"idle", "wasm", "origin", "search"} => \A j \in Indices(r) : computed[r][j] = None
    /\ \A j \in Indices(r) : cached[r][j] = None \/ computed[r][j] = None
    /\ \A j \in Indices(r) : cached[r][j] # None =>
            Leads(version[r], Origin(r), Dest(r, j), cached[r][j])
    /\ pc[r] \in {"write", "overlay"} =>
            \A j \in Indices(r) : Target(r, j) # None /\ cached[r][j] = None /\ computed[r][j] = None =>
                Excused(version[r], ask[r].dests, Origin(r), j, cut[r])
Rowed(r) ==
    \A i \in DOMAIN rows[r] : \A j \in Indices(r) :
        Holds(version[r], ask[r].dests, ask[r].origins[i], j, rows[r][i][j], cut[r])
Request(r) == Types(r) /\ Turn(r) /\ Held(r) /\ Rowed(r)

Shared ==
    /\ deployed \in Version /\ \A r \in Requests : version[r] <= deployed
    /\ legs \in [Version \X Nodes \X Nodes -> Leg \cup {None}]
    /\ cached = [r \in Requests |-> cached[r]] /\ rows = [r \in Requests |-> rows[r]]
    /\ status = [r \in Requests |-> status[r]] /\ cut = [r \in Requests |-> cut[r]]

Inv == Cache /\ Shared /\ \A r \in Requests : Request(r)

-----------------------------------------------------------------------------
LEMMA NetworksAre ==
  ASSUME NEW v \in Version
  PROVE  Network(Pos[v]) /\ \A p : View(Pos[v], p) = InView(v, p)
  BY RoadsAssumption DEF Network, Point, View, InView

\* What resolveAll gives for a query: up to k nodes of the version, the first of them
\* near or the nearest, and none only if the query has no point or nothing in view.
LEMMA SnapsAre ==
  ASSUME NEW v \in Version, NEW q \in DOMAIN Place, NEW k \in {1, SNAP_K}
  PROVE  /\ SnapsOf(v, q, k) \in Seq(Nodes) /\ Len(SnapsOf(v, q, k)) <= k
         /\ SnapsOf(v, q, k) = <<>> <=> Place[q] = NOT_FOUND \/ InView(v, Place[q]) = {}
         /\ Place[q] # NOT_FOUND => NearestFirst(v, Place[q], SnapsOf(v, q, k))
<1> DEFINE s == SnapsOf(v, q, k)
           p == Place[q]
<1>1. s = IF p = NOT_FOUND THEN <<>> ELSE SnapK(Pos[v], p, k)
  BY DEF SnapsOf, Snaps
<1>2. k \in Nat \ {0}
  BY LimitsAssumption
<1> HIDE DEF s, p
<1>3. CASE p = NOT_FOUND
  <2>1. s = <<>>
    BY <1>1, <1>3
  <2> QED
    BY <1>2, <1>3, <2>1 DEF s, p
<1>4. CASE p # NOT_FOUND
  <2>1. p \in Point
    BY <1>4, AsksAssumption DEF p, Point
  <2>2. Nearest(Pos[v], p, InView(v, p), s) /\ Len(s) <= k
    <3>1. Nearest(Pos[v], p, View(Pos[v], p), SnapK(Pos[v], p, k)) /\ Len(SnapK(Pos[v], p, k)) <= k
      BY <1>2, <2>1, NetworksAre, SnapKIs
    <3>2. View(Pos[v], p) = InView(v, p)
      BY NetworksAre
    <3>3. s = SnapK(Pos[v], p, k)
      BY <1>1, <1>4
    <3> QED
      BY <3>1, <3>2, <3>3
  <2>3. s \in Seq(InView(v, p)) /\ (s = <<>> <=> InView(v, p) = {})
    BY <2>2 DEF Nearest
  <2>4. InView(v, p) \subseteq Nodes
    BY DEF InView, Nodes
  <2>5. s \in Seq(Nodes)
    BY <2>3, <2>4
  <2>6. NearestFirst(v, p, s)
    BY <2>2 DEF Nearest, NearestFirst
  <2> QED
    BY <1>4, <2>2, <2>3, <2>5, <2>6 DEF s, p
<1> QED
  BY <1>3, <1>4

\* The first candidate: of the version, and the WASM path has it as its only one.
LEMMA FirstsAre ==
  ASSUME NEW v \in Version, NEW q \in DOMAIN Place
  PROVE  /\ Candidates(v, q) \subseteq Nodes /\ Top1(v, q) \in Nodes \cup {None}
         /\ Top1(v, q) = None <=> SnapsOf(v, q, 1) = <<>>
         /\ SnapsOf(v, q, 1) # <<>> =>
                SnapsOf(v, q, 1)[1] \in Nodes /\ SnapsOf(v, q, 1) = <<SnapsOf(v, q, 1)[1]>>
<1> DEFINE s == SnapsOf(v, q, SNAP_K)
           o == SnapsOf(v, q, 1)
<1>1. s \in Seq(Nodes) /\ o \in Seq(Nodes) /\ Len(o) <= 1 /\ (s = <<>> <=> o = <<>>)
  BY SnapsAre
<1>2. Top1(v, q) = (IF s = <<>> THEN None ELSE s[1]) /\ Candidates(v, q) = ToSet(s)
  BY DEF Top1, Candidates
<1> HIDE DEF s, o
<1>3. s # <<>> => s[1] \in Nodes /\ s[1] # None
  BY <1>1, NoneAssumption
<1>4. ASSUME o # <<>> PROVE o[1] \in Nodes /\ o = <<o[1]>>
  <2>1. Len(o) = 1 /\ o[1] \in Nodes
    <3>1. Len(o) \in Nat \ {0}
      BY <1>1, <1>4, EmptySeq
    <3>2. \A n \in Nat \ {0} : n <= 1 => n = 1
      OBVIOUS
    <3>3. Len(o) = 1
      BY <1>1, <3>1, <3>2, Zenon
    <3>4. 1 \in 1..Len(o)
      BY <3>3
    <3> QED
      BY <1>1, <3>3, <3>4, ElementOfSeq
  <2>2. <<o[1]>> \in Seq(Nodes) /\ Len(<<o[1]>>) = 1 /\ <<o[1]>>[1] = o[1]
    BY <2>1
  <2> DEFINE t == <<o[1]>>
  <2> HIDE DEF t
  <2>3. t \in Seq(Nodes) /\ Len(o) = Len(t) /\ \A i \in 1..Len(o) : o[i] = t[i]
    BY <2>1, <2>2 DEF t
  <2>4. o = t
    BY <1>1, <2>3, SeqEqual
  <2> QED
    BY <2>1, <2>4 DEF t
<1>5. ToSet(s) \subseteq Nodes
  BY <1>1 DEF ToSet
<1> QED
  BY <1>1, <1>2, <1>3, <1>4, <1>5 DEF s, o

LEMMA AsksAre ==
  ASSUME NEW r \in Requests, ask[r] \in Asks
  PROVE  /\ Indices(r) \subseteq Nat
         /\ \A j \in Indices(r) : Dest(r, j) \in DOMAIN Place /\ Dest(r, j) \in Dests
         /\ Len(ask[r].origins) \in Nat
         /\ \A i \in 1..Len(ask[r].origins) : ask[r].origins[i] \in DOMAIN Place
<1> DEFINE os == ask[r].origins
           ds == ask[r].dests
<1>1. os \in Seq(DOMAIN Place) /\ ds \in Seq(DOMAIN Place)
  BY AsksAssumption
<1>2. ToSet(ds) \subseteq Dests
  BY DEF Dests
<1> HIDE DEF os, ds
<1>3. /\ DOMAIN ds \subseteq Nat /\ \A j \in DOMAIN ds : ds[j] \in DOMAIN Place
      /\ Len(os) \in Nat /\ \A i \in 1..Len(os) : os[i] \in DOMAIN Place
  BY <1>1
<1>4. \A j \in DOMAIN ds : ds[j] \in Dests
  BY <1>2 DEF ToSet
<1> QED
  BY <1>3, <1>4 DEF os, ds, Indices, Dest

\* What holds of an element while the search was cut short or not, holds when it was.
LEMMA StillHolds ==
  ASSUME NEW v, NEW dests, NEW a, NEW j, NEW element, NEW short, NEW more, short => more,
         Holds(v, dests, a, j, element, short)
  PROVE  Holds(v, dests, a, j, element, more)
  BY DEF Holds, Excused

LEMMA InvGives ==
  ASSUME Inv
  PROVE  TypeOK /\ ElementsAreTrue /\ SnapsNearest
<1>1. TypeOK
  <2>1. deployed \in Version /\ \A k \in DOMAIN legs : legs[k] \in Leg \cup {None}
    BY DEF Inv, Shared
  <2>2. ASSUME NEW r \in Requests
        PROVE  /\ version[r] \in 1..deployed
               /\ cached[r] \in LegsOf(r) /\ computed[r] \in LegsOf(r)
               /\ \A j \in Indices(r) : cached[r][j] = None \/ computed[r][j] = None
               /\ pc[r] = "answered" <=> status[r] # None
               /\ pc[r] \in {"origin", "search", "write", "overlay"} => Len(rows[r]) = at[r] - 1
               /\ \A i \in DOMAIN rows[r] : rows[r][i] \in [Indices(r) -> Element]
    <3>1. version[r] \in Version /\ version[r] <= deployed
      BY DEF Inv, Shared, Request, Types
    <3>2. version[r] \in 1..deployed
      BY <2>1, <3>1, LimitsAssumption DEF Version
    <3>3. Types(r) /\ Turn(r) /\ Held(r)
      BY DEF Inv, Request
    <3>4. \A i \in DOMAIN rows[r] : rows[r][i] \in [Indices(r) -> Element]
      BY <3>3 DEF Types
    <3> QED
      BY <3>2, <3>3, <3>4 DEF Types, Turn, Held
  <2> QED
    BY <2>1, <2>2 DEF TypeOK
<1>2. ElementsAreTrue
  <2> SUFFICES ASSUME NEW r \in Requests, NEW i \in DOMAIN rows[r], NEW j \in Indices(r)
               PROVE  True(r, ask[r].origins[i], j, rows[r][i][j])
    BY DEF ElementsAreTrue
  <2>1. Holds(version[r], ask[r].dests, ask[r].origins[i], j, rows[r][i][j], cut[r])
    BY DEF Inv, Request, Rowed
  <2> QED
    BY <2>1 DEF True, Holds, Excused, Own, OwnReached, Dest
<1>3. SnapsNearest
  <2> SUFFICES ASSUME NEW r \in Requests,
                      NEW q \in ToSet(ask[r].origins) \cup ToSet(ask[r].dests), Place[q] # NOT_FOUND,
                      NEW k \in {1, SNAP_K}
               PROVE  NearestFirst(version[r], Place[q], SnapsOf(version[r], q, k))
    BY DEF SnapsNearest
  <2>1. version[r] \in Version /\ ask[r] \in Asks
    BY DEF Inv, Request, Types
  <2>2. q \in DOMAIN Place
    <3> DEFINE os == ask[r].origins
               ds == ask[r].dests
    <3>1. os \in Seq(DOMAIN Place) /\ ds \in Seq(DOMAIN Place)
      BY <2>1, AsksAssumption
    <3> HIDE DEF os, ds
    <3>2. ToSet(os) \subseteq DOMAIN Place /\ ToSet(ds) \subseteq DOMAIN Place
      BY <3>1 DEF ToSet
    <3> QED
      BY <3>2 DEF os, ds
  <2> QED
    BY <2>1, <2>2, SnapsAre
<1> QED
  BY <1>1, <1>2, <1>3
-----------------------------------------------------------------------------
(* The steps.                                                              *)

Others(r) ==
    \A o \in Requests \ {r} :
        UNCHANGED <<pc[o], version[o], at[o], cached[o], computed[o], rows[o], status[o], cut[o]>>

LEMMA InitInv == Init => Inv
<1> SUFFICES ASSUME Init PROVE Inv
  OBVIOUS
<1>1. Cache
  BY InitCache
<1>2. Shared
  <2>1. 1 \in Version
    BY LimitsAssumption DEF Version
  <2>2. legs \in [Version \X Nodes \X Nodes -> Leg \cup {None}]
    BY DEF Init
  <2> QED
    BY <2>1, <2>2 DEF Init, Shared, NoLegs, Version
<1>3. ASSUME NEW r \in Requests PROVE Request(r)
  <2>1. ask[r] \in Asks /\ pc[r] = "idle" /\ version[r] = 1 /\ at[r] = 1 /\ rows[r] = <<>> /\ status[r] = None
    BY DEF Init
  <2>2. /\ cached[r] = [j \in Indices(r) |-> None] /\ computed[r] = [j \in Indices(r) |-> None]
    BY DEF Init, NoLegs, Indices
  <2>3. Types(r)
    <3>1. 1 \in Version
      BY LimitsAssumption DEF Version
    <3>2. cached[r] \in LegsOf(r) /\ computed[r] \in LegsOf(r)
      BY <2>2 DEF LegsOf
    <3>3. <<>> \in Seq([Indices(r) -> Element])
      OBVIOUS
    <3> QED
      BY <2>1, <3>1, <3>2, <3>3 DEF Types
  <2>4. Turn(r)
    BY <2>1 DEF Turn
  <2>5. Held(r)
    BY <2>1, <2>2 DEF Held
  <2>6. Rowed(r)
    BY <2>1 DEF Rowed
  <2> QED
    BY <2>3, <2>4, <2>5, <2>6 DEF Request
<1> QED
  BY <1>1, <1>2, <1>3 DEF Inv

\* A step of one request leaves the others as they were.
LEMMA StepInv ==
  ASSUME Inv, NEW r \in Requests, Cache', Shared', Request(r)', UNCHANGED ask, Others(r)
  PROVE  Inv'
<1>1. ASSUME NEW o \in Requests PROVE Request(o)'
  <2>1. CASE o = r
    BY <2>1
  <2>2. CASE o # r
    <3>1. UNCHANGED <<ask, pc[o], version[o], at[o], cached[o], computed[o], rows[o], status[o], cut[o]>>
      BY <2>2 DEF Others
    <3>2. Types(o) /\ Turn(o) /\ Held(o) /\ Rowed(o)
      BY DEF Inv, Request
    <3>3. Types(o)'
      BY <3>1, <3>2 DEF Types, LegsOf, Indices
    <3>4. Turn(o)'
      BY <3>1, <3>2 DEF Turn, Source, Origin
    <3>5. Held(o)'
      BY <3>1, <3>2 DEF Held, Indices, Origin, Dest, Target
    <3>6. Rowed(o)'
      BY <3>1, <3>2 DEF Rowed, Indices
    <3> QED
      BY <3>3, <3>4, <3>5, <3>6 DEF Request
  <2> QED
    BY <2>1, <2>2
<1> QED
  BY <1>1 DEF Inv

LEMMA StatusIs ==
  ASSUME NEW s \in Status
  PROVE  s # None /\ "healthy" # None /\ "unhealthy" # None
  BY NoneAssumption DEF Status

\* A request that has answered has its rows only.
LEMMA RespondIs ==
  ASSUME Inv, NEW r \in Requests, NEW table, NEW s \in Status, Respond(r, table, s)
  PROVE  /\ pc'[r] = "answered" /\ rows'[r] = table /\ status'[r] # None
         /\ rows' = [o \in Requests |-> rows'[o]] /\ status' = [o \in Requests |-> status'[o]]
         /\ \A o \in Requests \ {r} : UNCHANGED <<pc[o], rows[o], status[o]>>
<1>1. /\ pc = [o \in Requests |-> pc[o]] /\ rows = [o \in Requests |-> rows[o]]
      /\ status = [o \in Requests |-> status[o]]
  BY DEF Inv, Cache, Tables, Shared
<1>2. pc' = [pc EXCEPT ![r] = "answered"] /\ rows' = [rows EXCEPT ![r] = table]
  BY DEF Respond, Goto
<1>3. PICK t : status' = [status EXCEPT ![r] = t] /\ t \in {s, "healthy", "unhealthy"}
  BY Zenon DEF Respond
<1>4. t # None
  BY <1>3, StatusIs
<1> QED
  BY <1>1, <1>2, <1>3, <1>4

\* Such a request, of a version and with legs that are of their types.
LEMMA AnsweredInv ==
  ASSUME Inv, NEW r \in Requests, NEW table, NEW s \in Status, Respond(r, table, s),
         UNCHANGED <<ask, deployed, legs>>, Cache',
         version'[r] \in Version, version'[r] <= deployed,
         cached'[r] \in LegsOf(r), computed'[r] \in LegsOf(r),
         \A j \in Indices(r) : cached'[r][j] = None \/ computed'[r][j] = None,
         \A j \in Indices(r) : cached'[r][j] # None =>
            Leads(version'[r], ask[r].origins[at'[r]], Dest(r, j), cached'[r][j]),
         cached' = [o \in Requests |-> cached'[o]], UNCHANGED cut,
         \A o \in Requests \ {r} : UNCHANGED <<version[o], at[o], cached[o], computed[o]>>,
         table \in Seq([Indices(r) -> Element]),
         \A i \in DOMAIN table : \A j \in Indices(r) :
            Holds(version'[r], ask[r].dests, ask[r].origins[i], j, table[i][j], cut[r])
  PROVE  Inv'
<1>1. /\ pc'[r] = "answered" /\ rows'[r] = table /\ status'[r] # None
      /\ rows' = [o \in Requests |-> rows'[o]] /\ status' = [o \in Requests |-> status'[o]]
      /\ \A o \in Requests \ {r} : UNCHANGED <<pc[o], rows[o], status[o]>>
  BY RespondIs
<1>2. Others(r)
  BY <1>1 DEF Others
<1>3. Shared'
  <2>1. \A o \in Requests : version'[o] <= deployed
    BY DEF Inv, Shared
  <2> QED
    BY <1>1, <2>1 DEF Inv, Shared
<1>4. Types(r)'
  <2>1. ask[r] \in Asks
    BY DEF Inv, Request, Types
  <2> QED
    BY <1>1, <2>1 DEF Types, LegsOf, Indices
<1>5. Turn(r)'
  BY <1>1 DEF Turn
<1>6. Held(r)'
  BY <1>1 DEF Held, Indices, Origin, Dest
<1>7. Rowed(r)'
  BY <1>1 DEF Rowed, Indices
<1> QED
  BY <1>2, <1>3, <1>4, <1>5, <1>6, <1>7, StepInv DEF Request

\* A step that only moves a request on, or makes it read or search.
LEMMA MovedInv ==
  ASSUME Inv, NEW r \in Requests, UNCHANGED <<ask, deployed, rows, status>>, Cache', Others(r),
         Shared', pc[r] \in {"wasm", "origin", "search", "write"},
         pc'[r] \in {"origin", "search", "write", "overlay"},
         UNCHANGED <<version[r], at[r]>>, cut[r] => cut'[r],
         pc'[r] # "origin" => Source(r) # None,
         cached'[r] \in LegsOf(r), computed'[r] \in LegsOf(r), Held(r)'
  PROVE  Inv'
<1>1. Types(r) /\ Turn(r) /\ Rowed(r)
  BY DEF Inv, Request
<1>2. Types(r)'
  BY <1>1 DEF Types, LegsOf, Indices
<1>3. Turn(r)'
  <2>1. at[r] \in 1..Len(ask[r].origins) /\ Len(rows[r]) = at[r] - 1
    <3>1. CASE pc[r] = "wasm"
      <4>1. at[r] = 1 /\ rows[r] = <<>> /\ Len(ask[r].origins) = 1
        BY <1>1, <3>1 DEF Turn
      <4>2. Len(rows[r]) = 0
        BY <4>1
      <4> QED
        BY <4>1, <4>2
    <3>2. CASE pc[r] # "wasm"
      BY <1>1, <3>2 DEF Turn
    <3> QED
      BY <3>1, <3>2
  <2> QED
    BY <2>1 DEF Turn, Source, Origin
<1>4. Rowed(r)'
  <2> SUFFICES ASSUME NEW i \in DOMAIN rows[r], NEW j \in Indices(r)
               PROVE  Holds(version[r], ask[r].dests, ask[r].origins[i], j, rows[r][i][j], cut'[r])
    BY DEF Rowed, Indices
  <2>1. Holds(version[r], ask[r].dests, ask[r].origins[i], j, rows[r][i][j], cut[r])
    BY <1>1 DEF Rowed
  <2> QED
    BY <2>1, StillHolds
<1> QED
  BY <1>2, <1>3, <1>4, StepInv DEF Request
LEMMA BeginInv == ASSUME Inv, NEW r \in Requests, Begin(r) PROVE Inv'
<1> DEFINE a == ask[r]
<1>1. Cache'
  BY BeginCache DEF Inv
<1>2. /\ UNCHANGED <<deployed, legs, ask, at, cached, computed, cut>> /\ pc[r] = "idle"
      /\ version' = [version EXCEPT ![r] = deployed]
  BY DEF Begin
<1>3. /\ Types(r) /\ Turn(r) /\ Held(r) /\ Shared /\ deployed \in Version /\ deployed \in Nat
      /\ version = [o \in Requests |-> version[o]]
  BY LimitsAssumption DEF Inv, Request, Shared, Cache, Tables, Version
<1>4. /\ version'[r] = deployed /\ \A o \in Requests : version'[o] <= deployed
      /\ \A o \in Requests \ {r} : version'[o] = version[o]
  BY <1>2, <1>3 DEF Shared
<1>5. /\ cached[r] \in LegsOf(r) /\ computed[r] \in LegsOf(r)
      /\ \A j \in Indices(r) : cached[r][j] = None /\ computed[r][j] = None
  BY <1>2, <1>3 DEF Types, Held
<1>6. ASSUME NEW s \in Status, Respond(r, <<>>, s) PROVE Inv'
  <2>1. <<>> \in Seq([Indices(r) -> Element]) /\ DOMAIN <<>> = {}
    OBVIOUS
  <2>2. version'[r] \in Version /\ version'[r] <= deployed
    BY <1>3, <1>4
  <2>3. cached' = [o \in Requests |-> cached'[o]]
    BY <1>2, <1>3 DEF Shared
  <2> QED
    BY <1>1, <1>2, <1>4, <1>5, <1>6, <2>1, <2>2, <2>3, AnsweredInv
<1>7. ASSUME a.origins # <<>>,
             Goto(r, IF Len(a.origins) = 1 /\ a.router # "ts" /\ (a.router = "wasm" \/ Close(a))
                     THEN "wasm" ELSE "origin"),
             UNCHANGED <<rows, status>>
      PROVE  Inv'
  <2>1. /\ (pc'[r] = "wasm" /\ Len(a.origins) = 1) \/ pc'[r] = "origin"
        /\ pc' = [o \in Requests |-> pc'[o]] /\ \A o \in Requests \ {r} : pc'[o] = pc[o]
    BY <1>7 DEF Inv, Cache, Tables, Goto
  <2>2. Others(r)
    BY <1>2, <1>4, <1>7, <2>1 DEF Others
  <2>3. Shared'
    BY <1>2, <1>3, <1>4, <1>7 DEF Shared
  <2>4. at[r] = 1 /\ rows[r] = <<>>
    BY <1>2, <1>3 DEF Turn
  <2>5. Types(r)'
    BY <1>2, <1>3, <1>4, <1>7, <2>1 DEF Types, LegsOf, Indices
  <2>6. Turn(r)'
    <3>1. 1 \in 1..Len(a.origins)
      <4>1. a.origins \in Seq(DOMAIN Place)
        BY <1>3, AsksAssumption DEF Types
      <4> HIDE DEF a
      <4>2. Len(a.origins) \in Nat \ {0}
        BY <1>7, <4>1, EmptySeq
      <4> QED
        BY <4>2
    <3>2. Len(rows[r]) = 1 - 1
      BY <2>4
    <3> QED
      BY <1>2, <1>7, <2>1, <2>4, <3>1, <3>2 DEF Turn
  <2>7. Held(r)'
    BY <1>2, <1>5, <2>1 DEF Held, Indices
  <2>8. Rowed(r)'
    BY <1>7, <2>4 DEF Rowed
  <2> QED
    BY <1>1, <1>2, <2>2, <2>3, <2>5, <2>6, <2>7, <2>8, StepInv DEF Request
<1>8. "INVALID_REQUEST" \in Status /\ "MAX_ELEMENTS_EXCEEDED" \in Status
  BY DEF Status
<1>9. \/ Respond(r, <<>>, "INVALID_REQUEST") \/ Respond(r, <<>>, "MAX_ELEMENTS_EXCEEDED")
      \/ /\ a.origins # <<>>
         /\ Goto(r, IF Len(a.origins) = 1 /\ a.router # "ts" /\ (a.router = "wasm" \/ Close(a))
                    THEN "wasm" ELSE "origin")
         /\ UNCHANGED <<rows, status>>
  BY Zenon DEF Begin
<1> QED
  BY <1>6, <1>7, <1>8, <1>9

LEMMA ThrowsInv == ASSUME Inv, NEW r \in Requests, Throws(r) PROVE Inv'
<1>1. Cache'
  BY WasmCache DEF Inv
<1>2. /\ UNCHANGED <<deployed, legs, ask, version, at, cached, computed, cut>>
      /\ Respond(r, <<>>, "thrown") /\ "thrown" \in Status
  BY DEF Throws, Fail, Status
<1>3. /\ version[r] \in Version /\ version[r] <= deployed
      /\ cached[r] \in LegsOf(r) /\ computed[r] \in LegsOf(r)
      /\ cached = [o \in Requests |-> cached[o]]
  BY DEF Inv, Request, Types, Shared
<1>4. /\ \A j \in Indices(r) : cached[r][j] = None \/ computed[r][j] = None
      /\ \A j \in Indices(r) : cached[r][j] # None =>
            Leads(version[r], ask[r].origins[at[r]], Dest(r, j), cached[r][j])
  BY DEF Inv, Request, Held, Origin
<1>5. <<>> \in Seq([Indices(r) -> Element]) /\ DOMAIN <<>> = {}
  OBVIOUS
<1> QED
  BY <1>1, <1>2, <1>3, <1>4, <1>5, AnsweredInv

\* The WASM search is left for the tiles, or its module is loaded first.
LEMMA LeaveWasmInv ==
  ASSUME Inv, NEW r \in Requests, Cache', pc[r] = "wasm", Goto(r, "origin"),
         UNCHANGED <<deployed, legs, ask, version, at, cached, computed, rows, status, cut>>
  PROVE  Inv'
<1>1. /\ pc'[r] = "origin" /\ \A o \in Requests \ {r} : pc'[o] = pc[o]
  BY DEF Inv, Cache, Tables, Goto
<1>2. Others(r)
  BY <1>1 DEF Others
<1>3. Shared'
  BY DEF Inv, Shared
<1>4. Types(r) /\ Held(r)
  BY DEF Inv, Request
<1>5. Held(r)'
  BY <1>1, <1>4 DEF Held, Indices, Origin, Dest
<1>6. cached[r] \in LegsOf(r) /\ computed[r] \in LegsOf(r)
  BY <1>4 DEF Types
<1> QED
  BY <1>1, <1>2, <1>3, <1>5, <1>6, MovedInv

\* What the search of WASM answers with is true, and of its types.
LEMMA WasmRowTrue ==
  ASSUME Inv, NEW r \in Requests, pc[r] = "wasm", WasmFits(r), NEW R \in Traversals(r),
         AllReached(r, R), NEW j \in Indices(r)
  PROVE  /\ WasmElement(r, j, R) \in Element
         /\ Holds(version[r], ask[r].dests, ask[r].origins[1], j, WasmElement(r, j, R), cut[r])
<1> DEFINE v == version[r]
           a == ask[r].origins[1]
           b == ask[r].dests[j]
           from == WasmSnap(r, a)
           to == WasmSnap(r, b)
           e == WasmElement(r, j, R)
<1>1. Types(r) /\ Turn(r)
  BY DEF Inv, Request
<1>2. v \in Version /\ ask[r] \in Asks /\ at[r] = 1 /\ Len(ask[r].origins) = 1
  BY <1>1 DEF Types, Turn
<1>3. a \in DOMAIN Place /\ b \in DOMAIN Place
  <2>1. 1 \in 1..Len(ask[r].origins)
    BY <1>2
  <2> QED
    BY <1>2, <2>1, AsksAre DEF Dest
<1>4. Origin(r) = a /\ Dest(r, j) = b
  BY <1>2 DEF Origin, Dest
<1>5. from # None
  BY <1>4 DEF WasmFits
<1> DEFINE sa == SnapsOf(v, a, 1)
           sb == SnapsOf(v, b, 1)
<1>6. from = (IF sa = <<>> THEN None ELSE sa[1]) /\ to = (IF sb = <<>> THEN None ELSE sb[1])
  BY DEF WasmSnap
<1>7. /\ Top1(v, a) = None <=> sa = <<>>
      /\ Top1(v, b) = None <=> sb = <<>>
      /\ sa # <<>> => sa[1] \in Nodes /\ sa = <<sa[1]>>
      /\ sb # <<>> => sb[1] \in Nodes /\ sb = <<sb[1]>>
  BY <1>2, <1>3, FirstsAre
<1>8. None \notin Nodes
  BY NoneAssumption
<1>9. j \in Routable(r) <=> to # None
  BY <1>4 DEF Routable
<1>10. to # None => to \in R
  BY <1>4, <1>9 DEF AllReached
<1>11. e = IF to = None THEN <<"NOT_FOUND", None>>
           ELSE <<"OK", [from |-> from, to |-> to, by |-> "wasm"]>>
  <2>1. e = IF j \notin Routable(r) THEN <<"NOT_FOUND", None>>
            ELSE IF to \notin R THEN <<"ZERO_RESULTS", None>>
            ELSE <<"OK", [from |-> from, to |-> to, by |-> "wasm"]>>
    BY <1>4, Zenon DEF WasmElement
  <2> HIDE DEF e, from, to
  <2> QED
    BY <1>9, <1>10, <2>1
<1>12. to \in R => <<from, to>> \in Reach[v]
  <2> HAVE to \in R
  <2>1. R \subseteq {WasmSnap(r, Dest(r, i)) : i \in
            {i \in Routable(r) : <<WasmSnap(r, Origin(r)), WasmSnap(r, Dest(r, i))>> \in Reach[v]}}
    BY DEF Traversals
  <2> QED
    BY <1>4, <2>1
<1> HIDE DEF e, from, to, sa, sb, v, a, b
<1>13. CASE to = None
  <2>1. e = <<"NOT_FOUND", None>> /\ Unplaced(v, a, b)
    BY <1>6, <1>7, <1>8, <1>11, <1>13 DEF Unplaced
  <2>2. e \in Element
    BY <2>1 DEF Element
  <2>3. Holds(v, ask[r].dests, a, j, e, cut[r])
    BY <2>1 DEF Holds, b
  <2> QED
    BY <2>2, <2>3 DEF e, v, a
<1>14. CASE to # None
  <2> DEFINE leg == [from |-> from, to |-> to, by |-> "wasm"]
  <2>1. e = <<"OK", leg>> /\ sa # <<>> /\ sb # <<>> /\ from = sa[1] /\ to = sb[1]
    BY <1>5, <1>6, <1>11, <1>14
  <2>2. from \in Nodes /\ to \in Nodes /\ sa = <<from>> /\ sb = <<to>> /\ ~Unplaced(v, a, b)
    BY <1>7, <2>1 DEF Unplaced
  <2>3. leg \in Leg
    BY <2>2 DEF Leg
  <2>4. Leads(v, a, b, leg)
    <3>1. leg.by = "wasm" /\ leg.from = from /\ leg.to = to
      OBVIOUS
    <3>2. <<leg.from>> = SnapsOf(v, a, 1) /\ <<leg.to>> = SnapsOf(v, b, 1)
      BY <2>2, <3>1 DEF sa, sb
    <3>3. <<leg.from, leg.to>> \in Reach[v]
      BY <1>10, <1>12, <1>14, <3>1
    <3> QED
      BY <3>1, <3>2, <3>3 DEF Leads
  <2> HIDE DEF leg
  <2>5. e \in Element
    BY <2>1, <2>3 DEF Element
  <2>6. Holds(v, ask[r].dests, a, j, e, cut[r])
    BY <2>1, <2>2, <2>4 DEF Holds, b
  <2> QED
    BY <2>5, <2>6 DEF e, v, a
<1> QED
  BY <1>13, <1>14

LEMMA RunWasmInv == ASSUME Inv, NEW r \in Requests, RunWasm(r) PROVE Inv'
<1>1. Cache'
  BY WasmCache DEF Inv
<1>2. /\ UNCHANGED <<deployed, legs, ask, version, at, cached, computed, cut>>
      /\ pc[r] = "wasm" /\ WasmFits(r)
  BY DEF RunWasm
<1>3. PICK R \in Traversals(r) :
        IF AllReached(r, R)
        THEN Respond(r, <<[j \in Indices(r) |-> WasmElement(r, j, R)]>>, "OK")
        ELSE Goto(r, "origin") /\ UNCHANGED <<rows, status>>
  BY DEF RunWasm
<1>4. CASE ~AllReached(r, R)
  BY <1>1, <1>2, <1>3, <1>4, LeaveWasmInv
<1>5. CASE AllReached(r, R)
  <2> DEFINE row == [j \in Indices(r) |-> WasmElement(r, j, R)]
  <2>1. \A j \in Indices(r) :
            /\ row[j] \in Element
            /\ Holds(version[r], ask[r].dests, ask[r].origins[1], j, row[j], cut[r])
    BY <1>2, <1>5, WasmRowTrue
  <2>2. row \in [Indices(r) -> Element]
    BY <2>1
  <2>3. Respond(r, <<row>>, "OK") /\ "OK" \in Status
    BY <1>3, <1>5 DEF Status
  <2> HIDE DEF row
  <2>4. <<row>> \in Seq([Indices(r) -> Element]) /\ DOMAIN <<row>> = {1} /\ <<row>>[1] = row
    BY <2>2
  <2>5. \A i \in DOMAIN <<row>> : \A j \in Indices(r) :
            Holds(version[r], ask[r].dests, ask[r].origins[i], j, <<row>>[i][j], cut[r])
    BY <2>1, <2>4
  <2>6. /\ version[r] \in Version /\ version[r] <= deployed
        /\ cached[r] \in LegsOf(r) /\ computed[r] \in LegsOf(r)
        /\ cached = [o \in Requests |-> cached[o]]
    BY DEF Inv, Request, Types, Shared
  <2>7. \A j \in Indices(r) : cached[r][j] = None
    BY <1>2 DEF Inv, Request, Held
  <2> QED
    BY <1>1, <1>2, <2>3, <2>4, <2>5, <2>6, <2>7, AnsweredInv
<1> QED
  BY <1>4, <1>5

LEMMA WasmInv == ASSUME Inv, NEW r \in Requests, LoadWasm(r) \/ SkipWasm(r) PROVE Inv'
<1>1. Cache'
  BY WasmCache DEF Inv
<1>2. CASE LoadWasm(r)
  <2>1. UNCHANGED <<deployed, legs, pc, ask, version, at, cached, computed, rows, status, cut>>
    BY <1>2 DEF LoadWasm, progress
  <2>2. Others(r) /\ Request(r) /\ Shared
    BY <2>1 DEF Others, Inv
  <2>3. Shared'
    BY <2>1, <2>2 DEF Shared
  <2>4. Request(r)'
    BY <2>1, <2>2 DEF Request, Types, Turn, Held, Rowed, LegsOf, Indices, Source, Target, Origin, Dest
  <2> QED
    BY <1>1, <2>1, <2>2, <2>3, <2>4, StepInv
<1>3. CASE SkipWasm(r)
  BY <1>1, <1>3, LeaveWasmInv DEF SkipWasm, progress
<1> QED
  BY <1>2, <1>3
-----------------------------------------------------------------------------
\* A row that is added for the origin at hand.
LEMMA NextOriginInv ==
  ASSUME Inv, NEW r \in Requests, NEW row, NextOrigin(r, row), Cache',
         pc[r] \in {"origin", "search", "write", "overlay"},
         UNCHANGED <<deployed, legs, ask, version, cut>>,
         row \in [Indices(r) -> Element],
         \A j \in Indices(r) : Holds(version[r], ask[r].dests, Origin(r), j, row[j], cut[r])
  PROVE  Inv'
<1> DEFINE n == Len(ask[r].origins)
           table == Append(rows[r], row)
<1>1. /\ Types(r) /\ Turn(r) /\ Rowed(r) /\ Shared
      /\ at = [o \in Requests |-> at[o]] /\ computed = [o \in Requests |-> computed[o]]
      /\ pc = [o \in Requests |-> pc[o]]
  BY DEF Inv, Request, Cache, Tables
<1>2. /\ at[r] \in 1..n /\ n \in Nat /\ Len(rows[r]) = at[r] - 1
      /\ rows[r] \in Seq([Indices(r) -> Element]) /\ version[r] \in Version /\ ask[r] \in Asks
  <2>1. at[r] \in 1..n /\ Len(rows[r]) = at[r] - 1
    BY <1>1 DEF Turn
  <2>2. rows[r] \in Seq([Indices(r) -> Element]) /\ version[r] \in Version /\ ask[r] \in Asks
    BY <1>1 DEF Types
  <2>3. n \in Nat
    BY <2>2, AsksAre
  <2> QED
    BY <2>1, <2>2, <2>3
<1>3. /\ table \in Seq([Indices(r) -> Element]) /\ Len(table) = at[r] /\ DOMAIN table = 1..at[r]
      /\ \A i \in 1..at[r] : table[i] = IF i < at[r] THEN rows[r][i] ELSE row
      /\ DOMAIN rows[r] = 1..(at[r] - 1)
  <2> DEFINE T == [Indices(r) -> Element]
             s == rows[r]
  <2>1. s \in Seq(T) /\ row \in T /\ Len(s) = at[r] - 1 /\ at[r] \in Nat
    BY <1>2
  <2> HIDE DEF T, s
  <2>2. /\ Append(s, row) \in Seq(T) /\ Len(Append(s, row)) = Len(s) + 1
        /\ \A i \in 1..Len(s) : Append(s, row)[i] = s[i]
        /\ Append(s, row)[Len(s) + 1] = row
    BY <2>1, AppendProperties
  <2> DEFINE u == Append(s, row)
  <2> HIDE DEF u
  <2>3. /\ u \in Seq(T) /\ Len(u) = at[r] /\ DOMAIN u = 1..at[r] /\ DOMAIN s = 1..(at[r] - 1)
        /\ \A i \in 1..at[r] : u[i] = IF i < at[r] THEN s[i] ELSE row
    BY <2>1, <2>2 DEF u
  <2> QED
    BY <2>3 DEF u, s, T
<1> HIDE DEF table
<1>4. ASSUME NEW i \in DOMAIN table, NEW j \in Indices(r)
      PROVE  Holds(version[r], ask[r].dests, ask[r].origins[i], j, table[i][j], cut[r])
  <2>1. CASE i < at[r]
    <3>1. i \in DOMAIN rows[r] /\ table[i] = rows[r][i]
      BY <1>2, <1>3, <2>1
    <3> QED
      BY <1>1, <3>1 DEF Rowed
  <2>2. CASE ~(i < at[r])
    <3>1. i = at[r] /\ table[i] = row
      BY <1>2, <1>3, <2>2
    <3> QED
      BY <3>1 DEF Origin
  <2> QED
    BY <2>1, <2>2
<1>5. /\ cached' = [cached EXCEPT ![r] = NoLegs[r]] /\ computed' = [computed EXCEPT ![r] = NoLegs[r]]
      /\ at' = [at EXCEPT ![r] = IF @ < n THEN @ + 1 ELSE @]
  BY DEF NextOrigin
<1>6. NoLegs[r] = [j \in Indices(r) |-> None]
  BY DEF NoLegs, Indices
<1>7. /\ \A j \in Indices(r) : cached'[r][j] = None /\ computed'[r][j] = None
      /\ cached'[r] \in LegsOf(r) /\ computed'[r] \in LegsOf(r)
      /\ cached' = [o \in Requests |-> cached'[o]]
      /\ at'[r] = IF at[r] < n THEN at[r] + 1 ELSE at[r]
      /\ \A o \in Requests \ {r} : UNCHANGED <<at[o], cached[o], computed[o]>>
  BY <1>1, <1>5, <1>6 DEF Shared, LegsOf
<1>8. CASE at[r] < n
  <2>1. /\ Goto(r, "origin") /\ rows' = [rows EXCEPT ![r] = Append(@, row)] /\ UNCHANGED status
    BY <1>8 DEF NextOrigin
  <2>2. /\ pc'[r] = "origin" /\ \A o \in Requests \ {r} : UNCHANGED <<pc[o], rows[o]>>
        /\ rows'[r] = table /\ rows' = [o \in Requests |-> rows'[o]]
    BY <1>1, <2>1 DEF Goto, Shared, table
  <2>3. Others(r)
    BY <1>7, <2>1, <2>2 DEF Others
  <2>4. Shared'
    BY <1>1, <1>7, <2>1, <2>2 DEF Shared
  <2>5. Types(r)'
    BY <1>1, <1>3, <1>7, <2>1, <2>2 DEF Types, LegsOf, Indices
  <2>6. Turn(r)'
    <3>1. at[r] + 1 \in 1..n /\ Len(table) = (at[r] + 1) - 1
      BY <1>2, <1>3, <1>8
    <3> QED
      BY <1>7, <1>8, <2>2, <3>1 DEF Turn
  <2>7. Held(r)'
    BY <1>7, <2>2 DEF Held, Indices
  <2>8. Rowed(r)'
    BY <1>4, <2>2 DEF Rowed, Indices
  <2> QED
    BY <2>3, <2>4, <2>5, <2>6, <2>7, <2>8, StepInv DEF Request
<1>9. CASE ~(at[r] < n)
  <2>1. Respond(r, table, "OK") /\ "OK" \in Status
    BY <1>9 DEF NextOrigin, Status, table
  <2>2. version[r] <= deployed
    BY <1>1 DEF Shared
  <2> QED
    BY <1>2, <1>3, <1>4, <1>7, <2>1, <2>2, AnsweredInv
<1> QED
  BY <1>8, <1>9

LEMMA NoOriginInv == ASSUME Inv, NEW r \in Requests, NoOrigin(r) PROVE Inv'
<1> DEFINE row == [j \in Indices(r) |-> <<"NOT_FOUND", None>>]
<1>1. Cache'
  BY OriginCache DEF Inv
<1>2. /\ pc[r] = "origin" /\ Source(r) = None /\ NextOrigin(r, row)
      /\ UNCHANGED <<deployed, legs, ask, version, cut>>
  BY DEF NoOrigin
<1>3. row \in [Indices(r) -> Element] /\ \A j \in Indices(r) : row[j] = <<"NOT_FOUND", None>>
  BY DEF Element
<1> HIDE DEF row
<1>4. ASSUME NEW j \in Indices(r)
      PROVE  Holds(version[r], ask[r].dests, Origin(r), j, row[j], cut[r])
  BY <1>2, <1>3 DEF Holds, Unplaced, Source
<1> QED
  BY <1>1, <1>2, <1>3, <1>4, NextOriginInv

\* The cache has legs of the version, from the origin to where they serve.
LEMMA CachedLeads ==
  ASSUME Inv, NEW r \in Requests, pc[r] = "origin", Source(r) # None,
         NEW j \in Indices(r), Target(r, j) # None, legs[LegCacheKey(r, j)] # None
  PROVE  /\ legs[LegCacheKey(r, j)] \in Leg
         /\ Leads(version[r], Origin(r), Dest(r, j), legs[LegCacheKey(r, j)])
<1> DEFINE v == version[r]
           k == LegCacheKey(r, j)
           leg == legs[k]
<1>1. Types(r) /\ Turn(r) /\ CachedLegsServe /\ legs \in [Version \X Nodes \X Nodes -> Leg \cup {None}]
  BY DEF Inv, Request, Cache, Shared
<1>2. v \in Version /\ ask[r] \in Asks /\ at[r] \in 1..Len(ask[r].origins)
  BY <1>1 DEF Types, Turn
<1>3. Origin(r) \in DOMAIN Place /\ Dest(r, j) \in DOMAIN Place
  BY <1>2, AsksAre DEF Origin
<1>4. Source(r) \in Nodes /\ Target(r, j) \in Nodes
  BY <1>2, <1>3, FirstsAre DEF Source, Target
<1>5. k \in Version \X Nodes \X Nodes /\ k[1] = v /\ k[2] = Source(r) /\ k[3] = Target(r, j)
  BY <1>2, <1>4 DEF LegCacheKey
<1> HIDE DEF k
<1>6. leg \in Leg /\ k \in DOMAIN legs /\ leg # None
  <2>1. legs[k] # None
    BY DEF k
  <2> QED
    BY <1>1, <1>5, <2>1
<1>7. /\ leg.by = "L0" /\ leg.from = k[2] /\ <<k[2], leg.to>> \in Reach[k[1]]
      /\ \E q \in Dests : Top1(k[1], q) = k[3] /\ leg.to \in Candidates(k[1], q)
  BY <1>1, <1>6 DEF CachedLegsServe
<1>8. PICK q \in Dests : Top1(v, q) = Target(r, j) /\ leg.to \in Candidates(v, q)
  BY <1>5, <1>7
<1>9. leg.to \in EndsOf(v, Dest(r, j))
  BY <1>8 DEF EndsOf, Target
<1>10. Leads(v, Origin(r), Dest(r, j), leg)
  BY <1>5, <1>7, <1>9 DEF Leads, Source
<1> QED
  BY <1>6, <1>10 DEF k

LEMMA LoadLegsInv == ASSUME Inv, NEW r \in Requests, LoadLegs(r) PROVE Inv'
<1>1. Cache'
  BY WasmCache DEF Inv
<1>2. /\ pc[r] = "origin" /\ Source(r) # None /\ Goto(r, "search")
      /\ UNCHANGED <<deployed, legs, ask, version, at, computed, rows, status, cut>>
  BY DEF LoadLegs
<1>3. Types(r) /\ Held(r) /\ Shared
  BY DEF Inv, Request
<1>4. /\ cached' = [o \in Requests |-> cached'[o]]
      /\ \A o \in Requests \ {r} : cached'[o] = cached[o]
      /\ \A j \in Indices(r) : cached'[r][j] # None =>
            /\ Target(r, j) # None /\ legs[LegCacheKey(r, j)] # None
            /\ cached'[r][j] = legs[LegCacheKey(r, j)]
      /\ DOMAIN cached'[r] = Indices(r) /\ cached'[r] = [j \in Indices(r) |-> cached'[r][j]]
  <2> DEFINE there == {j \in Indices(r) : Target(r, j) # None /\ legs[LegCacheKey(r, j)] # None}
  <2>1. PICK keys \in SUBSET {LegCacheKey(r, j) : j \in there} :
            cached' = [cached EXCEPT ![r] = [j \in Indices(r) |->
                IF j \in there /\ LegCacheKey(r, j) \in keys THEN legs[LegCacheKey(r, j)] ELSE None]]
    BY DEF LoadLegs
  <2>2. cached'[r] = [j \in Indices(r) |->
                IF j \in there /\ LegCacheKey(r, j) \in keys THEN legs[LegCacheKey(r, j)] ELSE None]
    BY <1>3, <2>1 DEF Shared
  <2>3. /\ cached' = [o \in Requests |-> cached'[o]]
        /\ \A o \in Requests \ {r} : cached'[o] = cached[o]
    BY <1>3, <2>1 DEF Shared
  <2>4. \A j \in there : Target(r, j) # None /\ legs[LegCacheKey(r, j)] # None
    OBVIOUS
  <2> HIDE DEF there
  <2> QED
    BY <2>2, <2>3, <2>4
<1>5. \A j \in Indices(r) : cached'[r][j] # None =>
            cached'[r][j] \in Leg /\ Leads(version[r], Origin(r), Dest(r, j), cached'[r][j])
  BY <1>2, <1>4, CachedLeads
<1>6. cached'[r] \in LegsOf(r)
  BY <1>4, <1>5 DEF LegsOf
<1>7. pc'[r] = "search" /\ \A o \in Requests \ {r} : pc'[o] = pc[o]
  BY <1>2 DEF Inv, Cache, Tables, Goto
<1>8. Others(r)
  BY <1>2, <1>4, <1>7 DEF Others
<1>9. Shared'
  BY <1>2, <1>3, <1>4 DEF Shared
<1>10. \A j \in Indices(r) : computed[r][j] = None
  BY <1>2, <1>3 DEF Held
<1>11. Held(r)'
  BY <1>2, <1>5, <1>7, <1>10 DEF Held, Indices, Origin, Dest
<1>12. computed[r] \in LegsOf(r)
  BY <1>3 DEF Types
<1> QED
  BY <1>1, <1>2, <1>6, <1>7, <1>8, <1>9, <1>11, <1>12, MovedInv

\* A destination that an own node leads to is found, whatever groups come before it.
LEMMA OwnIsFound ==
  ASSUME Inv, NEW r \in Requests, NEW j \in Indices(r), ask[r] \in Asks
  PROVE  Own(version[r], ask[r].dests, Origin(r), j) \subseteq Found(r, j)
<1> SUFFICES ASSUME NEW n \in Own(version[r], ask[r].dests, Origin(r), j)
             PROVE  n \in Found(r, j)
  OBVIOUS
<1>1. /\ n \in Candidates(version[r], Dest(r, j)) /\ <<Source(r), n>> \in Reach[version[r]]
      /\ \A i \in 1..(j - 1) : n \notin Candidates(version[r], Dest(r, i))
  BY DEF Own, Dest, Source
<1>2. \A i \in NeedRouting(r) : i < j => i \in 1..(j - 1)
  <2>1. Indices(r) = 1..Len(ask[r].dests) /\ Len(ask[r].dests) \in Nat
    <3> DEFINE ds == ask[r].dests
    <3>1. ds \in Seq(DOMAIN Place)
      BY AsksAssumption
    <3> HIDE DEF ds
    <3>2. DOMAIN ds = 1..Len(ds) /\ Len(ds) \in Nat
      BY <3>1, LenProperties
    <3> QED
      BY <3>2 DEF ds, Indices
  <2>2. NeedRouting(r) \subseteq Indices(r)
    BY DEF NeedRouting
  <2> QED
    BY <2>1, <2>2
<1>3. n \in Served(r, j)
  BY <1>1, <1>2 DEF Served
<1> QED
  BY <1>1, <1>3 DEF Found

LEMMA SearchInv == ASSUME Inv, NEW r \in Requests, Search(r) PROVE Inv'
<1>1. Cache'
  BY SearchCache DEF Inv
<1>2. /\ pc[r] = "search"
      /\ UNCHANGED <<deployed, legs, ask, version, at, cached, rows, status>>
  BY DEF Search
<1>3. /\ Types(r) /\ Turn(r) /\ Held(r) /\ Shared
      /\ computed = [o \in Requests |-> computed[o]] /\ pc = [o \in Requests |-> pc[o]]
  BY DEF Inv, Request, Cache, Tables
<1>4. PICK done \in SUBSET {j \in NeedRouting(r) : Found(r, j) # {}} :
        /\ \E end \in [done -> Nodes] :
            /\ \A j \in done : end[j] \in Found(r, j)
            /\ computed' = [computed EXCEPT ![r] =
                    [j \in Indices(r) |-> IF j \in done THEN L0Leg(r, end[j]) ELSE None]]
        /\ cut' = [cut EXCEPT ![r] = @ \/ \E j \in NeedRouting(r) \ done : Found(r, j) # {}]
        /\ Goto(r, IF done # {} THEN "write" ELSE "overlay")
  BY DEF Search
<1>5. PICK end \in [done -> Nodes] :
        /\ \A j \in done : end[j] \in Found(r, j)
        /\ computed' = [computed EXCEPT ![r] =
                    [j \in Indices(r) |-> IF j \in done THEN L0Leg(r, end[j]) ELSE None]]
  BY <1>4
<1>6. /\ computed'[r] = [j \in Indices(r) |-> IF j \in done THEN L0Leg(r, end[j]) ELSE None]
      /\ \A o \in Requests \ {r} : computed'[o] = computed[o]
  BY <1>3, <1>5
<1>7. /\ pc'[r] \in {"write", "overlay"} /\ \A o \in Requests \ {r} : pc'[o] = pc[o]
  BY <1>3, <1>4 DEF Goto
<1>8. /\ cut'[r] = (cut[r] \/ \E j \in NeedRouting(r) \ done : Found(r, j) # {})
      /\ cut' = [o \in Requests |-> cut'[o]] /\ \A o \in Requests \ {r} : cut'[o] = cut[o]
  BY <1>3, <1>4, Zenon DEF Shared
<1>9. Source(r) \in Nodes /\ Source(r) # None
  <2>1. Source(r) # None /\ at[r] \in 1..Len(ask[r].origins) /\ ask[r] \in Asks /\ version[r] \in Version
    BY <1>2, <1>3 DEF Types, Turn
  <2>2. Origin(r) \in DOMAIN Place
    BY <2>1, AsksAre DEF Origin
  <2> QED
    BY <2>1, <2>2, FirstsAre DEF Source
<1>10. \A j \in done : L0Leg(r, end[j]) \in Leg
  <2> TAKE j \in done
  <2>1. end[j] \in Nodes
    BY <1>5
  <2> QED
    BY <1>9, <2>1 DEF L0Leg, Leg
<1>11. computed'[r] \in LegsOf(r)
  BY <1>6, <1>10 DEF LegsOf
<1>12. \A j \in done : j \in NeedRouting(r)
  BY <1>4
<1>13. Held(r)'
  <2>1. \A j \in Indices(r) : cached[r][j] = None \/ computed'[r][j] = None
    BY <1>6, <1>12 DEF NeedRouting
  <2>2. \A j \in Indices(r) : cached[r][j] # None =>
            Leads(version[r], Origin(r), Dest(r, j), cached[r][j])
    BY <1>3 DEF Held
  <2>3. ASSUME NEW j \in Indices(r), Target(r, j) # None, cached[r][j] = None, computed'[r][j] = None
        PROVE  Excused(version[r], ask[r].dests, Origin(r), j, cut'[r])
    <3>1. j \notin done
      <4>1. None \notin Leg
        BY NoneAssumption
      <4> QED
        BY <1>6, <1>10, <2>3, <4>1
    <3>2. CASE TooFar(r, j)
      BY <3>2 DEF TooFar, Excused, Dest
    <3>3. CASE ~TooFar(r, j)
      <4>1. j \in NeedRouting(r) \ done
        BY <2>3, <3>1, <3>3 DEF NeedRouting
      <4>2. CASE Found(r, j) # {}
        <5>1. cut'[r]
          BY <1>8, <4>1, <4>2, Zenon
        <5> QED
          BY <5>1, Zenon DEF Excused
      <4>3. CASE Found(r, j) = {}
        <5>1. ask[r] \in Asks
          BY <1>3 DEF Types
        <5>2. Own(version[r], ask[r].dests, Origin(r), j) = {}
          BY <4>3, <5>1, OwnIsFound
        <5> QED
          BY <5>2, Zenon DEF Excused
      <4> QED
        BY <4>2, <4>3
    <3> QED
      BY <3>2, <3>3
  <2> QED
    BY <1>2, <1>7, <2>1, <2>2, <2>3 DEF Held, Indices, Origin, Dest, Target
<1>14. Others(r)
  BY <1>2, <1>6, <1>7, <1>8 DEF Others
<1>15. Shared'
  BY <1>2, <1>3, <1>8 DEF Shared
<1>16. cached[r] \in LegsOf(r)
  BY <1>3 DEF Types
<1>17. cut[r] => cut'[r]
  BY <1>8, Zenon
<1> QED
  BY <1>1, <1>2, <1>7, <1>9, <1>11, <1>13, <1>14, <1>15, <1>16, <1>17, MovedInv

LEMMA WriteInv == ASSUME Inv, NEW r \in Requests, WriteLegs(r) PROVE Inv'
<1> DEFINE routed == {j \in Indices(r) : computed[r][j] # None}
           last == {j \in routed : \A i \in routed : Target(r, i) = Target(r, j) => i <= j}
<1>1. Cache'
  BY WriteCache DEF Inv
<1>2. /\ pc[r] = "write" /\ Goto(r, "overlay")
      /\ UNCHANGED <<deployed, ask, version, at, cached, computed, rows, status, cut>>
      /\ legs' = [k \in DOMAIN legs |->
            IF \E j \in last : LegCacheKey(r, j) = k
            THEN computed[r][CHOOSE j \in last : LegCacheKey(r, j) = k] ELSE legs[k]]
  BY DEF WriteLegs, progress
<1>3. Types(r) /\ Turn(r) /\ Held(r) /\ Shared
  BY DEF Inv, Request
<1>4. \A j \in last : computed[r][j] \in Leg
  BY <1>3 DEF Types, LegsOf
<1> HIDE DEF last
<1>5. legs' \in [Version \X Nodes \X Nodes -> Leg \cup {None}]
  <2>1. legs \in [Version \X Nodes \X Nodes -> Leg \cup {None}]
    BY <1>3 DEF Shared
  <2>2. ASSUME NEW k \in DOMAIN legs PROVE legs'[k] \in Leg \cup {None}
    <3>1. CASE \E j \in last : LegCacheKey(r, j) = k
      <4>1. (CHOOSE j \in last : LegCacheKey(r, j) = k) \in last
        BY <3>1
      <4> QED
        BY <1>2, <1>4, <3>1, <4>1
    <3>2. CASE ~\E j \in last : LegCacheKey(r, j) = k
      BY <1>2, <2>1, <3>2
    <3> QED
      BY <3>1, <3>2
  <2> QED
    BY <1>2, <2>1, <2>2
<1>6. pc'[r] = "overlay" /\ \A o \in Requests \ {r} : pc'[o] = pc[o]
  BY <1>2 DEF Inv, Cache, Tables, Goto
<1>7. Others(r)
  BY <1>2, <1>6 DEF Others
<1>8. Shared'
  BY <1>2, <1>3, <1>5 DEF Shared
<1>9. Held(r)'
  BY <1>2, <1>3, <1>6 DEF Held, Indices, Origin, Dest, Target
<1>10. Source(r) # None /\ cached[r] \in LegsOf(r) /\ computed[r] \in LegsOf(r)
  BY <1>2, <1>3 DEF Types, Turn
<1> QED
  BY <1>1, <1>2, <1>6, <1>7, <1>8, <1>9, <1>10, MovedInv

\* An element of the row is from the cache, the search or the overlay, or says why not.
LEMMA ElementTrue ==
  ASSUME Inv, NEW r \in Requests, pc[r] = "overlay", NEW l1 \in SUBSET NeedL1(r), NEW j \in Indices(r)
  PROVE  /\ ElementOf(r, j, l1) \in Element
         /\ Holds(version[r], ask[r].dests, Origin(r), j, ElementOf(r, j, l1), cut[r])
<1> DEFINE v == version[r]
           b == ask[r].dests[j]
           e == ElementOf(r, j, l1)
<1>1. Types(r) /\ Turn(r) /\ Held(r) /\ Computed(r)
  BY DEF Inv, Request, Cache
<1>2. /\ cached[r][j] \in Leg \cup {None} /\ computed[r][j] \in Leg \cup {None}
      /\ Source(r) # None /\ ask[r] \in Asks
  BY <1>1 DEF Types, Turn, LegsOf
<1>3. Dest(r, j) = b /\ (Unplaced(v, Origin(r), b) <=> Target(r, j) = None)
  BY <1>2 DEF Dest, Unplaced, Source, Target
<1>4. ASSUME NEW leg \in Leg, Leads(v, Origin(r), b, leg), Target(r, j) # None, e = <<"OK", leg>>
      PROVE  e \in Element /\ Holds(v, ask[r].dests, Origin(r), j, e, cut[r])
  <2> HIDE DEF e
  <2>1. e \in Element
    BY <1>4 DEF Element
  <2>2. Holds(v, ask[r].dests, Origin(r), j, e, cut[r])
    BY <1>3, <1>4 DEF Holds
  <2> QED
    BY <2>1, <2>2
<1>5. CASE Target(r, j) = None
  <2>1. e = <<"NOT_FOUND", None>>
    BY <1>5 DEF ElementOf
  <2> HIDE DEF e
  <2>2. e \in Element
    BY <2>1 DEF Element
  <2>3. Holds(v, ask[r].dests, Origin(r), j, e, cut[r])
    BY <1>3, <1>5, <2>1 DEF Holds
  <2> QED
    BY <2>2, <2>3 DEF e
<1>6. CASE Target(r, j) # None /\ cached[r][j] # None
  <2>1. e = <<"OK", cached[r][j]>>
    BY <1>6 DEF ElementOf
  <2>2. cached[r][j] \in Leg /\ Leads(v, Origin(r), b, cached[r][j])
    BY <1>1, <1>2, <1>3, <1>6 DEF Held
  <2> HIDE DEF e
  <2>3. e \in Element /\ Holds(v, ask[r].dests, Origin(r), j, e, cut[r])
    BY <1>4, <1>6, <2>1, <2>2
  <2> QED
    BY <2>3 DEF e
<1>7. CASE Target(r, j) # None /\ cached[r][j] = None /\ computed[r][j] # None
  <2>1. e = <<"OK", computed[r][j]>>
    BY <1>7 DEF ElementOf
  <2> DEFINE leg == computed[r][j]
  <2>2. leg \in Leg /\ Routes(r, j, leg)
    BY <1>1, <1>2, <1>7 DEF Computed
  <2> HIDE DEF e, leg
  <2>3. Leads(v, Origin(r), b, leg)
    <3>1. /\ leg.by = "L0" /\ leg.from = Source(r) /\ <<Source(r), leg.to>> \in Reach[v]
          /\ leg.to \in Candidates(v, b)
      BY <1>3, <2>2 DEF Routes
    <3>2. b \in Dests
      BY <1>2, <1>3, AsksAre
    <3>3. leg.to \in EndsOf(v, b)
      BY <3>1, <3>2 DEF EndsOf
    <3> QED
      BY <3>1, <3>3 DEF Leads, Source
  <2>4. e \in Element /\ Holds(v, ask[r].dests, Origin(r), j, e, cut[r])
    BY <1>4, <1>7, <2>1, <2>2, <2>3 DEF leg
  <2> QED
    BY <2>4 DEF e
<1>8. CASE Target(r, j) # None /\ cached[r][j] = None /\ computed[r][j] = None
  <2>1. CASE j \in l1
    <3>1. e = <<"OK", Overlaid>>
      BY <1>8, <2>1 DEF ElementOf
    <3>2. Overlaid \in Leg /\ Leads(v, Origin(r), b, Overlaid)
      BY DEF Overlaid, Leg, Leads
    <3> HIDE DEF e
    <3>3. e \in Element /\ Holds(v, ask[r].dests, Origin(r), j, e, cut[r])
      BY <1>4, <1>8, <3>1, <3>2
    <3> QED
      BY <3>3 DEF e
  <2>2. CASE j \notin l1
    <3>1. e = <<"ZERO_RESULTS", None>>
      BY <1>8, <2>2 DEF ElementOf
    <3>2. Excused(v, ask[r].dests, Origin(r), j, cut[r])
      BY <1>1, <1>8 DEF Held
    <3> HIDE DEF e
    <3>3. e \in Element
      BY <3>1 DEF Element
    <3>4. Holds(v, ask[r].dests, Origin(r), j, e, cut[r])
      BY <1>3, <1>8, <3>1, <3>2 DEF Holds
    <3> QED
      BY <3>3, <3>4 DEF e
  <2> QED
    BY <2>1, <2>2
<1> QED
  BY <1>5, <1>6, <1>7, <1>8

LEMMA AssembleInv == ASSUME Inv, NEW r \in Requests, Assemble(r) PROVE Inv'
<1>1. Cache'
  BY OriginCache DEF Inv
<1>2. pc[r] = "overlay" /\ UNCHANGED <<deployed, legs, ask, version, cut>>
  BY DEF Assemble
<1>3. PICK l1 \in SUBSET NeedL1(r) : NextOrigin(r, [j \in Indices(r) |-> ElementOf(r, j, l1)])
  BY DEF Assemble
<1> DEFINE row == [j \in Indices(r) |-> ElementOf(r, j, l1)]
<1>4. \A j \in Indices(r) :
        row[j] \in Element /\ Holds(version[r], ask[r].dests, Origin(r), j, row[j], cut[r])
  BY <1>2, ElementTrue
<1>5. row \in [Indices(r) -> Element] /\ NextOrigin(r, row)
  BY <1>3, <1>4
<1> HIDE DEF row
<1> QED
  BY <1>1, <1>2, <1>4, <1>5, NextOriginInv

LEMMA DeployInv == ASSUME Inv, Deploy \/ UNCHANGED vars PROVE Inv'
<1>1. UNCHANGED <<legs, pc, ask, version, at, cached, computed, rows, status, cut>>
  BY DEF Deploy, vars, progress
<1>2. Cache'
  BY NextCache DEF Inv, Next
<1>3. deployed \in Version /\ deployed' \in Version /\ deployed <= deployed'
  <2>1. deployed \in Version
    BY DEF Inv, Shared
  <2> QED
    BY <2>1, LimitsAssumption DEF Deploy, vars, Version
<1>4. Shared'
  <2>1. \A r \in Requests : version[r] \in Version /\ version[r] <= deployed
    BY DEF Inv, Shared, Request, Types
  <2>2. \A r \in Requests : version[r] <= deployed'
    BY <1>3, <2>1, LimitsAssumption DEF Version
  <2> QED
    BY <1>1, <1>3, <2>2 DEF Inv, Shared
<1>5. ASSUME NEW r \in Requests PROVE Request(r)'
  BY <1>1 DEF Inv, Request, Types, Turn, Held, Rowed, LegsOf, Indices, Source, Target, Origin, Dest
<1> QED
  BY <1>2, <1>4, <1>5 DEF Inv

LEMMA NextInv == Inv /\ [Next]_vars => Inv'
<1> SUFFICES ASSUME Inv, [Next]_vars PROVE Inv'
  OBVIOUS
<1>1. CASE Deploy \/ UNCHANGED vars
  BY <1>1, DeployInv
<1>2. ASSUME NEW r \in Requests,
             \/ Begin(r) \/ LoadWasm(r) \/ RunWasm(r) \/ SkipWasm(r)
             \/ NoOrigin(r) \/ LoadLegs(r) \/ Search(r) \/ WriteLegs(r) \/ Assemble(r) \/ Throws(r)
      PROVE  Inv'
  BY <1>2, BeginInv, WasmInv, RunWasmInv, NoOriginInv, LoadLegsInv, SearchInv, WriteInv,
     AssembleInv, ThrowsInv
<1> QED
  BY <1>1, <1>2 DEF Next

-----------------------------------------------------------------------------
\* The inductive invariant: the cache, the types, and for each request what it has
\* for the origin at hand and the truth of the rows before it.
THEOREM Invariance == Spec => []Inv
  BY InitInv, NextInv, PTL DEF Spec

\* What a request keeps has its type: a version of those deployed, legs or none for
\* its destinations, never from both the cache and the search, and a row for each
\* origin before the one at hand.
THEOREM TypeCorrect == Spec => []TypeOK
<1>1. Inv => TypeOK
  BY InvGives
<1> QED
  BY <1>1, Invariance, PTL

\* Every element of an answer is so, whichever path found it, whatever other requests
\* write to the cache and whatever is deployed meanwhile.
THEOREM AnswersAreTrue == Spec => []ElementsAreTrue
<1>1. Inv => ElementsAreTrue
  BY InvGives
<1> QED
  BY <1>1, Invariance, PTL

\* snapK: the first candidate of a query is near or the nearest node in view, and
\* there is none only where nothing is in view, however the scans are cut short.
THEOREM NearestIsSnapped == Spec => []SnapsNearest
<1>1. Inv => SnapsNearest
  BY InvGives
<1> QED
  BY <1>1, Invariance, PTL
=============================================================================
