------------------------------ MODULE SetFacts ------------------------------
(***************************************************************************)
(* What the proofs of several components need of finite sets: a least      *)
(* number, induction over subsets, the ranks of an ordered set, and what   *)
(* the folds of the community modules compute.  Predicates and operations  *)
(* are sets and functions here, so that a lemma can be cited for any.      *)
(***************************************************************************)
EXTENDS Integers, FiniteSets, FiniteSetsExt, TLAPS, FiniteSetTheorems, WellFoundedInduction

-----------------------------------------------------------------------------
(* A least number, and induction.                                          *)

LEMMA LeastNumber ==
  ASSUME NEW S, S \subseteq Nat, S # {}
  PROVE  \E n \in S : \A m \in S : n <= m
<1> DEFINE less == {p \in Nat \X Nat : p[1] < p[2]}
<1>1. IsWellFoundedOn(less, Nat)
  BY NatLessThanWellFounded DEF OpToRel
<1>2. \E n \in S : \A m \in S : ~(<<m, n>> \in less)
  <2> HIDE DEF less
  <2> QED
    BY <1>1, WFMin
<1>3. PICK n \in S : \A m \in S : ~(<<m, n>> \in less)
  BY <1>2
<1>4. \A m \in S : n <= m
  <2> TAKE m \in S
  <2>1. m \in Nat /\ n \in Nat /\ ~(m < n)
    BY <1>3
  <2> QED
    BY <2>1
<1> QED
  BY <1>4

\* A set of numbers that holds 0 and every successor holds all.
LEMMA SetOfAll ==
  ASSUME NEW P, 0 \in P, \A n \in Nat : n \in P => n + 1 \in P
  PROVE  Nat \subseteq P
<1> DEFINE out == {n \in Nat : n \notin P}
<1>1. ASSUME out # {} PROVE FALSE
  <2>1. PICK n \in out : \A m \in out : n <= m
    <3>1. out \subseteq Nat /\ out # {}
      BY <1>1
    <3> HIDE DEF out
    <3> QED
      BY <3>1, LeastNumber
  <2>2. n \in Nat /\ n # 0 /\ n \notin P
    BY <2>1
  <2>3. n - 1 \in Nat /\ n - 1 \in P
    BY <2>1, <2>2
  <2>4. n - 1 + 1 \in P
    BY <2>3
  <2> QED
    BY <2>2, <2>4
<1> QED
  BY <1>1

\* A family that holds the empty set and, with a set, each set of one element more.
LEMMA FiniteSubsets ==
  ASSUME NEW S, IsFiniteSet(S), NEW F, {} \in F,
         \A T \in SUBSET S : \A x \in S \ T : T \in F => T \cup {x} \in F
  PROVE  \A T \in SUBSET S : T \in F
<1> DEFINE P == {n \in Nat : \A T \in SUBSET S : Cardinality(T) = n => T \in F}
<1>0. \A T \in SUBSET S : IsFiniteSet(T) /\ Cardinality(T) \in Nat
  BY FS_Subset, FS_CardinalityType
<1>1. 0 \in P
  BY <1>0, FS_EmptySet
<1>2. ASSUME NEW n \in Nat, n \in P PROVE n + 1 \in P
  <2> SUFFICES ASSUME NEW T \in SUBSET S, Cardinality(T) = n + 1 PROVE T \in F
    OBVIOUS
  <2> HIDE DEF P
  <2>1. T # {}
    <3>1. Cardinality({}) = 0
      BY FS_EmptySet
    <3> QED
      BY <3>1
  <2>2. PICK x \in T : TRUE
    BY <2>1
  <2>3. IsFiniteSet(T)
    BY <1>0
  <2>4. Cardinality(T \ {x}) = n
    <3>1. Cardinality(T \ {x}) = Cardinality(T) - 1
      BY <2>2, <2>3, FS_RemoveElement
    <3> QED
      BY <3>1
  <2>5. T \ {x} \in SUBSET S /\ x \in S \ (T \ {x}) /\ T = (T \ {x}) \cup {x}
    BY <2>2
  <2>6. T \ {x} \in F
    BY <1>2, <2>4, <2>5 DEF P
  <2> QED
    BY <2>5, <2>6
<1> HIDE DEF P
<1>3. Nat \subseteq P
  BY <1>1, <1>2, SetOfAll
<1> USE DEF P
<1> QED
  BY <1>0, <1>3

-----------------------------------------------------------------------------
(* The rank of an element of an ordered set is the number of those before  *)
(* it: one to one, so onto.                                                *)

Under(S, less, x) == {m \in S : <<m, x>> \in less}

LEMMA RankIs ==
  ASSUME NEW S, IsFiniteSet(S), NEW less,
         \A x \in S : <<x, x>> \notin less,
         \A x, y \in S : x = y \/ <<x, y>> \in less \/ <<y, x>> \in less,
         \A x, y, z \in S : <<x, y>> \in less /\ <<y, z>> \in less => <<x, z>> \in less
  PROVE  /\ Cardinality(S) \in Nat
         /\ \A x \in S : Cardinality(Under(S, less, x)) \in 0..(Cardinality(S) - 1)
         /\ \A x, y \in S :
                Cardinality(Under(S, less, x)) = Cardinality(Under(S, less, y)) => x = y
         /\ \A i \in 1..Cardinality(S) : \E x \in S : Cardinality(Under(S, less, x)) = i - 1
<1> DEFINE below(x) == Under(S, less, x)
           n == Cardinality(S)
           rank == [x \in S |-> Cardinality(below(x)) + 1]
<1>1. n \in Nat
  BY FS_CardinalityType
<1>2. \A x \in S : /\ IsFiniteSet(below(x)) /\ Cardinality(below(x)) \in Nat
                   /\ Cardinality(below(x)) < n
  <2> TAKE x \in S
  <2>1. below(x) \subseteq S /\ x \notin below(x)
    BY DEF Under
  <2>2. IsFiniteSet(below(x)) /\ Cardinality(below(x)) <= n /\ Cardinality(below(x)) # n
    <3> HIDE DEF below
    <3> QED
      BY <2>1, FS_Subset
  <2> QED
    BY <1>1, <2>2, FS_CardinalityType
<1>3. rank \in [S -> 1..n]
  <2> HIDE DEF below
  <2>1. \A x \in S : Cardinality(below(x)) + 1 \in 1..n
    BY <1>1, <1>2
  <2> QED
    BY <2>1
<1>4. \A x, y \in S : <<x, y>> \in less => Cardinality(below(x)) # Cardinality(below(y))
  <2> TAKE x, y \in S
  <2> HAVE <<x, y>> \in less
  <2>1. below(x) \subseteq below(y) /\ x \in below(y) /\ x \notin below(x)
    BY DEF Under
  <2> HIDE DEF below
  <2> QED
    BY <1>2, <2>1, FS_Subset
<1>5. \A x, y \in S : Cardinality(below(x)) = Cardinality(below(y)) => x = y
  <2> HIDE DEF below
  <2> QED
    BY <1>4
<1>6. rank \in Injection(S, 1..n)
  <2>1. \A x, y \in S : rank[x] = rank[y] => x = y
    <3> HIDE DEF below
    <3> TAKE x, y \in S
    <3> HAVE rank[x] = rank[y]
    <3>1. Cardinality(below(x)) \in Nat /\ Cardinality(below(y)) \in Nat
      BY <1>2
    <3>2. Cardinality(below(x)) + 1 = Cardinality(below(y)) + 1
      OBVIOUS
    <3> QED
      BY <1>5, <3>1, <3>2
  <2> HIDE DEF rank
  <2> QED
    BY <1>3, <2>1 DEF Injection, IsInjective
<1>7. \A i \in 1..n : \E x \in S : rank[x] = i
  <2>1. IsFiniteSet(1..n) /\ Cardinality(1..n) = n
    BY <1>1, FS_Interval
  <2>2. rank \in Surjection(S, 1..n)
    <3> HIDE DEF rank
    <3> QED
      BY <1>6, <2>1, FS_Injection
  <2> HIDE DEF rank
  <2> QED
    BY <2>2 DEF Surjection
<1>8. \A i \in 1..n : \E x \in S : Cardinality(below(x)) = i - 1
  <2> TAKE i \in 1..n
  <2>1. PICK x \in S : rank[x] = i
    BY <1>7
  <2> HIDE DEF below
  <2>2. Cardinality(below(x)) + 1 = i /\ Cardinality(below(x)) \in Nat
    BY <1>2, <2>1
  <2>3. Cardinality(below(x)) = i - 1
    BY <2>2
  <2> QED
    BY <2>3
<1>9. \A x \in S : Cardinality(below(x)) \in 0..(n - 1)
  <2> HIDE DEF below
  <2> QED
    BY <1>1, <1>2
<1> QED
  BY <1>1, <1>5, <1>8, <1>9

-----------------------------------------------------------------------------
(* Folds.  it gives every subset of S what folding it gives: the picked    *)
(* element is joined to the fold of the others.                            *)

Folding(it, pick, join, base, S) ==
    it = [s \in SUBSET S |-> IF s = {} THEN base ELSE join[<<pick[s], it[s \ {pick[s]}]>>]]

\* A fold is defined for every finite set.
LEMMA FoldExists ==
  ASSUME NEW S, IsFiniteSet(S), NEW D, NEW base \in D, NEW join \in [S \X D -> D], NEW pick,
         \A s \in SUBSET S : s # {} => pick[s] \in s
  PROVE  \E it \in [SUBSET S -> D] : Folding(it, pick, join, base, S)
<1> DEFINE Up(n) == {s \in SUBSET S : Cardinality(s) <= n}
           Step(g, s) == IF s = {} THEN base ELSE join[<<pick[s], g[s \ {pick[s]}]>>]
           P == {n \in Nat : \E g \in [Up(n) -> D] : \A s \in Up(n) : g[s] = Step(g, s)}
<1>0. \A s \in SUBSET S : IsFiniteSet(s) /\ Cardinality(s) \in Nat
  BY FS_Subset, FS_CardinalityType
<1>1. \A s \in SUBSET S : Cardinality(s) = 0 => s = {}
  BY <1>0, FS_EmptySet
<1>2. 0 \in P
  <2> DEFINE g == [s \in Up(0) |-> base]
  <2>1. \A s \in Up(0) : s = {}
    BY <1>0, <1>1
  <2>2. g \in [Up(0) -> D] /\ \A s \in Up(0) : g[s] = Step(g, s)
    BY <2>1
  <2> QED
    BY <2>2
<1>3. ASSUME NEW n \in Nat, n \in P PROVE n + 1 \in P
  <2>1. PICK g \in [Up(n) -> D] : \A s \in Up(n) : g[s] = Step(g, s)
    BY <1>3
  <2>2. \A s \in Up(n + 1) : s # {} => pick[s] \in s /\ pick[s] \in S /\ s \ {pick[s]} \in Up(n)
    <3> TAKE s \in Up(n + 1)
    <3> HAVE s # {}
    <3>1. pick[s] \in s /\ IsFiniteSet(s) /\ Cardinality(s) \in Nat /\ Cardinality(s) <= n + 1
      BY <1>0
    <3>2. Cardinality(s \ {pick[s]}) = Cardinality(s) - 1
      BY <3>1, FS_RemoveElement
    <3>3. Cardinality(s \ {pick[s]}) <= n
      BY <3>1, <3>2
    <3> QED
      BY <3>1, <3>3
  <2>3. Up(n) \subseteq Up(n + 1)
    BY <1>0
  <2> DEFINE h == [s \in Up(n + 1) |-> Step(g, s)]
  <2>4. \A s \in Up(n + 1) : Step(g, s) \in D
    <3> HIDE DEF Up
    <3> TAKE s \in Up(n + 1)
    <3>1. CASE s = {}
      BY <3>1
    <3>2. CASE s # {}
      <4>1. pick[s] \in S /\ g[s \ {pick[s]}] \in D
        BY <2>1, <2>2, <3>2
      <4> QED
        BY <3>2, <4>1
    <3> QED
      BY <3>1, <3>2
  <2>5. h \in [Up(n + 1) -> D]
    <3> HIDE DEF Up, Step
    <3> QED
      BY <2>4
  <2>6. \A s \in Up(n) : h[s] = g[s]
    <3> HIDE DEF Up, Step
    <3> QED
      BY <2>1, <2>3
  <2>7. \A s \in Up(n + 1) : h[s] = Step(h, s)
    <3> TAKE s \in Up(n + 1)
    <3>1. h[s] = Step(g, s)
      BY DEF h
    <3> HIDE DEF h, Up
    <3>2. CASE s = {}
      BY <3>1, <3>2
    <3>3. CASE s # {}
      BY <2>2, <2>6, <3>1, <3>3
    <3> QED
      BY <3>2, <3>3
  <2> HIDE DEF h, Step, Up
  <2> QED
    BY <2>5, <2>7
<1>4. Cardinality(S) \in P
  <2>1. Nat \subseteq P
    <3> HIDE DEF P
    <3> QED
      BY <1>2, <1>3, SetOfAll
  <2> QED
    BY <1>0, <2>1
<1>5. Up(Cardinality(S)) = SUBSET S
  BY FS_Subset
<1>6. PICK g \in [SUBSET S -> D] : \A s \in SUBSET S : g[s] = Step(g, s)
  <2> HIDE DEF Up, Step
  <2> QED
    BY <1>4, <1>5
<1>7. g = [s \in SUBSET S |-> Step(g, s)]
  <2> HIDE DEF Step
  <2> QED
    BY <1>6
<1> QED
  BY <1>7 DEF Folding

-----------------------------------------------------------------------------
(* Sums: MapThenSumSet takes the elements in the order CHOOSE gives them,  *)
(* and any order gives the same.                                           *)

AnyOf(s) == CHOOSE x \in s : TRUE
Sums(it, w, S) ==
    it = [s \in SUBSET S |-> IF s = {} THEN 0 ELSE w[AnyOf(s)] + it[s \ {AnyOf(s)}]]
Sum(w, S) == MapThenSumSet(LAMBDA x : w[x], S)

LEMMA SumsExist ==
  ASSUME NEW S, IsFiniteSet(S), NEW w, \A x \in S : w[x] \in Int
  PROVE  \E it \in [SUBSET S -> Int] : Sums(it, w, S)
<1> DEFINE join == [p \in S \X Int |-> w[p[1]] + p[2]]
           pick == [s \in SUBSET S |-> AnyOf(s)]
<1>1. join \in [S \X Int -> Int]
  OBVIOUS
<1>2. \A s \in SUBSET S : s # {} => pick[s] \in s
  BY DEF AnyOf
<1>3. PICK it \in [SUBSET S -> Int] : Folding(it, pick, join, 0, S)
  <2>1. 0 \in Int
    OBVIOUS
  <2> HIDE DEF join, pick
  <2> QED
    BY <1>1, <1>2, <2>1, FoldExists, Zenon
<1>4. ASSUME NEW s \in SUBSET S
      PROVE  it[s] = IF s = {} THEN 0 ELSE w[AnyOf(s)] + it[s \ {AnyOf(s)}]
  <2>1. it[s] = IF s = {} THEN 0 ELSE join[<<pick[s], it[s \ {pick[s]}]>>]
    <3> HIDE DEF join, pick
    <3> QED
      BY <1>3 DEF Folding
  <2>2. CASE s = {}
    BY <2>1, <2>2
  <2>3. CASE s # {}
    <3>1. pick[s] = AnyOf(s) /\ AnyOf(s) \in S /\ s \ {AnyOf(s)} \in SUBSET S
      BY <1>2, <2>3
    <3>2. <<AnyOf(s), it[s \ {AnyOf(s)}]>> \in S \X Int
      BY <3>1
    <3>3. join[<<AnyOf(s), it[s \ {AnyOf(s)}]>>] = w[AnyOf(s)] + it[s \ {AnyOf(s)}]
      BY <3>2
    <3> HIDE DEF join, pick
    <3> QED
      BY <2>1, <2>3, <3>1, <3>3
  <2> QED
    BY <2>2, <2>3
<1>5. Sums(it, w, S)
  BY <1>4 DEF Sums
<1> QED
  BY <1>5

\* Two sums of the same weights agree, whatever sets they are defined for.
LEMMA SumsAgree ==
  ASSUME NEW S, NEW T, NEW U, U \subseteq S, U \subseteq T, IsFiniteSet(U),
         NEW it, NEW jt, NEW w, NEW v, Sums(it, w, S), Sums(jt, v, T), \A x \in U : w[x] = v[x]
  PROVE  it[U] = jt[U]
<1> DEFINE F == {V \in SUBSET U : it[V] = jt[V]}
           P == {n \in Nat : \A V \in SUBSET U : Cardinality(V) = n => V \in F}
<1>0. \A V \in SUBSET U : IsFiniteSet(V) /\ Cardinality(V) \in Nat
  BY FS_Subset, FS_CardinalityType
<1>1. {} \in F
  <2>1. it[{}] = 0
    BY DEF Sums
  <2>2. jt[{}] = 0
    BY DEF Sums
  <2> QED
    BY <2>1, <2>2
<1>2. 0 \in P
  <2>1. \A V \in SUBSET U : Cardinality(V) = 0 => V = {}
    BY <1>0, FS_EmptySet
  <2> HIDE DEF F
  <2> QED
    BY <1>1, <2>1
<1>3. ASSUME NEW n \in Nat, n \in P PROVE n + 1 \in P
  <2> SUFFICES ASSUME NEW V \in SUBSET U, Cardinality(V) = n + 1 PROVE V \in F
    OBVIOUS
  <2>1. V # {}
    <3>1. Cardinality({}) = 0
      BY FS_EmptySet
    <3> HIDE DEF P
    <3> QED
      BY <3>1
  <2>2. AnyOf(V) \in V /\ IsFiniteSet(V)
    BY <1>0, <2>1 DEF AnyOf
  <2> DEFINE W == V \ {AnyOf(V)}
  <2>3. W \in SUBSET U /\ Cardinality(W) = n
    <3>1. Cardinality(W) = Cardinality(V) - 1
      BY <2>2, FS_RemoveElement
    <3> HIDE DEF P
    <3> QED
      BY <3>1
  <2>4. it[W] = jt[W]
    BY <1>3, <2>3
  <2>5. it[V] = w[AnyOf(V)] + it[W]
    <3>1. V \in SUBSET S
      OBVIOUS
    <3> QED
      BY <2>1, <3>1 DEF Sums
  <2>6. jt[V] = v[AnyOf(V)] + jt[W]
    <3>1. V \in SUBSET T
      OBVIOUS
    <3> QED
      BY <2>1, <3>1 DEF Sums
  <2>7. w[AnyOf(V)] = v[AnyOf(V)]
    BY <2>2
  <2> HIDE DEF W, P
  <2> QED
    BY <2>4, <2>5, <2>6, <2>7
<1>4. Nat \subseteq P
  <2> HIDE DEF P
  <2> QED
    BY <1>2, <1>3, SetOfAll
<1>5. U \in F
  <2> HIDE DEF F
  <2> QED
    BY <1>0, <1>4
<1> QED
  BY <1>5

LEMMA SumIs ==
  ASSUME NEW S, IsFiniteSet(S), NEW w, \A x \in S : w[x] \in Int
  PROVE  \E it \in [SUBSET S -> Int] : Sums(it, w, S) /\ Sum(w, S) = it[S]
<1>1. PICK it \in [SUBSET S -> Int] : Sums(it, w, S)
  BY SumsExist
<1>2. \E jt : Sums(jt, w, S) /\ Sum(w, S) = jt[S]
  BY <1>1 DEF Sums, Sum, MapThenSumSet, MapThenFoldSet, AnyOf
<1>3. PICK jt : Sums(jt, w, S) /\ Sum(w, S) = jt[S]
  BY <1>2
<1>4. it[S] = jt[S]
  BY <1>1, <1>3, SumsAgree
<1> QED
  BY <1>1, <1>3, <1>4

LEMMA SumInt ==
  ASSUME NEW S, IsFiniteSet(S), NEW w, \A x \in S : w[x] \in Int
  PROVE  Sum(w, S) \in Int
<1>1. PICK it \in [SUBSET S -> Int] : Sums(it, w, S) /\ Sum(w, S) = it[S]
  BY SumIs
<1>2. S \in SUBSET S
  OBVIOUS
<1> QED
  BY <1>1, <1>2

LEMMA SumEmpty == ASSUME NEW w PROVE Sum(w, {}) = 0
<1>1. IsFiniteSet({})
  BY FS_EmptySet
<1>2. PICK it : Sums(it, w, {}) /\ Sum(w, {}) = it[{}]
  BY <1>1, SumIs
<1> QED
  BY <1>2 DEF Sums

LEMMA SumSame ==
  ASSUME NEW S, IsFiniteSet(S), NEW w, NEW v, \A x \in S : w[x] \in Int /\ w[x] = v[x]
  PROVE  Sum(w, S) = Sum(v, S)
<1>1. PICK it : Sums(it, w, S) /\ Sum(w, S) = it[S]
  BY SumIs
<1>2. PICK jt : Sums(jt, v, S) /\ Sum(v, S) = jt[S]
  BY SumIs
<1> QED
  BY <1>1, <1>2, SumsAgree

Weights(w, S) == \A x \in S : w[x] \in Int
Summing(it, w, S) == it \in [SUBSET S -> Int] /\ Sums(it, w, S)
Takes(it, w, S) == \A T \in SUBSET S : \A x \in T : it[T] = it[T \ {x}] + w[x]

\* Any element can be taken first.
LEMMA AnyOrder ==
  ASSUME NEW S, IsFiniteSet(S), NEW w, Weights(w, S), NEW it, Summing(it, w, S)
  PROVE  Takes(it, w, S)
<1> USE DEF Weights, Summing, Takes
<1> DEFINE P == {n \in Nat : \A T \in SUBSET S : Cardinality(T) = n =>
                                \A x \in T : it[T] = it[T \ {x}] + w[x]}
<1>0. \A T \in SUBSET S : IsFiniteSet(T) /\ Cardinality(T) \in Nat /\ it[T] \in Int
  BY FS_Subset, FS_CardinalityType
<1>1. \A T \in SUBSET S : T # {} => AnyOf(T) \in T /\ it[T] = w[AnyOf(T)] + it[T \ {AnyOf(T)}]
  BY DEF Sums, AnyOf
<1>2. 0 \in P
  <2>1. \A T \in SUBSET S : Cardinality(T) = 0 => T = {}
    BY <1>0, FS_EmptySet
  <2> QED
    BY <2>1
<1>3. ASSUME NEW n \in Nat, n \in P PROVE n + 1 \in P
  <2> SUFFICES ASSUME NEW T \in SUBSET S, Cardinality(T) = n + 1, NEW x \in T
               PROVE  it[T] = it[T \ {x}] + w[x]
    OBVIOUS
  <2> DEFINE y == AnyOf(T)
             U == T \ {x, y}
  <2>1. y \in T /\ it[T] = w[y] + it[T \ {y}]
    BY <1>1
  <2>2. /\ it[T \ {x}] \in Int /\ it[T \ {y}] \in Int /\ it[U] \in Int
        /\ w[x] \in Int /\ w[y] \in Int
    BY <1>0, <2>1
  <2>3. CASE y = x
    <3> HIDE DEF y, U, P
    <3> QED
      BY <2>1, <2>2, <2>3
  <2>4. CASE y # x
    <3>1. Cardinality(T \ {x}) = n /\ Cardinality(T \ {y}) = n
      <4>1. Cardinality(T \ {x}) = Cardinality(T) - 1
        BY <1>0, FS_RemoveElement
      <4>2. Cardinality(T \ {y}) = Cardinality(T) - 1
        <5> HIDE DEF y
        <5> QED
          BY <1>0, <2>1, FS_RemoveElement
      <4> HIDE DEF P, y
      <4> QED
        BY <4>1, <4>2
    <3> HIDE DEF y
    <3>2. it[T \ {x}] = it[(T \ {x}) \ {y}] + w[y]
      BY <1>3, <2>1, <2>4, <3>1
    <3>3. it[T \ {y}] = it[(T \ {y}) \ {x}] + w[x]
      BY <1>3, <2>1, <2>4, <3>1
    <3>4. (T \ {x}) \ {y} = U /\ (T \ {y}) \ {x} = U
      OBVIOUS
    <3>5. it[T \ {x}] = it[U] + w[y] /\ it[T \ {y}] = it[U] + w[x]
      <4> HIDE DEF U, P
      <4> QED
        BY <3>2, <3>3, <3>4
    <3> HIDE DEF U, P
    <3> QED
      BY <2>1, <2>2, <3>5
  <2> QED
    BY <2>3, <2>4
<1>4. Nat \subseteq P
  <2> HIDE DEF P
  <2> QED
    BY <1>2, <1>3, SetOfAll
<1> QED
  BY <1>0, <1>4

\* An element more adds its weight.
LEMMA SumAdd ==
  ASSUME NEW S, IsFiniteSet(S), NEW x, x \notin S, NEW w, \A y \in S \cup {x} : w[y] \in Int
  PROVE  Sum(w, S \cup {x}) = Sum(w, S) + w[x]
<1> DEFINE A == S \cup {x}
<1>0. IsFiniteSet(A) /\ A \ {x} = S /\ x \in A /\ S \subseteq A /\ \A y \in A : w[y] \in Int
  BY FS_AddElement
<1> HIDE DEF A
<1>1. PICK it \in [SUBSET A -> Int] : Sums(it, w, A) /\ Sum(w, A) = it[A]
  BY <1>0, SumIs
<1>2. it[A] = it[S] + w[x]
  <2>1. Weights(w, A) /\ Summing(it, w, A)
    BY <1>0, <1>1 DEF Weights, Summing
  <2>2. Takes(it, w, A)
    BY <1>0, <2>1, AnyOrder
  <2>3. A \in SUBSET A
    OBVIOUS
  <2>4. it[A] = it[A \ {x}] + w[x]
    BY <1>0, <2>2, <2>3 DEF Takes
  <2> QED
    BY <1>0, <2>4
<1>3. PICK jt : Sums(jt, w, S) /\ Sum(w, S) = jt[S]
  BY <1>0, SumIs
<1>4. it[S] = jt[S]
  BY <1>0, <1>1, <1>3, SumsAgree
<1> QED
  BY <1>1, <1>2, <1>3, <1>4 DEF A

\* Weights that are not negative: a part weighs no more than the whole.
LEMMA SumPart ==
  ASSUME NEW S, IsFiniteSet(S), NEW w, \A x \in S : w[x] \in Nat, NEW T, T \subseteq S
  PROVE  Sum(w, T) \in Nat /\ Sum(w, T) <= Sum(w, S)
<1> DEFINE F == {U \in SUBSET S : Sum(w, U) \in Nat}
           G == {U \in SUBSET (S \ T) : Sum(w, T) <= Sum(w, T \cup U)}
<1>0. \A U \in SUBSET S : IsFiniteSet(U) /\ Sum(w, U) \in Int
  <2> TAKE U \in SUBSET S
  <2>1. IsFiniteSet(U) /\ \A x \in U : w[x] \in Int
    BY FS_Subset
  <2> QED
    BY <2>1, SumInt
<1>1. \A U \in SUBSET S : \A x \in S \ U : Sum(w, U \cup {x}) = Sum(w, U) + w[x]
  <2> TAKE U \in SUBSET S
  <2> TAKE x \in S \ U
  <2>1. IsFiniteSet(U) /\ \A y \in U \cup {x} : w[y] \in Int
    BY <1>0
  <2> QED
    BY <2>1, SumAdd
<1>2. \A U \in SUBSET S : U \in F
  <2>1. {} \in F
    BY SumEmpty
  <2>2. \A U \in SUBSET S : \A x \in S \ U : U \in F => U \cup {x} \in F
    BY <1>1
  <2> HIDE DEF F
  <2> QED
    BY <2>1, <2>2, FiniteSubsets
<1>3. \A U \in SUBSET (S \ T) : U \in G
  <2>1. {} \in G
    <3>1. T \cup {} = T /\ Sum(w, T) \in Int
      BY <1>0
    <3> QED
      BY <3>1
  <2>2. ASSUME NEW U \in SUBSET (S \ T), NEW x \in (S \ T) \ U, U \in G
        PROVE  U \cup {x} \in G
    <3>1. T \cup (U \cup {x}) = (T \cup U) \cup {x} /\ T \cup U \in SUBSET S /\ x \in S \ (T \cup U)
      OBVIOUS
    <3>2. Sum(w, T \cup (U \cup {x})) = Sum(w, T \cup U) + w[x]
      BY <1>1, <3>1
    <3>3. Sum(w, T) \in Int /\ Sum(w, T \cup U) \in Int /\ w[x] \in Nat
      BY <1>0, <3>1
    <3> QED
      BY <2>2, <3>2, <3>3
  <2>3. IsFiniteSet(S \ T)
    BY FS_Subset
  <2> HIDE DEF F, G
  <2>4. \A U \in SUBSET (S \ T) : \A x \in (S \ T) \ U : U \in G => U \cup {x} \in G
    BY <2>2
  <2> QED
    BY <2>1, <2>3, <2>4, FiniteSubsets
<1>4. S \ T \in G /\ T \cup (S \ T) = S
  BY <1>3
<1> QED
  BY <1>2, <1>4

LEMMA SumOnes ==
  ASSUME NEW S, IsFiniteSet(S), NEW w, \A x \in S : w[x] = 1
  PROVE  Sum(w, S) = Cardinality(S)
<1> DEFINE F == {T \in SUBSET S : Sum(w, T) = Cardinality(T)}
<1>1. {} \in F
  BY SumEmpty, FS_EmptySet
<1>2. ASSUME NEW T \in SUBSET S, NEW x \in S \ T, T \in F PROVE T \cup {x} \in F
  <2>1. IsFiniteSet(T) /\ \A y \in T \cup {x} : w[y] \in Int
    BY FS_Subset
  <2>2. Sum(w, T \cup {x}) = Sum(w, T) + w[x]
    BY <2>1, SumAdd
  <2>3. Cardinality(T \cup {x}) = Cardinality(T) + 1
    BY <2>1, FS_AddElement
  <2>4. w[x] = 1 /\ T \cup {x} \in SUBSET S
    OBVIOUS
  <2> QED
    BY <1>2, <2>2, <2>3, <2>4
<1>3. S \in F
  <2> HIDE DEF F
  <2> QED
    BY <1>1, <1>2, FiniteSubsets
<1> QED
  BY <1>3
\* The sum of two parts.
LEMMA SumUnion ==
  ASSUME NEW S, IsFiniteSet(S), NEW T, IsFiniteSet(T), S \cap T = {},
         NEW w, \A x \in S \cup T : w[x] \in Int
  PROVE  Sum(w, S \cup T) = Sum(w, S) + Sum(w, T)
<1> DEFINE G == {U \in SUBSET T : Sum(w, S \cup U) = Sum(w, S) + Sum(w, U)}
<1>1. \A U \in SUBSET T : /\ IsFiniteSet(U) /\ Sum(w, U) \in Int
                          /\ IsFiniteSet(S \cup U) /\ Sum(w, S \cup U) \in Int
  <2> TAKE U \in SUBSET T
  <2>1. IsFiniteSet(U) /\ \A x \in U : w[x] \in Int
    BY FS_Subset
  <2>2. IsFiniteSet(S \cup U) /\ \A x \in S \cup U : w[x] \in Int
    BY <2>1, FS_Union
  <2> QED
    BY <2>1, <2>2, SumInt
<1>2. Sum(w, S) \in Int
  BY SumInt
<1>3. {} \in G
  <2>1. S \cup {} = S /\ Sum(w, {}) = 0
    BY SumEmpty
  <2> QED
    BY <1>2, <2>1
<1>4. ASSUME NEW U \in SUBSET T, NEW x \in T \ U, U \in G
      PROVE  U \cup {x} \in G
  <2>1. S \cup (U \cup {x}) = (S \cup U) \cup {x} /\ x \notin S \cup U
    OBVIOUS
  <2>2. Sum(w, (S \cup U) \cup {x}) = Sum(w, S \cup U) + w[x]
    <3>1. IsFiniteSet(S \cup U) /\ \A y \in (S \cup U) \cup {x} : w[y] \in Int
      BY <1>1
    <3> QED
      BY <2>1, <3>1, SumAdd
  <2>3. Sum(w, U \cup {x}) = Sum(w, U) + w[x]
    <3>1. IsFiniteSet(U) /\ \A y \in U \cup {x} : w[y] \in Int
      BY <1>1
    <3> QED
      BY <3>1, SumAdd
  <2>4. w[x] \in Int /\ Sum(w, U) \in Int
    BY <1>1
  <2>5. Sum(w, S \cup U) = Sum(w, S) + Sum(w, U)
    BY <1>4
  <2>6. Sum(w, (S \cup U) \cup {x}) = Sum(w, S) + Sum(w, U \cup {x})
    BY <1>2, <2>2, <2>3, <2>4, <2>5
  <2>7. U \cup {x} \in SUBSET T
    OBVIOUS
  <2> QED
    BY <2>1, <2>6, <2>7
<1> HIDE DEF G
<1>5. T \in G
  BY <1>3, <1>4, FiniteSubsets
<1> QED
  BY <1>5 DEF G
-----------------------------------------------------------------------------
(* Iterating a function.                                                   *)

\* The first n + 1 terms of a sequence that begins with base and goes on by step.
Terms(n, S, base, step) ==
    {g \in [0..n -> S] : g[0] = base /\ \A k \in 0..(n - 1) : g[k + 1] = step[g[k]]}

LEMMA TermsAgree ==
  ASSUME NEW S, NEW base \in S, NEW step \in [S -> S], NEW m \in Nat, NEW n \in Nat,
         NEW g \in Terms(m, S, base, step), NEW h \in Terms(n, S, base, step), m <= n
  PROVE  g[m] = h[m]
<1> DEFINE P == {k \in Nat : k <= m => g[k] = h[k]}
<1>1. 0 \in P
  BY DEF Terms
<1>2. ASSUME NEW k \in Nat, k \in P PROVE k + 1 \in P
  <2> SUFFICES ASSUME k + 1 <= m PROVE g[k + 1] = h[k + 1]
    OBVIOUS
  <2>1. k \in 0..(m - 1) /\ k \in 0..(n - 1) /\ k <= m
    OBVIOUS
  <2>2. g[k] = h[k]
    BY <1>2, <2>1
  <2> QED
    BY <2>1, <2>2 DEF Terms
<1> HIDE DEF P
<1>3. m \in P
  BY <1>1, <1>2, SetOfAll
<1> QED
  BY <1>3 DEF P

LEMMA TermsExist ==
  ASSUME NEW S, NEW base \in S, NEW step \in [S -> S]
  PROVE  \A n \in Nat : Terms(n, S, base, step) # {}
<1> DEFINE P == {n \in Nat : Terms(n, S, base, step) # {}}
<1>1. 0 \in P
  <2> DEFINE g == [i \in 0..0 |-> base]
  <2>1. g \in Terms(0, S, base, step)
    BY DEF Terms
  <2> QED
    BY <2>1
<1>2. ASSUME NEW n \in Nat, n \in P PROVE n + 1 \in P
  <2>1. PICK g : g \in Terms(n, S, base, step)
    BY <1>2
  <2> DEFINE h == [i \in 0..(n + 1) |-> IF i = n + 1 THEN step[g[n]] ELSE g[i]]
  <2>2. g \in [0..n -> S] /\ g[0] = base /\ \A k \in 0..(n - 1) : g[k + 1] = step[g[k]]
    BY <2>1 DEF Terms
  <2>3. h \in [0..(n + 1) -> S]
    <3>1. g[n] \in S /\ \A i \in 0..(n + 1) : i # n + 1 => g[i] \in S
      BY <2>2
    <3> QED
      BY <3>1
  <2>4. h[0] = base
    BY <2>2
  <2>5. ASSUME NEW k \in 0..n PROVE h[k + 1] = step[h[k]]
    <3>1. h[k] = g[k] /\ k + 1 \in 0..(n + 1)
      OBVIOUS
    <3>2. CASE k = n
      BY <3>1, <3>2
    <3>3. CASE k # n
      <4>1. k \in 0..(n - 1) /\ k + 1 # n + 1
        BY <3>3
      <4> QED
        BY <2>2, <3>1, <4>1
    <3> QED
      BY <3>2, <3>3
  <2> HIDE DEF h
  <2>6. n + 1 - 1 = n
    OBVIOUS
  <2>7. h \in Terms(n + 1, S, base, step)
    BY <2>3, <2>4, <2>5, <2>6 DEF Terms
  <2> QED
    BY <2>7
<1> HIDE DEF P
<1>3. Nat \subseteq P
  BY <1>1, <1>2, SetOfAll
<1> QED
  BY <1>3 DEF P

\* There is a sequence of all of them.
LEMMA SequenceExists ==
  ASSUME NEW S, NEW base \in S, NEW step \in [S -> S]
  PROVE  \E f \in [Nat -> S] : f[0] = base /\ \A k \in Nat : f[k + 1] = step[f[k]]
<1> DEFINE term == [n \in Nat |-> CHOOSE g : g \in Terms(n, S, base, step)]
           f == [n \in Nat |-> term[n][n]]
<1>1. ASSUME NEW n \in Nat PROVE term[n] \in Terms(n, S, base, step)
  <2>1. \E g : g \in Terms(n, S, base, step)
    BY TermsExist
  <2> QED
    BY <2>1, Zenon
<1> HIDE DEF term
<1>2. f \in [Nat -> S]
  BY <1>1 DEF Terms
<1>3. f[0] = base
  BY <1>1 DEF Terms
<1>4. ASSUME NEW k \in Nat PROVE f[k + 1] = step[f[k]]
  <2>1. term[k] \in Terms(k, S, base, step) /\ term[k + 1] \in Terms(k + 1, S, base, step)
    BY <1>1
  <2>2. term[k][k] = term[k + 1][k]
    BY <2>1, TermsAgree
  <2>3. k \in 0..(k + 1 - 1)
    OBVIOUS
  <2>4. term[k + 1][k + 1] = step[term[k + 1][k]]
    BY <2>1, <2>3 DEF Terms
  <2> QED
    BY <2>2, <2>4
<1> QED
  BY <1>2, <1>3, <1>4
=============================================================================
