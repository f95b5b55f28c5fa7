---------------------------- MODULE SyncD1Proofs ----------------------------
(***************************************************************************)
(* The delta load, proved for any shards, rows, CSVs, blocks and bounds:   *)
(* the inductive invariant and what follows from it.  It has five parts:   *)
(* the rows and plans of each shard (Delta), the shards whose mirror awaits*)
(* an export, the types, the full-text index, and the ledger.              *)
(*                                                                         *)
(* Delta comes first.  What a crash, a lost answer or a late request may   *)
(* leave in a live shard lies between the mirror and the plan, and nothing *)
(* else is committed.  Its parts are operators of the values of one shard  *)
(* (its mirror A, its CSV B, the version v, its live rows d ...), so that  *)
(* what one step does to one shard is a lemma about those values.          *)
(***************************************************************************)
EXTENDS SyncD1, TLAPS, FiniteSetTheorems, SequenceTheorems, WellFoundedInduction

UniqueIds(rows) == \A r, q \in rows : r.id = q.id => r = q

\* The plan of mirror A for CSV B in version v, as a function of the three.
BaseAt(A, v) ==
    IF Highest(IdsOf(A)) >= IdBlock * v THEN (Highest(IdsOf(A)) \div IdBlock + 1) * IdBlock
    ELSE IdBlock * v
Additions(A, B, v) ==
    [i \in 1..Len(Sorted(B \ KeysOf(A))) |->
        [id |-> BaseAt(A, v) + i, key |-> Sorted(B \ KeysOf(A))[i]]]
Removals(A, B) == Sorted(Vanished(A, B))

\* The rows a plan keeps and adds, and what it is to leave in D1.
Kept(A, B) == {r \in A : r.id \notin Vanished(A, B)}
Added(A, B, v) == {Additions(A, B, v)[i] : i \in 1..Len(Additions(A, B, v))}
Target(A, B, v) == Kept(A, B) \cup Added(A, B, v)

\* D1 lies between the rows the plan keeps and the old rows with the new ones.
Between(A, B, v, d) == Kept(A, B) \subseteq d /\ d \subseteq A \cup Added(A, B, v)

\* A request that leads to the target, whenever it is executed.
Harmless(A, B, v, q) ==
    \/ \E r \in Target(A, B, v) : q = Insertion(r)
    \/ \E n \in Nat : n \notin IdsOf(Target(A, B, v)) /\ q = Deletion(n)

\* What --reuse-plans compares.
SameMirror(A, sha) == sha.rows = Cardinality(A) /\ sha.maxId = Highest(IdsOf(A))

Checkpoint(c) ==
    /\ c = [phase |-> c.phase, inserted |-> c.inserted, deleted |-> c.deleted, sha |-> c.sha]
    /\ c.phase \in {"start", "insert", "delete", "verify", "verify-failed"}
    /\ c.inserted \in Nat /\ c.deleted \in Nat /\ c.sha \in Summary

\* The work a checkpoint counts is done, whichever plan of this mirror it is for.
Progress(A, B, v, d, c) ==
    /\ c.phase \in {"delete", "verify", "verify-failed"} => c.inserted = c.sha.ins
    /\ c.phase \in {"verify", "verify-failed"} => c.deleted = c.sha.del
    /\ SameMirror(A, c.sha) =>
        /\ \A i \in 1..c.inserted :
            i \in 1..Len(Additions(A, B, v)) /\ Additions(A, B, v)[i] \in d
        /\ \A i \in 1..c.deleted :
            i \in 1..Len(Removals(A, B)) /\ Removals(A, B)[i] \notin IdsOf(d)

\* A plan of this CSV whose summary matches the mirror is the plan of the mirror.
PlanFits(A, B, v, p) ==
    SameMirror(A, p.sha) =>
        /\ p.ins = Additions(A, B, v) /\ p.sha.ins = Len(p.ins)
        /\ p.del = Removals(A, B) /\ p.sha.del = Len(p.del)
        /\ p.sha.base = BaseAt(A, v)

\* No row that can be live holds an id of the plan, but the row of the plan.
IdsAreItsOwn(A, B, v, p) ==
    \A i \in 1..Len(p.ins), r \in A \cup Added(A, B, v) :
        r.id = p.ins[i].id => r = p.ins[i]

-----------------------------------------------------------------------------
Typed ==
    /\ version \in 1..MaxVersion
    /\ csv \in [Versions -> [Shards -> SUBSET Keys]]
    /\ d1 \in [Shards -> SUBSET Row]
    /\ fts \in [Addresses -> SUBSET Row]
    /\ triggers \subseteq Addresses
    /\ late \in [Shards -> SUBSET Request]
    /\ mirror \in [Shards -> SUBSET Row]
    /\ torn \subseteq Shards
    /\ planFresh \subseteq Shards
    /\ plan \in [Shards -> PlanFile \cup {NoPlan}]
    /\ \A s \in planFresh : plan[s] \in PlanFile
    /\ ckpt = [s \in Shards |-> ckpt[s]]
    /\ \A s \in Shards : ckpt[s] = NoCheckpoint \/ Checkpoint(ckpt[s])
    /\ loaded \in [Shards -> Versions]
    /\ pc \in [Shards -> Phase]
    /\ committed \in Nat

\* The index: what is deleted under a trigger leaves it.
Indexed ==
    /\ IndexFollows
    /\ \A s \in Addresses \ triggers :
        /\ ckpt[s].phase \in {"none", "start"}
        /\ \A q \in late[s] : q.op = "insert"

Mirrored(s) ==
    /\ IsFiniteSet(mirror[s])
    /\ UniqueIds(mirror[s])
    /\ Between(mirror[s], csv[version][s], version, d1[s])
    /\ \A q \in late[s] : Harmless(mirror[s], csv[version][s], version, q)

Resumed(s) ==
    ckpt[s] # NoCheckpoint =>
        Progress(mirror[s], csv[version][s], version, d1[s], ckpt[s])

Plans(s) ==
    /\ s \in planFresh => PlanFits(mirror[s], csv[version][s], version, plan[s])
    /\ pc[s] # "idle" =>
        /\ s \in planFresh
        /\ IdsAreItsOwn(mirror[s], csv[version][s], version, plan[s])
    /\ pc[s] \in {"planned", "apply"} => SameMirror(mirror[s], plan[s].sha)
    /\ pc[s] = "apply" => ckpt[s] # NoCheckpoint /\ ckpt[s].sha = plan[s].sha

Delta == \A s \in Shards : Mirrored(s) /\ Resumed(s) /\ Plans(s)

\* What a crash in save_mirror leaves: the plan is done, and the plan file and
\* the checkpoint are still those of the old mirror.
Interrupted(s) ==
    /\ d1[s] = Target(mirror[s], csv[version][s], version)
    /\ SameMirror(mirror[s], plan[s].sha)
    /\ ckpt[s] # NoCheckpoint => ckpt[s].sha = plan[s].sha
Awaited == torn # {} => Idle /\ \A s \in torn : Interrupted(s)

Failed == {s \in Shards : pc[s] = "failed"}
Spending == committed <= MaxRows + Cardinality(Failed) * RowCost

-----------------------------------------------------------------------------
(* Least and greatest elements, and the order of a plan.                   *)

LEMMA LeastExists ==
  ASSUME NEW S, S \subseteq Nat, S # {}
  PROVE  \E n \in S : \A m \in S : n <= m
<1> DEFINE less == {p \in Nat \X Nat : p[1] < p[2]}
<1>1. IsWellFoundedOn(less, Nat)
  BY NatLessThanWellFounded DEF OpToRel
<1>2. \E n \in S : \A m \in S : ~(<<m, n>> \in less)
  <2> HIDE DEF less
  <2> QED
    BY <1>1, WFMin
<1>3. PICK n \in S : \A m \in S : ~(<<m, n>> \in less)
  BY <1>2
<1>4. ASSUME NEW m \in S
      PROVE  n <= m
  <2>1. m \in Nat /\ n \in Nat /\ ~(m < n)
    BY <1>3
  <2> QED
    BY <2>1
<1> QED
  BY <1>4

\* Fewer elements lie above m than above n, when m is above n.
LEMMA HighestIs ==
  ASSUME NEW S, S \subseteq Nat, IsFiniteSet(S)
  PROVE  /\ Highest(S) \in Nat
         /\ \A m \in S : m <= Highest(S)
         /\ S # {} => Highest(S) \in S
<1> DEFINE above(n) == {m \in S : n < m}
           sizes == {Cardinality(above(n)) : n \in S}
<1>1. CASE S = {}
  BY <1>1 DEF Highest
<1>2. CASE S # {}
  <2>1. \A n \in S : IsFiniteSet(above(n)) /\ Cardinality(above(n)) \in Nat
    BY FS_Subset, FS_CardinalityType
  <2>2. PICK c \in sizes : \A k \in sizes : c <= k
    <3>1. sizes \subseteq Nat /\ sizes # {}
      BY <1>2, <2>1
    <3> HIDE DEF sizes
    <3> QED
      BY <3>1, LeastExists
  <2>3. PICK n \in S : c = Cardinality(above(n))
    BY <2>2
  <2>4. ASSUME NEW m \in S, ~(m <= n)
        PROVE  FALSE
    <3>1. m \in Nat /\ n \in Nat /\ \A k \in S : k \in Nat
      OBVIOUS
    <3>2. \A k \in above(m) : k \in above(n)
      BY <2>4, <3>1
    <3>2a. above(m) \subseteq above(n)
      BY <3>2
    <3>2b. m \in above(n) /\ m \notin above(m)
      BY <2>4, <3>1
    <3>3. Cardinality(above(m)) <= Cardinality(above(n)) /\ Cardinality(above(m)) # Cardinality(above(n))
      <4> HIDE DEF above
      <4> QED
        BY <2>1, <3>2a, <3>2b, FS_Subset
    <3>4. c <= Cardinality(above(m))
      BY <2>2
    <3> QED
      BY <2>1, <2>3, <3>3, <3>4
  <2>5. \E k \in S : \A m \in S : m <= k
    BY <2>4
  <2>6. Highest(S) = CHOOSE k \in S : \A m \in S : m <= k
    BY <1>2 DEF Highest
  <2>7. Highest(S) \in S /\ \A m \in S : m <= Highest(S)
    BY <2>5, <2>6
  <2> QED
    BY <2>7
<1> QED
  BY <1>1, <1>2

\* The rank of an element is the number of those below it: one to one, so onto.
LEMMA SortedIs ==
  ASSUME NEW S, S \subseteq Int, IsFiniteSet(S)
  PROVE  /\ Cardinality(S) \in Nat
         /\ Sorted(S) \in [1..Cardinality(S) -> S]
         /\ Len(Sorted(S)) = Cardinality(S)
         /\ \A x \in S : \E i \in 1..Cardinality(S) : Sorted(S)[i] = x
         /\ \A i, j \in 1..Cardinality(S) : Sorted(S)[i] = Sorted(S)[j] => i = j
<1> DEFINE below(x) == {m \in S : m < x}
           n == Cardinality(S)
           rank == [x \in S |-> Cardinality(below(x)) + 1]
<1>1. n \in Nat
  BY FS_CardinalityType
<1>2. \A x \in S : /\ IsFiniteSet(below(x)) /\ Cardinality(below(x)) \in Nat
                   /\ Cardinality(below(x)) < n
  <2> TAKE x \in S
  <2>1. below(x) \subseteq S /\ x \notin below(x)
    OBVIOUS
  <2>2. IsFiniteSet(below(x)) /\ Cardinality(below(x)) <= n /\ Cardinality(below(x)) # n
    <3> HIDE DEF below
    <3> QED
      BY <2>1, FS_Subset
  <2> QED
    BY <1>1, <2>2, FS_CardinalityType
<1>3. rank \in [S -> 1..n]
  <2> HIDE DEF below
  <2>1. \A x \in S : Cardinality(below(x)) + 1 \in 1..n
    BY <1>1, <1>2
  <2> QED
    BY <2>1
<1>4. \A x, y \in S : x < y => rank[x] # rank[y]
  <2> TAKE x, y \in S
  <2> HAVE x < y
  <2>1. \A k \in S : k \in Int
    OBVIOUS
  <2>1a. \A k \in below(x) : k \in below(y)
    BY <2>1
  <2>1b. below(x) \subseteq below(y)
    BY <2>1a
  <2>1c. x \in below(y) /\ x \notin below(x)
    BY <2>1
  <2>2. Cardinality(below(x)) # Cardinality(below(y))
    <3> HIDE DEF below
    <3> QED
      BY <1>2, <2>1b, <2>1c, FS_Subset
  <2> HIDE DEF below
  <2> QED
    BY <1>2, <2>2
<1>5. rank \in Injection(S, 1..n)
  <2>1. \A x, y \in S : rank[x] = rank[y] => x = y
    <3> HIDE DEF rank
    <3> TAKE x, y \in S
    <3>1. x = y \/ x < y \/ y < x
      OBVIOUS
    <3> QED
      BY <1>4, <3>1
  <2> HIDE DEF rank
  <2> QED
    BY <1>3, <2>1 DEF Injection, IsInjective
<1>6. \A i \in 1..n : \E x \in S : rank[x] = i
  <2>1. IsFiniteSet(1..n) /\ Cardinality(1..n) = n
    BY <1>1, FS_Interval
  <2>2. rank \in Surjection(S, 1..n)
    <3> HIDE DEF rank
    <3> QED
      BY <1>5, <2>1, FS_Injection
  <2> HIDE DEF rank
  <2> QED
    BY <2>2 DEF Surjection
<1>7. \A i \in 1..n : Sorted(S)[i] \in S /\ rank[Sorted(S)[i]] = i
  <2> TAKE i \in 1..n
  <2>1. \E x \in S : Cardinality(below(x)) = i - 1
    <3> HIDE DEF below
    <3> QED
      BY <1>1, <1>2, <1>6
  <2>2. Sorted(S)[i] = CHOOSE x \in S : Cardinality(below(x)) = i - 1
    BY DEF Sorted
  <2> HIDE DEF below
  <2>3. Sorted(S)[i] \in S /\ Cardinality(below(Sorted(S)[i])) = i - 1
    BY <2>1, <2>2
  <2> QED
    BY <2>3
<1>8. Sorted(S) \in [1..n -> S]
  <2> DEFINE at(i) == CHOOSE x \in S : Cardinality(below(x)) = i - 1
  <2>1. Sorted(S) = [i \in 1..n |-> at(i)]
    BY DEF Sorted
  <2> HIDE DEF at, n, rank, below
  <2>2. \A i \in 1..n : at(i) \in S
    BY <1>7, <2>1
  <2> QED
    BY <2>1, <2>2
<1> HIDE DEF rank, n
<1>9. Len(Sorted(S)) = n
  BY <1>1, <1>8
<1> USE DEF n
<1>10. \A x \in S : \E i \in 1..n : Sorted(S)[i] = x
  <2> TAKE x \in S
  <2>1. rank[x] \in 1..n
    BY <1>3
  <2> WITNESS rank[x] \in 1..n
  <2>2. Sorted(S)[rank[x]] \in S /\ rank[Sorted(S)[rank[x]]] = rank[x]
    BY <1>7, <2>1
  <2> QED
    BY <1>5, <2>2 DEF Injection, IsInjective
<1>11. \A i, j \in 1..n : Sorted(S)[i] = Sorted(S)[j] => i = j
  BY <1>7
<1> QED
  BY <1>1, <1>8, <1>9, <1>10, <1>11

-----------------------------------------------------------------------------
(* What a plan is made of.                                                 *)

Rows(A) == A \subseteq Row /\ IsFiniteSet(A) /\ UniqueIds(A)

LEMMA ImagesFinite ==
  ASSUME NEW A, A \subseteq Row, IsFiniteSet(A)
  PROVE  /\ IsFiniteSet(IdsOf(A)) /\ IdsOf(A) \subseteq Nat
         /\ IsFiniteSet(KeysOf(A)) /\ KeysOf(A) \subseteq Keys
         /\ Cardinality(A) \in Nat
         /\ UniqueIds(A) => Cardinality(IdsOf(A)) = Cardinality(A)
<1> DEFINE ids == [r \in A |-> r.id]
           keys == [r \in A |-> r.key]
<1>1. ids \in Surjection(A, IdsOf(A))
  BY DEF Surjection, IdsOf
<1>2. keys \in Surjection(A, KeysOf(A))
  BY DEF Surjection, KeysOf
<1>3. UniqueIds(A) => ids \in Injection(A, IdsOf(A))
  BY DEF Injection, IsInjective, IdsOf, UniqueIds
<1> HIDE DEF ids, keys
<1>4. IsFiniteSet(IdsOf(A)) /\ (UniqueIds(A) => Cardinality(IdsOf(A)) = Cardinality(A))
  BY <1>1, <1>3, FS_Surjection
<1>5. IsFiniteSet(KeysOf(A))
  BY <1>2, FS_Surjection
<1>6. IdsOf(A) \subseteq Nat /\ KeysOf(A) \subseteq Keys
  BY DEF IdsOf, KeysOf, Row
<1> QED
  BY <1>4, <1>5, <1>6, FS_CardinalityType

LEMMA HighestId ==
  ASSUME NEW A, A \subseteq Row, IsFiniteSet(A)
  PROVE  /\ Highest(IdsOf(A)) \in Nat
         /\ \A r \in A : r.id \in Nat /\ r.id <= Highest(IdsOf(A))
<1>1. Highest(IdsOf(A)) \in Nat /\ \A n \in IdsOf(A) : n <= Highest(IdsOf(A))
  BY ImagesFinite, HighestIs
<1> QED
  BY <1>1 DEF IdsOf, Row

\* The rounding of plan_one goes up, and that of chunked_count does.
LEMMA NextMultiple ==
  ASSUME NEW a \in Nat, NEW b \in Nat \ {0}
  PROVE  (a \div b + 1) * b \in Nat /\ (a \div b + 1) * b > a /\ (a \div b + 1) * b >= b
<1>1. a = (b * (a \div b)) + (a % b) /\ a % b \in 0..(b - 1) /\ a \div b \in Nat
  OBVIOUS
<1>2. (a \div b + 1) * b = (b * (a \div b)) + b /\ b * (a \div b) \in Nat
  BY <1>1
<1> QED
  BY <1>1, <1>2

LEMMA CeilingOf ==
  ASSUME NEW a \in Nat, NEW b \in Nat \ {0}
  PROVE  /\ ((a + b - 1) \div b) * b \in Nat
         /\ ((a + b - 1) \div b) * b >= a
         /\ a % b # 0 => ((a + b - 1) \div b) * b > a
<1> DEFINE c == a + b - 1
           q == c \div b
<1>1. c \in Nat
  OBVIOUS
<1> HIDE DEF c
<1>2. c = (b * q) + (c % b) /\ c % b \in 0..(b - 1) /\ q \in Nat
  BY <1>1
<1> HIDE DEF q
<1>3. b * q \in Nat /\ b * q = q * b /\ (b * q) % b = 0
  BY <1>2
<1>4. b * q >= a
  BY <1>2, <1>3 DEF c
<1> QED
  BY <1>3, <1>4 DEF c, q

\* New ids are above every id of the mirror, and above the first block's edge.
LEMMA BaseAbove ==
  ASSUME NEW A, A \subseteq Row, IsFiniteSet(A), NEW v \in Nat \ {0}
  PROVE  /\ BaseAt(A, v) \in Nat /\ BaseAt(A, v) >= IdBlock
         /\ BaseAt(A, v) >= Highest(IdsOf(A))
         /\ \A r \in A : r.id <= BaseAt(A, v)
<1> DEFINE h == Highest(IdsOf(A))
<1>1. h \in Nat /\ \A r \in A : r.id \in Nat /\ r.id <= h
  BY HighestId
<1> HIDE DEF h
<1>2. IdBlock \in Nat \ {0}
  BY NumbersAssumption
<1>3. IdBlock * v \in Nat /\ IdBlock * v >= IdBlock
  BY <1>2
<1>4. CASE h >= IdBlock * v
  <2>1. BaseAt(A, v) = (h \div IdBlock + 1) * IdBlock
    BY <1>4 DEF BaseAt, h
  <2>2. BaseAt(A, v) \in Nat /\ BaseAt(A, v) > h /\ BaseAt(A, v) >= IdBlock
    BY <1>1, <1>2, <2>1, NextMultiple
  <2> QED
    BY <1>1, <2>2 DEF h
<1>5. CASE ~(h >= IdBlock * v)
  <2>1. BaseAt(A, v) = IdBlock * v
    BY <1>5 DEF BaseAt, h
  <2> QED
    BY <1>1, <1>3, <1>5, <2>1 DEF h
<1> QED
  BY <1>4, <1>5

\* A list of rows numbered from a base, one for each of the keys.
Numbers(add, base, N) ==
    /\ Cardinality(N) \in Nat /\ Len(add) = Cardinality(N)
    /\ add = [i \in 1..Cardinality(N) |-> add[i]]
    /\ \A i \in 1..Cardinality(N) :
        add[i] \in Row /\ add[i].id = base + i /\ add[i].key \in N
    /\ \A k \in N : \E i \in 1..Cardinality(N) : add[i].key = k
    /\ \A i, j \in 1..Cardinality(N) : add[i].key = add[j].key => i = j

LEMMA AdditionsAre ==
  ASSUME NEW A, A \subseteq Row, IsFiniteSet(A), NEW B \in SUBSET Keys, NEW v \in Nat \ {0}
  PROVE  Numbers(Additions(A, B, v), BaseAt(A, v), B \ KeysOf(A))
<1> DEFINE N == B \ KeysOf(A)
           n == Cardinality(N)
           new == Sorted(N)
<1>1. N \subseteq Int /\ IsFiniteSet(N) /\ N \subseteq Keys
  BY RowsAssumption, FS_Subset
<1> HIDE DEF N
<1>2. /\ n \in Nat /\ new \in [1..n -> N] /\ Len(new) = n
      /\ \A k \in N : \E i \in 1..n : new[i] = k
      /\ \A i, j \in 1..n : new[i] = new[j] => i = j
  BY <1>1, SortedIs
<1>3. Additions(A, B, v) = [i \in 1..Len(new) |-> [id |-> BaseAt(A, v) + i, key |-> new[i]]]
  BY DEF Additions, N
<1> HIDE DEF new, n
<1>4. DOMAIN Additions(A, B, v) = 1..n
  BY <1>2, <1>3
<1>5. Len(Additions(A, B, v)) = n
  BY <1>2, <1>3, <1>4
<1>6. \A i \in 1..n : Additions(A, B, v)[i] = [id |-> BaseAt(A, v) + i, key |-> new[i]]
  BY <1>2, <1>3
<1>7. BaseAt(A, v) \in Nat
  BY BaseAbove
<1>8. \A i \in 1..n : /\ Additions(A, B, v)[i] \in Row
                      /\ Additions(A, B, v)[i].id = BaseAt(A, v) + i
                      /\ Additions(A, B, v)[i].key = new[i]
                      /\ new[i] \in N
  <2> TAKE i \in 1..n
  <2>1. new[i] \in N
    BY <1>2
  <2>2. new[i] \in Keys
    BY <1>1, <2>1
  <2>3. i \in Nat /\ BaseAt(A, v) + i \in Nat
    BY <1>2, <1>7
  <2>4. Additions(A, B, v)[i] = [id |-> BaseAt(A, v) + i, key |-> new[i]]
    BY <1>6
  <2> QED
    BY <2>1, <2>2, <2>3, <2>4 DEF Row
<1>9. \A k \in N : \E i \in 1..n : Additions(A, B, v)[i].key = k
  BY <1>2, <1>8
<1>10. \A i, j \in 1..n : Additions(A, B, v)[i].key = Additions(A, B, v)[j].key => i = j
  BY <1>2, <1>8
<1>11. Additions(A, B, v) = [i \in 1..n |-> Additions(A, B, v)[i]]
  BY <1>2, <1>3
<1> HIDE DEF N
<1>12. Numbers(Additions(A, B, v), BaseAt(A, v), N)
  BY <1>2, <1>5, <1>8, <1>9, <1>10, <1>11 DEF Numbers, n
<1> QED
  BY <1>12 DEF N

LEMMA RemovalsAre ==
  ASSUME NEW A, A \subseteq Row, IsFiniteSet(A), NEW B
  PROVE  /\ Vanished(A, B) \subseteq IdsOf(A) /\ IsFiniteSet(Vanished(A, B))
         /\ Len(Removals(A, B)) = Cardinality(Vanished(A, B))
         /\ Cardinality(Vanished(A, B)) \in Nat
         /\ DOMAIN Removals(A, B) = 1..Cardinality(Vanished(A, B))
         /\ \A i \in 1..Len(Removals(A, B)) : Removals(A, B)[i] \in Vanished(A, B)
         /\ \A n \in Vanished(A, B) : \E i \in 1..Len(Removals(A, B)) : Removals(A, B)[i] = n
<1>1. Vanished(A, B) \subseteq IdsOf(A)
  BY DEF Vanished, IdsOf
<1>2. IsFiniteSet(Vanished(A, B)) /\ Vanished(A, B) \subseteq Int
  BY <1>1, ImagesFinite, FS_Subset
<1> QED
  BY <1>1, <1>2, SortedIs DEF Removals

LEMMA AddedAre ==
  ASSUME NEW A, Rows(A), NEW B \in SUBSET Keys, NEW v \in Nat \ {0}
  PROVE  /\ Rows(Added(A, B, v))
         /\ \A r \in Added(A, B, v) : r.id > BaseAt(A, v) /\ r.key \in B \ KeysOf(A)
         /\ \A r \in Added(A, B, v), q \in A : q.id < r.id
         /\ \A r, q \in Added(A, B, v) : r.key = q.key => r = q
         /\ KeysOf(Added(A, B, v)) = B \ KeysOf(A)
         /\ Cardinality(Added(A, B, v)) = Len(Additions(A, B, v))
<1> DEFINE N == B \ KeysOf(A)
           n == Cardinality(N)
           add == Additions(A, B, v)
<1>1. Numbers(add, BaseAt(A, v), N)
  BY AdditionsAre DEF Rows
<1>2. Added(A, B, v) = {add[i] : i \in 1..n} /\ Len(Additions(A, B, v)) = n
  BY <1>1 DEF Added, Numbers
<1>3. BaseAt(A, v) \in Nat /\ \A q \in A : q.id \in Nat /\ q.id <= BaseAt(A, v)
  BY BaseAbove, HighestId DEF Rows
<1> HIDE DEF n, add, N
<1> USE <1>1 DEF Numbers, n
<1>4. \A r \in Added(A, B, v) : \E i \in 1..n : r = add[i]
  BY <1>2
<1>5. \A r \in Added(A, B, v) : r \in Row /\ r.id > BaseAt(A, v) /\ r.key \in N
  <2> TAKE r \in Added(A, B, v)
  <2>1. PICK i \in 1..n : r = add[i]
    BY <1>4
  <2> QED
    BY <1>1, <1>3, <2>1
<1>6. \A r, q \in Added(A, B, v) : (r.key = q.key \/ r.id = q.id) => r = q
  <2> TAKE r, q \in Added(A, B, v)
  <2>1. PICK i \in 1..n : r = add[i]
    BY <1>4
  <2>2. PICK j \in 1..n : q = add[j]
    BY <1>4
  <2>3. r.id = q.id => i = j
    BY <1>1, <1>3, <2>1, <2>2
  <2>4. r.key = q.key => i = j
    BY <1>1, <2>1, <2>2
  <2> QED
    BY <2>1, <2>2, <2>3, <2>4
<1>7. add \in Surjection(1..n, Added(A, B, v)) /\ add \in Injection(1..n, Added(A, B, v))
  <2>1. add = [i \in 1..n |-> add[i]]
    BY <1>1
  <2>2. add \in [1..n -> Added(A, B, v)]
    BY <1>2, <2>1
  <2>3. \A i, j \in 1..n : add[i] = add[j] => i = j
    BY <1>1
  <2>4. \A r \in Added(A, B, v) : \E i \in 1..n : add[i] = r
    BY <1>4
  <2> QED
    BY <2>2, <2>3, <2>4 DEF Surjection, Injection, IsInjective
<1>8. IsFiniteSet(Added(A, B, v)) /\ Cardinality(Added(A, B, v)) = n
  <2>1. IsFiniteSet(1..n) /\ Cardinality(1..n) = n
    BY <1>1, FS_Interval
  <2> QED
    BY <1>7, <2>1, FS_Surjection
<1>9. KeysOf(Added(A, B, v)) = N
  <2>1. \A k \in N : \E r \in Added(A, B, v) : r.key = k
    BY <1>1, <1>2
  <2> QED
    BY <1>5, <2>1 DEF KeysOf
<1>10. \A r \in Added(A, B, v), q \in A : q.id < r.id
  <2> TAKE r \in Added(A, B, v), q \in A
  <2>1. r.id \in Nat
    BY <1>5 DEF Row
  <2> QED
    BY <1>3, <1>5, <2>1
<1>11. UniqueIds(Added(A, B, v))
  BY <1>6 DEF UniqueIds
<1> QED
  BY <1>2, <1>5, <1>6, <1>8, <1>9, <1>10, <1>11 DEF Rows, N

\* An id that vanishes is that of one row, which vanishes.
LEMMA VanishedRow ==
  ASSUME NEW A, Rows(A), NEW B, NEW r \in A
  PROVE  r.id \in Vanished(A, B) <=>
            r.key \notin B \/ \E q \in A : q.key = r.key /\ q.id < r.id
<1>1. ASSUME r.id \in Vanished(A, B)
      PROVE  r.key \notin B \/ \E q \in A : q.key = r.key /\ q.id < r.id
  <2>1. PICK p \in A : p.id = r.id /\ (p.key \notin B \/ \E q \in A : q.key = p.key /\ q.id < p.id)
    BY <1>1 DEF Vanished, IdsOf
  <2>2. p = r
    BY <2>1 DEF Rows, UniqueIds
  <2> QED
    BY <2>1, <2>2
<1>2. ASSUME r.key \notin B \/ \E q \in A : q.key = r.key /\ q.id < r.id
      PROVE  r.id \in Vanished(A, B)
  BY <1>2 DEF Vanished, IdsOf
<1> QED
  BY <1>1, <1>2

\* Of the rows of a key that stays, the one of the lowest id is kept.
LEMMA KeptKeys ==
  ASSUME NEW A, Rows(A), NEW B
  PROVE  /\ KeysOf(Kept(A, B)) = KeysOf(A) \cap B
         /\ \A r, q \in Kept(A, B) : r.key = q.key => r = q
<1>1. ASSUME NEW k \in KeysOf(A) \cap B
      PROVE  \E r \in Kept(A, B) : r.key = k
  <2> DEFINE ids == IdsOf({r \in A : r.key = k})
  <2>1. ids \subseteq Nat /\ ids # {}
    BY DEF Rows, Row, IdsOf, KeysOf
  <2>2. PICK n \in ids : \A m \in ids : n <= m
    <3> HIDE DEF ids
    <3> QED
      BY <2>1, LeastExists
  <2>3. PICK r \in A : r.key = k /\ r.id = n
    BY DEF IdsOf
  <2>4. \A q \in A : q.key = k => q.id \in ids /\ q.id \in Nat
    BY DEF IdsOf, Rows, Row
  <2>5. ~\E q \in A : q.key = r.key /\ q.id < r.id
    BY <2>1, <2>2, <2>3, <2>4
  <2>6. r.id \notin Vanished(A, B)
    BY <2>3, <2>5, VanishedRow
  <2> QED
    BY <2>3, <2>6 DEF Kept
<1>2. \A r \in Kept(A, B) : r \in A /\ r.key \in B
  BY VanishedRow DEF Kept
<1>3. ASSUME NEW r \in Kept(A, B), NEW q \in Kept(A, B), r.key = q.key
      PROVE  r = q
  <2>1. r \in A /\ q \in A /\ r.id \in Nat /\ q.id \in Nat
    BY DEF Kept, Rows, Row
  <2>2. ~(q.id < r.id) /\ ~(r.id < q.id)
    BY <1>3, <2>1, VanishedRow DEF Kept
  <2> QED
    BY <2>1, <2>2 DEF Rows, UniqueIds
<1> QED
  BY <1>1, <1>2, <1>3 DEF KeysOf

\* Everything that may be live while a plan is applied: one row an id.
LEMMA AllRows ==
  ASSUME NEW A, Rows(A), NEW B \in SUBSET Keys, NEW v \in Nat \ {0}
  PROVE  /\ Rows(A \cup Added(A, B, v)) /\ Rows(Target(A, B, v))
         /\ A \cap Added(A, B, v) = {}
         /\ Target(A, B, v) = {r \in A \cup Added(A, B, v) : r.id \notin Vanished(A, B)}
         /\ IdsOf(Target(A, B, v)) \cap Vanished(A, B) = {}
<1> DEFINE I == Added(A, B, v)
           T == Target(A, B, v)
<1>1. Rows(I) /\ \A r \in I, q \in A : q.id < r.id
  BY AddedAre
<1>2. \A r \in A \cup I : r \in Row /\ r.id \in Nat
  BY <1>1 DEF Rows, Row
<1> HIDE DEF I
<1>3. \A r \in I, q \in A : q.id # r.id
  BY <1>1, <1>2
<1>4. UniqueIds(A \cup I)
  BY <1>1, <1>3 DEF Rows, UniqueIds
<1>5. IsFiniteSet(A \cup I)
  BY <1>1, FS_Union DEF Rows
<1>6. Vanished(A, B) \subseteq IdsOf(A)
  BY RemovalsAre DEF Rows
<1>7. \A r \in I : r.id \notin Vanished(A, B)
  BY <1>3, <1>6 DEF IdsOf
<1>8. T = {r \in A \cup I : r.id \notin Vanished(A, B)}
  BY <1>7 DEF Target, Kept, I
<1> HIDE DEF T
<1>9. T \subseteq A \cup I /\ IsFiniteSet(T)
  BY <1>5, <1>8, FS_Subset
<1>10. Rows(A \cup I) /\ Rows(T)
  BY <1>2, <1>4, <1>5, <1>9 DEF Rows, UniqueIds
<1>11. IdsOf(T) \cap Vanished(A, B) = {}
  BY <1>8 DEF IdsOf
<1>12. A \cap I = {}
  BY <1>3
<1> QED
  BY <1>8, <1>10, <1>11, <1>12 DEF I, T

\* The plan leaves one row for each key of the CSV, so that the next plan of
\* the same CSV has nothing to do.
LEMMA TargetIs ==
  ASSUME NEW A, Rows(A), NEW B \in SUBSET Keys, NEW v \in Nat \ {0}, NEW w \in Nat \ {0},
         NEW T, T = Target(A, B, v)
  PROVE  /\ KeysOf(T) = B
         /\ Cardinality(T) = Cardinality(B)
         /\ Kept(T, B) = T /\ Added(T, B, w) = {} /\ Target(T, B, w) = T
<1> DEFINE I == Added(A, B, v)
           K == Kept(A, B)
<1>1. Rows(T) /\ T = K \cup I
  BY AllRows DEF Target
<1>2. KeysOf(K) = KeysOf(A) \cap B /\ \A r, q \in K : r.key = q.key => r = q
  BY KeptKeys
<1>3. KeysOf(I) = B \ KeysOf(A) /\ \A r, q \in I : r.key = q.key => r = q
  BY AddedAre
<1> HIDE DEF I, K
<1>4. KeysOf(T) = B
  BY <1>1, <1>2, <1>3 DEF KeysOf
<1>5. \A r \in K, q \in I : r.key # q.key
  BY <1>2, <1>3 DEF KeysOf
<1>6. \A r, q \in T : r.key = q.key => r = q
  BY <1>1, <1>2, <1>3, <1>5
<1>7. Cardinality(T) = Cardinality(B)
  <2> DEFINE key == [r \in T |-> r.key]
  <2>1. key \in Surjection(T, B)
    BY <1>4 DEF Surjection, KeysOf
  <2>2. key \in Injection(T, B)
    BY <1>4, <1>6 DEF Injection, IsInjective, KeysOf
  <2> HIDE DEF key
  <2> QED
    BY <1>1, <2>1, <2>2, FS_Surjection DEF Rows
<1>8. Vanished(T, B) = {}
  <2>1. \A r \in T : r.key \in B /\ r.id \in Nat
    BY <1>1, <1>4 DEF KeysOf, Rows, Row
  <2>2. \A r \in T, q \in T : q.key = r.key => ~(q.id < r.id)
    <3> TAKE r \in T, q \in T
    <3> HAVE q.key = r.key
    <3>1. q = r
      BY <1>6
    <3> QED
      BY <2>1, <3>1
  <2> QED
    BY <2>1, <2>2 DEF Vanished, IdsOf
<1>9. Kept(T, B) = T
  BY <1>8 DEF Kept
<1>10. Added(T, B, w) = {}
  <2>1. KeysOf(Added(T, B, w)) = {}
    BY <1>1, <1>4, AddedAre
  <2> QED
    BY <2>1 DEF KeysOf
<1>11. Target(T, B, w) = T
  BY <1>9, <1>10 DEF Target
<1> QED
  BY <1>4, <1>7, <1>9, <1>10, <1>11

\* Rows taken out and put in, counted.
LEMMA TargetCount ==
  ASSUME NEW A, Rows(A), NEW B \in SUBSET Keys, NEW v \in Nat \ {0}
  PROVE  Cardinality(Target(A, B, v))
            = Cardinality(A) - Len(Removals(A, B)) + Len(Additions(A, B, v))
<1> DEFINE I == Added(A, B, v)
           K == Kept(A, B)
           G == {r \in A : r.id \in Vanished(A, B)}
<1>1. K = A \ G
  BY DEF Kept
<1>2. G \subseteq A /\ IsFiniteSet(G) /\ Cardinality(G) \in Nat /\ UniqueIds(G)
  <2>1. G \subseteq A /\ UniqueIds(G)
    BY DEF Rows, UniqueIds
  <2> HIDE DEF G
  <2> QED
    BY <2>1, FS_Subset, FS_CardinalityType DEF Rows
<1>3. IdsOf(G) = Vanished(A, B)
  BY RemovalsAre DEF IdsOf, Rows
<1> HIDE DEF G
<1>4. Cardinality(G) = Len(Removals(A, B))
  <2>1. Cardinality(IdsOf(G)) = Cardinality(G)
    BY <1>2, ImagesFinite DEF Rows
  <2> QED
    BY <1>3, <2>1, RemovalsAre DEF Rows
<1>5. IsFiniteSet(K) /\ Cardinality(K) = Cardinality(A) - Cardinality(G)
  <2>1. A \cap G = G
    BY <1>2
  <2> QED
    BY <1>1, <2>1, FS_Difference DEF Rows
<1>6. IsFiniteSet(I) /\ Cardinality(I) = Len(Additions(A, B, v))
  BY AddedAre DEF Rows
<1>7. K \cap I = {}
  BY <1>1, AllRows
<1>8. Cardinality(A) \in Nat /\ Cardinality(I) \in Nat
  BY <1>6, FS_CardinalityType DEF Rows
<1> HIDE DEF K, I
<1>9. Cardinality(K \cup I) = Cardinality(K) + Cardinality(I) - 0
  <2>1. Cardinality(K \cap I) = 0
    BY <1>7, FS_EmptySet
  <2> QED
    BY <1>5, <1>6, <2>1, FS_Union
<1>10. Target(A, B, v) = K \cup I
  BY DEF Target, K, I
<1> QED
  BY <1>2, <1>4, <1>5, <1>6, <1>8, <1>9, <1>10

\* A plan that moves neither the number of rows nor the highest id is empty.
LEMMA SameMirrorSameRows ==
  ASSUME NEW A, Rows(A), NEW B \in SUBSET Keys, NEW v \in Nat \ {0},
         Cardinality(Target(A, B, v)) = Cardinality(A),
         Highest(IdsOf(Target(A, B, v))) = Highest(IdsOf(A))
  PROVE  /\ Target(A, B, v) = A
         /\ Len(Additions(A, B, v)) = 0 /\ Len(Removals(A, B)) = 0
<1> DEFINE T == Target(A, B, v)
<1>1. Rows(T) /\ T = Kept(A, B) \cup Added(A, B, v)
  BY AllRows DEF Target
<1> HIDE DEF T
<1>2. Added(A, B, v) = {}
  <2> SUFFICES ASSUME NEW r \in Added(A, B, v)
               PROVE  FALSE
    OBVIOUS
  <2>1. BaseAt(A, v) \in Nat /\ BaseAt(A, v) >= Highest(IdsOf(A)) /\ r.id > BaseAt(A, v)
    BY BaseAbove, AddedAre DEF Rows
  <2>2. r.id \in Nat /\ r.id <= Highest(IdsOf(T)) /\ Highest(IdsOf(T)) \in Nat
    BY <1>1, HighestId DEF Rows
  <2>3. Highest(IdsOf(A)) \in Nat /\ Highest(IdsOf(T)) = Highest(IdsOf(A))
    BY HighestId DEF Rows, T
  <2> QED
    BY <2>1, <2>2, <2>3
<1>3. Len(Additions(A, B, v)) = 0
  <2>1. Cardinality(Added(A, B, v)) = Len(Additions(A, B, v))
    BY AddedAre
  <2> QED
    BY <1>2, <2>1, FS_EmptySet
<1>4. T \subseteq A
  BY <1>1, <1>2 DEF Kept
<1>5. T = A
  BY <1>4, FS_Subset DEF T, Rows
<1>6. Len(Removals(A, B)) = 0
  <2>1. Cardinality(A) \in Nat /\ Len(Removals(A, B)) \in Nat
    BY RemovalsAre, FS_CardinalityType DEF Rows
  <2> QED
    BY <1>3, <2>1, TargetCount
<1> QED
  BY <1>3, <1>5, <1>6 DEF T

-----------------------------------------------------------------------------
(* What a request, a commit and a rebuilt CSV do to one shard.             *)

After(d, q) ==
    IF IF q.op = "insert" THEN q.row.id \notin IdsOf(d) ELSE q.id \in IdsOf(d)
    THEN RowsAfter(d, q) ELSE d

\* A harmless request takes nothing back: what is done stays done.
LEMMA ExecutedHarmless ==
  ASSUME NEW A, Rows(A), NEW B \in SUBSET Keys, NEW v \in Nat \ {0},
         NEW d, Between(A, B, v, d), NEW q, Harmless(A, B, v, q)
  PROVE  /\ Between(A, B, v, After(d, q))
         /\ \A r \in d \cap Target(A, B, v) : r \in After(d, q)
         /\ \A n \in Vanished(A, B) : n \notin IdsOf(d) => n \notin IdsOf(After(d, q))
         /\ \A r \in Target(A, B, v) : q = Insertion(r) => r \in After(d, q)
         /\ \A n : q = Deletion(n) => n \notin IdsOf(After(d, q))
<1> DEFINE T == Target(A, B, v)
           U == A \cup Added(A, B, v)
<1>1. UniqueIds(U) /\ T \subseteq U /\ Kept(A, B) \subseteq T
  <2>1. Rows(U)
    BY AllRows
  <2>2. UniqueIds(U)
    BY <2>1 DEF Rows
  <2> QED
    BY <2>2 DEF Target, Kept
<1>2. IdsOf(T) \cap Vanished(A, B) = {}
  BY AllRows
<1>3. Kept(A, B) \subseteq d /\ d \subseteq U
  BY DEF Between
<1> HIDE DEF T, U
<1>4. ASSUME NEW r \in T, q = Insertion(r)
      PROVE  /\ After(d, q) \subseteq d \cup {r} /\ d \subseteq After(d, q)
             /\ r \in After(d, q)
  <2>1. q.op = "insert" /\ q.row = r
    BY <1>4 DEF Insertion
  <2>2. CASE r.id \notin IdsOf(d)
    <3>1. After(d, q) = d \cup {r}
      BY <2>1, <2>2 DEF After, RowsAfter
    <3> QED
      BY <3>1
  <2>3. CASE r.id \in IdsOf(d)
    <3>1. After(d, q) = d
      BY <2>1, <2>3 DEF After
    <3>2. PICK p \in d : p.id = r.id
      BY <2>3 DEF IdsOf
    <3>3. p = r
      BY <1>1, <1>3, <3>2 DEF UniqueIds
    <3> QED
      BY <3>1, <3>3
  <2> QED
    BY <2>2, <2>3
<1>5. ASSUME NEW n, q = Deletion(n)
      PROVE  /\ After(d, q) = {r \in d : r.id # n}
             /\ n \notin IdsOf(After(d, q))
  <2>1. q.op = "delete" /\ q.id = n
    BY <1>5 DEF Deletion
  <2>2. After(d, q) = {r \in d : r.id # n}
    BY <2>1 DEF After, RowsAfter, IdsOf
  <2> QED
    BY <2>2 DEF IdsOf
<1>6. ASSUME NEW r \in T, q = Insertion(r)
      PROVE  /\ \A n : q # Deletion(n)
             /\ \A n \in Vanished(A, B) : n \notin IdsOf(d) => n \notin IdsOf(After(d, q))
  <2>1. \A n : q # Deletion(n)
    BY <1>6 DEF Insertion, Deletion
  <2>2. r.id \notin Vanished(A, B)
    BY <1>2 DEF IdsOf
  <2> QED
    BY <1>4, <1>6, <2>1, <2>2 DEF IdsOf
<1>7. CASE \E r \in T : q = Insertion(r)
  <2>1. PICK r \in T : q = Insertion(r)
    BY <1>7
  <2>2. /\ After(d, q) \subseteq d \cup {r} /\ d \subseteq After(d, q) /\ r \in After(d, q)
        /\ \A n : q # Deletion(n)
        /\ \A n \in Vanished(A, B) : n \notin IdsOf(d) => n \notin IdsOf(After(d, q))
    BY <1>4, <1>6, <2>1
  <2>3. Between(A, B, v, After(d, q))
    BY <1>1, <1>3, <2>2 DEF Between, U
  <2>4. \A p \in T : q = Insertion(p) => p \in After(d, q)
    BY <1>4
  <2> QED
    BY <2>2, <2>3, <2>4 DEF T
<1>8. CASE \E n \in Nat : n \notin IdsOf(T) /\ q = Deletion(n)
  <2>1. PICK n \in Nat : n \notin IdsOf(T) /\ q = Deletion(n)
    BY <1>8
  <2>2. After(d, q) = {r \in d : r.id # n}
    BY <1>5, <2>1
  <2>3. \A r \in T : r.id # n
    BY <2>1 DEF IdsOf
  <2>4. Between(A, B, v, After(d, q))
    BY <1>1, <1>3, <2>2, <2>3 DEF Between, U
  <2>5. \A r \in T : q # Insertion(r)
    BY <2>1 DEF Insertion, Deletion
  <2>6. \A r \in d \cap T : r \in After(d, q)
    BY <2>2, <2>3
  <2>7. \A m \in Vanished(A, B) : m \notin IdsOf(d) => m \notin IdsOf(After(d, q))
    BY <2>2 DEF IdsOf
  <2>8. \A m : q = Deletion(m) => m \notin IdsOf(After(d, q))
    BY <1>5
  <2> QED
    BY <2>4, <2>5, <2>6, <2>7, <2>8 DEF T
<1> QED
  BY <1>7, <1>8 DEF Harmless, T

\* The list of additions and that of removals, as sets.
LEMMA PlanLists ==
  ASSUME NEW A, Rows(A), NEW B \in SUBSET Keys, NEW v \in Nat \ {0}
  PROVE  /\ Len(Additions(A, B, v)) \in Nat /\ Len(Removals(A, B)) \in Nat
         /\ \A i \in 1..Len(Additions(A, B, v)) :
                Additions(A, B, v)[i] \in Added(A, B, v) /\ Additions(A, B, v)[i] \in Target(A, B, v)
         /\ \A i \in 1..Len(Removals(A, B)) :
                /\ Removals(A, B)[i] \in Vanished(A, B) /\ Removals(A, B)[i] \in IdsOf(A)
                /\ Removals(A, B)[i] \in Nat
                /\ Removals(A, B)[i] \notin IdsOf(Target(A, B, v))
<1>1. Len(Additions(A, B, v)) \in Nat
  BY AdditionsAre DEF Numbers, Rows
<1>2. \A i \in 1..Len(Additions(A, B, v)) :
        Additions(A, B, v)[i] \in Added(A, B, v) /\ Additions(A, B, v)[i] \in Target(A, B, v)
  BY DEF Added, Target
<1>3. /\ Len(Removals(A, B)) \in Nat /\ Vanished(A, B) \subseteq IdsOf(A)
      /\ \A i \in 1..Len(Removals(A, B)) : Removals(A, B)[i] \in Vanished(A, B)
  BY RemovalsAre DEF Rows
<1>4. IdsOf(A) \subseteq Nat /\ IdsOf(Target(A, B, v)) \cap Vanished(A, B) = {}
  BY ImagesFinite, AllRows DEF Rows
<1> QED
  BY <1>1, <1>2, <1>3, <1>4

\* Progress is kept by whatever harmless requests are executed.
LEMMA ProgressKept ==
  ASSUME NEW A, Rows(A), NEW B \in SUBSET Keys, NEW v \in Nat \ {0},
         NEW d, Between(A, B, v, d), NEW q, Harmless(A, B, v, q),
         NEW c, Progress(A, B, v, d, c)
  PROVE  Progress(A, B, v, After(d, q), c)
<1>1. ASSUME SameMirror(A, c.sha), NEW i \in 1..c.inserted
      PROVE  i \in 1..Len(Additions(A, B, v)) /\ Additions(A, B, v)[i] \in After(d, q)
  <2>1. i \in 1..Len(Additions(A, B, v)) /\ Additions(A, B, v)[i] \in d
    BY <1>1 DEF Progress
  <2>2. Additions(A, B, v)[i] \in d \cap Target(A, B, v)
    BY <2>1, PlanLists
  <2> QED
    BY <2>1, <2>2, ExecutedHarmless
<1>2. ASSUME SameMirror(A, c.sha), NEW i \in 1..c.deleted
      PROVE  i \in 1..Len(Removals(A, B)) /\ Removals(A, B)[i] \notin IdsOf(After(d, q))
  <2>1. i \in 1..Len(Removals(A, B)) /\ Removals(A, B)[i] \notin IdsOf(d)
    BY <1>2 DEF Progress
  <2>2. Removals(A, B)[i] \in Vanished(A, B)
    BY <2>1, PlanLists
  <2> QED
    BY <2>1, <2>2, ExecutedHarmless
<1> QED
  BY <1>1, <1>2 DEF Progress

\* Nothing is done in a shard that is as the mirror has it, so its checkpoint
\* holds for any plan of this mirror.
LEMMA SettledProgress ==
  ASSUME NEW A, Rows(A), NEW B \in SUBSET Keys, NEW C \in SUBSET Keys, NEW v \in Nat \ {0},
         NEW c, Progress(A, B, v, A, c)
  PROVE  Progress(A, C, v, A, c)
<1>1. ASSUME SameMirror(A, c.sha), NEW i \in 1..c.inserted
      PROVE  FALSE
  <2>1. i \in 1..Len(Additions(A, B, v)) /\ Additions(A, B, v)[i] \in A
    BY <1>1 DEF Progress
  <2>2. Additions(A, B, v)[i] \in Added(A, B, v)
    BY <2>1, PlanLists
  <2>3. A \cap Added(A, B, v) = {}
    BY AllRows
  <2> QED
    BY <2>1, <2>2, <2>3
<1>2. ASSUME SameMirror(A, c.sha), NEW i \in 1..c.deleted
      PROVE  FALSE
  <2>1. i \in 1..Len(Removals(A, B)) /\ Removals(A, B)[i] \notin IdsOf(A)
    BY <1>2 DEF Progress
  <2> QED
    BY <2>1, PlanLists
<1> QED
  BY <1>1, <1>2 DEF Progress

\* A plan of this mirror numbers no row that can be live but its own.
LEMMA FittingIdsOwn ==
  ASSUME NEW A, Rows(A), NEW B \in SUBSET Keys, NEW v \in Nat \ {0}, NEW p,
         PlanFits(A, B, v, p), SameMirror(A, p.sha)
  PROVE  IdsAreItsOwn(A, B, v, p)
<1>1. p.ins = Additions(A, B, v)
  BY DEF PlanFits
<1>2. \A i \in 1..Len(p.ins) : p.ins[i] \in A \cup Added(A, B, v)
  BY <1>1, PlanLists
<1>3. Rows(A \cup Added(A, B, v))
  BY AllRows
<1> QED
  BY <1>2, <1>3 DEF IdsAreItsOwn, Rows, UniqueIds

\* The rows save_mirror writes.
Saved(A, p) ==
    {r \in A : \A i \in 1..Len(p.del) : r.id # p.del[i]} \cup {p.ins[i] : i \in 1..Len(p.ins)}

\* With all of the plan done, D1 holds the target, and the mirror moves to it.
LEMMA CompleteIsTarget ==
  ASSUME NEW A, Rows(A), NEW B \in SUBSET Keys, NEW v \in Nat \ {0},
         NEW d, Between(A, B, v, d), NEW c, Progress(A, B, v, d, c),
         NEW p, PlanFits(A, B, v, p), SameMirror(A, p.sha), c.sha = p.sha,
         c.phase \in {"verify", "verify-failed"}
  PROVE  d = Target(A, B, v) /\ Saved(A, p) = Target(A, B, v)
<1>1. /\ p.ins = Additions(A, B, v) /\ p.del = Removals(A, B)
      /\ c.inserted = Len(p.ins) /\ c.deleted = Len(p.del)
  BY DEF PlanFits, Progress
<1>2. \A n \in Vanished(A, B) : \E i \in 1..Len(p.del) : p.del[i] = n
  BY <1>1, RemovalsAre DEF Rows
<1>3. \A i \in 1..Len(p.del) : p.del[i] \in Vanished(A, B) /\ p.del[i] \notin IdsOf(d)
  BY <1>1, PlanLists DEF Progress
<1>4. Added(A, B, v) = {p.ins[i] : i \in 1..Len(p.ins)}
  BY <1>1 DEF Added
<1>5. \A i \in 1..Len(p.ins) : p.ins[i] \in d
  BY <1>1 DEF Progress
<1>6. Added(A, B, v) \subseteq d
  BY <1>4, <1>5
<1>7. {r \in A : \A i \in 1..Len(p.del) : r.id # p.del[i]} = Kept(A, B)
  BY <1>2, <1>3 DEF Kept
<1>8. Target(A, B, v) \subseteq d
  BY <1>6 DEF Between, Target
<1>9. \A r \in d : r.id \notin Vanished(A, B)
  BY <1>2, <1>3 DEF IdsOf
<1>10. d \subseteq Target(A, B, v)
  <2>1. Target(A, B, v) = {r \in A \cup Added(A, B, v) : r.id \notin Vanished(A, B)}
    BY AllRows
  <2> QED
    BY <1>9, <2>1 DEF Between
<1> QED
  BY <1>1, <1>4, <1>7, <1>8, <1>10 DEF Target, Saved

-----------------------------------------------------------------------------
(* The shards' values in a state, and what leaves them alone.              *)

LEMMA ShardValues ==
  ASSUME Typed, NEW s \in Shards, Mirrored(s)
  PROVE  /\ Rows(mirror[s]) /\ csv[version][s] \in SUBSET Keys /\ version \in Nat \ {0}
         /\ Between(mirror[s], csv[version][s], version, d1[s])
<1>1. version \in Versions /\ version \in Nat \ {0}
  BY NumbersAssumption DEF Typed, Versions
<1> QED
  BY <1>1 DEF Typed, Mirrored, Rows

LEMMA PlannedFits ==
  ASSUME Typed, NEW s \in Shards, Mirrored(s)
  PROVE  /\ PlanFits(mirror[s], csv[version][s], version, Planned(s))
         /\ SameMirror(mirror[s], Planned(s).sha)
<1> DEFINE A == mirror[s]
           B == csv[version][s]
<1>1. /\ Planned(s).ins = Additions(A, B, version) /\ Planned(s).del = Removals(A, B)
      /\ Planned(s).sha.ins = Len(Sorted(B \ KeysOf(A))) /\ Planned(s).sha.del = Len(Planned(s).del)
      /\ Planned(s).sha.base = BaseAt(A, version)
      /\ Planned(s).sha.rows = Cardinality(A) /\ Planned(s).sha.maxId = Highest(IdsOf(A))
  BY DEF Planned, Additions, Removals, BaseAt, Base
<1>2. Len(Additions(A, B, version)) = Len(Sorted(B \ KeysOf(A)))
  <2>1. Rows(A) /\ B \in SUBSET Keys /\ version \in Nat \ {0}
    BY ShardValues
  <2>2. Len(Additions(A, B, version)) = Cardinality(B \ KeysOf(A))
    BY <2>1, AdditionsAre DEF Rows, Numbers
  <2>3. B \ KeysOf(A) \subseteq Int /\ IsFiniteSet(B \ KeysOf(A))
    BY <2>1, RowsAssumption, FS_Subset
  <2> QED
    BY <2>2, <2>3, SortedIs
<1> QED
  BY <1>1, <1>2 DEF PlanFits, SameMirror

\* The plan file that plan_one writes.
LEMMA PlannedTyped ==
  ASSUME Typed, NEW s \in Shards, Mirrored(s)
  PROVE  Planned(s) \in PlanFile
<1> DEFINE A == mirror[s]
           B == csv[version][s]
           J == csv[Reference(s)][s]
           new == Sorted(B \ KeysOf(A))
           del == Sorted(Vanished(A, B))
           sha == [prev |-> Reference(s), rows |-> Cardinality(A), csv |-> Cardinality(B),
                   ins |-> Len(new), del |-> Len(del), base |-> Base(A),
                   delKeys |-> Cardinality(KeysOf(A) \ B), maxId |-> Highest(IdsOf(A)),
                   known |-> Cardinality(J \cap KeysOf(A)), prevKeys |-> Cardinality(J)]
<1>1. Rows(A) /\ B \in SUBSET Keys /\ version \in Nat \ {0} /\ version \in Versions
  BY ShardValues, NumbersAssumption DEF Typed, Versions
<1>2. Reference(s) \in Versions /\ J \in SUBSET Keys
  BY ShardsAssumption DEF Typed, Reference
<1>3. new = Sorted(B \ KeysOf(A)) /\ Additions(A, B, version)
        = [i \in 1..Len(new) |-> [id |-> Base(A) + i, key |-> new[i]]]
  BY DEF Additions, BaseAt, Base
<1>4. del = Removals(A, B)
  BY DEF Removals
<1>5. Base(A) \in Nat /\ Highest(IdsOf(A)) \in Nat
  BY <1>1, BaseAbove, HighestId DEF Rows, BaseAt, Base
<1>6. /\ Cardinality(A) \in Nat /\ Cardinality(B) \in Nat /\ Cardinality(J) \in Nat
      /\ Cardinality(KeysOf(A) \ B) \in Nat /\ Cardinality(J \cap KeysOf(A)) \in Nat
  <2>1. IsFiniteSet(A) /\ IsFiniteSet(KeysOf(A)) /\ KeysOf(A) \subseteq Keys
    BY <1>1, ImagesFinite DEF Rows
  <2>2. IsFiniteSet(B) /\ IsFiniteSet(J)
    BY <1>1, <1>2, RowsAssumption, FS_Subset
  <2>3. IsFiniteSet(KeysOf(A) \ B) /\ IsFiniteSet(J \cap KeysOf(A))
    BY <2>1, <2>2, FS_Subset
  <2> QED
    BY <2>1, <2>2, <2>3, FS_CardinalityType
<1>7. Len(new) \in Nat
  <2>1. B \ KeysOf(A) \subseteq Int /\ IsFiniteSet(B \ KeysOf(A))
    BY <1>1, RowsAssumption, FS_Subset
  <2> QED
    BY <2>1, SortedIs
<1>8. Len(del) \in Nat /\ DOMAIN del = 1..Len(del) /\ \A i \in 1..Len(del) : del[i] \in Nat
  <2>1. Rows(A)
    BY <1>1
  <2>2. Len(Removals(A, B)) \in Nat /\ DOMAIN Removals(A, B) = 1..Len(Removals(A, B))
    BY <2>1, RemovalsAre DEF Rows
  <2>3. \A i \in 1..Len(Removals(A, B)) : Removals(A, B)[i] \in Nat
    BY <1>1, PlanLists
  <2> QED
    BY <1>4, <2>2, <2>3
<1>9. del \in Seq(Nat)
  <2> HIDE DEF del
  <2>1. del = [i \in 1..Len(del) |-> del[i]]
    <3>1. del = Removals(A, B)
      BY <1>4
    <3>2. Sorted(Vanished(A, B)) \in [1..Cardinality(Vanished(A, B)) -> Vanished(A, B)]
      <4>1. Vanished(A, B) \subseteq Int /\ IsFiniteSet(Vanished(A, B))
        BY <1>1, RemovalsAre, ImagesFinite DEF Rows
      <4> QED
        BY <4>1, SortedIs
    <3> QED
      BY <1>8, <3>1, <3>2 DEF Removals
  <2>2. del \in [1..Len(del) -> Nat]
    BY <1>8, <2>1
  <2> QED
    BY <1>8, <2>2, SeqDef
<1>10. Additions(A, B, version) \in Seq(Row)
  <2> DEFINE add == Additions(A, B, version)
  <2>1. Numbers(add, BaseAt(A, version), B \ KeysOf(A))
    BY <1>1, AdditionsAre DEF Rows
  <2> HIDE DEF add
  <2>2. add \in [1..Cardinality(B \ KeysOf(A)) -> Row] /\ Cardinality(B \ KeysOf(A)) \in Nat
    BY <2>1 DEF Numbers
  <2>3. add \in Seq(Row)
    BY <2>2, SeqDef
  <2> QED
    BY <2>3 DEF add
<1> HIDE DEF new, del, J, A, B
<1>11. sha \in Summary
  BY <1>2, <1>5, <1>6, <1>7, <1>8 DEF Summary
<1>12. Planned(s) = [version |-> version, ins |-> Additions(A, B, version), del |-> del,
                    sha |-> sha]
  BY <1>3 DEF Planned, new, del, J, A, B
<1> HIDE DEF sha
<1> QED
  BY <1>1, <1>9, <1>10, <1>11, <1>12 DEF PlanFile

\* What a coroutine sends leads to the target.
LEMMA PendingHarmless ==
  ASSUME Typed, NEW s \in Shards, Mirrored(s), Resumed(s), Plans(s), NEW q \in Pending(s)
  PROVE  /\ pc[s] = "apply" /\ Checkpoint(ckpt[s])
         /\ Harmless(mirror[s], csv[version][s], version, q)
         /\ \/ /\ ckpt[s].phase = "insert" /\ ckpt[s].inserted + 1 \in 1..Len(plan[s].ins)
               /\ q = Insertion(plan[s].ins[ckpt[s].inserted + 1])
            \/ /\ ckpt[s].phase = "delete" /\ ckpt[s].deleted + 1 \in 1..Len(plan[s].del)
               /\ q = Deletion(plan[s].del[ckpt[s].deleted + 1])
         /\ PlanFits(mirror[s], csv[version][s], version, plan[s])
         /\ SameMirror(mirror[s], plan[s].sha)
<1> DEFINE A == mirror[s]
           B == csv[version][s]
<1>1. Rows(A) /\ B \in SUBSET Keys /\ version \in Nat \ {0}
  BY ShardValues
<1>2. pc[s] = "apply"
  BY DEF Pending
<1>3. PlanFits(A, B, version, plan[s]) /\ SameMirror(A, plan[s].sha)
      /\ ckpt[s] # NoCheckpoint
  BY <1>2 DEF Plans
<1>4. Checkpoint(ckpt[s])
  BY <1>3 DEF Typed
<1>5. plan[s].ins = Additions(A, B, version) /\ plan[s].del = Removals(A, B)
  BY <1>3 DEF PlanFits
<1>6. Len(plan[s].ins) \in Nat /\ Len(plan[s].del) \in Nat
  BY <1>1, <1>5, PlanLists
<1>7. \/ /\ ckpt[s].phase = "insert" /\ ckpt[s].inserted < Len(plan[s].ins)
         /\ q = Insertion(plan[s].ins[ckpt[s].inserted + 1])
      \/ /\ ckpt[s].phase = "delete" /\ ckpt[s].deleted < Len(plan[s].del)
         /\ q = Deletion(plan[s].del[ckpt[s].deleted + 1])
  BY <1>2 DEF Pending
<1>8. ckpt[s].inserted \in Nat /\ ckpt[s].deleted \in Nat
  BY <1>4 DEF Checkpoint
<1>9. \/ /\ ckpt[s].phase = "insert" /\ ckpt[s].inserted + 1 \in 1..Len(plan[s].ins)
         /\ q = Insertion(plan[s].ins[ckpt[s].inserted + 1])
      \/ /\ ckpt[s].phase = "delete" /\ ckpt[s].deleted + 1 \in 1..Len(plan[s].del)
         /\ q = Deletion(plan[s].del[ckpt[s].deleted + 1])
  <2>1. ckpt[s].inserted < Len(plan[s].ins) => ckpt[s].inserted + 1 \in 1..Len(plan[s].ins)
    BY <1>6, <1>8
  <2>2. ckpt[s].deleted < Len(plan[s].del) => ckpt[s].deleted + 1 \in 1..Len(plan[s].del)
    BY <1>6, <1>8
  <2> QED
    BY <1>7, <2>1, <2>2
<1>10. Harmless(A, B, version, q)
  <2>1. \A i \in 1..Len(plan[s].ins) : plan[s].ins[i] \in Target(A, B, version)
    BY <1>1, <1>5, PlanLists
  <2>2. \A i \in 1..Len(plan[s].del) :
          plan[s].del[i] \in Nat /\ plan[s].del[i] \notin IdsOf(Target(A, B, version))
    BY <1>1, <1>5, PlanLists
  <2> QED
    BY <1>9, <2>1, <2>2 DEF Harmless
<1> QED
  BY <1>2, <1>3, <1>4, <1>9, <1>10

LEMMA HarmlessRequest ==
  ASSUME NEW A, Rows(A), NEW B \in SUBSET Keys, NEW v \in Nat \ {0}, NEW q, Harmless(A, B, v, q)
  PROVE  q \in Request
<1>1. Target(A, B, v) \subseteq Row
  <2>1. Rows(Target(A, B, v))
    BY AllRows
  <2> QED
    BY <2>1 DEF Rows
<1> QED
  BY <1>1 DEF Harmless, Request, Insertion, Deletion

LEMMA RowsStay ==
  ASSUME NEW d \in SUBSET Row, NEW q \in Request
  PROVE  After(d, q) \in SUBSET Row /\ RowsAfter(d, q) \in SUBSET Row
<1>1. CASE q \in [op : {"insert"}, row : Row]
  BY <1>1 DEF After, RowsAfter
<1>2. CASE q \in [op : {"delete"}, id : Nat]
  BY <1>2 DEF After, RowsAfter
<1> QED
  BY <1>1, <1>2 DEF Request

LEMMA Executed ==
  ASSUME Typed, NEW s \in Shards, NEW q \in Request, Execute(s, q)
  PROVE  /\ d1' = [d1 EXCEPT ![s] = After(d1[s], q)]
         /\ d1' \in [Shards -> SUBSET Row]
         /\ d1'[s] = After(d1[s], q) /\ \A t \in Shards \ {s} : d1'[t] = d1[t]
         /\ fts' \in [Addresses -> SUBSET Row]
         /\ triggers' = triggers
<1>1. d1 \in [Shards -> SUBSET Row] /\ fts \in [Addresses -> SUBSET Row]
  BY DEF Typed
<1>2. d1' = [d1 EXCEPT ![s] = After(d1[s], q)]
  <2>1. CASE Hits(s, q)
    <3>1. After(d1[s], q) = RowsAfter(d1[s], q)
      BY <2>1 DEF Hits, After
    <3> QED
      BY <2>1, <3>1 DEF Execute
  <2>2. CASE ~Hits(s, q)
    <3>1. After(d1[s], q) = d1[s]
      BY <2>2 DEF Hits, After
    <3>2. d1' = d1
      BY <2>2 DEF Execute
    <3> QED
      BY <1>1, <3>1, <3>2
  <2> QED
    BY <2>1, <2>2
<1>3. d1[s] \in SUBSET Row /\ After(d1[s], q) \in SUBSET Row
  BY <1>1, RowsStay
<1>4. fts' \in [Addresses -> SUBSET Row]
  <2>1. s \in Addresses => RowsAfter(fts[s], q) \in SUBSET Row
    BY <1>1, RowsStay
  <2>2. fts' = fts \/ (s \in Addresses /\ fts' = [fts EXCEPT ![s] = RowsAfter(fts[s], q)])
    BY DEF Execute
  <2> QED
    BY <1>1, <2>1, <2>2
<1> QED
  BY <1>1, <1>2, <1>3, <1>4 DEF Execute

LEMMA MirroredFrame ==
  ASSUME NEW t \in Shards, Mirrored(t), version' = version,
         (csv[version][t])' = csv[version][t], mirror'[t] = mirror[t],
         d1'[t] = d1[t], late'[t] = late[t]
  PROVE  Mirrored(t)'
BY DEF Mirrored

LEMMA ResumedFrame ==
  ASSUME NEW t \in Shards, Resumed(t), version' = version,
         (csv[version][t])' = csv[version][t], mirror'[t] = mirror[t],
         d1'[t] = d1[t], ckpt'[t] = ckpt[t]
  PROVE  Resumed(t)'
BY DEF Resumed

LEMMA PlansFrame ==
  ASSUME NEW t \in Shards, Plans(t), version' = version,
         (csv[version][t])' = csv[version][t], mirror'[t] = mirror[t],
         plan'[t] = plan[t], t \in planFresh' <=> t \in planFresh,
         \/ pc'[t] = pc[t] \/ pc'[t] = "idle"
         \/ pc[t] # "idle" /\ pc'[t] \in {"done", "failed"},
         pc'[t] # "apply" \/ (ckpt'[t] # NoCheckpoint /\ ckpt'[t].sha = ckpt[t].sha)
  PROVE  Plans(t)'
BY DEF Plans

-----------------------------------------------------------------------------
(* The steps, one shard at a time.                                         *)

\* A harmless request is executed: at once, late, or for the second time.
LEMMA RequestDelta ==
  ASSUME Typed, Delta, NEW s \in Shards, NEW q,
         Harmless(mirror[s], csv[version][s], version, q), Execute(s, q),
         UNCHANGED <<version, csv, mirror>>, \A t \in Shards : late'[t] \subseteq late[t]
  PROVE  /\ \A t \in Shards : Mirrored(t)'
         /\ \A t \in Shards : ckpt[t] # NoCheckpoint =>
                Progress(mirror[t], csv[version][t], version, d1'[t], ckpt[t])
<1>1. Mirrored(s) /\ Resumed(s)
  BY DEF Delta
<1>2. /\ Rows(mirror[s]) /\ csv[version][s] \in SUBSET Keys /\ version \in Nat \ {0}
      /\ Between(mirror[s], csv[version][s], version, d1[s])
  BY <1>1, ShardValues
<1>3. q \in Request
  BY <1>2, HarmlessRequest
<1>4. d1'[s] = After(d1[s], q) /\ \A t \in Shards \ {s} : d1'[t] = d1[t]
  BY <1>3, Executed
<1>5. Between(mirror[s], csv[version][s], version, d1'[s])
  <2>1. Between(mirror[s], csv[version][s], version, After(d1[s], q))
    BY <1>2, ExecutedHarmless
  <2> QED
    BY <1>4, <2>1
<1>6. ckpt[s] # NoCheckpoint =>
        Progress(mirror[s], csv[version][s], version, d1'[s], ckpt[s])
  BY <1>1, <1>2, <1>4, ProgressKept DEF Resumed
<1>7. Mirrored(s)'
  BY <1>1, <1>5 DEF Mirrored
<1>8. ASSUME NEW t \in Shards, t # s
      PROVE  /\ Mirrored(t)'
             /\ ckpt[t] # NoCheckpoint =>
                    Progress(mirror[t], csv[version][t], version, d1'[t], ckpt[t])
  <2>1. Mirrored(t) /\ Resumed(t) /\ d1'[t] = d1[t] /\ late'[t] \subseteq late[t]
    BY <1>4, <1>8 DEF Delta
  <2> QED
    BY <2>1 DEF Mirrored, Resumed
<1> QED
  BY <1>6, <1>7, <1>8

LEMMA ExecuteLateDelta ==
  ASSUME Typed, Delta, NEW s \in Shards, ExecuteLate(s)
  PROVE  Delta'
<1>1. PICK q \in late[s] : Execute(s, q) /\ late' = [late EXCEPT ![s] = @ \ {q}]
  BY DEF ExecuteLate
<1>2. UNCHANGED <<version, csv, mirror, plan, planFresh, ckpt, pc>>
  BY DEF ExecuteLate, localVars
<1>3. \A t \in Shards : late'[t] \subseteq late[t]
  BY <1>1 DEF Typed
<1>4. Harmless(mirror[s], csv[version][s], version, q)
  BY DEF Delta, Mirrored
<1>5. ASSUME NEW t \in Shards
      PROVE  Mirrored(t)' /\ Resumed(t)' /\ Plans(t)'
  <2>1. Mirrored(t)' /\ (ckpt[t] # NoCheckpoint =>
            Progress(mirror[t], csv[version][t], version, d1'[t], ckpt[t]))
    BY <1>1, <1>2, <1>3, <1>4, RequestDelta
  <2>2. Resumed(t)'
    BY <1>2, <2>1 DEF Resumed
  <2>3. Plans(t)'
    BY <1>2 DEF Delta, Plans
  <2> QED
    BY <2>1, <2>2, <2>3
<1> QED
  BY <1>5 DEF Delta

LEMMA InsertDelta ==
  ASSUME Typed, Delta, NEW s \in Shards, Insert(s)
  PROVE  Delta'
<1> DEFINE A == mirror[s]
           B == csv[version][s]
           c == ckpt[s]
<1>1. PICK q \in Pending(s) : Execute(s, q) /\ Acknowledged(s, q)
  BY DEF Insert
<1>2. /\ UNCHANGED <<version, csv, mirror, plan, planFresh, late>>
      /\ pc[s] = "apply" /\ c.phase = "insert"
      /\ ckpt' = [ckpt EXCEPT ![s].inserted = @ + 1]
  BY DEF Insert, localVars
<1>3. Mirrored(s) /\ Resumed(s) /\ Plans(s)
  BY DEF Delta
<1>4. /\ Checkpoint(c) /\ Harmless(A, B, version, q)
      /\ PlanFits(A, B, version, plan[s]) /\ SameMirror(A, plan[s].sha)
      /\ c.inserted + 1 \in 1..Len(plan[s].ins)
      /\ q = Insertion(plan[s].ins[c.inserted + 1])
  BY <1>2, <1>3, PendingHarmless
<1>5. /\ \A t \in Shards : Mirrored(t)'
      /\ \A t \in Shards : ckpt[t] # NoCheckpoint =>
            Progress(mirror[t], csv[version][t], version, d1'[t], ckpt[t])
  BY <1>1, <1>2, <1>4, RequestDelta
<1>6. /\ \A t \in Shards \ {s} : ckpt'[t] = ckpt[t]
      /\ ckpt'[s] = [c EXCEPT !.inserted = @ + 1]
  BY <1>2 DEF Typed
<1>7. /\ ckpt'[s].phase = "insert" /\ ckpt'[s].sha = c.sha /\ ckpt'[s].deleted = c.deleted
      /\ ckpt'[s].inserted = c.inserted + 1 /\ ckpt'[s] # NoCheckpoint
  BY <1>2, <1>4, <1>6 DEF Checkpoint, NoCheckpoint
<1>8. Progress(A, B, version, d1'[s], ckpt'[s])
  <2>1. /\ Rows(A) /\ B \in SUBSET Keys /\ version \in Nat \ {0}
        /\ Between(A, B, version, d1[s])
    BY <1>3, ShardValues
  <2>2. plan[s].ins = Additions(A, B, version)
    BY <1>4 DEF PlanFits
  <2>3. d1'[s] = After(d1[s], q)
    BY <1>1, <1>4, <2>1, Executed, HarmlessRequest
  <2>4. Additions(A, B, version)[c.inserted + 1] \in d1'[s]
    <3>1. Additions(A, B, version)[c.inserted + 1] \in Target(A, B, version)
      BY <1>4, <2>1, <2>2, PlanLists
    <3>2. q = Insertion(Additions(A, B, version)[c.inserted + 1])
      BY <1>4, <2>2
    <3>3. \A r \in Target(A, B, version) : q = Insertion(r) => r \in After(d1[s], q)
      BY <1>4, <2>1, ExecutedHarmless
    <3> QED
      BY <2>3, <3>1, <3>2, <3>3
  <2>5. Progress(A, B, version, d1'[s], c)
    BY <1>2, <1>3, <1>5 DEF Plans
  <2>6. \A i \in 1..(c.inserted + 1) : i \in 1..c.inserted \/ i = c.inserted + 1
    BY <1>4 DEF Checkpoint
  <2>7. c.inserted + 1 \in 1..Len(Additions(A, B, version))
    BY <1>4, <2>2
  <2> QED
    BY <1>7, <2>4, <2>5, <2>6, <2>7 DEF Progress
<1>9. ASSUME NEW t \in Shards
      PROVE  Resumed(t)' /\ Plans(t)'
  <2>1. CASE t = s
    <3>1. Resumed(s)'
      BY <1>2, <1>8 DEF Resumed
    <3>2. pc'[s] = "apply" \/ pc'[s] = "failed"
      BY <1>1, <1>2 DEF Acknowledged, Typed
    <3>3. Plans(s)'
      BY <1>2, <1>3, <1>7, <3>2 DEF Plans
    <3> QED
      BY <2>1, <3>1, <3>3
  <2>2. CASE t # s
    <3>1. ckpt'[t] = ckpt[t]
      BY <1>6, <2>2
    <3>2. Resumed(t)'
      BY <1>2, <1>5, <3>1 DEF Resumed
    <3>3. pc'[t] = pc[t]
      BY <1>1, <2>2 DEF Acknowledged, Typed
    <3>4. Plans(t)'
      BY <1>2, <3>1, <3>3 DEF Plans, Delta
    <3> QED
      BY <3>2, <3>4
  <2> QED
    BY <2>1, <2>2
<1> QED
  BY <1>5, <1>9 DEF Delta

LEMMA DeleteDelta ==
  ASSUME Typed, Delta, NEW s \in Shards, Delete(s)
  PROVE  Delta'
<1> DEFINE A == mirror[s]
           B == csv[version][s]
           c == ckpt[s]
<1>1. PICK q \in Pending(s) : Execute(s, q) /\ Acknowledged(s, q)
  BY DEF Delete
<1>2. /\ UNCHANGED <<version, csv, mirror, plan, planFresh, late>>
      /\ pc[s] = "apply" /\ c.phase = "delete"
      /\ ckpt' = [ckpt EXCEPT ![s].deleted = @ + 1]
  BY DEF Delete, localVars
<1>3. Mirrored(s) /\ Resumed(s) /\ Plans(s)
  BY DEF Delta
<1>4. /\ Checkpoint(c) /\ Harmless(A, B, version, q)
      /\ PlanFits(A, B, version, plan[s]) /\ SameMirror(A, plan[s].sha)
      /\ c.deleted + 1 \in 1..Len(plan[s].del)
      /\ q = Deletion(plan[s].del[c.deleted + 1])
  BY <1>2, <1>3, PendingHarmless
<1>5. /\ \A t \in Shards : Mirrored(t)'
      /\ \A t \in Shards : ckpt[t] # NoCheckpoint =>
            Progress(mirror[t], csv[version][t], version, d1'[t], ckpt[t])
  BY <1>1, <1>2, <1>4, RequestDelta
<1>6. /\ \A t \in Shards \ {s} : ckpt'[t] = ckpt[t]
      /\ ckpt'[s] = [c EXCEPT !.deleted = @ + 1]
  BY <1>2 DEF Typed
<1>7. /\ ckpt'[s].phase = "delete" /\ ckpt'[s].sha = c.sha /\ ckpt'[s].inserted = c.inserted
      /\ ckpt'[s].deleted = c.deleted + 1 /\ ckpt'[s] # NoCheckpoint
  BY <1>2, <1>4, <1>6 DEF Checkpoint, NoCheckpoint
<1>8. Progress(A, B, version, d1'[s], ckpt'[s])
  <2>1. /\ Rows(A) /\ B \in SUBSET Keys /\ version \in Nat \ {0}
        /\ Between(A, B, version, d1[s])
    BY <1>3, ShardValues
  <2>2. plan[s].del = Removals(A, B)
    BY <1>4 DEF PlanFits
  <2>3. d1'[s] = After(d1[s], q)
    BY <1>1, <1>4, <2>1, Executed, HarmlessRequest
  <2>4. Removals(A, B)[c.deleted + 1] \notin IdsOf(d1'[s])
    BY <1>4, <2>1, <2>2, <2>3, ExecutedHarmless
  <2>5. Progress(A, B, version, d1'[s], c)
    BY <1>2, <1>3, <1>5 DEF Plans
  <2>6. \A i \in 1..(c.deleted + 1) : i \in 1..c.deleted \/ i = c.deleted + 1
    BY <1>4 DEF Checkpoint
  <2>7. c.deleted + 1 \in 1..Len(Removals(A, B))
    BY <1>4, <2>2
  <2> QED
    BY <1>2, <1>7, <2>4, <2>5, <2>6, <2>7 DEF Progress
<1>9. ASSUME NEW t \in Shards
      PROVE  Resumed(t)' /\ Plans(t)'
  <2>1. CASE t = s
    <3>1. Resumed(s)'
      BY <1>2, <1>8 DEF Resumed
    <3>2. pc'[s] = "apply" \/ pc'[s] = "failed"
      BY <1>1, <1>2 DEF Acknowledged, Typed
    <3>3. Plans(s)'
      BY <1>2, <1>3, <1>7, <3>2 DEF Plans
    <3> QED
      BY <2>1, <3>1, <3>3
  <2>2. CASE t # s
    <3>1. ckpt'[t] = ckpt[t]
      BY <1>6, <2>2
    <3>2. Resumed(t)'
      BY <1>2, <1>5, <3>1 DEF Resumed
    <3>3. pc'[t] = pc[t]
      BY <1>1, <2>2 DEF Acknowledged, Typed
    <3>4. Plans(t)'
      BY <1>2, <3>1, <3>3 DEF Plans, Delta
    <3> QED
      BY <3>2, <3>4
  <2> QED
    BY <2>1, <2>2
<1> QED
  BY <1>5, <1>9 DEF Delta

\* At the count, D1 holds the target: that many rows, whatever the count says.
LEMMA VerifiedIsTarget ==
  ASSUME Typed, NEW s \in Shards, Mirrored(s), Resumed(s), Plans(s),
         pc[s] = "apply", ckpt[s].phase \in {"verify", "verify-failed"}
  PROVE  /\ PlanFits(mirror[s], csv[version][s], version, plan[s])
         /\ SameMirror(mirror[s], plan[s].sha) /\ ckpt[s].sha = plan[s].sha
         /\ Checkpoint(ckpt[s])
         /\ Progress(mirror[s], csv[version][s], version, d1[s], ckpt[s])
         /\ d1[s] = Target(mirror[s], csv[version][s], version)
         /\ Saved(mirror[s], plan[s]) = d1[s]
         /\ ckpt[s].inserted = Len(plan[s].ins) /\ ckpt[s].deleted = Len(plan[s].del)
         /\ Cardinality(d1[s]) = ExpectedRows(s)
<1> DEFINE A == mirror[s]
           B == csv[version][s]
<1>1. /\ Rows(A) /\ B \in SUBSET Keys /\ version \in Nat \ {0}
      /\ Between(A, B, version, d1[s])
  BY ShardValues
<1>2. /\ PlanFits(A, B, version, plan[s]) /\ SameMirror(A, plan[s].sha)
      /\ ckpt[s] # NoCheckpoint /\ ckpt[s].sha = plan[s].sha
  BY DEF Plans
<1>3. Checkpoint(ckpt[s]) /\ Progress(A, B, version, d1[s], ckpt[s])
  BY <1>2 DEF Typed, Resumed
<1>4. /\ d1[s] = Target(A, B, version)
      /\ Saved(A, plan[s]) = d1[s]
      /\ ckpt[s].inserted = Len(plan[s].ins) /\ ckpt[s].deleted = Len(plan[s].del)
      /\ plan[s].ins = Additions(A, B, version) /\ plan[s].del = Removals(A, B)
  <2>1. plan[s].ins = Additions(A, B, version) /\ plan[s].del = Removals(A, B)
    BY <1>2 DEF PlanFits
  <2>2. ckpt[s].inserted = Len(plan[s].ins) /\ ckpt[s].deleted = Len(plan[s].del)
    BY <1>2, <1>3 DEF PlanFits, Progress
  <2>3. d1[s] = Target(A, B, version)
    BY <1>1, <1>2, <1>3, CompleteIsTarget
  <2>4. Saved(A, plan[s]) = Target(A, B, version)
    BY <1>1, <1>2, <1>3, CompleteIsTarget
  <2> QED
    BY <2>1, <2>2, <2>3, <2>4
<1>5. Cardinality(d1[s]) = Cardinality(A) - Len(plan[s].del) + Len(plan[s].ins)
  BY <1>1, <1>4, TargetCount
<1>6. Cardinality(d1[s]) = ExpectedRows(s)
  BY <1>2, <1>5 DEF ExpectedRows, SameMirror
<1> QED
  BY <1>2, <1>3, <1>4, <1>6

\* The ranges of chunked_count cover every row, unless the highest old id is on
\* the edge of a chunk, and no row twice, unless one lies in both.
LEMMA CountedAll ==
  ASSUME Typed, NEW s \in Shards, Mirrored(s), Resumed(s), Plans(s),
         pc[s] = "apply", ckpt[s].phase \in {"verify", "verify-failed"},
         ~(plan[s].sha.maxId < IdBlock /\ plan[s].sha.maxId % CountChunk = 0),
         \A r \in d1[s] : r.id \notin IdBlock..(Edge(plan[s]) - 1)
  PROVE  CountedRows(s) = Cardinality(d1[s])
<1> DEFINE A == mirror[s]
           B == csv[version][s]
           h == plan[s].sha.maxId
           last == plan[s].sha.base + plan[s].sha.ins
           legacy == IF h < IdBlock THEN h ELSE IdBlock - 1
           edge == ((legacy + CountChunk - 1) \div CountChunk) * CountChunk
           top == Highest({h, last + 1})
<1>1. Rows(A) /\ B \in SUBSET Keys /\ version \in Nat \ {0}
  BY ShardValues
<1>2. /\ d1[s] \subseteq A \cup Added(A, B, version)
      /\ h = Highest(IdsOf(A)) /\ plan[s].sha.base = BaseAt(A, version)
      /\ plan[s].sha.ins = Len(Additions(A, B, version))
  <2>1. /\ PlanFits(A, B, version, plan[s]) /\ SameMirror(A, plan[s].sha)
        /\ d1[s] = Target(A, B, version)
    BY VerifiedIsTarget
  <2> QED
    BY <2>1 DEF PlanFits, SameMirror, Target, Kept
<1>3. /\ h \in Nat /\ BaseAt(A, version) \in Nat /\ BaseAt(A, version) >= IdBlock
      /\ \A r \in A : r.id \in Nat /\ r.id <= h
  BY <1>1, <1>2, HighestId, BaseAbove DEF Rows
<1>4. Len(Additions(A, B, version)) \in Nat /\ last \in Nat
  BY <1>1, <1>2, <1>3, PlanLists
<1>5. \A r \in Added(A, B, version) : r.id \in Nat /\ r.id >= IdBlock /\ r.id <= last
  <2> TAKE r \in Added(A, B, version)
  <2>1. PICK i \in 1..Len(Additions(A, B, version)) : r = Additions(A, B, version)[i]
    BY DEF Added
  <2>2. Additions(A, B, version)[i].id = BaseAt(A, version) + i
    <3>1. Numbers(Additions(A, B, version), BaseAt(A, version), B \ KeysOf(A))
      BY <1>1, AdditionsAre DEF Rows
    <3> QED
      BY <2>1, <3>1 DEF Numbers
  <2> QED
    BY <1>2, <1>3, <1>4, <2>1, <2>2, NumbersAssumption
<1>6. top \in Nat /\ h <= top /\ last + 1 <= top
  <2>1. {h, last + 1} \subseteq Nat /\ IsFiniteSet({h, last + 1})
    <3> HIDE DEF h, last
    <3>1. IsFiniteSet({h}) /\ {h, last + 1} = {h} \cup {last + 1}
      BY FS_Singleton
    <3>2. IsFiniteSet({h} \cup {last + 1})
      BY <3>1, FS_AddElement
    <3>3. h \in Nat /\ last \in Nat
      BY <1>3, <1>4
    <3>4. {h, last + 1} \subseteq Nat
      BY <3>3
    <3> QED
      BY <3>1, <3>2, <3>4
  <2> QED
    BY <2>1, HighestIs
<1>7. legacy \in Nat /\ legacy % CountChunk # 0 /\ CountChunk \in Nat \ {0} /\ IdBlock \in Nat \ {0}
  BY <1>3, NumbersAssumption
<1>8. edge \in Nat /\ edge > legacy
  <2> HIDE DEF legacy
  <2> QED
    BY <1>7, CeilingOf
<1>9. \A r \in d1[s] : r.id < edge \/ r.id \in IdBlock..top
  <2> HIDE DEF edge, top, h, last
  <2> TAKE r \in d1[s]
  <2>1. CASE r \in A
    <3>1. r.id \in Nat /\ r.id <= h
      BY <1>3, <2>1
    <3> QED
      BY <1>3, <1>6, <1>7, <1>8, <3>1
  <2>2. CASE r \in Added(A, B, version)
    <3>1. r.id \in Nat /\ r.id >= IdBlock /\ r.id <= last
      BY <1>5, <2>2
    <3> QED
      BY <1>4, <1>6, <1>7, <3>1
  <2> QED
    BY <1>2, <2>1, <2>2
<1>10. \A r \in d1[s] : ~(r.id < edge /\ r.id \in IdBlock..top)
  <2>1. edge = Edge(plan[s])
    BY DEF Edge
  <2> HIDE DEF edge, top
  <2>2. \A r \in d1[s] : r.id \notin IdBlock..(edge - 1)
    BY <2>1
  <2> QED
    BY <1>7, <1>8, <2>2
<1>11. CountedRows(s) = Cardinality({r \in d1[s] : r.id < edge})
            + Cardinality({r \in d1[s] : r.id \in IdBlock..top})
  BY DEF CountedRows, Edge, Top
<1> HIDE DEF edge, top
<1> DEFINE low == {r \in d1[s] : r.id < edge}
           high == {r \in d1[s] : r.id \in IdBlock..top}
<1>12. low \cup high = d1[s] /\ low \cap high = {}
  BY <1>9, <1>10
<1>13. IsFiniteSet(d1[s])
  <2>1. Rows(Target(A, B, version)) /\ d1[s] = Target(A, B, version)
    BY <1>1, VerifiedIsTarget, AllRows
  <2> QED
    BY <2>1 DEF Rows
<1> HIDE DEF low, high
<1>14. IsFiniteSet(low) /\ IsFiniteSet(high)
  BY <1>12, <1>13, FS_Subset
<1>15. Cardinality(low) \in Nat /\ Cardinality(high) \in Nat /\ Cardinality({}) = 0
  BY <1>14, FS_CardinalityType, FS_EmptySet
<1>16. Cardinality(low \cup high)
            = Cardinality(low) + Cardinality(high) - Cardinality(low \cap high)
  BY <1>14, FS_Union
<1>17. Cardinality(d1[s]) = Cardinality(low) + Cardinality(high)
  <2>1. Cardinality(low \cap high) = 0
    BY <1>12, <1>15
  <2>2. Cardinality(low \cup high) = Cardinality(d1[s])
    BY <1>12
  <2> QED
    BY <1>15, <1>16, <2>1, <2>2
<1>18. CountedRows(s) = Cardinality(low) + Cardinality(high)
  BY <1>11 DEF low, high
<1> QED
  BY <1>17, <1>18

LEMMA MismatchDelta ==
  ASSUME Typed, Delta, NEW s \in Shards, Mismatch(s)
  PROVE  Delta'
<1>1. Mirrored(s) /\ Resumed(s) /\ Plans(s)
  BY DEF Delta
<1>2. /\ UNCHANGED <<d1, late, version, csv, mirror, plan, planFresh>>
      /\ pc[s] = "apply" /\ ckpt[s].phase \in {"verify", "verify-failed"}
      /\ ckpt' = [ckpt EXCEPT ![s].phase = "verify-failed"]
      /\ pc' = [pc EXCEPT ![s] = "failed"]
  BY DEF Mismatch, remoteVars, localVars
<1>3. /\ ckpt[s].sha = plan[s].sha /\ Checkpoint(ckpt[s])
      /\ Progress(mirror[s], csv[version][s], version, d1[s], ckpt[s])
  BY <1>1, <1>2, VerifiedIsTarget
<1>5. /\ \A t \in Shards \ {s} : ckpt'[t] = ckpt[t] /\ pc'[t] = pc[t]
      /\ ckpt'[s] = [ckpt[s] EXCEPT !.phase = "verify-failed"] /\ pc'[s] = "failed"
  BY <1>2 DEF Typed
<1>6. /\ ckpt'[s].phase = "verify-failed" /\ ckpt'[s].sha = ckpt[s].sha
      /\ ckpt'[s].inserted = ckpt[s].inserted /\ ckpt'[s].deleted = ckpt[s].deleted
  BY <1>3, <1>5 DEF Checkpoint
<1>7. Progress(mirror[s], csv[version][s], version, d1[s], ckpt'[s])
  BY <1>2, <1>3, <1>6 DEF Progress
<1>8. ASSUME NEW t \in Shards
      PROVE  Mirrored(t)' /\ Resumed(t)' /\ Plans(t)'
  <2>1. Mirrored(t)'
    BY <1>2, MirroredFrame DEF Delta
  <2>2. Resumed(t)'
    BY <1>2, <1>5, <1>7 DEF Resumed, Delta
  <2>3. Plans(t)'
    BY <1>2, <1>5 DEF Plans, Delta
  <2> QED
    BY <2>1, <2>2, <2>3
<1> QED
  BY <1>8 DEF Delta

\* Planning, afresh or with the plan files of an earlier run.
LEMMA StartDelta ==
  ASSUME Typed, Delta, Start
  PROVE  Delta'
<1>1. /\ UNCHANGED <<d1, late, version, csv, mirror, ckpt>>
      /\ planFresh' = Shards
      /\ pc' = pc \/ pc' = [s \in Shards |-> "planned"]
      /\ \A s \in Shards : pc[s] = "idle"
  BY DEF Start, remoteVars, Idle
<1>2. ASSUME NEW s \in Shards
      PROVE  Mirrored(s)' /\ Resumed(s)' /\ Plans(s)'
  <2> DEFINE A == mirror[s]
             B == csv[version][s]
  <2>1. Mirrored(s) /\ Resumed(s) /\ Plans(s)
    BY DEF Delta
  <2>2. Mirrored(s)' /\ Resumed(s)'
    BY <1>1, <2>1, MirroredFrame, ResumedFrame
  <2>3. plan'[s] = Planned(s) \/ (Reusable(s) /\ plan'[s] = plan[s])
    BY DEF Start
  <2>4. PlanFits(A, B, version, plan'[s]) /\ SameMirror(A, plan'[s].sha)
    <3>1. CASE plan'[s] = Planned(s)
      BY <2>1, <3>1, PlannedFits
    <3>2. CASE Reusable(s) /\ plan'[s] = plan[s]
      BY <2>1, <3>2 DEF Reusable, Plans, SameMirror
    <3> QED
      BY <2>3, <3>1, <3>2
  <2>5. IdsAreItsOwn(A, B, version, plan'[s])
    <3>1. Rows(A) /\ B \in SUBSET Keys /\ version \in Nat \ {0}
      BY <2>1, ShardValues
    <3> QED
      BY <2>4, <3>1, FittingIdsOwn
  <2>6. Plans(s)'
    BY <1>1, <2>4, <2>5 DEF Plans
  <2> QED
    BY <2>2, <2>6
<1> QED
  BY <1>2 DEF Delta

\* Steps that move a coroutine and leave D1, the mirror and the plans alone.
LEMMA MovesDelta ==
  ASSUME Typed, Delta, NEW s \in Shards,
         Skip(s) \/ Resume(s) \/ Fail(s) \/ Finish
  PROVE  Delta'
<1>1. UNCHANGED <<d1, late, version, csv, mirror, plan, planFresh, ckpt>>
  BY DEF Skip, Resume, Fail, Finish, remoteVars, localVars
<1>2. ASSUME NEW t \in Shards
      PROVE  Plans(t)'
  <2>1. Plans(t)
    BY DEF Delta
  <2>2. CASE pc'[t] = pc[t] \/ pc'[t] \in {"idle", "done", "failed"}
    <3>1. pc'[t] # "idle" => pc[t] # "idle"
      BY <2>2 DEF Skip, Resume, Fail, Finish, RunEnds, Typed
    <3> QED
      BY <1>1, <2>1, <2>2, <3>1 DEF Plans
  <2>3. CASE t = s /\ Resume(s)
    <3>1. pc[t] = "planned" /\ pc'[t] = "apply" /\ ckpt[t] # NoCheckpoint
          /\ ckpt[t].sha = plan[t].sha
      BY <2>3 DEF Resume, Typed
    <3> QED
      BY <1>1, <2>1, <3>1 DEF Plans
  <2>4. pc'[t] = pc[t] \/ pc'[t] \in {"idle", "done", "failed"} \/ (t = s /\ Resume(s))
    BY DEF Skip, Resume, Fail, Finish, RunEnds, Typed
  <2> QED
    BY <2>2, <2>3, <2>4
<1>3. \A t \in Shards : Mirrored(t)' /\ Resumed(t)'
  BY <1>1 DEF Delta, Mirrored, Resumed
<1> QED
  BY <1>2, <1>3 DEF Delta

\* Steps of one coroutine on its own checkpoint.
LEMMA CheckpointDelta ==
  ASSUME Typed, Delta, NEW s \in Shards,
         UNCHANGED <<d1, late, version, csv, mirror, plan, planFresh>>,
         \A t \in Shards \ {s} : ckpt'[t] = ckpt[t] /\ pc'[t] = pc[t],
         ckpt'[s] = NoCheckpoint \/
            Progress(mirror[s], csv[version][s], version, d1[s], ckpt'[s]),
         (pc[s] = "idle" /\ pc'[s] = "idle") \/
            (/\ pc[s] \in {"planned", "apply"} /\ pc'[s] = "apply"
             /\ ckpt'[s] # NoCheckpoint /\ ckpt'[s].sha = plan[s].sha)
  PROVE  Delta'
<1>1. ASSUME NEW t \in Shards
      PROVE  Mirrored(t)' /\ Resumed(t)' /\ Plans(t)'
  <2>1. Mirrored(t) /\ Resumed(t) /\ Plans(t)
    BY DEF Delta
  <2>2. Mirrored(t)'
    BY <2>1, MirroredFrame
  <2>3. Resumed(t)'
    BY <2>1 DEF Resumed
  <2>4. Plans(t)'
    BY <2>1 DEF Plans
  <2> QED
    BY <2>2, <2>3, <2>4
<1> QED
  BY <1>1 DEF Delta

LEMMA BeginDelta ==
  ASSUME Typed, Delta, NEW s \in Shards, Begin(s)
  PROVE  Delta'
<1>1. /\ UNCHANGED <<d1, late, version, csv, mirror, plan, planFresh>>
      /\ \A t \in Shards \ {s} : ckpt'[t] = ckpt[t] /\ pc'[t] = pc[t]
      /\ pc[s] = "planned" /\ pc'[s] = "apply"
      /\ ckpt'[s] = [phase |-> "start", inserted |-> 0, deleted |-> 0, sha |-> plan[s].sha]
  BY DEF Begin, Typed, remoteVars, localVars
<1>2. ckpt'[s].phase = "start" /\ ckpt'[s].sha = plan[s].sha
      /\ ckpt'[s].inserted = 0 /\ ckpt'[s].deleted = 0 /\ ckpt'[s] # NoCheckpoint
  BY <1>1 DEF NoCheckpoint
<1>3. Progress(mirror[s], csv[version][s], version, d1[s], ckpt'[s])
  BY <1>2 DEF Progress
<1> QED
  BY <1>1, <1>2, <1>3, CheckpointDelta

LEMMA PrepareDelta ==
  ASSUME Typed, Delta, NEW s \in Shards, Prepare(s)
  PROVE  Delta'
<1>1. /\ UNCHANGED <<d1, late, version, csv, mirror, plan, planFresh, pc>>
      /\ \A t \in Shards \ {s} : ckpt'[t] = ckpt[t]
      /\ pc[s] = "apply" /\ ckpt[s].phase = "start"
      /\ ckpt'[s] = [ckpt[s] EXCEPT !.phase = "insert"]
  BY DEF Prepare, Typed, localVars
<1>2. /\ Mirrored(s) /\ Resumed(s) /\ Plans(s)
      /\ ckpt[s] # NoCheckpoint /\ ckpt[s].sha = plan[s].sha /\ Checkpoint(ckpt[s])
  BY <1>1 DEF Delta, Plans, Typed
<1>3. /\ ckpt'[s].phase = "insert" /\ ckpt'[s].sha = ckpt[s].sha /\ ckpt'[s] # NoCheckpoint
      /\ ckpt'[s].inserted = ckpt[s].inserted /\ ckpt'[s].deleted = ckpt[s].deleted
  BY <1>1, <1>2 DEF Checkpoint, NoCheckpoint
<1>4. Progress(mirror[s], csv[version][s], version, d1[s], ckpt'[s])
  BY <1>2, <1>3 DEF Resumed, Progress
<1> QED
  BY <1>1, <1>2, <1>3, <1>4, CheckpointDelta

\* A phase ends when its list is done.
LEMMA NextPhaseDelta ==
  ASSUME Typed, Delta, NEW s \in Shards, NextPhase(s)
  PROVE  Delta'
<1> DEFINE A == mirror[s]
           B == csv[version][s]
           c == ckpt[s]
           next == IF c.phase = "insert" THEN "delete" ELSE "verify"
<1>1. /\ UNCHANGED <<d1, late, version, csv, mirror, plan, planFresh, pc>>
      /\ \A t \in Shards \ {s} : ckpt'[t] = ckpt[t]
      /\ pc[s] = "apply" /\ c.phase \in {"insert", "delete"} /\ Pending(s) = {}
      /\ ckpt'[s] = [c EXCEPT !.phase = next]
  BY DEF NextPhase, Typed, remoteVars, localVars
<1>2. /\ Mirrored(s) /\ Resumed(s) /\ c # NoCheckpoint
      /\ c.sha = plan[s].sha /\ Checkpoint(c)
      /\ PlanFits(A, B, version, plan[s]) /\ SameMirror(A, plan[s].sha)
  BY <1>1 DEF Delta, Plans, Typed
<1>3. /\ ckpt'[s].phase = next /\ ckpt'[s].sha = c.sha /\ ckpt'[s] # NoCheckpoint
      /\ ckpt'[s].inserted = c.inserted /\ ckpt'[s].deleted = c.deleted
  BY <1>1, <1>2 DEF Checkpoint, NoCheckpoint
<1>4. /\ Rows(A) /\ B \in SUBSET Keys /\ version \in Nat \ {0}
      /\ Progress(A, B, version, d1[s], c)
  BY <1>2, ShardValues DEF Resumed
<1>5. /\ plan[s].ins = Additions(A, B, version) /\ plan[s].del = Removals(A, B)
      /\ c.sha.ins = Len(plan[s].ins) /\ c.sha.del = Len(plan[s].del)
  BY <1>2 DEF PlanFits
<1>6. Len(plan[s].ins) \in Nat /\ Len(plan[s].del) \in Nat
  BY <1>4, <1>5, PlanLists
<1>7. \A i \in 1..c.inserted : i \in 1..Len(plan[s].ins)
  BY <1>2, <1>4, <1>5 DEF Progress
<1>8. \A i \in 1..c.deleted : i \in 1..Len(plan[s].del)
  BY <1>2, <1>4, <1>5 DEF Progress
<1>9. c.inserted \in Nat /\ c.deleted \in Nat
  BY <1>2 DEF Checkpoint
<1>10. c.inserted <= Len(plan[s].ins) /\ c.deleted <= Len(plan[s].del)
  BY <1>6, <1>7, <1>8, <1>9
<1>11. c.phase = "insert" => c.inserted = c.sha.ins
  <2>1. c.phase = "insert" => ~(c.inserted < Len(plan[s].ins))
    BY <1>1 DEF Pending
  <2> QED
    BY <1>5, <1>6, <1>9, <1>10, <2>1
<1>12. c.phase = "delete" => c.inserted = c.sha.ins /\ c.deleted = c.sha.del
  <2>1. c.phase = "delete" => ~(c.deleted < Len(plan[s].del))
    BY <1>1 DEF Pending
  <2>2. c.phase = "delete" => c.inserted = c.sha.ins
    BY <1>4 DEF Progress
  <2> QED
    BY <1>5, <1>6, <1>9, <1>10, <2>1, <2>2
<1>13. Progress(A, B, version, d1[s], ckpt'[s])
  BY <1>1, <1>3, <1>4, <1>11, <1>12 DEF Progress
<1> QED
  BY <1>1, <1>2, <1>3, <1>13, CheckpointDelta

\* "delete the checkpoint file"
LEMMA StartOverDelta ==
  ASSUME Typed, Delta, NEW s \in Shards, StartOver(s)
  PROVE  Delta'
<1>1. /\ UNCHANGED <<d1, late, version, csv, mirror, plan, planFresh, pc>>
      /\ \A t \in Shards \ {s} : ckpt'[t] = ckpt[t]
      /\ pc[s] = "idle" /\ ckpt'[s] = NoCheckpoint
  BY DEF StartOver, Idle, Typed, remoteVars, localVars
<1> QED
  BY <1>1, CheckpointDelta

\* Requests left behind by a timeout or a crash are harmless ones.
LEMMA LateDelta ==
  ASSUME Typed, Delta,
         UNCHANGED <<d1, version, csv, mirror, plan, planFresh, ckpt>>,
         pc' = pc \/ pc' = [s \in Shards |-> "idle"],
         \A s \in Shards : late'[s] \subseteq late[s] \cup Pending(s)
  PROVE  Delta'
<1>1. ASSUME NEW s \in Shards
      PROVE  Mirrored(s)' /\ Resumed(s)' /\ Plans(s)'
  <2>1. Mirrored(s) /\ Resumed(s) /\ Plans(s)
    BY DEF Delta
  <2>2. \A q \in Pending(s) : Harmless(mirror[s], csv[version][s], version, q)
    BY <2>1, PendingHarmless
  <2>3. \A q \in late'[s] : Harmless(mirror[s], csv[version][s], version, q)
    BY <2>1, <2>2 DEF Mirrored
  <2>4. Mirrored(s)'
    BY <2>1, <2>3 DEF Mirrored
  <2>5. Resumed(s)'
    BY <2>1 DEF Resumed
  <2>6. pc'[s] = pc[s] \/ pc'[s] = "idle"
    OBVIOUS
  <2>7. Plans(s)'
    BY <2>1, <2>6 DEF Plans
  <2> QED
    BY <2>4, <2>5, <2>7
<1> QED
  BY <1>1 DEF Delta

LEMMA TimeOutDelta ==
  ASSUME Typed, Delta, NEW s \in Shards, TimeOut(s)
  PROVE  Delta'
<1>1. UNCHANGED <<d1, version, csv, mirror, plan, planFresh, ckpt, pc>>
  BY DEF TimeOut, localVars
<1>2. \A t \in Shards : late'[t] \subseteq late[t] \cup Pending(t)
  BY DEF TimeOut, Typed
<1> QED
  BY <1>1, <1>2, LateDelta

LEMMA CrashDelta ==
  ASSUME Typed, Delta, Crash
  PROVE  Delta'
<1>1. /\ UNCHANGED <<d1, version, csv, mirror, plan, planFresh, ckpt>>
      /\ pc' = [s \in Shards |-> "idle"]
  BY DEF Crash, RunEnds, localVars
<1>2. \A s \in Shards : late'[s] \subseteq late[s] \cup Pending(s)
  BY DEF Crash
<1> QED
  BY <1>1, <1>2, LateDelta

\* The mirror becomes the target, of which nothing is left to do, and which no
\* request still on its way can change.  A plan file or a checkpoint that still
\* looks like one of this mirror is one of a plan with nothing to do.
LEMMA SavedDelta ==
  ASSUME Typed, Delta, NEW s \in Shards, Interrupted(s),
         UNCHANGED <<d1, late, version, csv, plan, planFresh>>,
         mirror' = [mirror EXCEPT ![s] = d1[s]],
         \/ ckpt'[s] = NoCheckpoint \/ ckpt'[s] = ckpt[s],
         \A t \in Shards \ {s} : ckpt'[t] = ckpt[t],
         \/ pc'[s] = "idle" \/ (pc'[s] = "done" /\ pc[s] # "idle"),
         \A t \in Shards \ {s} : pc'[t] = pc[t] \/ pc'[t] = "idle"
  PROVE  Delta'
<1> DEFINE A == mirror[s]
           B == csv[version][s]
           T == Target(A, B, version)
           p == plan[s]
<1>2. Mirrored(s) /\ Resumed(s) /\ Plans(s)
  BY DEF Delta
<1>3. /\ d1[s] = T /\ SameMirror(A, p.sha)
      /\ ckpt[s] # NoCheckpoint => ckpt[s].sha = p.sha
  BY DEF Interrupted
<1>4. mirror'[s] = T /\ \A t \in Shards \ {s} : mirror'[t] = mirror[t]
  BY <1>3 DEF Typed
<1>5. Rows(A) /\ B \in SUBSET Keys /\ version \in Nat \ {0}
  BY <1>2, ShardValues
<1>6. Rows(T)
  BY <1>5, AllRows
<1>7. /\ Kept(T, B) = T /\ Added(T, B, version) = {} /\ Target(T, B, version) = T
  <2> HIDE DEF A, B
  <2>1. Kept(T, B) = T
    BY <1>5, TargetIs
  <2>2. Added(T, B, version) = {}
    BY <1>5, TargetIs
  <2> HIDE DEF T
  <2>3. Target(T, B, version) = T
    BY <2>1, <2>2 DEF Target
  <2> QED
    BY <2>1, <2>2, <2>3
<1>8. SameMirror(T, p.sha) => T = A
  BY <1>3, <1>5, SameMirrorSameRows DEF SameMirror
<1>10. Mirrored(s)'
  <2>1. Between(T, B, version, d1[s])
    BY <1>3, <1>7 DEF Between
  <2>2. \A q \in late[s] : Harmless(T, B, version, q)
    BY <1>2, <1>7 DEF Mirrored, Harmless
  <2> HIDE DEF T
  <2>3. IsFiniteSet(T) /\ UniqueIds(T)
    BY <1>6 DEF Rows
  <2> QED
    BY <1>4, <2>1, <2>2, <2>3 DEF Mirrored
<1>11. Resumed(s)'
  <2>1. CASE ckpt'[s] = NoCheckpoint
    BY <2>1 DEF Resumed
  <2>2. CASE ckpt'[s] = ckpt[s] /\ ckpt[s] # NoCheckpoint
    <3>1. Progress(A, B, version, d1[s], ckpt[s]) /\ (SameMirror(T, ckpt[s].sha) => T = A)
      BY <1>2, <1>3, <1>8, <2>2 DEF Resumed
    <3>2. Progress(T, B, version, d1[s], ckpt[s])
      <4>1. CASE T = A
        BY <3>1, <4>1
      <4>2. CASE ~SameMirror(T, ckpt[s].sha)
        <5> HIDE DEF T
        <5> QED
          BY <3>1, <4>2 DEF Progress
      <4> QED
        BY <3>1, <4>1, <4>2
    <3> HIDE DEF T
    <3> QED
      BY <1>4, <2>2, <3>2 DEF Resumed
  <2>3. CASE ckpt'[s] = ckpt[s] /\ ckpt[s] = NoCheckpoint
    BY <2>3 DEF Resumed
  <2> QED
    BY <2>1, <2>2, <2>3
<1>12. Plans(s)'
  <2>1. s \in planFresh => PlanFits(T, B, version, p)
    <3>1. CASE T = A
      BY <1>2, <3>1 DEF Plans
    <3>2. CASE ~SameMirror(T, p.sha)
      BY <3>2 DEF PlanFits
    <3> QED
      BY <1>8, <3>1, <3>2
  <2>2. pc[s] # "idle" => IdsAreItsOwn(T, B, version, p)
    <3>1. T \subseteq A \cup Added(A, B, version)
      BY DEF Target, Kept
    <3>2. pc[s] # "idle" => IdsAreItsOwn(A, B, version, p)
      BY <1>2 DEF Plans
    <3> HIDE DEF T
    <3> QED
      BY <1>7, <3>1, <3>2 DEF IdsAreItsOwn
  <2>3. pc'[s] # "idle" => pc[s] # "idle"
    OBVIOUS
  <2>4. pc[s] # "idle" => s \in planFresh
    BY <1>2 DEF Plans
  <2>5. pc'[s] \in {"done", "idle"}
    OBVIOUS
  <2> HIDE DEF T
  <2> QED
    BY <1>4, <2>1, <2>2, <2>3, <2>4, <2>5 DEF Plans
<1>13. ASSUME NEW t \in Shards, t # s
       PROVE  Mirrored(t)' /\ Resumed(t)' /\ Plans(t)'
  <2>1. /\ Mirrored(t) /\ Resumed(t) /\ Plans(t)
        /\ mirror'[t] = mirror[t] /\ ckpt'[t] = ckpt[t]
    BY <1>4, <1>13 DEF Delta
  <2>2. pc'[t] = pc[t] \/ pc'[t] = "idle"
    BY <1>13
  <2>3. Mirrored(t)' /\ Resumed(t)'
    BY <2>1, MirroredFrame, ResumedFrame
  <2>4. Plans(t)'
    BY <2>1, <2>2 DEF Plans
  <2> QED
    BY <2>3, <2>4
<1> QED
  BY <1>10, <1>11, <1>12, <1>13 DEF Delta

\* A shard whose count matches is as a crash in save_mirror would leave it.
LEMMA VerifiedInterrupted ==
  ASSUME Typed, Delta, NEW s \in Shards, Verified(s)
  PROVE  Interrupted(s) /\ Saved(mirror[s], plan[s]) = d1[s]
<1>1. Mirrored(s) /\ Resumed(s) /\ Plans(s)
      /\ pc[s] = "apply" /\ ckpt[s].phase \in {"verify", "verify-failed"}
  BY DEF Delta, Verified
<1> QED
  BY <1>1, VerifiedIsTarget DEF Interrupted

LEMMA CommitDelta ==
  ASSUME Typed, Delta, NEW s \in Shards, Commit(s) \/ CrashInCommit(s)
  PROVE  Delta' /\ mirror' = [mirror EXCEPT ![s] = d1[s]] /\ Interrupted(s)
<1>1. MirrorSaved(s) /\ pc[s] = "apply"
  BY DEF Commit, CrashInCommit, MirrorSaved, Verified
<1>2. Interrupted(s) /\ Saved(mirror[s], plan[s]) = d1[s]
  BY <1>1, VerifiedInterrupted DEF MirrorSaved
<1>3. /\ mirror' = [mirror EXCEPT ![s] = d1[s]]
      /\ UNCHANGED <<d1, late, version, csv, plan, planFresh>>
  BY <1>1, <1>2 DEF MirrorSaved, Saved, remoteVars
<1>4. ckpt'[s] = NoCheckpoint \/ ckpt'[s] = ckpt[s]
  BY DEF Commit, CrashInCommit, Typed
<1>5. \A t \in Shards \ {s} : ckpt'[t] = ckpt[t]
  BY DEF Commit, CrashInCommit, Typed
<1>6. /\ pc'[s] = "idle" \/ pc'[s] = "done"
      /\ \A t \in Shards \ {s} : pc'[t] = pc[t] \/ pc'[t] = "idle"
  BY DEF Commit, CrashInCommit, RunEnds, Typed
<1> QED
  BY <1>1, <1>2, <1>3, <1>4, <1>5, <1>6, SavedDelta

LEMMA CrashInSaveDelta ==
  ASSUME Typed, Delta, NEW s \in Shards, CrashInSave(s)
  PROVE  Delta'
<1>1. /\ UNCHANGED <<d1, late, version, csv, mirror, plan, planFresh, ckpt>>
      /\ pc' = [t \in Shards |-> "idle"]
  BY DEF CrashInSave, RunEnds, remoteVars
<1> QED
  BY <1>1, LateDelta

\* The export writes what the interrupted save would have.
LEMMA ExportDelta ==
  ASSUME Typed, Delta, Awaited, NEW s \in Shards, Export(s)
  PROVE  Delta' /\ mirror' = [mirror EXCEPT ![s] = d1[s]] /\ Interrupted(s)
<1>1. /\ mirror' = [mirror EXCEPT ![s] = d1[s]]
      /\ UNCHANGED <<d1, late, version, csv, plan, planFresh, ckpt, pc>>
      /\ pc[s] = "idle" /\ s \in torn
  BY DEF Export, Idle, remoteVars
<1>2. Interrupted(s)
  BY <1>1 DEF Awaited
<1> QED
  BY <1>1, <1>2, SavedDelta

\* A CSV changes under a shard that is as the mirror has it.
LEMMA SettledMirrored ==
  ASSUME NEW A, Rows(A), NEW B \in SUBSET Keys, NEW v \in Nat \ {0}
  PROVE  Between(A, B, v, A)
BY DEF Between, Kept

LEMMA RebuildDelta ==
  ASSUME Typed, Delta, NEW s \in Shards, Rebuild(s)
  PROVE  Delta'
<1>1. PICK keys \in Csvs[s] : csv' = [csv EXCEPT ![version][s] = keys]
  BY DEF Rebuild
<1>2. /\ UNCHANGED <<d1, late, version, mirror, plan, ckpt, pc>>
      /\ planFresh' = planFresh \ {s}
      /\ d1[s] = mirror[s] /\ late[s] = {}
      /\ \A t \in Shards : pc[t] = "idle"
  BY DEF Rebuild, remoteVars, Settled, Idle
<1>3. keys \in SUBSET Keys /\ version \in Versions
  BY NumbersAssumption, RowsAssumption DEF Typed, Versions
<1>4. /\ (csv[version][s])' = keys
      /\ \A t \in Shards \ {s} : (csv[version][t])' = csv[version][t]
  BY <1>1, <1>2, <1>3 DEF Typed
<1>5. Mirrored(s)' /\ Resumed(s)' /\ Plans(s)'
  <2>1. Mirrored(s) /\ Resumed(s)
    BY DEF Delta
  <2>2. Rows(mirror[s]) /\ csv[version][s] \in SUBSET Keys /\ version \in Nat \ {0}
    BY <2>1, ShardValues
  <2>3. Mirrored(s)'
    BY <1>2, <1>3, <1>4, <2>1, <2>2, SettledMirrored DEF Mirrored
  <2>4. Resumed(s)'
    BY <1>2, <1>3, <1>4, <2>1, <2>2, SettledProgress DEF Resumed
  <2>5. Plans(s)'
    BY <1>2 DEF Plans
  <2> QED
    BY <2>3, <2>4, <2>5
<1>6. ASSUME NEW t \in Shards, t # s
      PROVE  Mirrored(t)' /\ Resumed(t)' /\ Plans(t)'
  <2>1. Mirrored(t) /\ Resumed(t) /\ Plans(t) /\ (csv[version][t])' = csv[version][t]
    BY <1>4, <1>6 DEF Delta
  <2>2. Mirrored(t)' /\ Resumed(t)'
    BY <1>2, <2>1, MirroredFrame, ResumedFrame
  <2>3. Plans(t)'
    BY <1>2, <1>6, <2>1 DEF Plans
  <2> QED
    BY <2>2, <2>3
<1> QED
  BY <1>5, <1>6 DEF Delta

LEMMA NextVersionDelta ==
  ASSUME Typed, Delta, NextVersion
  PROVE  Delta'
<1>1. PICK next \in [Shards -> UNION {Csvs[s] : s \in Shards}] :
        /\ \A s \in Shards : next[s] \in Csvs[s]
        /\ csv' = [csv EXCEPT ![version'] = next]
  BY DEF NextVersion
<1>2. /\ UNCHANGED <<d1, late, mirror, pc>>
      /\ version' = version + 1 /\ version < MaxVersion
      /\ planFresh' = {}
      /\ ckpt' = [s \in Shards |-> NoCheckpoint]
      /\ \A s \in Shards : d1[s] = mirror[s] /\ late[s] = {} /\ pc[s] = "idle"
  BY DEF NextVersion, remoteVars, Settled, Idle
<1>3. version' \in Versions /\ version' \in Nat \ {0}
  BY <1>2, NumbersAssumption DEF Typed, Versions
<1>4. ASSUME NEW s \in Shards
      PROVE  Mirrored(s)' /\ Resumed(s)' /\ Plans(s)'
  <2>1. Mirrored(s)
    BY DEF Delta
  <2>2. Rows(mirror[s])
    BY <2>1, ShardValues
  <2>3. (csv[version][s])' \in SUBSET Keys
    <3>1. (csv[version][s])' = next[s]
      BY <1>1, <1>3 DEF Typed
    <3> QED
      BY <1>1, <3>1, RowsAssumption
  <2>4. Between(mirror[s], (csv[version][s])', version', mirror[s])
    BY <1>3, <2>2, <2>3, SettledMirrored
  <2>5. Mirrored(s)'
    BY <1>2, <2>1, <2>4 DEF Mirrored
  <2>6. Resumed(s)' /\ Plans(s)'
    BY <1>2 DEF Resumed, Plans
  <2> QED
    BY <2>5, <2>6
<1> QED
  BY <1>4 DEF Delta

-----------------------------------------------------------------------------
(* The torn mirrors.                                                       *)

\* A late request changes nothing where the plan is done.
LEMMA LateInterrupted ==
  ASSUME Typed, Delta, NEW s \in Shards, NEW t \in Shards, Interrupted(t), ExecuteLate(s)
  PROVE  Interrupted(t)'
<1> DEFINE A == mirror[t]
           B == csv[version][t]
           T == Target(A, B, version)
<1>1. PICK q \in late[s] : Execute(s, q)
  BY DEF ExecuteLate
<1>2. UNCHANGED <<version, csv, mirror, plan, ckpt>>
  BY DEF ExecuteLate, localVars
<1>3. q \in Request
  BY DEF Typed
<1>4. CASE t = s
  <2>1. Mirrored(t)
    BY DEF Delta
  <2>2. /\ Rows(A) /\ B \in SUBSET Keys /\ version \in Nat \ {0}
        /\ Between(A, B, version, d1[t])
    BY <2>1, ShardValues
  <2>3. Harmless(A, B, version, q) /\ d1'[t] = After(d1[t], q)
    BY <1>1, <1>3, <1>4, <2>1, Executed DEF Mirrored
  <2>4. /\ Between(A, B, version, d1'[t])
        /\ \A r \in d1[t] \cap T : r \in d1'[t]
        /\ \A n \in Vanished(A, B) : n \notin IdsOf(d1[t]) => n \notin IdsOf(d1'[t])
    BY <2>2, <2>3, ExecutedHarmless
  <2>5. /\ d1[t] = T /\ IdsOf(T) \cap Vanished(A, B) = {}
        /\ T = {r \in A \cup Added(A, B, version) : r.id \notin Vanished(A, B)}
    BY <2>2, AllRows DEF Interrupted
  <2> HIDE DEF T
  <2>6. \A r \in d1'[t] : r.id \notin Vanished(A, B) /\ r \in A \cup Added(A, B, version)
    BY <2>4, <2>5 DEF IdsOf, Between
  <2>7. d1'[t] = T
    BY <2>4, <2>5, <2>6
  <2> QED
    BY <1>2, <2>7 DEF Interrupted, T
<1>5. CASE t # s
  <2>1. d1'[t] = d1[t]
    BY <1>1, <1>3, <1>5, Executed
  <2> QED
    BY <1>2, <2>1 DEF Interrupted
<1> QED
  BY <1>4, <1>5

LEMMA AwaitedStep ==
  ASSUME Typed, Delta, Awaited, [Next]_vars
  PROVE  Awaited'
<1>1. ASSUME NEW s \in Shards, CrashInSave(s)
      PROVE  Awaited'
  <2>1. torn = {} /\ Idle'
    BY <1>1 DEF CrashInSave, Verified, RunEnds, Awaited, Idle
  <2>2. Interrupted(s)
    BY <1>1, VerifiedInterrupted DEF CrashInSave
  <2>3. torn' = {s} /\ UNCHANGED <<d1, mirror, csv, version, plan, ckpt>>
    BY <1>1, <2>1 DEF CrashInSave, remoteVars
  <2>4. Interrupted(s)'
    BY <2>2, <2>3 DEF Interrupted
  <2> QED
    BY <2>1, <2>3, <2>4 DEF Awaited
<1>2. CASE torn' = {}
  BY <1>2 DEF Awaited
<1>3. ASSUME ~Idle, torn' = torn
      PROVE  Awaited'
  BY <1>2, <1>3 DEF Awaited
<1>4. ASSUME Idle, torn # {}, torn' \subseteq torn, Idle',
             \A t \in torn' : Interrupted(t)'
      PROVE  Awaited'
  BY <1>4 DEF Awaited
<1>5. ASSUME NEW s \in Shards, Coroutine(s), ~CrashInSave(s)
      PROVE  Awaited'
  <2>1. pc[s] # "idle"
    <3>1. \A q : q \in Pending(s) => pc[s] = "apply"
      BY DEF Pending
    <3>2. TimeOut(s) => \E q : q \in Pending(s)
      BY DEF TimeOut
    <3> QED
      BY <1>5, <3>1, <3>2 DEF Coroutine, Skip, Begin, Resume, Prepare, Insert, Delete, NextPhase, Fail,
                Mismatch, Commit, CrashInCommit, MirrorSaved, Verified
  <2>2. torn' = torn
    BY <1>5 DEF Coroutine, Skip, Begin, Resume, Prepare, Insert, Delete, NextPhase, Fail,
                TimeOut, Mismatch, Commit, CrashInCommit, MirrorSaved, localVars
  <2> QED
    BY <1>3, <2>1, <2>2 DEF Idle
<1>6. CASE Start \/ NextVersion
  <2>1. torn' = {}
    <3>1. Start => torn' = {}
      BY DEF Start
    <3>2. NextVersion => torn' = {}
      BY DEF NextVersion, Settled, Typed
    <3> QED
      BY <1>6, <3>1, <3>2
  <2> QED
    BY <1>2, <2>1
<1>7. CASE Finish \/ Crash
  <2>1. ~Idle /\ torn' = torn
    BY <1>7 DEF Finish, Crash, localVars
  <2> QED
    BY <1>3, <2>1
<1>8. CASE torn = {} /\ torn' \subseteq torn
  BY <1>2, <1>8
<1>9. ASSUME torn # {}, UNCHANGED vars
      PROVE  Awaited'
  BY <1>9 DEF Awaited, Interrupted, Idle, vars, remoteVars, localVars
<1>10. ASSUME torn # {}, NEW s \in Shards, ExecuteLate(s)
       PROVE  Awaited'
  <2>1. torn' = torn /\ pc' = pc
    BY <1>10 DEF ExecuteLate, localVars
  <2>2. \A t \in torn : t \in Shards /\ Interrupted(t) /\ Idle
    BY <1>10 DEF Awaited, Typed
  <2>3. \A t \in torn : Interrupted(t)'
    BY <1>10, <2>2, LateInterrupted
  <2> QED
    BY <1>10, <2>1, <2>2, <2>3 DEF Awaited, Idle
<1>11. ASSUME torn # {}, NEW s \in Shards, Rebuild(s)
       PROVE  Awaited'
  <2>1. /\ Idle /\ s \notin torn /\ torn' = torn
        /\ UNCHANGED <<d1, mirror, version, plan, ckpt, pc>>
    BY <1>11 DEF Rebuild, Settled, remoteVars
  <2>2. \A t \in torn : (csv[version][t])' = csv[version][t]
    <3>1. PICK keys \in Csvs[s] : csv' = [csv EXCEPT ![version][s] = keys]
      BY <1>11 DEF Rebuild
    <3>2. version \in Versions
      BY NumbersAssumption DEF Typed, Versions
    <3> QED
      BY <2>1, <3>1, <3>2 DEF Typed
  <2>3. \A t \in torn : Interrupted(t)'
    BY <1>11, <2>1, <2>2 DEF Awaited, Interrupted
  <2> QED
    BY <2>1, <2>3 DEF Awaited, Idle
<1>12. ASSUME torn # {}, NEW s \in Shards, Export(s)
       PROVE  Awaited'
  <2>1. /\ Idle /\ torn' = torn \ {s}
        /\ UNCHANGED <<d1, csv, version, plan, ckpt, pc>>
        /\ mirror' = [mirror EXCEPT ![s] = d1[s]]
    BY <1>12 DEF Export, remoteVars
  <2>2. \A t \in torn' : t \in torn /\ mirror'[t] = mirror[t]
    BY <2>1 DEF Typed
  <2>3. \A t \in torn' : Interrupted(t)'
    BY <1>12, <2>1, <2>2 DEF Awaited, Interrupted
  <2> QED
    BY <2>1, <2>3 DEF Awaited, Idle
<1>13. ASSUME torn # {}, NEW s \in Shards, StartOver(s)
       PROVE  Awaited'
  <2>1. /\ Idle /\ UNCHANGED <<torn, d1, csv, version, plan, mirror, pc>>
        /\ ckpt' = [ckpt EXCEPT ![s] = NoCheckpoint]
    BY <1>13 DEF StartOver, remoteVars, localVars
  <2>2. \A t \in torn : t \in Shards /\ (ckpt'[t] = ckpt[t] \/ ckpt'[t] = NoCheckpoint)
    BY <2>1 DEF Typed
  <2>3. \A t \in torn : Interrupted(t)'
    BY <1>13, <2>1, <2>2 DEF Awaited, Interrupted
  <2> QED
    BY <2>1, <2>3 DEF Awaited, Idle
<1>14. ASSUME NEW s \in Shards, ExecuteLate(s) \/ Rebuild(s) \/ Export(s) \/ StartOver(s)
       PROVE  torn' \subseteq torn
  BY <1>14 DEF ExecuteLate, Rebuild, Export, StartOver, localVars
<1>15. UNCHANGED vars => torn' = torn
  BY DEF vars, localVars
<1> QED
  BY <1>1, <1>5, <1>6, <1>7, <1>8, <1>9, <1>10, <1>11, <1>12, <1>13, <1>14, <1>15 DEF Next

-----------------------------------------------------------------------------
(* The types.                                                              *)

LEMMA CheckpointTyped ==
  ASSUME Typed, NEW s \in Shards, NEW c, c = NoCheckpoint \/ Checkpoint(c),
         ckpt' = [ckpt EXCEPT ![s] = c]
  PROVE  /\ ckpt' = [t \in Shards |-> ckpt'[t]]
         /\ \A t \in Shards : ckpt'[t] = NoCheckpoint \/ Checkpoint(ckpt'[t])
<1>1. /\ ckpt = [t \in Shards |-> ckpt[t]]
      /\ \A t \in Shards : ckpt[t] = NoCheckpoint \/ Checkpoint(ckpt[t])
  BY DEF Typed
<1>2. ckpt' = [t \in Shards |-> ckpt'[t]]
  BY <1>1
<1>3. ckpt'[s] = c /\ \A t \in Shards \ {s} : ckpt'[t] = ckpt[t]
  BY <1>1
<1>4. \A t \in Shards : ckpt'[t] = NoCheckpoint \/ Checkpoint(ckpt'[t])
  BY <1>1, <1>3
<1> QED
  BY <1>2, <1>4

LEMMA PendingRequests ==
  ASSUME Typed, Delta, NEW s \in Shards
  PROVE  Pending(s) \subseteq Request
<1>1. Mirrored(s) /\ Resumed(s) /\ Plans(s)
  BY DEF Delta
<1>2. Rows(mirror[s]) /\ csv[version][s] \in SUBSET Keys /\ version \in Nat \ {0}
  BY <1>1, ShardValues
<1>3. \A q \in Pending(s) : Harmless(mirror[s], csv[version][s], version, q)
  BY <1>1, PendingHarmless
<1> QED
  BY <1>2, <1>3, HarmlessRequest

\* A request is answered: the rows, the ledger and the checkpoint.
LEMMA AnswerTyped ==
  ASSUME Typed, Delta, NEW s \in Shards, NEW q \in Pending(s),
         Execute(s, q), Acknowledged(s, q), UNCHANGED <<late, localVars>>,
         NEW c, Checkpoint(c), ckpt' = [ckpt EXCEPT ![s] = c]
  PROVE  Typed'
<1>2. q \in Request
  BY PendingRequests
<1>3. /\ d1' \in [Shards -> SUBSET Row] /\ fts' \in [Addresses -> SUBSET Row]
      /\ triggers' = triggers
  BY <1>2, Executed
<1>4. committed' \in Nat
  <2>1. committed' = committed \/ committed' = committed + RowCost
    BY DEF Acknowledged, Typed
  <2> QED
    BY <2>1, NumbersAssumption DEF Typed
<1>5. pc' \in [Shards -> Phase]
  BY DEF Acknowledged, Typed, Phase
<1>6. /\ ckpt' = [t \in Shards |-> ckpt'[t]]
      /\ \A t \in Shards : ckpt'[t] = NoCheckpoint \/ Checkpoint(ckpt'[t])
  BY CheckpointTyped
<1> QED
  BY <1>3, <1>4, <1>5, <1>6 DEF Typed, localVars

\* A coroutine that is applying its plan has a checkpoint of the right form.
LEMMA Applying ==
  ASSUME Typed, Delta, NEW s \in Shards, pc[s] = "apply"
  PROVE  Checkpoint(ckpt[s])
BY DEF Typed, Delta, Plans

LEMMA TypedStep ==
  ASSUME Typed, Delta, [Next]_vars
  PROVE  Typed'
<1>1. ASSUME Start
      PROVE  Typed'
  <2>1. pc' \in [Shards -> Phase]
    BY <1>1 DEF Start, Typed, Phase
  <2>2. PICK reuse \in BOOLEAN :
          plan' = [s \in Shards |-> IF reuse /\ Reusable(s) THEN plan[s] ELSE Planned(s)]
    BY <1>1 DEF Start
  <2>3. ASSUME NEW s \in Shards
        PROVE  (IF reuse /\ Reusable(s) THEN plan[s] ELSE Planned(s)) \in PlanFile
    <3>1. Planned(s) \in PlanFile
      BY PlannedTyped DEF Delta
    <3>2. Reusable(s) => plan[s] \in PlanFile
      BY DEF Reusable, Typed
    <3> QED
      BY <3>1, <3>2
  <2>4. plan' \in [Shards -> PlanFile \cup {NoPlan}] /\ \A s \in Shards : plan'[s] \in PlanFile
    BY <2>2, <2>3
  <2>5. planFresh' = Shards
    BY <1>1 DEF Start
  <2> QED
    BY <1>1, <2>1, <2>4, <2>5 DEF Start, Typed, remoteVars
<1>2. ASSUME Finish
      PROVE  Typed'
  BY <1>2 DEF Finish, RunEnds, Typed, Phase, remoteVars, localVars
<1>3. ASSUME Crash
      PROVE  Typed'
  <2>1. PICK lost \in SUBSET Shards :
          late' = [s \in Shards |-> late[s] \cup
            (IF s \in lost /\ Cardinality(late[s]) < MaxLate THEN Pending(s) ELSE {})]
    BY <1>3 DEF Crash
  <2>2. \A s \in Shards : Pending(s) \subseteq Request
    BY PendingRequests
  <2>3. late' \in [Shards -> SUBSET Request]
    BY <2>1, <2>2 DEF Typed
  <2> QED
    BY <1>3, <2>3 DEF Crash, RunEnds, Typed, Phase, localVars
<1>4. ASSUME NextVersion
      PROVE  Typed'
  <2>1. PICK next \in [Shards -> UNION {Csvs[s] : s \in Shards}] :
          /\ \A s \in Shards : next[s] \in Csvs[s]
          /\ csv' = [csv EXCEPT ![version'] = next]
    BY <1>4 DEF NextVersion
  <2>2. version' \in 1..MaxVersion
    BY <1>4, NumbersAssumption DEF NextVersion, Typed
  <2>3. next \in [Shards -> SUBSET Keys]
    BY <2>1, RowsAssumption
  <2>4. csv' \in [Versions -> [Shards -> SUBSET Keys]]
    BY <2>1, <2>3 DEF Typed
  <2>5. plan' \in [Shards -> PlanFile \cup {NoPlan}] /\ planFresh' = {}
    BY <1>4 DEF NextVersion
  <2> QED
    BY <1>4, <2>2, <2>4, <2>5 DEF NextVersion, Typed, remoteVars
<1>5. ASSUME NEW s \in Shards, Skip(s) \/ Resume(s) \/ Fail(s)
      PROVE  Typed'
  BY <1>5 DEF Skip, Resume, Fail, Typed, Phase, remoteVars, localVars
<1>6. ASSUME NEW s \in Shards, Begin(s)
      PROVE  Typed'
  <2> DEFINE c == [phase |-> "start", inserted |-> 0, deleted |-> 0, sha |-> plan[s].sha]
  <2>1. plan[s].sha \in Summary
    <3>1. plan[s] \in PlanFile
      BY <1>6 DEF Begin, Delta, Plans, Typed
    <3> QED
      BY <3>1 DEF PlanFile
  <2>1a. Checkpoint(c) /\ ckpt' = [ckpt EXCEPT ![s] = c]
    BY <1>6, <2>1 DEF Begin, Checkpoint
  <2> HIDE DEF c
  <2>2. /\ ckpt' = [t \in Shards |-> ckpt'[t]]
        /\ \A t \in Shards : ckpt'[t] = NoCheckpoint \/ Checkpoint(ckpt'[t])
    BY <2>1a, CheckpointTyped
  <2> QED
    BY <1>6, <2>2 DEF Begin, Typed, Phase, remoteVars, localVars
<1>7. ASSUME NEW s \in Shards, Prepare(s)
      PROVE  Typed'
  <2> DEFINE c == [ckpt[s] EXCEPT !.phase = "insert"]
  <2>1. Checkpoint(c) /\ ckpt' = [ckpt EXCEPT ![s] = c]
    <3>1. Checkpoint(ckpt[s])
      BY <1>7, Applying DEF Prepare
    <3>2. Checkpoint(c)
      BY <3>1 DEF Checkpoint
    <3>3. ckpt' = [ckpt EXCEPT ![s] = c]
      BY <1>7 DEF Prepare
    <3> QED
      BY <3>2, <3>3
  <2> HIDE DEF c
  <2>2. /\ ckpt' = [t \in Shards |-> ckpt'[t]]
        /\ \A t \in Shards : ckpt'[t] = NoCheckpoint \/ Checkpoint(ckpt'[t])
    BY <2>1, CheckpointTyped
  <2> QED
    BY <1>7, <2>2 DEF Prepare, Typed, localVars
<1>8. ASSUME NEW s \in Shards, Insert(s)
      PROVE  Typed'
  <2> DEFINE c == [ckpt[s] EXCEPT !.inserted = @ + 1]
  <2>1. Checkpoint(c) /\ ckpt' = [ckpt EXCEPT ![s] = c]
    <3>1. Checkpoint(ckpt[s])
      BY <1>8, Applying DEF Insert
    <3>2. Checkpoint(c)
      BY <3>1 DEF Checkpoint
    <3>3. ckpt' = [ckpt EXCEPT ![s] = c]
      BY <1>8 DEF Insert
    <3> QED
      BY <3>2, <3>3
  <2> HIDE DEF c
  <2> QED
    BY <1>8, <2>1, AnswerTyped DEF Insert
<1>9. ASSUME NEW s \in Shards, Delete(s)
      PROVE  Typed'
  <2> DEFINE c == [ckpt[s] EXCEPT !.deleted = @ + 1]
  <2>1. Checkpoint(c) /\ ckpt' = [ckpt EXCEPT ![s] = c]
    <3>1. Checkpoint(ckpt[s])
      BY <1>9, Applying DEF Delete
    <3>2. Checkpoint(c)
      BY <3>1 DEF Checkpoint
    <3>3. ckpt' = [ckpt EXCEPT ![s] = c]
      BY <1>9 DEF Delete
    <3> QED
      BY <3>2, <3>3
  <2> HIDE DEF c
  <2> QED
    BY <1>9, <2>1, AnswerTyped DEF Delete
<1>10. ASSUME NEW s \in Shards, NextPhase(s)
       PROVE  Typed'
  <2> DEFINE c == [ckpt[s] EXCEPT !.phase = IF @ = "insert" THEN "delete" ELSE "verify"]
  <2>1. Checkpoint(c) /\ ckpt' = [ckpt EXCEPT ![s] = c]
    <3>1. Checkpoint(ckpt[s])
      BY <1>10, Applying DEF NextPhase
    <3>2. Checkpoint(c)
      BY <3>1 DEF Checkpoint
    <3>3. ckpt' = [ckpt EXCEPT ![s] = c]
      BY <1>10 DEF NextPhase
    <3> QED
      BY <3>2, <3>3
  <2> HIDE DEF c
  <2>2. /\ ckpt' = [t \in Shards |-> ckpt'[t]]
        /\ \A t \in Shards : ckpt'[t] = NoCheckpoint \/ Checkpoint(ckpt'[t])
    BY <2>1, CheckpointTyped
  <2> QED
    BY <1>10, <2>2 DEF NextPhase, Typed, remoteVars, localVars
<1>11. ASSUME NEW s \in Shards, TimeOut(s)
       PROVE  Typed'
  <2>1. late' \in [Shards -> SUBSET Request]
    BY <1>11, PendingRequests DEF TimeOut, Typed
  <2> QED
    BY <1>11, <2>1 DEF TimeOut, Typed, localVars
<1>12. ASSUME NEW s \in Shards, Mismatch(s)
       PROVE  Typed'
  <2> DEFINE c == [ckpt[s] EXCEPT !.phase = "verify-failed"]
  <2>1. Checkpoint(c) /\ ckpt' = [ckpt EXCEPT ![s] = c]
    <3>1. Checkpoint(ckpt[s])
      BY <1>12, Applying DEF Mismatch
    <3>2. Checkpoint(c)
      BY <3>1 DEF Checkpoint
    <3>3. ckpt' = [ckpt EXCEPT ![s] = c]
      BY <1>12 DEF Mismatch
    <3> QED
      BY <3>2, <3>3
  <2> HIDE DEF c
  <2>2. /\ ckpt' = [t \in Shards |-> ckpt'[t]]
        /\ \A t \in Shards : ckpt'[t] = NoCheckpoint \/ Checkpoint(ckpt'[t])
    BY <2>1, CheckpointTyped
  <2> QED
    BY <1>12, <2>2 DEF Mismatch, Typed, Phase, remoteVars, localVars
<1>13. ASSUME NEW s \in Shards, Commit(s) \/ CrashInCommit(s)
       PROVE  Typed'
  <2>1. MirrorSaved(s) /\ mirror' = [mirror EXCEPT ![s] = d1[s]]
    BY <1>13, CommitDelta DEF Commit, CrashInCommit
  <2>2. mirror' \in [Shards -> SUBSET Row]
    BY <2>1 DEF Typed
  <2>3. loaded' \in [Shards -> Versions]
    <3>1. loaded' = loaded \/ loaded' = [loaded EXCEPT ![s] = version]
      BY <1>13 DEF Commit, CrashInCommit
    <3>2. version \in Versions
      BY NumbersAssumption DEF Typed, Versions
    <3> QED
      BY <3>1, <3>2 DEF Typed
  <2>4. /\ ckpt' = [t \in Shards |-> ckpt'[t]]
        /\ \A t \in Shards : ckpt'[t] = NoCheckpoint \/ Checkpoint(ckpt'[t])
    BY <1>13 DEF Commit, CrashInCommit, Typed
  <2>5. pc' \in [Shards -> Phase] /\ committed' \in Nat
    BY <1>13 DEF Commit, CrashInCommit, RunEnds, Typed, Phase
  <2> QED
    BY <2>1, <2>2, <2>3, <2>4, <2>5 DEF MirrorSaved, Typed, remoteVars
<1>14. ASSUME NEW s \in Shards, ExecuteLate(s)
       PROVE  Typed'
  <2>1. PICK q \in late[s] : Execute(s, q) /\ late' = [late EXCEPT ![s] = @ \ {q}]
    BY <1>14 DEF ExecuteLate
  <2>2. q \in Request
    BY DEF Typed
  <2>3. /\ d1' \in [Shards -> SUBSET Row] /\ fts' \in [Addresses -> SUBSET Row]
        /\ triggers' = triggers
    BY <2>1, <2>2, Executed
  <2>4. late' \in [Shards -> SUBSET Request]
    BY <2>1 DEF Typed
  <2> QED
    BY <1>14, <2>3, <2>4 DEF ExecuteLate, Typed, localVars
<1>15. ASSUME NEW s \in Shards, Rebuild(s)
       PROVE  Typed'
  <2>1. PICK keys \in Csvs[s] : csv' = [csv EXCEPT ![version][s] = keys]
    BY <1>15 DEF Rebuild
  <2>2. csv' \in [Versions -> [Shards -> SUBSET Keys]]
    BY <2>1, RowsAssumption DEF Typed
  <2>3. \A t \in planFresh' : plan'[t] \in PlanFile
    BY <1>15 DEF Rebuild, Typed
  <2> QED
    BY <1>15, <2>2, <2>3 DEF Rebuild, Typed, remoteVars
<1>16. ASSUME NEW s \in Shards, StartOver(s)
       PROVE  Typed'
  <2>1. /\ ckpt' = [t \in Shards |-> ckpt'[t]]
        /\ \A t \in Shards : ckpt'[t] = NoCheckpoint \/ Checkpoint(ckpt'[t])
    BY <1>16, CheckpointTyped DEF StartOver
  <2> QED
    BY <1>16, <2>1 DEF StartOver, Typed, remoteVars, localVars
<1>17. ASSUME NEW s \in Shards, CrashInSave(s)
       PROVE  Typed'
  BY <1>17 DEF CrashInSave, RunEnds, Typed, Phase, remoteVars
<1>18. ASSUME NEW s \in Shards, Export(s)
       PROVE  Typed'
  BY <1>18 DEF Export, Typed, remoteVars
<1>19. ASSUME UNCHANGED vars
       PROVE  Typed'
  BY <1>19 DEF vars, remoteVars, localVars, Typed
<1> QED
  BY <1>1, <1>2, <1>3, <1>4, <1>5, <1>6, <1>7, <1>8, <1>9, <1>10, <1>11, <1>12,
     <1>13, <1>14, <1>15, <1>16, <1>17, <1>18, <1>19 DEF Next, Coroutine

LEMMA DeltaStep ==
  ASSUME Typed, Delta, Awaited, [Next]_vars
  PROVE  Delta'
<1>1. CASE UNCHANGED vars
  BY <1>1 DEF vars, remoteVars, localVars, Delta, Mirrored, Resumed, Plans
<1>2. CASE Start \/ Finish \/ Crash \/ NextVersion
  <2>1. Shards # {} /\ Finish => Delta'
    BY MovesDelta
  <2>2. Shards = {} => Delta'
    BY DEF Delta
  <2> QED
    BY <1>2, <2>1, <2>2, StartDelta, CrashDelta, NextVersionDelta
<1>3. ASSUME NEW s \in Shards, Coroutine(s) \/ ExecuteLate(s) \/ Rebuild(s) \/ Export(s)
                               \/ StartOver(s)
      PROVE  Delta'
  BY <1>3, MovesDelta, BeginDelta, PrepareDelta, InsertDelta, DeleteDelta, NextPhaseDelta,
     TimeOutDelta, MismatchDelta, CommitDelta, CrashInSaveDelta, ExecuteLateDelta,
     RebuildDelta, ExportDelta, StartOverDelta
     DEF Coroutine
<1> QED
  BY <1>1, <1>2, <1>3 DEF Next

-----------------------------------------------------------------------------
(* The index.                                                              *)

\* An insertion is always indexed, a deletion where the trigger is.
LEMMA ExecuteIndexed ==
  ASSUME Typed, IndexFollows, NEW s \in Shards, NEW q \in Request, Execute(s, q),
         s \in Addresses \ triggers => q.op = "insert"
  PROVE  IndexFollows' /\ triggers' = triggers
<1>1. /\ d1 \in [Shards -> SUBSET Row] /\ fts \in [Addresses -> SUBSET Row]
      /\ Addresses \subseteq Shards
  BY ShardsAssumption DEF Typed
<1>2. CASE Hits(s, q)
  <2>1. d1' = [d1 EXCEPT ![s] = RowsAfter(d1[s], q)]
    BY <1>2 DEF Execute
  <2>2. s \in Addresses => fts' = [fts EXCEPT ![s] = RowsAfter(fts[s], q)]
    BY <1>2 DEF Execute
  <2>3. s \notin Addresses => fts' = fts
    BY DEF Execute
  <2>4. ASSUME NEW t \in Addresses
        PROVE  fts'[t] = d1'[t]
    <3>1. fts[t] = d1[t]
      BY DEF IndexFollows
    <3>2. CASE t = s
      BY <1>1, <2>1, <2>2, <3>1, <3>2
    <3>3. CASE t # s
      BY <1>1, <2>1, <2>2, <2>3, <3>1, <3>3
    <3> QED
      BY <3>2, <3>3
  <2> QED
    BY <2>4 DEF IndexFollows, Execute
<1>3. CASE ~Hits(s, q)
  BY <1>3 DEF Execute, IndexFollows
<1> QED
  BY <1>2, <1>3

\* Where the trigger is not installed, nothing is waited for.
LEMMA UntriggeredWaitsForNothing ==
  ASSUME Indexed, NEW s \in Addresses \ triggers
  PROVE  Pending(s) = {} /\ ckpt[s].phase \in {"none", "start"}
BY DEF Indexed, Pending

LEMMA IndexedStep ==
  ASSUME Typed, Delta, Indexed, [Next]_vars
  PROVE  Indexed'
<1> DEFINE Guarded(s) ==
        /\ ckpt[s].phase \in {"none", "start"}
        /\ \A q \in late[s] : q.op = "insert"
<1>1. /\ IndexFollows /\ \A s \in Addresses \ triggers : Guarded(s)
      /\ Addresses \subseteq Shards
  BY ShardsAssumption DEF Indexed
<1>2. NoCheckpoint.phase = "none"
  BY DEF NoCheckpoint
<1>3. ASSUME UNCHANGED <<remoteVars, ckpt>>
      PROVE  Indexed'
  BY <1>3 DEF Indexed, IndexFollows, remoteVars
<1>4. ASSUME Crash
      PROVE  Indexed'
  <2>1. \A s \in Shards : late'[s] \subseteq late[s] \cup Pending(s)
    BY <1>4 DEF Crash
  <2>2. \A s \in Addresses \ triggers : Guarded(s)'
    BY <1>1, <1>4, <2>1, UntriggeredWaitsForNothing DEF Crash
  <2> QED
    BY <1>1, <1>4, <2>2 DEF Crash, Indexed, IndexFollows
<1>5. ASSUME NextVersion
      PROVE  Indexed'
  BY <1>1, <1>2, <1>5 DEF NextVersion, Indexed, IndexFollows, remoteVars
<1>6. ASSUME NEW s \in Shards, Begin(s)
      PROVE  Indexed'
  <2>1. \A t \in Shards : ckpt'[t].phase = "start" \/ ckpt'[t] = ckpt[t]
    BY <1>6 DEF Begin, Typed
  <2> QED
    BY <1>1, <1>6, <2>1 DEF Begin, Indexed, IndexFollows, remoteVars
<1>7. ASSUME NEW s \in Shards, Prepare(s)
      PROVE  Indexed'
  <2>1. \A t \in Addresses \ triggers' : t \notin triggers /\ ckpt'[t] = ckpt[t]
    BY <1>1, <1>7 DEF Prepare, Typed
  <2> QED
    BY <1>1, <1>7, <2>1 DEF Prepare, Indexed, IndexFollows
<1>8. ASSUME NEW s \in Shards, Insert(s) \/ Delete(s)
      PROVE  Indexed'
  <2>1. PICK q \in Pending(s) : Execute(s, q)
    BY <1>8 DEF Insert, Delete
  <2>2. s \notin Addresses \ triggers
    BY <2>1, UntriggeredWaitsForNothing
  <2>3. q \in Request
    BY PendingRequests
  <2>4. IndexFollows' /\ triggers' = triggers
    BY <1>1, <2>1, <2>2, <2>3, ExecuteIndexed
  <2>5. \A t \in Shards \ {s} : ckpt'[t] = ckpt[t]
    BY <1>8 DEF Insert, Delete, Typed
  <2>6. late' = late
    BY <1>8 DEF Insert, Delete
  <2> QED
    BY <1>1, <2>2, <2>4, <2>5, <2>6 DEF Indexed
<1>9. ASSUME NEW s \in Shards, NextPhase(s) \/ Mismatch(s)
      PROVE  Indexed'
  <2>1. s \notin Addresses \ triggers
    BY <1>9, UntriggeredWaitsForNothing DEF NextPhase, Mismatch
  <2>2. \A t \in Shards \ {s} : ckpt'[t] = ckpt[t]
    BY <1>9 DEF NextPhase, Mismatch, Typed
  <2>3. UNCHANGED remoteVars
    BY <1>9 DEF NextPhase, Mismatch
  <2> QED
    BY <1>1, <2>1, <2>2, <2>3 DEF Indexed, IndexFollows, remoteVars
<1>10. ASSUME NEW s \in Shards, TimeOut(s)
       PROVE  Indexed'
  <2>1. s \notin Addresses \ triggers
    BY <1>10, UntriggeredWaitsForNothing DEF TimeOut
  <2>2. \A t \in Shards \ {s} : late'[t] = late[t]
    BY <1>10 DEF TimeOut, Typed
  <2> QED
    BY <1>1, <1>10, <2>1, <2>2 DEF TimeOut, Indexed, IndexFollows
<1>11. ASSUME NEW s \in Shards, Commit(s) \/ CrashInCommit(s) \/ StartOver(s)
       PROVE  Indexed'
  <2>1. \A t \in Shards : ckpt'[t] = ckpt[t] \/ ckpt'[t] = NoCheckpoint
    BY <1>11 DEF Commit, CrashInCommit, StartOver, Typed
  <2>2. UNCHANGED remoteVars
    BY <1>11 DEF Commit, CrashInCommit, StartOver, MirrorSaved
  <2> QED
    BY <1>1, <1>2, <2>1, <2>2 DEF Indexed, IndexFollows, remoteVars
<1>12. ASSUME NEW s \in Shards, ExecuteLate(s)
       PROVE  Indexed'
  <2>1. PICK q \in late[s] : Execute(s, q) /\ late' = [late EXCEPT ![s] = @ \ {q}]
    BY <1>12 DEF ExecuteLate
  <2>2. q \in Request /\ (s \in Addresses \ triggers => q.op = "insert")
    BY <1>1 DEF Typed
  <2>3. IndexFollows' /\ triggers' = triggers
    BY <1>1, <2>1, <2>2, ExecuteIndexed
  <2>4. \A t \in Shards : late'[t] \subseteq late[t]
    BY <2>1 DEF Typed
  <2>5. ckpt' = ckpt
    BY <1>12 DEF ExecuteLate
  <2> QED
    BY <1>1, <2>3, <2>4, <2>5 DEF Indexed
<1>13. ASSUME NEW s \in Shards, Skip(s) \/ Resume(s) \/ Fail(s) \/ Rebuild(s)
                            \/ CrashInSave(s) \/ Export(s)
       PROVE  UNCHANGED <<remoteVars, ckpt>>
  BY <1>13 DEF Skip, Resume, Fail, Rebuild, CrashInSave, Export
<1>14. ASSUME Start \/ Finish \/ UNCHANGED vars
       PROVE  UNCHANGED <<remoteVars, ckpt>>
  BY <1>14 DEF Start, Finish, vars
<1> HIDE DEF Guarded
<1> QED
  BY <1>3, <1>4, <1>5, <1>6, <1>7, <1>8, <1>9, <1>10, <1>11, <1>12, <1>13, <1>14
     DEF Next, Coroutine

-----------------------------------------------------------------------------
(* The ledger.                                                             *)

LEMMA FailedCount ==
  /\ IsFiniteSet(Failed) /\ Cardinality(Failed) \in Nat
  /\ Cardinality(Failed) <= Cardinality(Shards) /\ Cardinality(Shards) \in Nat
BY ShardsAssumption, FS_Subset, FS_CardinalityType DEF Failed

LEMMA CostGrows ==
  ASSUME NEW a \in Nat, NEW b \in Nat, a <= b
  PROVE  /\ a * RowCost \in Nat /\ a * RowCost <= b * RowCost
         /\ (a + 1) * RowCost = a * RowCost + RowCost
BY NumbersAssumption

\* A shard that is answered beyond the cap fails, once in a run.
LEMMA SpendingStep ==
  ASSUME Typed, Spending, [Next]_vars
  PROVE  Spending'
<1>1. /\ committed \in Nat /\ MaxRows \in Nat /\ RowCost \in Nat
      /\ IsFiniteSet(Failed') /\ Cardinality(Failed) \in Nat /\ Cardinality(Failed') \in Nat
      /\ Cardinality(Failed) * RowCost \in Nat /\ Cardinality(Failed') * RowCost \in Nat
  <2>1. IsFiniteSet(Failed') /\ Cardinality(Failed') \in Nat
    BY ShardsAssumption, FS_Subset, FS_CardinalityType DEF Failed
  <2>2. Cardinality(Failed) \in Nat
    BY FailedCount
  <2>3. MaxRows \in Nat /\ RowCost \in Nat
    BY NumbersAssumption
  <2> QED
    BY <2>1, <2>2, <2>3, CostGrows DEF Typed
<1>2. ASSUME committed' = 0
      PROVE  Spending'
  BY <1>1, <1>2 DEF Spending
<1>3. ASSUME committed' = committed, Failed \subseteq Failed'
      PROVE  Spending'
  <2>1. Cardinality(Failed) <= Cardinality(Failed')
    BY <1>1, <1>3, FS_Subset
  <2>2. Cardinality(Failed) * RowCost <= Cardinality(Failed') * RowCost
    BY <1>1, <2>1, CostGrows
  <2> QED
    BY <1>1, <1>3, <2>2 DEF Spending
<1>4. ASSUME NEW s \in Shards, Insert(s) \/ Delete(s)
      PROVE  Spending'
  <2>1. PICK q : pc[s] = "apply" /\ Acknowledged(s, q)
    BY <1>4 DEF Insert, Delete
  <2>2. committed' = committed \/ committed' = committed + RowCost
    BY <1>1, <2>1 DEF Acknowledged
  <2>3. CASE committed' > MaxRows
    <3>1. Failed' = Failed \cup {s} /\ s \notin Failed
      BY <2>1, <2>3 DEF Acknowledged, Failed, Typed
    <3>2. Cardinality(Failed') = Cardinality(Failed) + 1
      BY <3>1, FailedCount, FS_AddElement
    <3>3. Cardinality(Failed') * RowCost = Cardinality(Failed) * RowCost + RowCost
      BY <1>1, <3>2, CostGrows
    <3> QED
      BY <1>1, <2>2, <3>3 DEF Spending
  <2>4. CASE ~(committed' > MaxRows)
    BY <1>1, <2>2, <2>4 DEF Spending
  <2> QED
    BY <2>3, <2>4
<1>5. ASSUME Start
      PROVE  committed' = committed /\ Failed \subseteq Failed'
  BY <1>5 DEF Start, Idle, Failed
<1>6. ASSUME Finish \/ Crash
      PROVE  committed' = 0
  BY <1>6 DEF Finish, Crash, RunEnds
<1>7. ASSUME NextVersion \/ UNCHANGED vars
      PROVE  committed' = committed /\ Failed \subseteq Failed'
  BY <1>7 DEF NextVersion, vars, Failed
<1>8. ASSUME NEW s \in Shards, Skip(s) \/ Begin(s) \/ Resume(s) \/ Prepare(s) \/ NextPhase(s)
             \/ TimeOut(s) \/ Fail(s) \/ Mismatch(s) \/ Commit(s)
             \/ ExecuteLate(s) \/ Rebuild(s) \/ Export(s) \/ StartOver(s)
      PROVE  committed' = committed /\ Failed \subseteq Failed'
  <2>1. committed' = committed
    BY <1>8 DEF Skip, Begin, Resume, Prepare, NextPhase, TimeOut, Fail, Mismatch, Commit,
                ExecuteLate, Rebuild, Export, StartOver
  <2>2. \A t \in Shards : pc[t] = "failed" => pc'[t] = "failed"
    BY <1>8 DEF Skip, Begin, Resume, Prepare, NextPhase, TimeOut, Fail, Mismatch, Commit,
                MirrorSaved, Verified, ExecuteLate, Rebuild, Export, StartOver, Typed
  <2> QED
    BY <2>1, <2>2 DEF Failed
<1>9. ASSUME NEW s \in Shards, CrashInSave(s) \/ CrashInCommit(s)
      PROVE  committed' = 0
  BY <1>9 DEF CrashInSave, CrashInCommit, RunEnds
<1> QED
  BY <1>2, <1>3, <1>4, <1>5, <1>6, <1>7, <1>8, <1>9 DEF Next, Coroutine

-----------------------------------------------------------------------------
(* The inductive invariant.                                                *)

Inv == Typed /\ Delta /\ Awaited /\ Indexed /\ Spending

LEMMA InitInv == Init => Inv
<1> SUFFICES ASSUME Init
             PROVE  Inv
  OBVIOUS
<1>1. \A s \in Shards : Rows(d1[s]) /\ csv[1][s] \in SUBSET Keys
  BY RowsAssumption DEF Init, Rows, UniqueIds
<1>2. version = 1 /\ version \in 1..MaxVersion /\ 1 \in Nat \ {0}
  BY NumbersAssumption DEF Init
<1>3. Typed
  <2>1. d1 \in [Shards -> SUBSET Row]
    BY <1>1 DEF Init, Rows
  <2>2. fts \in [Addresses -> SUBSET Row]
    BY <2>1, ShardsAssumption DEF Init
  <2>3. loaded \in [Shards -> Versions]
    BY NumbersAssumption DEF Init, Versions
  <2> QED
    BY <1>2, <2>1, <2>2, <2>3 DEF Init, Typed, Phase
<1>4. Delta
  <2>1. ASSUME NEW s \in Shards
        PROVE  Mirrored(s) /\ Resumed(s) /\ Plans(s)
    <3>1. Between(d1[s], csv[1][s], 1, d1[s])
      BY <1>1, SettledMirrored
    <3>2. Mirrored(s)
      BY <1>1, <1>2, <3>1 DEF Init, Mirrored, Rows
    <3>3. Resumed(s) /\ Plans(s)
      BY DEF Init, Resumed, Plans
    <3> QED
      BY <3>2, <3>3
  <2> QED
    BY <2>1 DEF Delta
<1>5. Indexed
  BY ShardsAssumption DEF Init, Indexed, IndexFollows, NoCheckpoint
<1>6. Spending
  <2>1. committed = 0 /\ MaxRows \in Nat
    BY NumbersAssumption DEF Init
  <2>2. Cardinality(Failed) * RowCost \in Nat
    BY FailedCount, CostGrows
  <2> QED
    BY <2>1, <2>2 DEF Spending
<1>7. Awaited
  BY DEF Init, Awaited
<1> QED
  BY <1>3, <1>4, <1>5, <1>6, <1>7 DEF Inv

LEMMA NextInv == Inv /\ [Next]_vars => Inv'
BY TypedStep, DeltaStep, AwaitedStep, IndexedStep, SpendingStep DEF Inv

\* Every state of every run: the rows of a shard lie between what its plan keeps
\* and what it may add, every request on its way leads to the plan's target, and
\* what a checkpoint counts is done (apply_sql_batched, apply_deletes).
THEOREM Invariance == Spec => []Inv
<1>1. Init => Inv
  BY InitInv
<1>2. Inv /\ [Next]_vars => Inv'
  BY NextInv
<1> QED
  BY <1>1, <1>2, PTL DEF Spec

-----------------------------------------------------------------------------
(* What follows from it.                                                   *)

\* The state has its types, the plan files and checkpoints too; a coroutine that
\* applies has written a checkpoint.
THEOREM TypeCorrect == Spec => []TypeOK
<1>1. Inv => TypeOK
  <2> SUFFICES ASSUME Inv
               PROVE  TypeOK
    OBVIOUS
  <2>1. version \in Versions
    BY NumbersAssumption DEF Inv, Typed, Versions
  <2>2. \A s \in Shards : pc[s] = "apply" => ckpt[s] # NoCheckpoint
    BY DEF Inv, Delta, Plans
  <2>3. ckpt \in [Shards -> CheckpointFile \cup {NoCheckpoint}]
    <3>1. ckpt = [s \in Shards |-> ckpt[s]]
      BY DEF Inv, Typed
    <3>2. \A s \in Shards : ckpt[s] \in CheckpointFile \cup {NoCheckpoint}
      BY DEF Inv, Typed, Checkpoint, CheckpointFile
    <3> QED
      BY <3>1, <3>2
  <2> QED
    BY <2>1, <2>2, <2>3 DEF Inv, Typed, TypeOK
<1> QED
  BY <1>1, Invariance, PTL

\* "Never DROPs a live shard": whatever crashes, is lost, comes late or is done
\* twice, an address in the mirror and in the new CSV is in D1.
THEOREM NoSurvivorIsDropped == Spec => []SurvivorsServed
<1>1. Inv => SurvivorsServed
  <2> SUFFICES ASSUME Inv, NEW s \in Shards
               PROVE  KeysOf(mirror[s]) \cap csv[version][s] \subseteq KeysOf(d1[s])
    BY DEF SurvivorsServed
  <2>1. Mirrored(s) /\ Typed
    BY DEF Inv, Delta
  <2>2. Rows(mirror[s]) /\ Between(mirror[s], csv[version][s], version, d1[s])
    BY <2>1, ShardValues
  <2>3. KeysOf(Kept(mirror[s], csv[version][s])) = KeysOf(mirror[s]) \cap csv[version][s]
    BY <2>2, KeptKeys
  <2>4. Kept(mirror[s], csv[version][s]) \subseteq d1[s]
    BY <2>2 DEF Between
  <2> QED
    BY <2>3, <2>4 DEF KeysOf
<1> QED
  BY <1>1, Invariance, PTL

\* What INSERT OR IGNORE ignores is the same row: the ids of a plan are above
\* all those of its mirror, in blocks of their own.
THEOREM IgnoredAreReplays == Spec => []OnlyReplaysIgnored
<1>1. Inv => OnlyReplaysIgnored
  <2> SUFFICES ASSUME Inv, NEW s \in Shards, pc[s] # "idle",
                      NEW i \in 1..Len(plan[s].ins), NEW r \in d1[s],
                      r.id = plan[s].ins[i].id
               PROVE  r = plan[s].ins[i]
    BY DEF OnlyReplaysIgnored
  <2>1. Mirrored(s) /\ Plans(s)
    BY DEF Inv, Delta
  <2>2. r \in mirror[s] \cup Added(mirror[s], csv[version][s], version)
    BY <2>1 DEF Mirrored, Between
  <2> QED
    BY <2>1, <2>2 DEF Plans, IdsAreItsOwn
<1> QED
  BY <1>1, Invariance, PTL

\* addr_fts lists the rows of the table: the insert trigger is there from the
\* first load, the delete trigger from before the first delete (apply_plan).
THEOREM IndexIsKept == Spec => []IndexFollows
<1>1. Inv => IndexFollows
  BY DEF Inv, Indexed
<1> QED
  BY <1>1, Invariance, PTL

\* --max-rows: a shard that is answered beyond the cap fails, so each adds one
\* request at most.
THEOREM CapHolds == Spec => []SpendingBounded
<1>1. Inv => SpendingBounded
  <2> SUFFICES ASSUME Inv
               PROVE  SpendingBounded
    OBVIOUS
  <2>1. /\ Cardinality(Failed) \in Nat /\ Cardinality(Shards) \in Nat
        /\ Cardinality(Failed) * RowCost <= Cardinality(Shards) * RowCost
        /\ Cardinality(Failed) * RowCost \in Nat /\ Cardinality(Shards) * RowCost \in Nat
    BY FailedCount, CostGrows
  <2>2. committed \in Nat /\ MaxRows \in Nat
    BY NumbersAssumption DEF Inv, Typed
  <2> QED
    BY <2>1, <2>2 DEF Inv, Spending, SpendingBounded
<1> QED
  BY <1>1, Invariance, PTL

\* --reuse-plans: a mirror of the same size and highest id, under plan files
\* newer than the CSV, is the mirror the plan was made for.
THEOREM ReusedPlansAreFresh == Spec => []ReuseIsFresh
<1>1. Inv => ReuseIsFresh
  <2> SUFFICES ASSUME Inv, NEW s \in Shards, Reusable(s)
               PROVE  plan[s].ins = Planned(s).ins /\ plan[s].del = Planned(s).del
    BY DEF ReuseIsFresh
  <2> DEFINE A == mirror[s]
             B == csv[version][s]
  <2>1. Typed /\ Mirrored(s) /\ Plans(s)
    BY DEF Inv, Delta
  <2>2. PlanFits(A, B, version, Planned(s)) /\ SameMirror(A, Planned(s).sha)
    BY <2>1, PlannedFits
  <2>3. PlanFits(A, B, version, plan[s]) /\ SameMirror(A, plan[s].sha)
    BY <2>1 DEF Plans, Reusable, SameMirror
  <2> QED
    BY <2>2, <2>3 DEF PlanFits
<1> QED
  BY <1>1, Invariance, PTL

\* save_mirror and the export after a crash in it: the mirror moves only to what
\* the shard holds, which is the CSV, one row a key.
THEOREM OnlyWhatIsLiveIsCommitted == Spec => CommitsWhatIsLive
<1> DEFINE Live(s) == /\ mirror'[s] = d1[s]
                      /\ KeysOf(d1[s]) = csv[version][s]
                      /\ Cardinality(d1[s]) = Cardinality(csv[version][s])
<1>1. ASSUME Inv, Next, NEW s \in Shards, mirror'[s] # mirror[s]
      PROVE  Live(s)
  <2>1. PICK t \in Shards : Commit(t) \/ CrashInCommit(t) \/ Export(t)
    <3>1. Start \/ Finish \/ Crash \/ NextVersion => mirror' = mirror
      BY DEF Start, Finish, Crash, NextVersion, localVars
    <3>2. ASSUME NEW t \in Shards,
                 Skip(t) \/ Begin(t) \/ Resume(t) \/ Prepare(t) \/ Insert(t) \/ Delete(t)
                    \/ NextPhase(t) \/ TimeOut(t) \/ Fail(t) \/ Mismatch(t) \/ CrashInSave(t)
                    \/ ExecuteLate(t) \/ Rebuild(t) \/ StartOver(t)
          PROVE  mirror' = mirror
      BY <3>2 DEF Skip, Begin, Resume, Prepare, Insert, Delete, NextPhase, TimeOut, Fail,
                  Mismatch, CrashInSave, ExecuteLate, Rebuild, StartOver, localVars
    <3> QED
      BY <1>1, <3>1, <3>2 DEF Next, Coroutine
  <2>2. mirror' = [mirror EXCEPT ![t] = d1[t]] /\ Interrupted(t)
    BY <1>1, <2>1, CommitDelta, ExportDelta DEF Inv
  <2>3. t = s /\ mirror'[s] = d1[s]
    BY <1>1, <2>2 DEF Inv, Typed
  <2>4. Typed /\ Mirrored(s)
    BY <1>1 DEF Inv, Delta
  <2>5. d1[s] = Target(mirror[s], csv[version][s], version)
    BY <2>2, <2>3 DEF Interrupted
  <2>6. Rows(mirror[s]) /\ csv[version][s] \in SUBSET Keys /\ version \in Nat \ {0}
    BY <2>4, ShardValues
  <2>7. /\ KeysOf(d1[s]) = csv[version][s]
        /\ Cardinality(d1[s]) = Cardinality(csv[version][s])
    <3> DEFINE A == mirror[s]
               B == csv[version][s]
    <3>1. Rows(A) /\ B \in SUBSET Keys /\ version \in Nat \ {0}
          /\ d1[s] = Target(A, B, version)
      BY <2>5, <2>6
    <3> HIDE DEF A, B
    <3>2. KeysOf(d1[s]) = B
      BY <3>1, TargetIs
    <3>3. Cardinality(d1[s]) = Cardinality(B)
      BY <3>1, TargetIs
    <3> QED
      BY <3>2, <3>3 DEF B
  <2> QED
    BY <2>3, <2>7
<1>2. Inv /\ [Next]_vars =>
        [\A s \in Shards : mirror'[s] # mirror[s] => Live(s)]_vars
  BY <1>1
<1> QED
  BY <1>2, Invariance, PTL DEF Spec, CommitsWhatIsLive

\* chunked_count: a shard that holds its plan is counted wrong only where its
\* ranges leave a row out or overlap.
THEOREM MismatchIsOnTheEdge == Spec => []MismatchOnlyOnEdges
<1>1. Inv => MismatchOnlyOnEdges
  <2> SUFFICES ASSUME Inv, NEW s \in Shards, pc[s] = "apply",
                      ckpt[s].phase \in {"verify", "verify-failed"},
                      ~(plan[s].sha.maxId < IdBlock /\ plan[s].sha.maxId % CountChunk = 0),
                      \A r \in d1[s] : r.id \notin IdBlock..(Edge(plan[s]) - 1)
               PROVE  CountedRows(s) = ExpectedRows(s)
    BY DEF MismatchOnlyOnEdges
  <2>1. Typed /\ Mirrored(s) /\ Resumed(s) /\ Plans(s)
    BY DEF Inv, Delta
  <2>2. CountedRows(s) = Cardinality(d1[s])
    BY <2>1, CountedAll
  <2>3. Cardinality(d1[s]) = ExpectedRows(s)
    BY <2>1, VerifiedIsTarget
  <2> QED
    BY <2>2, <2>3
<1> QED
  BY <1>1, Invariance, PTL

=============================================================================
