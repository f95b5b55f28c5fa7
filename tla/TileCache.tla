----------------------------- MODULE TileCache -----------------------------
(***************************************************************************)
(* The two tile caches of a Worker isolate (src/tiles.ts).  getTile serves *)
(* decoded tiles and getTileBytes raw ones; both read R2 on a miss, share  *)
(* a read that is already in flight, and keep what they got in an LRU map  *)
(* with a byte budget.  A decoded read also fills the raw cache.           *)
(*                                                                         *)
(* The isolate is single-threaded: a step runs from one await to the next, *)
(* and the steps of the calls in flight interleave.  R2 may fail, may not  *)
(* hold a tile yet, or may hold a malformed one.                           *)
(*                                                                         *)
(* Operators named Faulty... are plausible mistakes, unused: in the place  *)
(* of the definition after them they must break a property.                *)
(***************************************************************************)
EXTENDS Integers, Sequences, SequencesExt

CONSTANTS
    Callers,     \* the requests of the isolate, one call each at a time
    Tiles,
    Size,        \* [Tiles -> Nat], bytes of a tile
    Budget,      \* [Layer -> Nat], TILE_CACHE_ and BYTES_CACHE_BYTE_BUDGET
    MaxFetches   \* bound: R2 reads of a behaviour

Layer == {"decoded", "bytes"}
Fetches == 1..MaxFetches
None == 0

ASSUME SizesAssumption ==
    /\ Size \in [Tiles -> Nat \ {0}]
    /\ Budget \in [Layer -> Nat]
    /\ MaxFetches \in Nat
ASSUME TilesAssumption == Tiles # {}

VARIABLES
    r2,       \* [Tiles -> R2State], the bucket
    lru,      \* [Layer -> Seq(Tiles)], cache and bytesCache, oldest first
    counted,  \* [Layer -> Nat], cacheBytes and bytesCacheBytes
    pending,  \* [Layer -> [Tiles -> Fetches or None]], the promise maps
    fetch,    \* [Fetches -> Fetch], the promises
    started,  \* how many promises were created
    awaits    \* [Callers -> Fetches or None], the promise a call waits for

vars == <<r2, lru, counted, pending, fetch, started, awaits>>

R2State == {"absent", "ok", "malformed"}
FetchPhase == {"get", "body", "missing", "done", "failed"}
Fetch == [layer : Layer, tile : Tiles, phase : FetchPhase]

\* What the real maps hold, against what the counters say.
Bytes(seq) == FoldSeq(LAMBDA t, n : Size[t] + n, 0, seq)
InFlight(f) == f <= started /\ fetch[f].phase \in {"get", "body"}

-----------------------------------------------------------------------------
(* Map operations: delete + set moves a key to the newest position.        *)

Touch(seq, t) ==
    Append(IF Contains(seq, t) THEN RemoveAt(seq, CHOOSE i \in DOMAIN seq : seq[i] = t) ELSE seq, t)

\* The eviction loop of lruTouch and bytesLruTouch, as what it leaves: the
\* fewest oldest entries go that bring the count within the budget, and the
\* newest entry always stays.
FaultyKept(seq, n, budget) == seq               \* never evicts
Kept(seq, n, budget) ==
    LET fits(k) == n - Bytes(SubSeq(seq, 1, k)) <= budget
        dropped == CHOOSE k \in 0..Len(seq) :
            /\ fits(k) \/ k >= Len(seq) - 1
            /\ \A j \in 0..(k - 1) : ~fits(j) /\ j < Len(seq) - 1
    IN SubSeq(seq, dropped + 1, Len(seq))

\* Insert t into a layer: the counter grows by its size whether or not the map
\* already held it.
FaultyInserted(l, t) ==  \* what is evicted is subtracted twice
    LET seq == Touch(lru[l], t)
        n == counted[l] + Size[t]
        kept == Kept(seq, n, Budget[l])
    IN [seq |-> kept, n |-> n - 2 * (Bytes(seq) - Bytes(kept))]
Inserted(l, t) ==
    LET seq == Touch(lru[l], t)
        n == counted[l] + Size[t]
        kept == Kept(seq, n, Budget[l])
    IN [seq |-> kept, n |-> n - (Bytes(seq) - Bytes(kept))]

\* Only the layers of S change.
FaultyInsert(S, t) ==
    /\ lru' = [l \in Layer |-> IF l \in S THEN Inserted(l, t).seq ELSE lru[l]]
    /\ counted' = [l \in Layer |-> IF l \in S THEN Size[t] ELSE counted[l]]
Insert(S, t) ==
    /\ lru' = [l \in Layer |-> IF l \in S THEN Inserted(l, t).seq ELSE lru[l]]
    /\ counted' = [l \in Layer |-> IF l \in S THEN Inserted(l, t).n ELSE counted[l]]

-----------------------------------------------------------------------------
Init ==
    /\ r2 \in [Tiles -> R2State]
    /\ lru = [l \in Layer |-> <<>>]
    /\ counted = [l \in Layer |-> 0]
    /\ pending = [l \in Layer |-> [t \in Tiles |-> None]]
    /\ fetch \in [Fetches -> [layer : {"bytes"}, tile : {CHOOSE t \in Tiles : TRUE},
                              phase : {"done"}]]
    /\ started = 0
    /\ awaits = [c \in Callers |-> None]

Awaits(c, f) == awaits' = [awaits EXCEPT ![c] = f]

\* getTile ("decoded") or getTileBytes ("bytes") up to its first await.
Hit(c, l, t) ==
    /\ awaits[c] = None
    /\ Contains(lru[l], t)
    /\ lru' = [lru EXCEPT ![l] = Touch(@, t)]
    /\ UNCHANGED <<r2, counted, pending, fetch, started, awaits>>

Join(c, l, t) ==
    /\ awaits[c] = None
    /\ ~Contains(lru[l], t)
    /\ pending[l][t] # None
    /\ Awaits(c, pending[l][t])
    /\ UNCHANGED <<r2, lru, counted, pending, fetch, started>>

\* A miss reads R2 though a read of the same tile may be in flight.
FaultyMiss(c, l, t) ==
    /\ awaits[c] = None /\ ~Contains(lru[l], t)
    /\ started < MaxFetches /\ started' = started + 1
    /\ fetch' = [fetch EXCEPT ![started'] = [layer |-> l, tile |-> t, phase |-> "get"]]
    /\ pending' = [pending EXCEPT ![l][t] = started']
    /\ Awaits(c, started')
    /\ UNCHANGED <<r2, lru, counted>>
Miss(c, l, t) ==
    /\ awaits[c] = None
    /\ ~Contains(lru[l], t)
    /\ pending[l][t] = None
    /\ started < MaxFetches
    /\ started' = started + 1
    /\ fetch' = [fetch EXCEPT ![started'] = [layer |-> l, tile |-> t, phase |-> "get"]]
    /\ pending' = [pending EXCEPT ![l][t] = started']
    /\ Awaits(c, started')
    /\ UNCHANGED <<r2, lru, counted>>

\* bucket.get resolved.  A missing object returns null out of the promise's
\* function, before the line that would take it out of the pending map.
GotObject(f) ==
    /\ InFlight(f) /\ fetch[f].phase = "get"
    /\ fetch' = [fetch EXCEPT ![f].phase =
            IF r2[fetch[f].tile] = "absent" THEN "missing" ELSE "body"]
    /\ UNCHANGED <<r2, lru, counted, pending, started, awaits>>

\* arrayBuffer resolved: insert, decode, insert, forget the promise, in one go.
\* A malformed tile throws in decode, after its bytes were cached.
Decodes(f) == fetch[f].layer = "bytes" \/ r2[fetch[f].tile] = "ok"
Finished(f, phase) ==
    /\ fetch' = [fetch EXCEPT ![f].phase = phase]
    /\ pending' = [pending EXCEPT ![fetch[f].layer][fetch[f].tile] = None]

GotBody(f) ==
    /\ InFlight(f) /\ fetch[f].phase = "body"
    /\ Insert({"bytes"} \cup (IF Decodes(f) THEN {fetch[f].layer} ELSE {}), fetch[f].tile)
    /\ Finished(f, IF Decodes(f) THEN "done" ELSE "failed")
    /\ UNCHANGED <<r2, started, awaits>>

\* Either await threw: the catch forgets the promise and rethrows.
FaultyR2Failed(f) ==     \* no catch: the rejected promise stays in the map
    /\ InFlight(f)
    /\ fetch' = [fetch EXCEPT ![f].phase = "failed"]
    /\ UNCHANGED <<r2, lru, counted, pending, started, awaits>>
R2Failed(f) ==
    /\ InFlight(f)
    /\ Finished(f, "failed")
    /\ UNCHANGED <<r2, lru, counted, started, awaits>>

\* The caller's await of the promise resumes.
FaultyResume(c) ==       \* a call whose read failed is forgotten
    /\ awaits[c] # None
    /\ fetch[awaits[c]].phase \in {"done", "missing"}
    /\ Awaits(c, None)
    /\ UNCHANGED <<r2, lru, counted, pending, fetch, started>>
Resume(c) ==
    /\ awaits[c] # None
    /\ ~InFlight(awaits[c])
    /\ Awaits(c, None)
    /\ UNCHANGED <<r2, lru, counted, pending, fetch, started>>

\* The road build uploads a tile, or replaces a malformed one.
Upload(t) ==
    /\ r2[t] # "ok"
    /\ r2' = [r2 EXCEPT ![t] = "ok"]
    /\ UNCHANGED <<lru, counted, pending, fetch, started, awaits>>

-----------------------------------------------------------------------------
Settle(f) == GotObject(f) \/ GotBody(f) \/ R2Failed(f)

Next ==
    \/ \E c \in Callers, l \in Layer, t \in Tiles :
        Hit(c, l, t) \/ Join(c, l, t) \/ Miss(c, l, t)
    \/ \E f \in Fetches : Settle(f)
    \/ \E c \in Callers : Resume(c)
    \/ \E t \in Tiles : Upload(t)

\* R2 settles every read, and a settled promise resumes whoever awaits it.
Fairness ==
    /\ \A f \in Fetches : WF_vars(Settle(f))
    /\ \A c \in Callers : WF_vars(Resume(c))

Spec == Init /\ [][Next]_vars
FairSpec == Spec /\ Fairness

-----------------------------------------------------------------------------
TypeOK ==
    /\ r2 \in [Tiles -> R2State]
    /\ lru \in [Layer -> Seq(Tiles)]
    /\ counted \in [Layer -> Nat]
    /\ pending \in [Layer -> [Tiles -> Fetches \cup {None}]]
    /\ fetch \in [Fetches -> Fetch]
    /\ started \in 0..MaxFetches
    /\ awaits \in [Callers -> Fetches \cup {None}]

\* The promise maps are the reads: concurrent calls for one tile of one kind share
\* one read of R2, which its map names until it ends, and a map names nothing but
\* that or a read that found no object.  So after an R2 error or a malformed tile
\* the next call reads again, and no call starts a second read beside a first.
SingleFlight ==
    /\ \A f \in Fetches : InFlight(f) => pending[fetch[f].layer][fetch[f].tile] = f
    /\ \A l \in Layer, t \in Tiles : pending[l][t] # None =>
        /\ pending[l][t] <= started
        /\ fetch[pending[l][t]].phase \in {"get", "body", "missing"}
        /\ fetch[pending[l][t]].layer = l /\ fetch[pending[l][t]].tile = t

\* Each map holds a tile once and keeps within its budget, save for a single
\* oversize tile, whatever the two loaders insert in whatever order.  cacheBytes is
\* exactly the decoded bytes held; bytesCacheBytes is counted up when a tile comes
\* in that the map held, so it may drift above the raw bytes held, and never below.
BudgetsKept ==
    /\ \A l \in Layer :
        /\ IsInjective(lru[l])
        /\ Bytes(lru[l]) <= Budget[l] \/ Len(lru[l]) = 1
    /\ counted["decoded"] = Bytes(lru["decoded"])
    /\ counted["bytes"] >= Bytes(lru["bytes"])

\* Every call returns, though the tile may be missing, malformed or unreadable.
CallsReturn == \A c \in Callers : awaits[c] # None ~> awaits[c] = None

\* tiles.ts, "dedups in-flight fetches": a call that joins a promise joins a read
\* in flight, and not an answer of the past.
JoinsInFlight ==
    [][\A c \in Callers : awaits[c] = None /\ awaits'[c] # None =>
        fetch'[awaits'[c]].phase \in {"get", "body"}]_vars
=============================================================================
