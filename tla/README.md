# Open Distance, specified

TLA+ modules, TLC configurations and TLAPS proofs for Open Distance: a
Cloudflare Worker that answers distance-matrix requests from sharded D1
address tables, R2 road tiles and an L1 highway overlay, and the Python
pipeline that builds and refreshes those data. Paths below are relative to the
repository.

## 1. The system

| Component | Code | State it keeps | Operations | What makes it correct |
|---|---|---|---|---|
| Admission | `src/index.ts` (distancematrix branch), `src/ratelimit.ts`, `src/ratelimiter_do.ts`, `src/global_limiter_do.ts`, `src/elements.ts`, `src/config.ts` | counters in the memory of one object per client and one for the service | count elements, ask the client's limiter, ask the global limiter, serve | budgets bounded, rejected requests free, service charged last, fail open |
| Tile caches | `src/tiles.ts` | two LRU maps with byte counters, two maps of promises | `getTile`, `getTileBytes`, `snapK` | one R2 read a tile, budgets, failures not remembered, the nearest node first |
| Road search | `src/router.ts` | heap, tile scratch, satisfied groups | `oneToMany` | legs are roads, reachable groups are found, bounded detour, it ends |
| Matrix handler | `src/distancematrix.ts` | leg cache in KV | `handleDistanceMatrix`, `tryWasmMatrix`, cache policy, health check | a cached leg is a road of its key's version; an element says what is so, whichever path answered |
| L1 router | `src/l1_router.ts`, `src/l1_graph.ts` | overlay in the memory of an object, load promise | snap, bidirectional search | one load for all calls; an answer is a road, and not far from the best; every call answered |
| Geocoder | `src/geocode.ts`, `src/interpolate.ts`, `src/normalize.ts`, `src/state_parser.ts` | KV cache by `GEO_VERSION` | shard lookup, fan-out, interpolation | nothing about to be deleted is cached; an address in service is found; a rooftop row wins |
| Rust core | `rust-router/src/lib.rs`, `src/wasm_router.ts` | none between calls | one-to-many Dijkstra | same legs as a Dijkstra per destination |
| Delta load | `etl/sync_d1.py`, `etl/d1_http.py` | plans, checkpoints, mirror, `fingerprints.json`; D1 tables and FTS index | plan, gate, apply, verify, commit | D1 ends at the CSV; the mirror is what D1 holds; nothing served is lost on the way |
| Mirror export | `etl/export_d1_mirror.py`, `etl/seed_fingerprints.py`, `etl/rowkey.py` | part files, cursor, mirror | paged walk, resume | every row once |
| Full loaders | `etl/load_d1_parallel.py`, `etl/load_d1_segments.py`, `etl/load_hashes.py`, `etl/legacy_guard.py` | load-hash manifest | drop, insert, record | skip only what was loaded |
| Refresh driver | `refresh.sh`, `etl/check_upstream.py` | `version.txt`, `wrangler.toml`, upstream snapshot | fetch, build, load, publish | published versions are loaded |
| Builders | `etl/build_*.py`, `etl/merge_addresses.py`, `etl/fetch_*.py`, `etl/_tile_io.py` | files | batch transformations | (not modelled) |
| Site | `src/site.ts`, `src/panel_data.ts`, `src/geo.ts`, `src/format.ts` | none | pages, formatting | (not modelled) |

How they interact. A request enters `fetch`, is admitted by two remote objects
(RPC that may fail), and goes to `handleDistanceMatrix`. That geocodes through
D1 and KV, snaps to road nodes through the tile caches, reads legs from KV,
searches with the Rust core or `oneToMany` (both read tiles through the two
caches of the isolate, shared by all requests of the isolate), and asks the L1
object for what is left. The pipeline meets the Worker only in the data: the
D1 tables are changed while they are served, the tiles and caches are versioned
by `DATA_VERSION` and `GEO_VERSION`.

What is hard. Requests interleave at every await of an isolate and in the
limiter objects; remote calls fail after they took effect; objects are
evicted; the delta load changes a live table, crashes anywhere, has its
requests executed late or twice, and is started again over changed inputs.
`PROJECT.json` lists these hazards at their lines, with the properties that
would catch them.

## 2. Modules

| Module | Models | State and actions |
|---|---|---|
| `Budget` | abstract daily budgets: what the limiters promise | `spent`; `Charge`, `Forget`, `Midnight` |
| `Admission` | the gate, both limiters, the messages between them | `pc`, `input`, `status` are a request in the Worker; `sent` the checks on their way; `rl`, `gl` the answers (the variables of those names in `index.ts`); `ipCtr`, `globalCtr` the memory of the objects. `Arrive`, `IpAnswered`, `IpFault`, `GlobalAnswered`, `GlobalFault`, `Serve` are the stretches of `fetch` between its awaits; `IpCheck`, `GlobalCheck` one call of an object; `EvictIp`, `EvictGlobal`, `Tick` the environment. `paidAt` and `live` are history |
| `AdmissionProofs` | theorems about `Admission` | |
| `TileCache` | `getTile`, `getTileBytes`, both LRU maps | `lru`, `counted`, `pending` are `cache`/`bytesCache`, their byte counters and promise maps; `fetch` the promises, `awaits` which one a call waits for. `Hit`, `Join`, `Miss` run up to the first await; `GotObject`, `GotBody`, `R2Failed` are the continuations of a promise, `Resume` that of its caller; `Upload` changes R2 |
| `TileCacheProofs` | theorems about `TileCache` | |
| `Router` | `oneToMany` | `heap`, `dist`, `visited`, `loaded` (tiles with scratch), `out`; `Begin` runs up to the loop, `Pass`, `Settle`, `Deadline` are the ways an iteration ends, `Return` leaves the loop |
| `RouterProofs` | theorems about `Router` | |
| `SyncD1` | `sync_d1.py` against D1 | `mirror`, `plan`, `ckpt`, `loaded`, `version`, `csv` are files, `d1`, `fts`, `triggers` the database, `late` requests the client gave up on, `pc` the coroutines of the current run, `committed` the ledger. `Start` is `main` up to the gather; `Begin`, `Resume`, `Prepare`, `Insert`, `Delete`, `NextPhase`, `Mismatch`, `Commit` are `apply_state`; `TimeOut`, `ExecuteLate` the network; `Fail`, `Crash`, `CrashInSave`, `CrashInCommit`, `Finish` ends of a run; `Rebuild`, `Export`, `StartOver`, `NextVersion` the operator |
| `SyncD1Proofs` | theorems about `SyncD1` | |
| `MirrorFiles` | the mirror of one shard as the files it is, through plan, commit and resume | `keys`, `ids`, `meta` are `<ST>.<kind>.keys.npy`, `.ids.npy` and `.json`; `plan`, `ckpt`, `loaded` as in `SyncD1`. `Run` is a start up to the apply, `Apply` all requests of it, `Verify` the count and the read of the mirror before the commit; `SaveKeys`, `SaveIds`, `SaveMeta`, `SaveFingerprints`, `Unlink` the writes of a commit, with a `Crash` between any two |
| `Overlay` | the `L1Router` object and `bidirAStarL1` | `graph`, `load` are `this.graph` and `this.loadPromise`; `heap`, `label`, `settled`, `mu` the two sides of the search that runs. `Status` and `Route` are the two requests, `Route` up to the await of `getGraph`; `GotObject`, `GotBody` continue the load, `LoadFailed`, `SnapFailed`, `SameNode`, `Begin` what waited for it; `Skip` and `Settle` are one turn of the loop, `Finish` its end; `Evict` the platform |
| `OverlayProofs` | theorems about `Overlay` | |
| `Geocode` | `geocode()`, its parsers, KV cache and shards, and the refresh of the shards | `entries` is the KV cache, `shard` which versions' rows a shard holds, `deployed` is `GEO_VERSION`; `waiting`, `rows` the answers of the fan-out. `Ask` runs up to the read of KV, `CacheHit`, `CacheMiss` continue it, `QueryShard` and `ShardFails` are one shard each, `Choose` what follows `Promise.all`, `Interpolate` one segment query, `Put` the write; `InsertNew`, `DeleteOld`, `Publish` the refresh |
| `GeocodeProofs` | theorems about `Geocode` | |
| `Snap` | `tileOf`, `snapInTile`, `snapK` as functions of a placement of road nodes | no state; `SnapK` |
| `Matrix` | `handleDistanceMatrix`, `tryWasmMatrix`, the leg cache and the probe of `/healthz/api`, over `Snap` | `legs` is the leg cache in KV, `deployed` is `DATA_VERSION`, `instance` the WASM instance; a request has its origin `at`, its `cached` and `computed` legs and its `rows`. `Begin` runs up to the first search, `LoadWasm`, `RunWasm`, `SkipWasm` are `tryWasmMatrix`; `NoOrigin`, `LoadLegs`, `Search`, `WriteLegs`, `Assemble` the stretches between the awaits of one origin; `Throws` a throw of KV, R2 or WASM; `Deploy` the environment |
| `MatrixProofs` | theorems about `Matrix` | |
| `SetFacts` | lemmas on sets, naturals, sums and recursion that the proofs share | |

`Matrix` extends `Snap`, and has the three searches by what they may return:
any group that a road reaches may be left out by a deadline or a cap, and
`Overlay` answers or not. `Router` and `Overlay` show what those searches
return, `Geocode` how a query gets its place, `TileCache` how a tile gets into
the isolate. `SyncD1` shows what one shard goes through during the refresh that
`Geocode` has as two steps, and `MirrorFiles` what becomes of a mirror that
`SyncD1` saves in one step.

`MC...` modules only give the constants values. Every module holds a few
operators `Faulty...`: variants of the definition after them with a plausible
mistake, used by nothing. `PROJECT.json` pairs each with the property that it
must break when it takes the place of the definition.

Abstractions:

* Admission: seconds are whole, a day has one or two of them; element counts
  are numbers; headers and bodies are left out. The limits are positive in the
  runs; the proofs cover disabled tiers too.
* TileCache: a tile is its name and size; R2 states are absent, ok, malformed.
  A call is made when its caller has none under way.
* Router: positions lie on a line, in seconds at top speed. That no road beats
  the straight line is the assumption of the code; `FirstLegIsNear` makes it
  (`Honest`), the other properties do not. The edges of a node are a set: of
  parallel ones any that may be pushed in some order are (`Pushes`). `Float32`
  rounding is left out. Equal keys may leave the heap in any order. `getTile`
  answers the same for a tile throughout a search; an R2 error ends a request.
* Overlay: positions are points of a plane, in seconds at top speed. An edge
  goes both ways with one time, which makes the reversed edges the same set.
  A network may hold roads faster than that speed; `ThriceAtMost` leaves those
  networks out and the other properties do not. Equal keys leave the heap in
  any order. Calls that wait when the object is evicted are answered with an
  error.
* Geocode: a query is a sequence of words and commas, and words are atoms. A
  name inside a longer word, ZIP+4 and house numbers with letters are left out.
  A row carries the versions of the data it is part of. How FTS5 ranks rows is
  external: shorter rows first. An entry of KV may be missing whenever it is
  read, which is its expiry and its propagation.
* Snap: the numbers of rings are constants. The code has 8 rings of cells, of
  which it scans at least 2 for one node (`RingsForOne`) and 6 for several
  (`RingsForMany`), and 2 rings of tiles; the run has 2, 0, 1 and 1, so that
  scans stop early in tiles of three cells a side. The proofs hold for any.
* Snap and Matrix: coordinates are whole, and distance is the larger of the
  two differences. A leg is its ends and what found it, not its length. Within
  a request the three parts of one origin run one after the other as in the
  code; the L1 calls of an origin are one step, since nothing else changes
  what they say. Cache-control, units and addresses of the body are left out.
* SyncD1: a row is an id and a content key; a request is one statement of one
  row, since `docs/refresh-quarterly.md` section 6 says that multi-statement
  requests are atomic. A `SystemExit` in a coroutine is a `Crash`, the FTS
  integrity check and the 1.5x guard are a `Fail` at any time, the drill switch
  is left out, and so is `--prev-version`. Thresholds of the gates are the code's, save the key
  gate's 95 %, which small shards cannot express (`MinKnown`). The CSVs of
  earlier versions are kept, so the refusal for want of one is left out.
* SyncD1 and the files of the mirror: `save_mirror` writes three files one after
  another, and a crash among them leaves two mirrors mixed (`CrashInSave`, the
  shard is `torn`). What such files hold is not in `SyncD1`: it *assumes* that
  the operator exports the shard again before the next run (`Export`, the guard
  of `Start`), which no code and no page demands. `MirrorFiles` drops the
  assumption, keeps the columns apart and takes the requests as done in one
  step; there the code's own thresholds hold, on a shard of twenty rows.
* The count of a shard: 2^40 is no multiple of `COUNT_CHUNK` (2,000,000), so once
  a mirror has an id of a block, the last legacy range reaches 372,224 ids into
  the first block, and rows there are counted twice. Only versions of the first
  quarter of 2026 get ids of that block (`etl/sync_d1.py:96`). In the run
  `IdBlock` is 10 and `CountChunk` 4, so that the last range covers 10 and 11,
  and the first quarter's ids are among them.

## 3. Runs

| Run | Checks | Bounds, and why they are enough |
|---|---|---|
| `admission` | the safety of the gate, refinement of `Budget`, order of charging, every request answered | two requests of one client, every order of their four checks. They are interchangeable, so one of them has two elements and the other one, two or three (`MaxElements` is 2): it leaves room for the other, which then overshoots, or fills a budget, or is oversize. `PerSec` 1, both budgets 2: every tier can block. One second boundary inside a day and one midnight; loss, late processing and eviction anywhere |
| `tile_cache` | promise maps, budgets, every call returns | two calls, tiles of size 1 and 2, budgets 2 and 3: the decoded cache cannot hold both tiles, the raw one can; three R2 reads |
| `tile_miss` (violation) | "dedups in-flight fetches" | two calls, two tiles |
| `sync_d1` | the eight properties of the delta load | one state with an address and a segment shard, two quarters; a duplicate row or an id on the edge of a counting chunk at the start, and after the first quarter ids that two ranges of the count cover; one late request a shard; `MaxRows` 9 against 5 rows metered a write, so the cap strikes half-way |
| `sync_cap` (violation) | "hard cap on ACTUAL rows written" | the address shard alone, one CSV, two writes |
| `sync_torn` (violation) | "every id whose key is no longer in the CSV" | one shard of twenty rows, two quarters, one crash. With no crash (`MaxCrashes` 0) the same property holds |
| `router` | legs, completeness, detour of the first leg, termination | every network that picks none or one of one or two roads for each of nine pairs of five nodes in three tiles, and for one pair also two at once; roads along the straight line and slower, nodes of another tile reached by several crossings; three sets of groups (one empty group, one with several candidates, one at the source); with and without the middle tile; the cap below the number of nodes |
| `router_shared` (violation) | "any candidate of each destination satisfies that destination" | two groups of the same nodes |
| `overlay` | one load, true and short enough roads, every call answered | two calls, one eviction; every network that picks at most one road for each of six pairs of five nodes, and for one pair also two at once (a chain, a detour against a slow direct road, roads faster than the estimate assumes, nodes without an edge); two routes; a cap of seven settled nodes, which some searches meet and others do not |
| `geocode` | cache against refresh, addresses in service found, tiers | two requests of nine queries (a plain one, three spellings that differ in suffix and state, one without a state, one added and one removed by the refresh, one that never reaches a shard, coordinates); two shards, two versions, one failure of D1 or KV |
| `geo_state` (violation) | "two-letter code at the end" | same |
| `matrix` | leg cache, truth of the elements, snaps | two requests of nine (single and several origins, destinations that share a first node without a road, a far one, one without a node near, an unknown one, too many elements, none); two versions in which two nodes change places; one throw |

Deadlock is not checked: in each of these systems all work may end.

The operator of `SyncD1` builds CSVs again, or goes to the next quarter, only
while no apply is half done and no request is on its way (`Settled`), as the
runbook has it. Without that care the code makes no promise: `plan_sha` is of
the counts of a plan (`etl/sync_d1.py:276`), so a checkpoint can be resumed
under a rebuilt plan of equal counts.

Fairness. `Admission`: a handler keeps running and every await settles, by an
answer or a throw (the platform bounds subrequests); the limiters themselves
are not fair. `TileCache`: R2 settles every read, and a settled promise resumes
its callers. `Router`: the loop runs on; the deadline is not fair.
`Overlay`: R2 settles the read of the overlay, and the object goes on while
there is a continuation to run or a search that is not done; callers and
evictions are not fair. `Geocode` and `Matrix` have no liveness property: each
request is a straight line between awaits that settle. `SyncD1` has
no liveness property: nothing promises that a run is started again.

## 4. What the violations show

Each is a disagreement of the code with a sentence about it, quoted in
`PROJECT.json` under `findings`:

* `tile_miss`: a missing tile is remembered for the life of an isolate.
* `sync_cap`: the budget is looked at after each answer, so a run stops when it
  is over `--max-rows`, not before: by one request a shard at most, which
  `SpendingBounded` shows. A write whose answer was lost is in no count: sent
  again it writes nothing, and the ledger misses it.
* `sync_torn`: a commit that dies between the columns of the mirror, resumed with
  the same command, ends with keys at the ids of other rows, and a later run
  deletes live rows by those ids. The counts match throughout.
* `router_shared`: two destinations that snap to the same nodes share one leg,
  and the second gets none. `Matrix` has the same rule in `Served`; there the
  overlay may still answer.
* `geo_state`: a street suffix or directional that is also a state code
  ("ct", "in", "ne") decides the state of a query that names its own in full.

Seen while modelling, and part of the models as the code has it:

* `bytesLruTouch` counts a raw tile again that the map already holds
  (`src/tiles.ts:104`), so raw tiles may be evicted though there is room.
  `BudgetsKept` states what is left: the counter is never below what is held.
* The estimate of a node in a tile that is not loaded is taken at the near end
  of the crossing edge (`src/router.ts:271`) and not taken again, although the
  comments at lines 8 and 270 say so. So the first leg may exceed 1.5 times the
  best by the flight along such edges: `FirstLegIsNear` has the allowance.
* An entry of the heap keeps the estimate of the groups that were open when it
  was pushed, so once a leg is found entries of different estimates compete, and
  the "up to 50% longer" of `src/router.ts:23` and the "~50% non-optimal" of
  `README.md:456` are true of the first leg only. With roads S-A 1, A-x 1, x-v 1,
  v-t 10 and S-v 14, where S, A, x and v are at one place and t ten seconds away,
  and with the groups {A} and {t}, the leg to t is 24 where 13 is possible: v is
  queued from S while A is open, with key 14, and x after A is found, with key
  2 + 15. TLC confirms it. With t D seconds away and S-v
  at 1.5 D - 1 the leg is nearly 2.5 times the best. The models state no bound
  for later legs.
* A crash after the mirror is saved and before the checkpoint goes leaves a
  checkpoint of the old plan. A plan computed afresh has another `plan_sha`, and
  the run ends at `etl/sync_d1.py:339` for all shards until the file is deleted,
  as `docs/refresh-quarterly.md:250` says one may.
* Once a mirror has an id of a block, the legacy ranges of a count go all the way
  to 2^40 (`etl/sync_d1.py:468`): about 550,000 requests a shard, most of them
  over ids nobody has. `CountedRows` has what they add up to.
* The segments of a state are gated against its addresses' version
  (`etl/sync_d1.py:512`).
* A leg of the cache may lead to another candidate than the one in its key, and
  is then read for a destination that does not have that candidate
  (`src/distancematrix.ts:368`): `CachedLegsServe` says how far that goes.
* A failed load of the overlay is answered to every later call of the same life
  of the object (`src/l1_router.ts:56`): `OneReadPerLife`.
* A shard that fails counts as empty, and the interpolated answer found instead
  is cached for thirty days (`src/geocode.ts:52`): `SurvivorsFound` leaves
  those answers out.

## 5. Proofs

Every theorem is about the specification that the runs check, for every value of
the constants that meets the `ASSUME`s of its module. TLC evaluates those on the
runs. Where a property is not inductive the proof module defines the invariant
`Inv` that is, as a conjunction of named parts; TLC
checked each of them on the run, with quantifiers over numbers bounded, before
it was proved. A proof shows `Init => Inv`, one lemma a kind of step
up to `Inv /\ [Next]_vars => Inv'`, and that `Inv` implies the property.

`SetFacts` holds what the prover's library does not give: the least of a set of
naturals, induction over naturals and over the subsets of a finite set with the
claim as a *set* (`SetOfAll`, `FiniteSubsets`; the library's induction theorems
take an operator, which the backends cannot instantiate), ranks, the value of a
fold over a finite set when the order does not matter (`SumIs`, `SumAdd`,
`SumUnion`) and that a sequence defined by recursion over the naturals exists
(`SequenceExists`).

| Module | Theorem | Property | Holds for any |
|---|---|---|---|
| `AdmissionProofs` | `TypeCorrect`, `WindowsBounded`, `CountersAreCharges`, `RejectionsAreFree`, `RejectionsHaveCause`, `ServedHavePaid` | the five invariants of `admission` and `RejectionsJustified` | clients, requests, element counts, limits (zero and negative ones included), lengths of a day |
| | `ServiceChargedLast`, `BudgetImplemented` | `GlobalChargeAfterIpGate`, `ImplementsBudget` | same |
| `TileCacheProofs` | `TypeCorrect`, `OneRead`, `BudgetsHold` | the three invariants of `tile_cache` | tiles, sizes, budgets, callers, reads |
| `SyncD1Proofs` | `TypeCorrect`, `NoSurvivorIsDropped`, `IgnoredAreReplays`, `IndexIsKept`, `CapHolds`, `ReusedPlansAreFresh`, `OnlyWhatIsLiveIsCommitted`, `MismatchIsOnTheEdge` | the eight properties of `sync_d1` | shards, rows, CSVs, blocks, chunks, quarters, caps |
| `RouterProofs` | `TypeCorrect`, `LegsAreOfRoads`, `ReachableAreFound`, `FirstIsNear` | the four invariants of `router` | finite networks with several edges between two nodes, positions, tiles, groups, caps |
| `OverlayProofs` | `TypeCorrect`, `OneLoad`, `AnswersAreRoads`, `ConnectedAreFound`, `ThriceTheBest` | the five invariants of `overlay` | finite networks with several edges between two nodes, positions, grids, calls, routes, caps, evictions |
| `GeocodeProofs` | `TypeCorrect`, `NoDeletedRows`, `SurvivorsAreFound`, `RooftopIsPreferred` | the four invariants of `geocode` | rows, segments, states and names, queries, versions, failures |
| `MatrixProofs` | `TypeCorrect`, `LegsOfTheirKeys`, `AnswersAreTrue`, `NearestIsSnapped` | the four invariants of `matrix` | networks, requests, grids, limits, deployments, failures |

How they go.

* **Admission.** `WindowsBounded` speaks of the current window and is not
  inductive; `Bounded` says the same of the counts themselves, whatever window
  they are of, and that every request whose check may still be processed is
  within `MaxElements`. `Gate(r)` relates, for one request, where the handler
  is, which checks are on their way, what the answers were and who was charged:
  a check on its way has charged nobody, and the global check leaves only behind
  an `ok` or a fault. A step of one request leaves the gates of the others alone
  (`GateFrame`). `Books` says that each counter tallies the charges of its object
  since it was last constructed, in the window the counter is of; with `Ledger`
  and `Dated` (no counter is of a window to come, so midnight finds each of them
  behind) it gives `CountersAreCharges` and with it `RejectionsHaveCause`: a
  limiter that blocks counts up to its limit in the window it is in, and what it
  counts there are its charges. `BudgetImplemented` maps each step of the gate to
  a step or a stutter of `Budget`.
* **TileCache.** `SingleFlight` is inductive with the types of the promise maps:
  it says in both directions which promise a map names, so that a read that ends
  clears its own entry and no other. `BudgetsHold` needs `Absent`: no tile is
  held decoded while a decoded read of it is in flight, so its bytes are counted
  once. `Trimmed` is what the eviction loop leaves, proved of the fold `Bytes`.
* **SyncD1.** The assumption about torn mirrors is part of the specification, so
  `OnlyWhatIsLiveIsCommitted` and what rests on the mirror hold under it; `Awaited`
  says where it applies. `Delta` places the rows of a shard between what its plan
  keeps and what it may add, says of every request on its way, late ones included, that it
  leads to the plan's target (`Harmless`), of a checkpoint that what it counts is
  done (`Progress`), and of a plan that its ids are its own. Lemmas about
  the values of one shard say what a step does to it. `Indexed` has the triggers,
  `Spending` the cap with one request for each failed shard.
  `MismatchIsOnTheEdge` adds up the two counts (`CountedAll`): away from the edges they split the table in two.
* **Router.** `Traced` says that an entry of the heap is a road over settled
  nodes, none of them twice (`Over`), which bounds its edges and gives
  `LegsAreRoads`. `Reach` is completeness: an edge of a settled node leads to a
  node that is settled, queued or in a tile R2 does not hold; with an empty heap
  every walk ends at a settled node (`AllSettled`), and a settled node has its
  group served (`Satisfied`). `Current` says that the scratch `dist` of an open
  node is an entry of the heap, so that a push left out loses nothing. `Early` is
  about the time before the first leg, when no estimate has changed: a key is too low
  by at most the estimate of one crossing (`Keyed`), and on every road there is a
  first node that is not settled, queued no later than the road so far and the
  slack of its crossings allow (`Ahead`, `Frontier`). The entry that is popped has the least
  key (`SettledInTime`), and where it is a candidate its estimate is zero but for
  its distance from the address, which is the bound.
* **Overlay.** `Sided(s)` is the invariant of one side of the search: one label a
  node, every open label queued and no entry below its label, the edges of a
  settled node relaxed, each label a road that visits no node twice (`Traced`,
  with the set of settled nodes the road runs over, which bounds its edges by the
  number of nodes), and a settled label within half as long again of *every*
  road (`NearBest`). The last is the weighted A* argument: on any road there is a
  first node that is not settled (`Frontier`), its label is within the bound of
  the road so far, and the top of the heap is at most its key, where the triangle
  inequality makes up for the rest. `Met` relates the sides: where both have
  settled a node the best answer so far is no worse than the road through it.
  `FinishTrue` puts them together for the stop rule, an empty heap and the cap.
* **Geocode.** A shard never holds rows that the deployed version has left behind
  (`Shards`), so what a request reads is of its version or later although the
  refresh moves on (`Read`). A row that is in every version is in every shard at
  every moment (`Served`), so that a fan-out without failures finds it (`Reads`),
  and the choice among the rows takes a rooftop one where there is one. Two
  queries with the same normalised words and the same parsed state are due the
  same rows, which is what makes a cached answer right for another query.
* **Matrix.** `Cache` says what may be in the leg cache and that what a request
  computed is of its present origin and of its version, whatever is deployed
  meanwhile. `Request(r)` follows one request from origin to origin: what it
  holds at each stretch, and that each finished row tells the truth (`Rowed`).
  `NearestIsSnapped` is about `snapK` alone: the rings of cells and of tiles it
  leaves out are farther than what it has (`SnapInTileIs`), and its scans stop
  early only with a node that is near.

What is assumed. Each module names its assumptions on the constants, as weak as
the code allows: `Global` is no client, limits are integers, `MaxElements` is
positive (`Admission`); there is a tile, and a tile has bytes (`TileCache`); one
address shard a state, `id` is the primary key, tables and CSVs are finite, and
`IdBlock - 1`, which is 2^40 - 1 in the code, is no multiple of `CountChunk`
(`SyncD1`); finitely many nodes, the source among them, at whole positions,
finite networks of edges with natural times and lengths, and an address for each
group (`Router`); finite networks of nodes with whole coordinates, edges of
positive time, and a `None` that is not an answer (`Overlay`); states are
listed, the rows are rows of those states, names and ZIP prefixes map to valid
codes (`Geocode`); finite networks in which no two nodes share a point, origins
and destinations that are places (`Matrix`). Bounds (`MaxTime`, `MaxFetches`,
`MaxVersion`, `MaxFailures`, `MaxEvictions`) are any natural numbers.

Forms chosen so that the provers can expand them: `Sorted` of `SyncD1` is the
sequence of ranks instead of a sort, `Bytes` of `TileCache` folds over sizes,
`Snaps` of `Matrix` is a function of version, query and number of candidates, the
reference roads of `Router` and `Overlay` are recursive functions over naturals.
TLC checks the same definitions.

Only model-checked: the liveness properties `EveryRequestAnswered`,
`CallsReturn`, `SearchEnds` and `CallsAnswered`, since neither fairness nor
`ENABLED` is within the prover's reach; and the five expected violations with
the module `MirrorFiles`. Every
invariant and action property of the passing runs is proved.

## 6. Plan

Order of the work, most important first.

1. Done: `Admission` with `Budget`, `TileCache`, `SyncD1`, `Router`, `Overlay`,
   `Geocode`, `Snap`, `Matrix`, and the theorems of section 5.
2. `MirrorExport`, `FullLoad` and `Pipeline`, in that order, if the loaders they
   model stay in use: part files, crash and resume; blind retries and hashes;
   the stages of `refresh.sh quarterly` over what `SyncD1` promises.

Not modelled, and why: the tile, overlay and address builders (batch
transformations without state), formatting and the characters of an address
(string data), the memory of the FFI and the Rust search behind it, uploads
(I/O), the cache-control header and the coverage document (a function of the
answer), the mirror export, the legacy loaders and the refresh driver (left in
the plan), and the site: `src/site.ts` and `src/panel_data.ts` are half of the
lines under `src/` and hold pages and tables.
