---------------------------- MODULE MirrorFiles ----------------------------
(***************************************************************************)
(* The mirror of one shard as the files it is: a column of keys, a column  *)
(* of ids and a sidecar, which save_mirror writes one after another, and   *)
(* of which nothing tells whether they belong together.  SyncD1 saves them *)
(* in one step and assumes that a torn mirror is exported again; here a    *)
(* run simply goes on from the files there are.                            *)
(*                                                                         *)
(* Requests are SyncD1's: here a plan is applied in one step, and applied  *)
(* again on a resume, which changes nothing.                               *)
(***************************************************************************)
EXTENDS Integers, Sequences, SequencesExt

CONSTANTS
    FirstRows,   \* what the shard and its mirror hold at first
    Csvs,        \* [0..MaxVersion -> SUBSET SUBSET Nat], the CSVs a build may yield
    MaxVersion,  \* bound: quarterly versions
    MaxCrashes,  \* bound: runs that die
    IdBlock,     \* ID_BLOCK
    MinKnown     \* key gate: per cent of the old keys in the mirror, 95

NoPlan == [version |-> 0]
NoCheckpoint == [rows |-> 0]

VARIABLES
    version,   \* data/v2/version.txt
    csv,       \* [0..MaxVersion -> SUBSET Nat]
    loaded,    \* the version in fingerprints.json
    table,     \* the rows in D1
    keys,      \* <ST>.<kind>.keys.npy
    ids,       \* <ST>.<kind>.ids.npy
    meta,      \* <ST>.<kind>.json
    plan,      \* the plan file of this version
    ckpt,      \* the plan_sha of the checkpoint, or NoCheckpoint
    pc,        \* where the run is
    saving,    \* the rows save_mirror is writing
    crashes    \* runs that died

vars == <<version, csv, loaded, table, keys, ids, meta, plan, ckpt, pc, saving, crashes>>
steady == <<version, csv, crashes>>
files == <<keys, ids, meta>>

IdsOf(rows) == {r.id : r \in rows}
Highest(S) == CHOOSE n \in S \cup {0} : \A m \in S : m <= n
Ascending(S) == SetToSortSeq(S, LAMBDA a, b : a < b)

\* save_mirror sorts by key, then id.
ByKey(rows) ==
    SortSeq(rows, LAMBDA r, q : r.key < q.key \/ (r.key = q.key /\ r.id < q.id))
KeyColumn(rows) == [i \in DOMAIN rows |-> rows[i].key]
IdColumn(rows) == [i \in DOMAIN rows |-> rows[i].id]
Sidecar(rows) == [rows |-> Len(rows), maxId |-> Highest(IdsOf(Range(rows)))]

\* load_mirror: the i-th key is that of the i-th id.
Loaded == [i \in DOMAIN keys |-> [id |-> ids[i], key |-> keys[i]]]

Base == IF meta.maxId >= IdBlock * version THEN (meta.maxId \div IdBlock + 1) * IdBlock
        ELSE IdBlock * version

\* The ids of vanished keys, and all but the first of a surviving key's.
Planned ==
    LET B == csv[version]
        J == csv[loaded]
        new == Ascending(B \ Range(keys))
        gone == {i \in DOMAIN keys : keys[i] \notin B \/ \E j \in 1..(i - 1) : keys[j] = keys[i]}
        del == {ids[i] : i \in gone \cap DOMAIN ids}
    IN [version |-> version,
        ins |-> [i \in DOMAIN new |-> [id |-> Base + i, key |-> new[i]]],
        del |-> del,
        sha |-> [prev |-> loaded, rows |-> Len(keys), csv |-> Cardinality(B),
                 ins |-> Len(new), del |-> Cardinality(del), base |-> Base,
                 delKeys |-> Cardinality(Range(keys) \ B), maxId |-> meta.maxId,
                 known |-> Cardinality(J \cap Range(keys)), prevKeys |-> Cardinality(J)]]

\* No shard is allowed to shrink or to be rebuilt here.
Refused(p) ==
    \/ 10 * (p.sha.del - p.sha.ins) > p.sha.rows
    \/ 100 * p.sha.known < MinKnown * p.sha.prevKeys
    \/ 2 * (p.sha.ins + p.sha.del) >= p.sha.rows

\* --reuse-plans compares the sidecar with the plan file.
Reusable == plan # NoPlan /\ plan.sha.rows = meta.rows /\ plan.sha.maxId = meta.maxId

-----------------------------------------------------------------------------
Init ==
    /\ version = 1
    /\ csv \in [0..MaxVersion -> UNION {Csvs[v] : v \in 0..MaxVersion}]
    /\ \A v \in 0..MaxVersion : csv[v] \in Csvs[v]
    /\ loaded = 0
    /\ table = Range(FirstRows)
    /\ keys = KeyColumn(ByKey(FirstRows))
    /\ ids = IdColumn(ByKey(FirstRows))
    /\ meta = Sidecar(FirstRows)
    /\ plan = NoPlan
    /\ ckpt = NoCheckpoint
    /\ pc = "idle"
    /\ saving = <<>>
    /\ crashes = 0

\* Plan, gate, and go on from the checkpoint if it is one of this plan.
Run ==
    /\ pc = "idle"
    /\ \E reuse \in BOOLEAN : plan' = IF reuse /\ Reusable THEN plan ELSE Planned
    /\ ~Refused(plan')
    /\ ckpt \in {NoCheckpoint, plan'.sha}
    /\ ckpt' = plan'.sha
    /\ pc' = "apply"
    /\ UNCHANGED <<steady, loaded, table, files, saving>>

Apply ==
    /\ pc = "apply"
    /\ LET new == {r \in Range(plan.ins) : r.id \notin IdsOf(table)}
       IN table' = {r \in table \cup new : r.id \notin plan.del}
    /\ pc' = "verify"
    /\ UNCHANGED <<steady, loaded, files, plan, ckpt, saving>>

\* The count matches: the mirror is read again and brought up to date.  Columns
\* of different lengths end the run here.
Verify ==
    /\ pc = "verify"
    /\ Cardinality(table) = plan.sha.rows - Cardinality(plan.del) + Len(plan.ins)
    /\ Len(keys) = Len(ids)
    /\ saving' = ByKey(SelectSeq(Loaded, LAMBDA r : r.id \notin plan.del) \o plan.ins)
    /\ pc' = "keys"
    /\ UNCHANGED <<steady, loaded, table, files, plan, ckpt>>

SaveKeys ==
    /\ pc = "keys"
    /\ keys' = KeyColumn(saving)
    /\ pc' = "ids"
    /\ UNCHANGED <<steady, loaded, table, ids, meta, plan, ckpt, saving>>

SaveIds ==
    /\ pc = "ids"
    /\ ids' = IdColumn(saving)
    /\ pc' = "meta"
    /\ UNCHANGED <<steady, loaded, table, keys, meta, plan, ckpt, saving>>

SaveMeta ==
    /\ pc = "meta"
    /\ meta' = Sidecar(saving)
    /\ pc' = "fingerprints"
    /\ UNCHANGED <<steady, loaded, table, keys, ids, plan, ckpt, saving>>

SaveFingerprints ==
    /\ pc = "fingerprints"
    /\ loaded' = version
    /\ pc' = "unlink"
    /\ UNCHANGED <<steady, table, files, plan, ckpt, saving>>

Unlink ==
    /\ pc = "unlink"
    /\ ckpt' = NoCheckpoint
    /\ pc' = "idle"
    /\ UNCHANGED <<steady, loaded, table, files, plan, saving>>

Crash ==
    /\ pc # "idle"
    /\ crashes < MaxCrashes
    /\ crashes' = crashes + 1
    /\ pc' = "idle"
    /\ saving' = <<>>
    /\ UNCHANGED <<version, csv, loaded, table, files, plan, ckpt>>

\* "delete the checkpoint file to start a shard over against the same plan"
StartOver ==
    /\ pc = "idle"
    /\ ckpt # NoCheckpoint
    /\ ckpt' = NoCheckpoint
    /\ UNCHANGED <<steady, loaded, table, files, plan, pc, saving>>

\* Plans and checkpoints live in a directory per version.
NextVersion ==
    /\ pc = "idle"
    /\ loaded = version
    /\ version < MaxVersion
    /\ version' = version + 1
    /\ plan' = NoPlan
    /\ ckpt' = NoCheckpoint
    /\ UNCHANGED <<csv, loaded, table, files, pc, saving, crashes>>

Next ==
    \/ Run \/ Apply \/ Verify
    \/ SaveKeys \/ SaveIds \/ SaveMeta \/ SaveFingerprints \/ Unlink
    \/ Crash \/ StartOver \/ NextVersion

Spec == Init /\ [][Next]_vars

-----------------------------------------------------------------------------
\* "DEL = every id whose key is no longer in the CSV, plus extra ids of
\* duplicated surviving keys (lowest id kept)": what an apply is about to delete
\* is a row of such a key, or not the lowest of its key's.
DeletesOnlyVanished ==
    pc = "apply" => \A r \in table : r.id \in plan.del =>
        r.key \notin csv[version] \/ \E q \in table : q.key = r.key /\ q.id < r.id

=============================================================================
