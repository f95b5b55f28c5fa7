------------------------------- MODULE SyncD1 -------------------------------
(***************************************************************************)
(* The quarterly delta load (src/etl/sync_d1.py) of the live D1 shards.  A *)
(* run diffs the new CSV of each shard against the local mirror of what D1 *)
(* holds, gates the plans, and applies them: new rows in under explicit    *)
(* ids, vanished rows out by id, a count, then the mirror, the fingerprint *)
(* and the end of the checkpoint.  Runs crash and are started again; a     *)
(* request whose answer was lost may be executed late, and is sent again.  *)
(*                                                                         *)
(* A row is its primary key and its content key; a request carries one     *)
(* statement of one row, since multi-statement requests are atomic.        *)
(* Operators named Faulty... are plausible mistakes, unused: in the place  *)
(* of the definition after them they must break a property.                *)
(***************************************************************************)
EXTENDS Integers, Sequences, SequencesExt

CONSTANTS
    Shards,       \* (state, kind) pairs
    Addresses,    \* the shards of kind "addresses", with a full-text index
    AddressesOf,  \* [Shards -> Addresses], the address shard of the same state
    Keys,         \* content keys, 64-bit hashes
    Legacy,       \* [Shards -> SUBSET SUBSET Row], what a shard may hold at first
    Csvs,         \* [Shards -> SUBSET SUBSET Keys], the CSVs a build may yield
    MaxVersion,   \* bound: quarterly versions
    IdBlock,      \* ID_BLOCK, 2^40
    MaxSafeId,    \* MAX_SAFE_ID, 2^53 - 1
    CountChunk,   \* COUNT_CHUNK
    MinKnown,     \* key gate: per cent of the old keys in the mirror, 95
    AllowRebuild, \* --allow-rebuild and --allow-shrink
    RowForecast,  \* A_ins and A_del, calibrated rows written per row
    RowCost,      \* what D1 meters
    MaxRows,      \* --max-rows
    MaxLate       \* bound: requests of a shard on their way unawaited

NoPlan == [version |-> 0]
NoCheckpoint == [phase |-> "none"]

VARIABLES
    version,    \* data/v2/version.txt
    csv,        \* [0..MaxVersion -> [Shards -> SUBSET Keys]]
    d1,         \* [Shards -> SUBSET Row], the live tables
    fts,        \* [Addresses -> SUBSET Row], what addr_fts indexes
    triggers,   \* SUBSET Addresses, where the delete trigger is installed
    late,       \* [Shards -> SUBSET Request], sent, given up on, not executed yet
    mirror,     \* [Shards -> SUBSET Row], what the files of the mirror hold
    torn,       \* SUBSET Shards, where the files are of two different mirrors
    plan,       \* [Shards -> Plan or NoPlan], the plan files
    planFresh,  \* SUBSET Shards, plan files newer than their CSV
    ckpt,       \* [Shards -> Checkpoint or NoCheckpoint], for this version
    loaded,     \* [Shards -> 0..MaxVersion], the version in fingerprints.json
    pc,         \* [Shards -> Phase], the coroutines of the current run
    committed   \* the ledger's committed_rows_written

remoteVars == <<d1, fts, triggers, late>>
localVars == <<version, csv, mirror, torn, plan, planFresh, loaded>>
vars == <<remoteVars, localVars, ckpt, pc, committed>>

Row == [id : Nat, key : Keys]
Versions == 0..MaxVersion
KeysOf(rows) == {r.key : r \in rows}
IdsOf(rows) == {r.id : r \in rows}
Lowest(S) == CHOOSE n \in S : \A m \in S : n <= m
Highest(S) == IF S = {} THEN 0 ELSE CHOOSE n \in S : \A m \in S : m <= n
Sorted(S) == [i \in 1..Cardinality(S) |->
    CHOOSE n \in S : Cardinality({m \in S : m < n}) = i - 1]
SumOver(S, f(_)) == MapThenSumSet(f, S)

\* One address shard a state.
ASSUME ShardsAssumption ==
    /\ IsFiniteSet(Shards)
    /\ Addresses \subseteq Shards
    /\ AddressesOf \in [Shards -> Addresses]

\* id is the primary key of both tables; CSVs and tables are finite.
ASSUME RowsAssumption ==
    /\ Keys \subseteq Int /\ IsFiniteSet(Keys)
    /\ \A s \in Shards : Csvs[s] \subseteq SUBSET Keys
    /\ \A s \in Shards : \A rows \in Legacy[s] :
        /\ rows \subseteq Row /\ IsFiniteSet(rows)
        /\ \A r, q \in rows : r.id = q.id => r = q

\* 2^40 - 1 is odd and COUNT_CHUNK even: the chunks pass the end of the ids
\* below the first block, and as 2^40 is no multiple of it, they reach into it.
ASSUME NumbersAssumption ==
    /\ MaxVersion \in Nat \ {0}
    /\ IdBlock \in Nat \ {0} /\ CountChunk \in Nat \ {0}
    /\ (IdBlock - 1) % CountChunk # 0
    /\ RowCost \in Nat /\ MaxRows \in Nat

-----------------------------------------------------------------------------
(* Planning.                                                               *)

\* Every id of a vanished key, and all but the lowest id of a surviving one.
FaultyVanished(rows, keys) == IdsOf({r \in rows :
    r.key \notin keys \/ \E q \in rows : q.key = r.key /\ q.id # r.id})
Vanished(rows, keys) == IdsOf({r \in rows :
    r.key \notin keys \/ \E q \in rows : q.key = r.key /\ q.id < r.id})

\* The block of the quarter, or the first free one above it.
FaultyBase(rows) == IdBlock * version
Base(rows) ==
    LET maxId == Highest(IdsOf(rows))
    IN IF maxId >= IdBlock * version THEN (maxId \div IdBlock + 1) * IdBlock
       ELSE IdBlock * version

\* The version whose CSV the mirror is compared with: that of the addresses of
\* the state, for its segments too.
Reference(s) == loaded[AddressesOf[s]]

\* plan_sha hashes the summary of a plan, not its rows.
Planned(s) ==
    LET A == mirror[s]
        B == csv[version][s]
        J == csv[Reference(s)][s]
        new == Sorted(B \ KeysOf(A))
        del == Sorted(Vanished(A, B))
    IN [version |-> version,
        ins |-> [i \in 1..Len(new) |-> [id |-> Base(A) + i, key |-> new[i]]],
        del |-> del,
        sha |-> [prev |-> Reference(s), rows |-> Cardinality(A), csv |-> Cardinality(B),
                 ins |-> Len(new), del |-> Len(del), base |-> Base(A),
                 delKeys |-> Cardinality(KeysOf(A) \ B), maxId |-> Highest(IdsOf(A)),
                 known |-> Cardinality(J \cap KeysOf(A)), prevKeys |-> Cardinality(J)]]

\* gate: shrink, key ratio and churn.  The CSVs of earlier versions are kept, so
\* that the refusal for want of one does not arise.
Refused(s, p) ==
    \/ 10 * (p.sha.del - p.sha.ins) > p.sha.rows /\ s \notin AllowRebuild
    \/ 100 * p.sha.known < MinKnown * p.sha.prevKeys
    \/ 2 * (p.sha.ins + p.sha.del) >= Highest({1, p.sha.rows}) /\ s \notin AllowRebuild

\* One statement a row, besides the rows themselves.
Forecast(p) == (p.sha.ins + p.sha.del) * (RowForecast + 1)

\* --reuse-plans: mirror and CSV look unchanged since the plan was written.
FaultyReusable(s) ==
    plan[s] # NoPlan /\ s \in planFresh /\ plan[s].sha.rows = Cardinality(mirror[s])
Reusable(s) ==
    /\ plan[s] # NoPlan
    /\ s \in planFresh
    /\ plan[s].sha.rows = Cardinality(mirror[s])
    /\ plan[s].sha.maxId = Highest(IdsOf(mirror[s]))

-----------------------------------------------------------------------------
(* D1.                                                                     *)

Request == [op : {"insert"}, row : Row] \cup [op : {"delete"}, id : Nat]
Insertion(r) == [op |-> "insert", row |-> r]
Deletion(id) == [op |-> "delete", id |-> id]

\* INSERT OR IGNORE with an explicit id, and DELETE by id.
Hits(s, q) ==
    IF q.op = "insert" THEN q.row.id \notin IdsOf(d1[s]) ELSE q.id \in IdsOf(d1[s])
RowsAfter(rows, q) ==
    IF q.op = "insert" THEN rows \cup {q.row} ELSE {r \in rows : r.id # q.id}

\* The insert trigger indexes a new row; only the delete trigger of the preamble
\* takes a deleted one out of the index.
Execute(s, q) ==
    /\ d1' = IF Hits(s, q) THEN [d1 EXCEPT ![s] = RowsAfter(@, q)] ELSE d1
    /\ fts' = IF Hits(s, q) /\ s \in Addresses /\ (q.op = "insert" \/ s \in triggers)
              THEN [fts EXCEPT ![s] = RowsAfter(@, q)] ELSE fts
    /\ UNCHANGED triggers

\* The end of the legacy ids in whole chunks, up to the mirror's highest.
Edge(p) ==
    LET legacy == IF p.sha.maxId < IdBlock THEN p.sha.maxId ELSE IdBlock - 1
    IN ((legacy + CountChunk - 1) \div CountChunk) * CountChunk
Top(p) == Highest({p.sha.maxId, p.sha.base + p.sha.ins + 1})

FaultyCountedRows(s) ==   \* the new block is counted up to its base
    Cardinality({r \in d1[s] : r.id < Edge(plan[s])})
        + Cardinality({r \in d1[s] : r.id \in IdBlock..plan[s].sha.base})

\* chunked_count adds up the ranges: the legacy chunks, then everything from the
\* first block up to the plan's last id.  What lies in both is counted twice.
CountedRows(s) ==
    Cardinality({r \in d1[s] : r.id < Edge(plan[s])})
        + Cardinality({r \in d1[s] : r.id \in IdBlock..Top(plan[s])})
ExpectedRows(s) == plan[s].sha.rows - Len(plan[s].del) + Len(plan[s].ins)

-----------------------------------------------------------------------------
Phase == {"idle", "planned", "apply", "done", "failed"}

Init ==
    /\ version = 1
    /\ d1 \in [Shards -> UNION {Legacy[s] : s \in Shards}]
    /\ \A s \in Shards : d1[s] \in Legacy[s]
    /\ csv \in [Versions -> [Shards -> SUBSET Keys]]
    /\ \A s \in Shards :
        /\ csv[0][s] = KeysOf(d1[s])
        /\ csv[1][s] \in Csvs[s]
        /\ \A v \in 2..MaxVersion : csv[v][s] = {}
    /\ fts = [s \in Addresses |-> d1[s]]
    /\ triggers = {}
    /\ late = [s \in Shards |-> {}]
    /\ mirror = d1
    /\ torn = {}
    /\ plan = [s \in Shards |-> NoPlan]
    /\ planFresh = {}
    /\ ckpt = [s \in Shards |-> NoCheckpoint]
    /\ loaded = [s \in Shards |-> 0]
    /\ pc = [s \in Shards |-> "idle"]
    /\ committed = 0

Idle == \A s \in Shards : pc[s] = "idle"
Stopped == committed > MaxRows

\* The request a coroutine is waiting for.
Pending(s) ==
    IF pc[s] # "apply" THEN {}
    ELSE IF ckpt[s].phase = "insert" /\ ckpt[s].inserted < Len(plan[s].ins)
         THEN {Insertion(plan[s].ins[ckpt[s].inserted + 1])}
    ELSE IF ckpt[s].phase = "delete" /\ ckpt[s].deleted < Len(plan[s].del)
         THEN {Deletion(plan[s].del[ckpt[s].deleted + 1])}
    ELSE {}

\* main up to asyncio.gather: plan every shard, gate, and start.  A plan whose
\* ids run out of range ends the program.  load_mirror does not notice torn
\* files: that the operator exports them again first is an assumption, and
\* MirrorFiles shows what comes of a run without it.
Start ==
    /\ Idle
    /\ torn = {}
    /\ \E reuse \in BOOLEAN :
        plan' = [s \in Shards |-> IF reuse /\ Reusable(s) THEN plan[s] ELSE Planned(s)]
    /\ planFresh' = Shards
    /\ \A s \in Shards : plan'[s].ins # <<>> =>
            plan'[s].sha.base + Len(plan'[s].ins) <= MaxSafeId
    /\ pc' = IF \/ \E s \in Shards : Refused(s, plan'[s])
                \/ SumOver(Shards, LAMBDA s : Forecast(plan'[s])) > MaxRows
             THEN pc ELSE [s \in Shards |-> "planned"]
    /\ UNCHANGED <<remoteVars, version, csv, mirror, torn, loaded, ckpt, committed>>

\* A coroutine whose turn comes after the budget ran out does nothing.
Skip(s) ==
    /\ pc[s] = "planned"
    /\ Stopped
    /\ pc' = [pc EXCEPT ![s] = "done"]
    /\ UNCHANGED <<remoteVars, localVars, ckpt, committed>>

\* No checkpoint: write one, count, install the triggers.
Begin(s) ==
    /\ pc[s] = "planned"
    /\ ~Stopped
    /\ ckpt[s] = NoCheckpoint
    /\ ckpt' = [ckpt EXCEPT ![s] = [phase |-> "start", inserted |-> 0, deleted |-> 0,
                                   sha |-> plan[s].sha]]
    /\ pc' = [pc EXCEPT ![s] = "apply"]
    /\ UNCHANGED <<remoteVars, localVars, committed>>

Resume(s) ==
    /\ pc[s] = "planned"
    /\ ~Stopped
    /\ ckpt[s] # NoCheckpoint
    /\ ckpt[s].sha = plan[s].sha
    /\ pc' = [pc EXCEPT ![s] = "apply"]
    /\ UNCHANGED <<remoteVars, localVars, ckpt, committed>>

FaultyPrepare(s) ==       \* no preamble for a plan without inserts
    /\ pc[s] = "apply" /\ ckpt[s].phase = "start"
    /\ triggers' = triggers \cup (IF plan[s].ins = <<>> THEN {} ELSE {s} \cap Addresses)
    /\ ckpt' = [ckpt EXCEPT ![s].phase = "insert"]
    /\ UNCHANGED <<d1, fts, late, localVars, pc, committed>>
Prepare(s) ==
    /\ pc[s] = "apply"
    /\ ckpt[s].phase = "start"
    /\ triggers' = triggers \cup ({s} \cap Addresses)
    /\ ckpt' = [ckpt EXCEPT ![s].phase = "insert"]
    /\ UNCHANGED <<d1, fts, late, localVars, pc, committed>>

FaultyAcknowledged(s, q) ==   \* the budget is looked at only before a shard starts
    committed' = committed + (IF Hits(s, q) THEN RowCost ELSE 0) /\ pc' = pc

\* The answer arrived: the ledger, the checkpoint, the budget.
Acknowledged(s, q) ==
    /\ committed' = committed + (IF Hits(s, q) THEN RowCost ELSE 0)
    /\ pc' = IF committed' > MaxRows THEN [pc EXCEPT ![s] = "failed"] ELSE pc

Insert(s) ==
    /\ pc[s] = "apply"
    /\ ckpt[s].phase = "insert"
    /\ \E q \in Pending(s) : Execute(s, q) /\ Acknowledged(s, q)
    /\ ckpt' = [ckpt EXCEPT ![s].inserted = @ + 1]
    /\ UNCHANGED <<late, localVars>>

Delete(s) ==
    /\ pc[s] = "apply"
    /\ ckpt[s].phase = "delete"
    /\ \E q \in Pending(s) : Execute(s, q) /\ Acknowledged(s, q)
    /\ ckpt' = [ckpt EXCEPT ![s].deleted = @ + 1]
    /\ UNCHANGED <<late, localVars>>

NextPhase(s) ==
    /\ pc[s] = "apply"
    /\ ckpt[s].phase \in {"insert", "delete"}
    /\ Pending(s) = {}
    /\ ckpt' = [ckpt EXCEPT ![s].phase = IF @ = "insert" THEN "delete" ELSE "verify"]
    /\ UNCHANGED <<remoteVars, localVars, pc, committed>>

\* The request timed out or its connection broke: it is sent again, and the
\* first copy may still be executed.
TimeOut(s) ==
    /\ Pending(s) \ late[s] # {}
    /\ Cardinality(late[s]) < MaxLate
    /\ late' = [late EXCEPT ![s] = @ \cup Pending(s)]
    /\ UNCHANGED <<d1, fts, triggers, localVars, ckpt, pc, committed>>

ExecuteLate(s) ==
    /\ \E q \in late[s] :
        /\ Execute(s, q)
        /\ late' = [late EXCEPT ![s] = @ \ {q}]
    /\ UNCHANGED <<localVars, ckpt, pc, committed>>

\* Retries exhausted, a permanent error, rows written over 1.5 x the forecast.
Fail(s) ==
    /\ pc[s] = "apply"
    /\ pc' = [pc EXCEPT ![s] = "failed"]
    /\ UNCHANGED <<remoteVars, localVars, ckpt, committed>>

FaultyMismatch(s) ==      \* gives up the checkpoint and goes on
    /\ pc[s] = "apply" /\ ckpt[s].phase \in {"verify", "verify-failed"}
    /\ CountedRows(s) # ExpectedRows(s)
    /\ ckpt' = [ckpt EXCEPT ![s] = NoCheckpoint]
    /\ UNCHANGED <<remoteVars, localVars, pc, committed>>
Mismatch(s) ==
    /\ pc[s] = "apply"
    /\ ckpt[s].phase \in {"verify", "verify-failed"}
    /\ CountedRows(s) # ExpectedRows(s)
    /\ ckpt' = [ckpt EXCEPT ![s].phase = "verify-failed"]
    /\ pc' = [pc EXCEPT ![s] = "failed"]
    /\ UNCHANGED <<remoteVars, localVars, committed>>

\* The count matches.
Verified(s) ==
    /\ pc[s] = "apply"
    /\ ckpt[s].phase \in {"verify", "verify-failed"}
    /\ CountedRows(s) = ExpectedRows(s)

FaultyMirrorSaved(s) ==   \* takes out the vanished keys, not the deleted ids
    /\ Verified(s)
    /\ mirror' = [mirror EXCEPT ![s] = {r \in @ : r.key \in csv[version][s]}
            \cup {plan[s].ins[i] : i \in 1..Len(plan[s].ins)}]
    /\ UNCHANGED <<remoteVars, version, csv, torn, plan, planFresh>>

\* save_mirror to its end; then comes fingerprints.json, then the checkpoint
\* goes.  A crash may come after the first or the second.
MirrorSaved(s) ==
    /\ Verified(s)
    /\ mirror' = [mirror EXCEPT ![s] =
            {r \in @ : \A i \in 1..Len(plan[s].del) : r.id # plan[s].del[i]}
                \cup {plan[s].ins[i] : i \in 1..Len(plan[s].ins)}]
    /\ UNCHANGED <<remoteVars, version, csv, torn, plan, planFresh>>

Commit(s) ==
    /\ MirrorSaved(s)
    /\ loaded' = [loaded EXCEPT ![s] = version]
    /\ ckpt' = [ckpt EXCEPT ![s] = NoCheckpoint]
    /\ pc' = [pc EXCEPT ![s] = "done"]
    /\ UNCHANGED committed

RunEnds == pc' = [s \in Shards |-> "idle"] /\ committed' = 0

CrashInCommit(s) ==
    /\ MirrorSaved(s)
    /\ loaded' \in {loaded, [loaded EXCEPT ![s] = version]}
    /\ UNCHANGED ckpt
    /\ RunEnds

\* save_mirror writes the keys, the ids and the sidecar one after another: a
\* crash between leaves files of two mirrors.  mirror[s] then stands for
\* nothing until the export.
CrashInSave(s) ==
    /\ Verified(s)
    /\ torn' = torn \cup {s}
    /\ RunEnds
    /\ UNCHANGED <<remoteVars, version, csv, mirror, plan, planFresh, loaded, ckpt>>

Finish ==
    /\ ~Idle
    /\ \A s \in Shards : pc[s] \in {"done", "failed"}
    /\ RunEnds
    /\ UNCHANGED <<remoteVars, localVars, ckpt>>

\* The process dies, by itself or because a checkpoint is for a different plan
\* (SystemExit in one coroutine ends them all).  Requests may be on their way.
Crash ==
    /\ ~Idle
    /\ RunEnds
    /\ \E lost \in SUBSET Shards :
        late' = [s \in Shards |-> late[s] \cup (IF s \in lost /\ Cardinality(late[s]) < MaxLate THEN Pending(s) ELSE {})]
    /\ UNCHANGED <<d1, fts, triggers, localVars, ckpt>>

-----------------------------------------------------------------------------
(* The operator, between runs.  CSVs change only while no apply is half   *)
(* done: a checkpoint knows its plan by counts, and would be resumed.      *)

Settled(s) == s \notin torn /\ d1[s] = mirror[s] /\ late[s] = {}

\* The CSV of a shard is built again for this version.
Rebuild(s) ==
    /\ Idle
    /\ Settled(s)
    /\ \E keys \in Csvs[s] : csv' = [csv EXCEPT ![version][s] = keys]
    /\ planFresh' = planFresh \ {s}
    /\ UNCHANGED <<remoteVars, version, mirror, torn, plan, loaded, ckpt, pc, committed>>

\* export_d1_mirror --fresh reads a torn mirror back from the shard.
Export(s) ==
    /\ Idle
    /\ s \in torn
    /\ mirror' = [mirror EXCEPT ![s] = d1[s]]
    /\ torn' = torn \ {s}
    /\ UNCHANGED <<remoteVars, version, csv, plan, planFresh, loaded, ckpt, pc, committed>>

\* "delete the checkpoint file to start a shard over against the same plan"
StartOver(s) ==
    /\ Idle
    /\ ckpt[s] # NoCheckpoint
    /\ ckpt' = [ckpt EXCEPT ![s] = NoCheckpoint]
    /\ UNCHANGED <<remoteVars, localVars, pc, committed>>

\* The next quarter: plans and checkpoints live in a directory per version.
NextVersion ==
    /\ Idle
    /\ version < MaxVersion
    /\ \A s \in Shards : Settled(s)
    /\ version' = version + 1
    /\ \E next \in [Shards -> UNION {Csvs[s] : s \in Shards}] :
        /\ \A s \in Shards : next[s] \in Csvs[s]
        /\ csv' = [csv EXCEPT ![version'] = next]
    /\ plan' = [s \in Shards |-> NoPlan]
    /\ planFresh' = {}
    /\ ckpt' = [s \in Shards |-> NoCheckpoint]
    /\ UNCHANGED <<remoteVars, mirror, torn, loaded, pc, committed>>

-----------------------------------------------------------------------------
Coroutine(s) ==
    \/ Skip(s) \/ Begin(s) \/ Resume(s) \/ Prepare(s)
    \/ Insert(s) \/ Delete(s) \/ NextPhase(s)
    \/ TimeOut(s) \/ Fail(s)
    \/ Mismatch(s) \/ Commit(s) \/ CrashInSave(s) \/ CrashInCommit(s)

Next ==
    \/ Start \/ Finish \/ Crash \/ NextVersion
    \/ \E s \in Shards :
        Coroutine(s) \/ ExecuteLate(s) \/ Rebuild(s) \/ Export(s) \/ StartOver(s)

Spec == Init /\ [][Next]_vars

-----------------------------------------------------------------------------
Summary == [prev : Versions, rows : Nat, csv : Nat, ins : Nat, del : Nat, base : Nat,
            delKeys : Nat, maxId : Nat, known : Nat, prevKeys : Nat]
PlanFile == [version : Versions, ins : Seq(Row), del : Seq(Nat), sha : Summary]
CheckpointFile ==
    [phase : {"start", "insert", "delete", "verify", "verify-failed"},
     inserted : Nat, deleted : Nat, sha : Summary]

TypeOK ==
    /\ version \in Versions
    /\ csv \in [Versions -> [Shards -> SUBSET Keys]]
    /\ \A s \in Shards : d1[s] \subseteq Row /\ mirror[s] \subseteq Row
    /\ torn \subseteq Shards
    /\ \A s \in Addresses : fts[s] \subseteq Row
    /\ triggers \subseteq Addresses
    /\ \A s \in Shards : late[s] \subseteq Request
    /\ planFresh \subseteq Shards
    /\ plan \in [Shards -> PlanFile \cup {NoPlan}]
    /\ ckpt \in [Shards -> CheckpointFile \cup {NoCheckpoint}]
    /\ loaded \in [Shards -> Versions]
    /\ pc \in [Shards -> Phase]
    /\ committed \in Nat
    /\ \A s \in Shards : pc[s] = "apply" => ckpt[s] # NoCheckpoint

\* "Never DROPs a live shard": at every moment of every apply, interrupted or
\* not, an address that is in the mirror and in the new CSV is in D1.
SurvivorsServed ==
    \A s \in Shards : KeysOf(mirror[s]) \cap csv[version][s] \subseteq KeysOf(d1[s])

\* The mirror moves only to what D1 really holds, which is the CSV with one row
\* a key: by a save that came to its end, or by the export after one that did
\* not.  No other crash, lost answer, late request or fresh start makes the
\* next diff start from something else.
CommitsWhatIsLive ==
    [][\A s \in Shards : mirror'[s] # mirror[s] =>
        /\ mirror'[s] = d1[s]
        /\ KeysOf(d1[s]) = csv[version][s]
        /\ Cardinality(d1[s]) = Cardinality(csv[version][s])]_vars

\* "Every write statement is idempotent": what INSERT OR IGNORE ignores is
\* always the same row, sent before, never another row that holds its id.
OnlyReplaysIgnored ==
    \A s \in Shards : plan[s] # NoPlan /\ pc[s] # "idle" =>
        \A i \in 1..Len(plan[s].ins), r \in d1[s] :
            r.id = plan[s].ins[i].id => r = plan[s].ins[i]

\* The FTS index lists the rows of the table and no deleted one.
IndexFollows == \A s \in Addresses : fts[s] = d1[s]

\* --max-rows: what the ledger counts passes the cap by one request of each shard
\* at most.  It is no bound on what D1 wrote: a write whose answer is lost is
\* sent again, writes nothing then, and is never counted.
SpendingBounded == committed <= MaxRows + Cardinality(Shards) * RowCost

\* A plan that --reuse-plans takes is the plan a fresh diff would give.
ReuseIsFresh ==
    \A s \in Shards : Idle /\ Reusable(s) =>
        plan[s].ins = Planned(s).ins /\ plan[s].del = Planned(s).del

\* The count of a shard that holds its plan is wrong only on the edges of the
\* ranges: the highest legacy id is a multiple of COUNT_CHUNK, and no range
\* covers its row, or a row of the first block lies in the last legacy chunk too.
MismatchOnlyOnEdges ==
    \A s \in Shards :
        LET p == plan[s]
        IN pc[s] = "apply" /\ ckpt[s].phase \in {"verify", "verify-failed"}
                /\ CountedRows(s) # ExpectedRows(s) =>
            \/ p.sha.maxId < IdBlock /\ p.sha.maxId % CountChunk = 0
            \/ \E r \in d1[s] : r.id \in IdBlock..(Edge(p) - 1)

\* "hard cap on ACTUAL rows written this run" (--max-rows).
HardCap == committed <= MaxRows

=============================================================================
