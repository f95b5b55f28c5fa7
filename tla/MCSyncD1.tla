------------------------------ MODULE MCSyncD1 ------------------------------
(* SyncD1 on one address shard and one segment shard.  The address shard    *)
(* starts with a duplicate row, or with its highest id on the edge of a     *)
(* counting chunk.  Ids 10 and 11 are of the first block and of the last    *)
(* legacy chunk, 8..11.                                                     *)
EXTENDS SyncD1, TLC

CONSTANTS addr, seg

R(i, k) == [id |-> i, key |-> k]
MCLegacy == (addr :> {{R(1, 2), R(2, 2), R(3, 1)}, {R(1, 1), R(4, 2)}})
         @@ (seg :> {{R(1, 1)}})
MCCsvs == (addr :> {{2, 3}, {1, 2}}) @@ (seg :> {{1, 2}})

\* Both are of one state.
MCAddressesOf == [s \in Shards |-> addr]

\* The build is deterministic: one CSV a shard.
MCOneCsv == (addr :> {{2, 3}}) @@ (seg :> {{1, 2}})
=============================================================================
