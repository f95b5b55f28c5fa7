--------------------------- MODULE MCMirrorFiles ---------------------------
(* MirrorFiles on a shard of twenty rows, of which each quarter loses one   *)
(* and may gain one: changes that pass the gates as they are in the code.   *)
EXTENDS MirrorFiles

MCFirstRows == [i \in 1..20 |-> [id |-> i, key |-> i]]
MCCsvs == [v \in 0..MaxVersion |->
    CASE v = 0 -> {1..20}
      [] v = 1 -> {2..21}
      [] OTHER -> {2..20, 3..22}]
=============================================================================
