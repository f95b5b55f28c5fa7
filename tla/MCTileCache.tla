---------------------------- MODULE MCTileCache ----------------------------
(* TileCache on two tiles, one twice the size of the other: the raw cache   *)
(* holds both, the decoded cache either one.                                *)
EXTENDS TileCache, TLC

CONSTANTS small, large

MCTiles == {small, large}
MCSize == (small :> 1) @@ (large :> 2)
MCBudget == ("decoded" :> 2) @@ ("bytes" :> 3)
=============================================================================
