------------------------------ MODULE MCRouter ------------------------------
(* Router on every network over five nodes in three tiles that picks one of  *)
(* the roads, or none, for each of nine pairs, and for one pair two: a       *)
(* detour of few seconds against a direct road of many, several tile         *)
(* crossings, cycles and dead ends.  Every road has a length of its own, so  *)
(* a leg names its roads.                                                    *)
EXTENDS Router, TLC

MCPos == <<2, 0, 4, 5, 6>>
MCTileOf == <<"a", "a", "a", "b", "c">>

Roads(from, to, times, l) ==
    {{}} \cup {{[from |-> from, to |-> to, time |-> t, len |-> l]} : t \in times}
Pair(from, to, t, l) == {[from |-> from, to |-> to, time |-> t, len |-> l],
                         [from |-> from, to |-> to, time |-> t + 2, len |-> 2 * l]}
MCGraphs == {UNION {c[i] : i \in DOMAIN c} : c \in
    Roads(1, 2, {2}, 1) \X (Roads(2, 3, {4}, 2) \cup {Pair(2, 3, 4, 2)})
        \X Roads(1, 3, {8, 15}, 8) \X Roads(3, 4, {1, 4}, 16) \X Roads(2, 4, {5}, 32)
        \X Roads(4, 5, {1}, 64) \X Roads(3, 5, {2, 7}, 128) \X Roads(5, 4, {1}, 256)
        \X Roads(4, 3, {1}, 512)}

MCRequests == {
    [cands |-> <<{4}, {3}>>, at |-> <<5, 4>>],
    [cands |-> <<{5, 2}, {4}>>, at |-> <<6, 5>>],
    [cands |-> <<{5}, {}, {1, 3}>>, at |-> <<6, 0, 2>>]}
\* Two addresses that snap to the same nodes.
MCNeighbours == {[cands |-> <<{4, 3}, {3, 4}>>, at |-> <<4, 4>>]}
=============================================================================
