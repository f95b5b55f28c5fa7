----------------------------- MODULE MCOverlay ------------------------------
(* Overlay on every network over five nodes with one edge, or none, for     *)
(* each of six pairs, and for one pair two: a chain, a detour against a     *)
(* slow direct road, roads faster than the estimate assumes, and nodes      *)
(* without an edge.                                                         *)
EXTENDS Overlay, TLC

MCPos == <<<<0, 0>>, <<0, 2>>, <<1, 4>>, <<2, 2>>, <<0, 3>>>>

Link(a, b, times, l) ==
    {{}} \cup {{[ends |-> {a, b}, time |-> t, len |-> l]} : t \in times}
Pair(a, b, t, l) == {[ends |-> {a, b}, time |-> t, len |-> l],
                     [ends |-> {a, b}, time |-> t + 1, len |-> 2 * l]}
MCGraphs == {UNION {c[i] : i \in DOMAIN c} : c \in
    Link(1, 2, {3}, 1) \X Link(2, 3, {2, 4}, 2) \X Link(1, 4, {5}, 4)
        \X Link(4, 3, {2}, 8) \X (Link(2, 4, {2}, 16) \cup {Pair(2, 4, 1, 32)}) \X Link(1, 3, {20}, 128)}

MCRoutes == {[src |-> <<0, 0>>, dst |-> <<1, 4>>], [src |-> <<2, 3>>, dst |-> <<0, 2>>]}
=============================================================================
