------------------------------ MODULE MCMatrix ------------------------------
(* Matrix over tiles of nine by nine: two destinations that share their      *)
(* first node c, which no road reaches, and have a second of their own; a    *)
(* far one for the overlay; one that no road is near; an origin on a road    *)
(* of its own; and a second version in which two nodes have changed places.  *)
EXTENDS Matrix, TLC

Point == [o1 |-> <<2, 2>>, o2 |-> <<11, 2>>, d1 |-> <<6, 7>>, d2 |-> <<4, 7>>, d3 |-> <<5, 31>>,
          d4 |-> <<70, 70>>, d5 |-> <<13, 4>>, e |-> <<5, 10>>]
MCPlace == [q \in DOMAIN Point \cup {"x"} |-> IF q = "x" THEN NOT_FOUND ELSE Point[q]]
MCCoordinates == DOMAIN Point \ {"e"}

Pos1 == [a |-> <<0, 0>>, b |-> <<3, 2>>, c |-> <<5, 7>>, f |-> <<8, 6>>, g |-> <<1, 6>>,
         h |-> <<5, 30>>, i |-> <<11, 3>>, j |-> <<14, 4>>]
MCPos == <<Pos1, [Pos1 EXCEPT !.f = Pos1.g, !.g = Pos1.f]>>
MCReach == <<{"a", "b", "f", "g", "h"} \X {"a", "b", "f", "g", "h"} \cup {<<"i", "j">>, <<"c", "c">>},
             {<<"b", "f">>, <<"b", "c">>, <<"i", "j">>}>>

Query(os, ds, router, probe) == [origins |-> os, dests |-> ds, router |-> router, probe |-> probe]
MCAsks == {
    Query(<<"o1">>, <<"d1", "d2">>, "auto", FALSE),
    Query(<<"o1">>, <<"d2">>, "ts", FALSE),
    Query(<<"o1">>, <<"d2", "d2">>, "ts", FALSE),
    Query(<<"o2">>, <<"d5">>, "auto", TRUE),
    Query(<<"o1", "o2">>, <<"d1", "x">>, "wasm", FALSE),
    Query(<<"o1">>, <<"d3", "d4">>, "wasm", FALSE),
    Query(<<"x">>, <<"e">>, "auto", FALSE),
    Query(<<>>, <<"d1">>, "auto", FALSE),
    Query(<<"o1", "o2">>, <<"d1", "d2", "d3">>, "auto", FALSE)}

Symmetry == Permutations(Requests)
=============================================================================
