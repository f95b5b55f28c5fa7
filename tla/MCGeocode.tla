----------------------------- MODULE MCGeocode -----------------------------
(* Geocode with two shards and one refresh.  The queries: an address that    *)
(* every version has, the same street under the full name of its state with  *)
(* two spellings of "court", one that names no state, one that a refresh     *)
(* adds, one it removes, one in a state whose name holds another's, and two  *)
(* that never reach a shard.                                                 *)
EXTENDS Geocode, TLC

MCStates == <<"ct", "tx">>
MCCodes == {"ct", "tx", "va", "wv"}
MCAbbr == [court |-> "ct", road |-> "rd"]
MCNames == <<[name |-> <<"texas">>, code |-> "tx"], [name |-> <<"virginia">>, code |-> "va"],
             [name |-> <<"west", "virginia">>, code |-> "wv"]>>
MCNumbers == [w \in {"5", "7", "9", "12", "30", "75001", "76701"} |->
    CASE w = "5" -> 5 [] w = "7" -> 7 [] w = "9" -> 9 [] w = "12" -> 12 [] w = "30" -> 30
      [] w = "75001" -> 75001 [] OTHER -> 76701]
MCFiveDigits == {"75001", "76701"}
MCZip3 == [w \in {"75001"} |-> "tx"]
MCShort == {"ct", "rd", "st", "tx", "5", "7", "9", "12", "30"}
MCCoordinates == {<<"30.1", ",", "-97.2">>}
MCQueries == MCCoordinates \cup {
    <<"12", "oak", "court", ",", "austin", ",", "tx">>,
    <<"12", "oak", "court", ",", "austin", ",", "texas">>,
    <<"12", "oak", "ct", ",", "austin", ",", "texas">>,
    <<"7", "elm", "st">>,
    <<"30", "pine", "road", ",", "waco", ",", "tx", "76701">>,
    <<"9", "ash", "st", ",", "tyler", "75001">>,
    <<"5", "elm", "st", ",", "dunbar", ",", "west", "virginia">>,
    <<"75001", "tx">>}

Row(s, vs, ws, t) == [state |-> s, versions |-> vs, words |-> ws, tier |-> t]
MCRows == {
    Row("tx", {1, 2}, <<"12", "oak", "ct", "austin", "tx">>, "rooftop"),
    Row("ct", {1, 2}, <<"7", "elm", "st", "hartford", "ct">>, "interpolated"),
    Row("tx", {1, 2}, <<"7", "elm", "st", "waco", "tx">>, "rooftop"),
    Row("tx", {2}, <<"30", "pine", "rd", "waco", "tx", "76701">>, "rooftop"),
    Row("tx", {1}, <<"9", "ash", "st", "tyler", "tx", "75001">>, "rooftop")}

Segment(s, vs, street, z, a, b) ==
    [state |-> s, versions |-> vs, street |-> street, zip |-> z, from |-> a, to |-> b]
MCSegments == {
    Segment("tx", {1, 2}, <<"oak", "ct">>, "78701", 1, 20),
    Segment("ct", {1, 2}, <<"oak", "ct">>, "06001", 10, 30),
    Segment("tx", {1, 2}, <<"pine", "rd">>, "76701", 30, 30),
    Segment("tx", {1, 2}, <<"pine", "rd">>, "76702", 1, 99)}

Symmetry == Permutations(Requests)
=============================================================================
