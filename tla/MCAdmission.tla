---------------------------- MODULE MCAdmission ----------------------------
(* Admission on a small instance: two requests of one client, days of two   *)
(* seconds, one midnight.  The requests are interchangeable, so one of them *)
(* has MaxElements elements and the other any number: it leaves room for    *)
(* the first, which then overshoots, or fills a budget, or is oversize.     *)
EXTENDS Admission

First == CHOOSE r \in Requests : TRUE
MCInit == Init /\ input[First].elements = MaxElements
MCSpec == MCInit /\ [][Next]_vars /\ Fairness
=============================================================================
