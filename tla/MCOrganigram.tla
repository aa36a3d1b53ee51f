---------------------------- MODULE MCOrganigram ----------------------------
(***************************************************************************)
(* Instances of Organigram for TLC.  Requests overlap while one service    *)
(* exists; branches of several are edited by one request after the other.  *)
(***************************************************************************)
EXTENDS Organigram, TLC

Busy == {x \in Desks : tx[x] # None}
Made == (roles \cap Services) \cup {tx[x].role : x \in {y \in Busy : tx[y].kind = "create"}}
Several == Cardinality(Made) > 1

\* Bound: beside a second service nothing overlaps, nor ever did.
ChartNext ==
    /\ \/ Several /\ Busy # {} /\ \E x \in Busy : Save(x) \/ Fail(x)
       \/ ~(Several /\ Busy # {}) /\ Next
    /\ Several' => Cardinality(Busy') <= 1 /\ "race" \notin past'

ChartSpec == Init /\ [][ChartNext]_vars

\* Requests do not depend on which desk made them, nor on which service is which.
Alike == Permutations(Services) \cup Permutations(Desks)
=============================================================================
