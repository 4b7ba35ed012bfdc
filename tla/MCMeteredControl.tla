--------------------------- MODULE MCMeteredControl ---------------------------
(***************************************************************************)
(* Instances of MeteredControl for TLC, over the plants of MCRouteControl: *)
(* three routes, two of them behind one meter and one pump, with two slots *)
(* for them; and the two metered routes with a single slot.                *)
(***************************************************************************)
EXTENDS MeteredControl, MCRouteControl

\* The two routes behind the meter are alike, together with their valves.
Other(x) == CASE x = r1 -> r2 [] x = r2 -> r1 [] x = v1 -> v2 [] x = v2 -> v1
Alike == {[x \in {r1, r2, v1, v2} |-> IF swap THEN Other(x) ELSE x] : swap \in BOOLEAN}
=============================================================================
