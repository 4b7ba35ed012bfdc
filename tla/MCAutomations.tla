---------------------------- MODULE MCAutomations ----------------------------
(* Two automations of two routes; a redesign drops the first route, which  *)
(* moves the other up.                                                     *)
EXTENDS Automations

CONSTANTS r1, r2, v1, v2

MCRouteOf == <<r1, r2>>
MCTableOf == [v \in {v1, v2} |-> IF v = v1 THEN <<r1, r2>> ELSE <<r2>>]
=============================================================================
