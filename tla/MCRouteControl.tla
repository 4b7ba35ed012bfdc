---------------------------- MODULE MCRouteControl ----------------------------
(***************************************************************************)
(* Instances of RouteControl for TLC.  Two small plants:                   *)
(*   shared - two routes through one meter and one pump, and a gravity     *)
(*            route beside them: conflicts, the queue, the actuators;      *)
(*   quiet  - the two metered routes and a single slot, with every branch  *)
(*            of the safety monitor, under fairness (module MCQuiet).      *)
(***************************************************************************)
EXTENDS RouteControl

CONSTANTS r1, r2, r3, v1, v2, v3, p1, m1, user

SharedValves == [r \in {r1, r2, r3} |-> CASE r = r1 -> {v1} [] r = r2 -> {v2}
                                          [] r = r3 -> {v3}]
SharedPumps == [r \in {r1, r2, r3} |-> IF r = r3 THEN NoPump ELSE p1]
SharedSensors == [r \in {r1, r2, r3} |-> IF r = r3 THEN NoSensor ELSE m1]
SharedTravel == [r \in {r1, r2, r3} |-> 1]

TwoValves == [r \in {r1, r2} |-> IF r = r1 THEN {v1} ELSE {v2}]
TwoPumps == [r \in {r1, r2} |-> p1]
TwoSensors == [r \in {r1, r2} |-> m1]
TwoTravel == [r \in {r1, r2} |-> 1]

PumpLimit == [p \in {p1} |-> 5]

PlainSpec == {[maxRuntime |-> 1, duration |-> 0, volume |-> FALSE]}
AllSpecs == {[maxRuntime |-> 6, duration |-> 0, volume |-> FALSE],
             [maxRuntime |-> 6, duration |-> 2, volume |-> FALSE],
             [maxRuntime |-> 6, duration |-> 0, volume |-> TRUE]}
=============================================================================
