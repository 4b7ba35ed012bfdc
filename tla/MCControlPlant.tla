---------------------------- MODULE MCControlPlant ----------------------------
(***************************************************************************)
(* Instances of ControlPlant for TLC.  piped: two routes that share a pump *)
(* and the slow valve v1, one of them with a valve v2 of its own and no    *)
(* meter.                                                                  *)
(* claimed: one route and a claimable pump with its own flow sensor.       *)
(***************************************************************************)
EXTENDS ControlPlant

CONSTANTS r1, r2, v1, v2, p1, m1, user

PipedValves == [r \in {r1, r2} |-> IF r = r1 THEN {v1} ELSE {v1, v2}]
PipedPumps == [r \in {r1, r2} |-> p1]
PipedSensors == [r \in {r1, r2} |-> IF r = r1 THEN m1 ELSE NoSensor]
PipedTravel == [r \in {r1, r2} |-> 2]
PipedValveTravel == [v \in {v1, v2} |-> IF v = v1 THEN 2 ELSE 1]

OneValve == [r \in {r1} |-> {v1}]
OnePump == [r \in {r1} |-> p1]
OneSensor == [r \in {r1} |-> NoSensor]
OneTravel == [r \in {r1} |-> 1]
OneValveTravel == [v \in {v1} |-> 1]

PumpLimit == [p \in {p1} |-> 4]
PlainSpec == {[maxRuntime |-> 1, duration |-> 0, volume |-> FALSE]}
=============================================================================
