------------------------------ MODULE ControlPlant ------------------------------
(***************************************************************************)
(* The control kernel and the plant it drives.  A valve cover is time      *)
(* based: told to open or close it travels for its travel time, told to    *)
(* stop it stays where it is, and the kernel never hears back.  The kernel *)
(* only speaks when its commanded mask changes, so what keeps a pump from  *)
(* pushing against a closed valve is timing alone.  position and target    *)
(* are where each valve is and where it is heading.  The rest is history:  *)
(* drivenFor is how long each pump has been on without a route or the      *)
(* override since it was last off, renewed how often a route, the override *)
(* or an operator's reset has come by in that time, claimedSince the       *)
(* claims there have been since the last tick, which alone looks at them,  *)
(* and keptOpen the valves that were still wanted by something else after  *)
(* the stopping run in the slot had let go of them.                        *)
(***************************************************************************)
EXTENDS RouteControl

CONSTANTS
  ValveTravel,          \* [Valve -> Nat]  seconds from closed to open
  LongestTravel,
  MaxRenewals           \* bound: renewals the history follows

\* route_travel_ms_ takes the slowest valve of the route.
ASSUME TravelAssumption ==
  /\ ValveTravel \in [Valve -> 0 .. LongestTravel] /\ LongestTravel \in Nat
  /\ \A r \in Route : \A v \in ValvesOf[r] : ValveTravel[v] <= Travel[r]

\* A tick comes within the margin the kernel adds to the travel, the window in
\* which the valves of a stop are held is not empty, and the runtime limits of
\* pumps lie below the wrap of the clock.
ASSUME MarginAssumption ==
  /\ Lag1 <= SETTLE /\ 0 < DEPRESSURIZE
  /\ \A p \in Pump : PumpMaxRuntime[p] + Lag1 < Wrap

ASSUME RenewalAssumption == MaxRenewals \in Nat

VARIABLES position, target, drivenFor, renewed, claimedSince, keptOpen

plant == <<position, target, drivenFor, renewed, claimedSince, keptOpen>>

Open(v) == position[v] = ValveTravel[v]

Toward(here, there) ==
  IF here < there THEN here + 1 ELSE IF here > there THEN here - 1 ELSE here

\* The valves the 2 s monitor tells to stop: those of a run that faults.
Resynced ==
  UNION {ValvesOf[slots[s].route] :
           s \in {t \in Slot : /\ slots[t].state = "RUNNING"
                               /\ slots'[t].state = "FAULT"}}

\* The valves of a stopping run that it no longer asks for.
LetGo(sl) == IF sl.state = "STOPPING" THEN ValvesOf[sl.route] \ SlotValves(sl) ELSE {}

\* The pump is on, and no route and no override is the reason.
ByClaim(p) == p \in pumpsOn /\ ~RouteNeeds(slots, p) /\ ~safety_override

OperatorResets(p) ==
  ResetFaults \/ \E peerHolds \in BOOLEAN : p \in Claimable /\ Release(p, peerHolds)

\* setup() tells every valve to close, wherever it was.
PlantInit ==
  /\ Init
  /\ position \in {f \in [Valve -> 0 .. LongestTravel] :
                     \A v \in Valve : f[v] <= ValveTravel[v]}
  /\ target = [v \in Valve |-> 0]
  /\ drivenFor = [p \in Pump |-> 0]
  /\ renewed = [p \in Pump |-> 0]
  /\ claimedSince = {}
  /\ keptOpen = [s \in Slot |-> {}]

Renews(p) == (ByClaim(p) /\ ~ByClaim(p)') \/ OperatorResets(p)

\* What a step of the kernel does to the plant.
Physics ==
  /\ target' = [v \in Valve |->
       IF v \in commanded' \ commanded THEN ValveTravel[v]
       ELSE IF v \in commanded \ commanded' THEN 0
       ELSE IF v \in Resynced THEN position[v]
       ELSE target[v]]
  /\ position' = [v \in Valve |->
       IF since1' > since1 THEN Toward(position[v], target[v]) ELSE position[v]]
  /\ renewed' = [p \in Pump |->
       IF p \notin pumpsOn' THEN 0
       ELSE IF Renews(p) /\ renewed[p] <= MaxRenewals THEN renewed[p] + 1
       ELSE renewed[p]]
  /\ drivenFor' = [p \in Pump |->
       IF p \notin pumpsOn' \/ renewed'[p] > MaxRenewals THEN 0
       ELSE IF since1' > since1 /\ ByClaim(p)' THEN drivenFor[p] + 1
       ELSE drivenFor[p]]
  /\ claimedSince' = IF since1' < since1 THEN claims' ELSE claimedSince \cup claims'
  /\ keptOpen' = [s \in Slot |->
       IF slots'[s].state # "STOPPING" THEN {}
       ELSE IF since1' < since1 THEN keptOpen[s] \cup (commanded' \cap LetGo(slots'[s]))
       ELSE keptOpen[s]]

PlantNext == Next /\ Physics

PlantSpec == PlantInit /\ [][PlantNext]_<<vars, plant>>

-----------------------------------------------------------------------------
\* A pump that no claim drives never pushes against a closed valve: while it is
\* on, the whole path of some route of that pump stands fully open.  This spans
\* the start (the relay waits for the travel) and the stop (the valves are held
\* until the pump is off), across stops, faults and resets between the ticks.
PumpOnlyThroughOpenPath ==
  \A p \in pumpsOn \ claimedSince :
    \E r \in Route : PumpOf[r] = p /\ \A v \in ValvesOf[r] : Open(v)

\* architecture.md: "the slot only declares itself idle once the valves have
\* physically had time to close".  A stopped run that leaves its slot leaves its
\* valves closed, those aside that something else kept open after the run had let
\* go of them: another run through the same valve, a fault, a claim.
IdleMeansClosed ==
  [][\A s \in Slot :
       slots[s].state = "STOPPING" /\ slots'[s] # slots[s] /\ since1' < since1
         => \A v \in ValvesOf[slots[s].route] \ keptOpen[s] :
              position[v] = 0]_<<vars, plant>>

\* The longest time for which the guard lets a claim drive a pump: its runtime
\* limit, give or take the ticks that see it begin and end.
Allowance(p) == PumpMaxRuntime[p] + 2 * Lag1

\* A claim cannot keep a pump running for ever.  Since the pump was last off it
\* has been on for the claim no longer than the guard allows, once for the claim
\* and once more for every route that took it over in between, every override
\* and every reset, and for nothing else: leases that lapse and are renewed
\* between the ticks, or routes that start and stop without it, gain no time.
ClaimRunBounded ==
  \A p \in Pump : drivenFor[p] <= (renewed[p] + 1) * Allowance(p)
=============================================================================
