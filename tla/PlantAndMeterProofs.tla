------------------------- MODULE PlantAndMeterProofs -------------------------
(***************************************************************************)
(* Proofs about what stands beside the kernel, for every plant, every      *)
(* number of slots and every order of commands, claims and ticks: first    *)
(* the valves and pumps it drives, then the run meter that watches its     *)
(* slots.  The invariant of the kernel itself (Inv) is that of             *)
(* RouteControlProofs.                                                     *)
(*                                                                         *)
(* The kernel never hears back from a valve, so all that is said of valves *)
(* rests on the relation between the age of a slot and the way its valves  *)
(* have come since.  The meter compares states from tick to tick, so its   *)
(* part rests on what it has seen of each slot, and since when.            *)
(***************************************************************************)
EXTENDS ControlPlant, MeteredControl, RouteControlProofs

-----------------------------------------------------------------------------
(* Valves and pumps: the inductive invariant.                              *)

PlantType ==
  /\ \A v \in Valve : position[v] \in Nat /\ position[v] <= ValveTravel[v]
  /\ position = [v \in Valve |-> position[v]]
  /\ drivenFor \in [Pump -> Nat] /\ renewed \in [Pump -> Nat]
  /\ keptOpen \in [Slot -> SUBSET Valve]

\* A valve is heading where it was told to go, also after a fault's stop.
Directed == \A v \in Valve : target[v] = IF v \in commanded THEN ValveTravel[v] ELSE 0

HeldOpen(v) == v \in commanded /\ Open(v)

\* How far a valve has come by the age of the run in the slot.  A start or a stop
\* since the last tick has not been acted upon yet.
Conduit(s) ==
  \A v \in ValvesOf[slots[s].route] :
    /\ slots[s].state = "RUNNING" => HeldOpen(v)
    /\ slots[s].state = "PREPARING" =>
         \/ slots[s].age <= since1
         \/ v \in commanded /\ (Open(v) \/ slots[s].age <= position[v] + Lag1)
    /\ slots[s].state = "STOPPING" =>
         \/ v \in keptOpen[s]
         \/ slots[s].age < DEPRESSURIZE + since1
         \/ /\ v \notin commanded
            /\ \/ position[v] = 0
               \/ position[v] + slots[s].age < ValveTravel[v] + DEPRESSURIZE + Lag1

Conduits == \A s \in Slot : slots[s].state # "IDLE" => Conduit(s)

\* A pump that no claim drives has a path; it stays so until the next tick.
Driven(p) ==
  p \in pumpsOn \ claimedSince =>
    \E r \in Route : PumpOf[r] = p /\ \A v \in ValvesOf[r] : HeldOpen(v)

\* What the renewals so far were worth.
Spent(p) == renewed[p] * Allowance(p)

\* What the claim has used of the present one: the guard's clock runs at most one
\* tick behind, and begins with the first tick.
Used(p) ==
  IF ~ByClaim(p) THEN 0
  ELSE IF guard[p].runFor = NotSince THEN since1 ELSE guard[p].runFor + Lag1

Guarded(p) ==
  /\ guard[p].latch = "NONE" => guard[p].runFor <= PumpMaxRuntime[p] + since1
  /\ p \in pumpsOn => guard[p].runFor = NotSince \/ guard[p].latch = "NONE"
  /\ drivenFor[p] <= Spent(p) + Used(p)

PlantInv ==
  PlantType /\ Directed /\ Conduits /\ \A p \in Pump : Driven(p) /\ Guarded(p)

-----------------------------------------------------------------------------
(* What a step does to a slot, as far as its valves are concerned.         *)

LEMMA PlantNumbers ==
  /\ Lag1 \in Nat /\ SETTLE \in Nat /\ DEPRESSURIZE \in Nat /\ Wrap \in Nat
  /\ 0 < Lag1 /\ Lag1 <= SETTLE /\ 0 < DEPRESSURIZE
BY BoundsAssumption, MarginAssumption

LEMMA ValveFacts ==
  ASSUME NEW sl \in SlotRecord, sl.state # "IDLE", sl.state = "IDLE" <=> sl.route = NoRoute,
         NEW v \in ValvesOf[sl.route]
  PROVE  /\ v \in Valve /\ ValveTravel[v] \in Nat /\ Travel[sl.route] \in Nat
         /\ ValveTravel[v] <= Travel[sl.route]
<1>1. sl.route \in Route
  BY DEF SlotRecord
<1>2. v \in Valve /\ Travel[sl.route] \in Nat
  BY <1>1, TableAssumption DEF RouteTable
<1> QED
  BY <1>1, <1>2, TravelAssumption

\* The steps between two ticks, time aside.
Between(new, old) ==
  \/ new.route = old.route /\ new.state = old.state /\ new.age = old.age
  \/ /\ Live(old) /\ new.route = old.route /\ new.age = 0
     /\ new.state \in {"STOPPING", "FAULT"} /\ (new.state = "FAULT" => old.state = "RUNNING")
  \/ old.state = "IDLE" /\ new.state = "PREPARING" /\ new.age = 0
  \/ new.state = "IDLE"

LEMMA StoppedFacts ==
  ASSUME NEW sl, NEW state, NEW why
  PROVE  /\ Stopped(sl, state, why).state = state /\ Stopped(sl, state, why).age = 0
         /\ Stopped(sl, state, why).route = sl.route
BY DEF Stopped, EmptySlot

LEMMA CommandIsBetween ==
  ASSUME Inv, Commands, NEW s \in Slot
  PROVE  Between(slots'[s], slots[s])
<1>1. CASE slots'[s] = slots[s]
  BY <1>1 DEF Between
<1>2. CASE Refilled(slots'[s], slots[s])
  <2>1. slots'[s].state = "PREPARING" /\ slots'[s].age = 0
    BY <1>2, FreshFacts DEF Refilled
  <2> QED
    BY <1>2, <2>1 DEF Refilled, Between
<1>3. CASE Live(slots[s]) /\ slots'[s] = Stopped(slots[s], "STOPPING", "MANUAL")
  BY <1>3, StoppedFacts DEF Between
<1>4. CASE slots[s].state = "FAULT" /\ slots'[s] = EmptySlot
  BY <1>4 DEF Between, EmptySlot
<1> QED
  BY <1>1, <1>2, <1>3, <1>4, CommandMoves

LEMMA Tick2sIsBetween ==
  ASSUME Inv, SomeTick2s, NEW s \in Slot
  PROVE  Between(slots'[s], slots[s])
<1> DEFINE sl == slots[s]
<1>1. sl \in SlotRecord
  BY DEF Inv, TypeOK
<1>2. PICK flow, low, full, volumeMet : Tick2s(flow, low, full, volumeMet)
  BY DEF SomeTick2s
<1>3. CASE safety_override \/ sl.state # "RUNNING"
  BY <1>2, <1>3 DEF Tick2s, Between
<1>4. CASE ~safety_override /\ sl.state = "RUNNING"
  <2> DEFINE m == Sampled(sl, s \in flow)
             clean == CleanStop(m, s \in low, s \in full, s \in volumeMet)
  <2>1. slots'[s] = WatchSlot(sl, s \in flow, s \in low, s \in full, s \in volumeMet)
    BY <1>2, <1>4 DEF Tick2s
  <2>2. m.route = sl.route /\ m.state = sl.state /\ m.age = sl.age
    BY <1>1 DEF Sampled, SlotRecord
  <2>3. \/ slots'[s] = m
        \/ \E state \in {"STOPPING", "FAULT"}, why \in StopReasons : slots'[s] = Stopped(m, state, why)
    <3>1. /\ clean \in StopReasons /\ "NO_FLOW" \in StopReasons
          /\ "FLOW_STALLED" \in StopReasons /\ "TANK_FULL" \in StopReasons
      BY CleanStopType DEF StopReasons
    <3> HIDE DEF m, clean
    <3> QED
      BY <2>1, <3>1 DEF WatchSlot, m, clean
  <2>4. CASE slots'[s] = m
    BY <2>2, <2>4 DEF Between
  <2>5. ASSUME NEW state \in {"STOPPING", "FAULT"}, NEW why \in StopReasons, slots'[s] = Stopped(m, state, why)
        PROVE  Between(slots'[s], slots[s])
    <3>1. slots'[s].state = state /\ slots'[s].age = 0 /\ slots'[s].route = m.route
      BY <2>5, StoppedFacts
    <3> QED
      BY <1>4, <2>2, <3>1 DEF Between, Live
  <2> QED
    BY <2>3, <2>4, <2>5
<1> QED
  BY <1>3, <1>4

\* The guard of a pump is left alone between two ticks, or an operator resets it.
GuardKept(p) ==
  \/ guard'[p] = guard[p]
  \/ OperatorResets(p) /\ guard'[p].latch = "NONE" /\ guard'[p].runFor = NotSince

\* A step is a 1 s tick, a second that passes, or one of those in between, which
\* leave valves and relays alone.
Quiet ==
  /\ UNCHANGED <<since1, commanded, pumpsOn>>
  /\ \A s \in Slot : Between(slots'[s], slots[s])
  /\ \A p \in Pump : GuardKept(p)

LEMMA PlantStepKinds ==
  ASSUME Inv, Next
  PROVE  SomeTick1s \/ Elapse \/ Quiet
<1>1. CASE Commands
  <2>1. UNCHANGED <<since1, commanded, pumpsOn>>
    BY <1>1 DEF Commands, StartRoute, StopRoute, StopAll, ClearQueue, ResetFaults,
                FaultReset, SetOverride, outputs
  <2>2. ASSUME NEW p \in Pump
        PROVE  GuardKept(p)
    <3>1. CASE ResetFaults
      <4>1. guard[p] \in PumpGuard /\ guard'[p] = [guard[p] EXCEPT !.latch = "NONE", !.runFor = NotSince]
        BY <3>1 DEF ResetFaults, Inv, TypeOK
      <4>2. guard'[p].latch = "NONE" /\ guard'[p].runFor = NotSince
        BY <4>1 DEF PumpGuard
      <4> QED
        BY <3>1, <4>2 DEF GuardKept, OperatorResets
    <3>2. CASE guard' = guard
      BY <3>2 DEF GuardKept
    <3> QED
      BY <1>1, <3>1, <3>2 DEF Commands, StartRoute, StopRoute, StopAll, ClearQueue,
                              FaultReset, SetOverride, outputs
  <2> QED
    BY <1>1, <2>1, <2>2, CommandIsBetween DEF Quiet
<1>2. CASE ClaimChanges
  <2>1. UNCHANGED <<slots, since1, commanded, pumpsOn>>
    BY <1>2 DEF ClaimChanges, Extend, Release, Lapse, control, outputs
  <2>2. ASSUME NEW p \in Pump
        PROVE  GuardKept(p)
    <3>1. CASE guard' = guard
      BY <3>1 DEF GuardKept
    <3>2. ASSUME NEW n \in Claimable, NEW peerHolds \in BOOLEAN, Release(n, peerHolds)
          PROVE  GuardKept(p)
      <4>1. CASE n = p
        <5>1. guard[p] \in PumpGuard /\ guard \in [Pump -> PumpGuard]
          BY DEF Inv, TypeOK
        <5>2. guard' = [guard EXCEPT ![p].latch = "NONE", ![p].runFor = NotSince]
          BY <3>2, <4>1 DEF Release
        <5>3. guard'[p].latch = "NONE" /\ guard'[p].runFor = NotSince
          BY <5>1, <5>2 DEF PumpGuard
        <5> QED
          BY <3>2, <4>1, <5>3 DEF GuardKept, OperatorResets
      <4>2. CASE n # p
        BY <3>2, <4>2 DEF Release, GuardKept, Inv, TypeOK
      <4> QED
        BY <4>1, <4>2
    <3> QED
      BY <1>2, <3>1, <3>2 DEF ClaimChanges, Extend, Lapse, outputs
  <2> QED
    BY <2>1, <2>2 DEF Quiet, Between
<1>3. CASE SomeTick2s
  <2>1. UNCHANGED <<since1, commanded, pumpsOn, guard>>
    BY <1>3 DEF SomeTick2s, Tick2s, outputs
  <2> QED
    BY <1>3, <2>1, Tick2sIsBetween DEF Quiet, GuardKept
<1> QED
  BY <1>1, <1>2, <1>3 DEF Next

-----------------------------------------------------------------------------
(* Valves.                                                                 *)

LEMMA SlotFacts ==
  ASSUME Inv, NEW s \in Slot, slots[s].state # "IDLE"
  PROVE  /\ slots[s] \in SlotRecord /\ slots[s].route \in Route /\ slots[s].age \in Nat
         /\ Travel[slots[s].route] \in Nat
         /\ \A v \in ValvesOf[slots[s].route] :
              /\ v \in Valve /\ ValveTravel[v] \in Nat
              /\ ValveTravel[v] <= Travel[slots[s].route]
<1>1. slots[s] \in SlotRecord /\ (slots[s].state = "IDLE" <=> slots[s].route = NoRoute)
  BY DEF Inv, TypeOK, OneSlotPerRoute
<1>2. slots[s].route \in Route /\ slots[s].age \in Nat
  BY <1>1, BoundsAssumption DEF SlotRecord, Age
<1>3. Travel[slots[s].route] \in Nat
  BY <1>2, TableAssumption DEF RouteTable
<1> QED
  BY <1>1, <1>2, <1>3, ValveFacts

\* A stop of the monitor leaves a valve where it stands, which is open.
LEMMA ResyncedIsOpen ==
  ASSUME Inv, Conduits, NEW v \in Resynced
  PROVE  v \in commanded /\ position[v] = ValveTravel[v]
<1>1. PICK s \in Slot : slots[s].state = "RUNNING" /\ v \in ValvesOf[slots[s].route]
  BY DEF Resynced
<1> QED
  BY <1>1 DEF Conduits, Conduit, HeldOpen, Open

LEMMA QuietDirected ==
  ASSUME Inv, Directed, Conduits, Physics, Quiet
  PROVE  Directed'
<1> SUFFICES ASSUME NEW v \in Valve
             PROVE  target'[v] = IF v \in commanded' THEN ValveTravel[v] ELSE 0
  BY DEF Directed
<1>1. target'[v] = IF v \in Resynced THEN position[v] ELSE target[v]
  BY DEF Physics, Quiet
<1>2. target[v] = IF v \in commanded THEN ValveTravel[v] ELSE 0
  BY DEF Directed
<1> QED
  BY <1>1, <1>2, ResyncedIsOpen DEF Quiet

\* Only the monitor makes a run fault.
LEMMA TicksDoNotFault ==
  ASSUME Inv, SomeTick1s \/ Elapse
  PROVE  Resynced = {}
<1> SUFFICES ASSUME NEW s \in Slot, slots[s].state = "RUNNING", slots'[s].state = "FAULT"
             PROVE  FALSE
  BY DEF Resynced
<1>1. CASE SomeTick1s
  <2>1. TickSlot(slots[s]) = slots[s]
    BY DEF TickSlot
  <2> QED
    BY <1>1, <2>1, Tick1sMoves DEF Refilled
<1>2. CASE Elapse
  <2>1. slots[s] \in SlotRecord
    BY DEF Inv, TypeOK
  <2> QED
    BY <1>2, <2>1 DEF Elapse, OlderSlot, SlotRecord
<1> QED
  BY <1>1, <1>2

LEMMA TickDirected ==
  ASSUME Inv, Directed, Physics, SomeTick1s \/ Elapse
  PROVE  Directed'
<1> SUFFICES ASSUME NEW v \in Valve
             PROVE  target'[v] = IF v \in commanded' THEN ValveTravel[v] ELSE 0
  BY DEF Directed
<1>1. target'[v] = IF v \in commanded' \ commanded THEN ValveTravel[v]
                   ELSE IF v \in commanded \ commanded' THEN 0 ELSE target[v]
  BY TicksDoNotFault DEF Physics
<1>2. target[v] = IF v \in commanded THEN ValveTravel[v] ELSE 0
  BY DEF Directed
<1> QED
  BY <1>1, <1>2

\* A valve moves while time passes, one unit towards where it is heading.
LEMMA Movement ==
  ASSUME PlantType, Physics, NEW v \in Valve
  PROVE  position'[v] = IF since1' > since1 THEN Toward(position[v], target[v])
                        ELSE position[v]
BY DEF Physics

LEMMA PlantTypeKept ==
  ASSUME Inv, Inv', PlantType, Directed, Physics
  PROVE  PlantType'
<1>1. ASSUME NEW v \in Valve
      PROVE  position'[v] \in Nat /\ position'[v] <= ValveTravel[v]
  <2>1. /\ position[v] \in Nat /\ position[v] <= ValveTravel[v] /\ ValveTravel[v] \in Nat
        /\ target[v] \in {0, ValveTravel[v]}
    BY TravelAssumption DEF PlantType, Directed
  <2> QED
    BY <2>1, Movement DEF Toward
<1>2. position' = [v \in Valve |-> position'[v]]
  BY DEF Physics
<1>3. drivenFor' \in [Pump -> Nat] /\ renewed' \in [Pump -> Nat]
  <2>1. renewed' \in [Pump -> Nat]
    BY DEF Physics, PlantType
  <2>2. drivenFor' \in [Pump -> Nat]
    BY DEF Physics, PlantType
  <2> QED
    BY <2>1, <2>2
<1>4. keptOpen' \in [Slot -> SUBSET Valve]
  <2>1. commanded' \subseteq Valve
    BY DEF Inv, TypeOK
  <2> QED
    BY <2>1 DEF Physics, PlantType
<1> QED
  BY <1>1, <1>2, <1>3, <1>4 DEF PlantType

-----------------------------------------------------------------------------
(* A slot's valves.                                                        *)

LEMMA QuietConduits ==
  ASSUME Inv, PlantType, Conduits, Physics, Quiet
  PROVE  Conduits'
<1> SUFFICES ASSUME NEW s \in Slot, slots'[s].state # "IDLE",
                    NEW v \in ValvesOf[slots'[s].route]
             PROVE  /\ slots'[s].state = "RUNNING" => HeldOpen(v)'
                    /\ slots'[s].state = "PREPARING" =>
                         \/ slots'[s].age <= since1'
                         \/ v \in commanded' /\ (Open(v)' \/ slots'[s].age <= position'[v] + Lag1)
                    /\ slots'[s].state = "STOPPING" =>
                         \/ v \in keptOpen'[s]
                         \/ slots'[s].age < DEPRESSURIZE + since1'
                         \/ /\ v \notin commanded'
                            /\ \/ position'[v] = 0
                               \/ position'[v] + slots'[s].age
                                    < ValveTravel[v] + DEPRESSURIZE + Lag1
  BY DEF Conduits, Conduit
<1>1. since1' = since1 /\ commanded' = commanded /\ since1 \in Nat
  BY BoundsAssumption DEF Quiet, Inv, TypeOK
<1>2. CASE slots'[s].route = slots[s].route /\ slots'[s].state = slots[s].state
           /\ slots'[s].age = slots[s].age
  <2>1. v \in Valve /\ position'[v] = position[v]
    BY <1>1, <1>2, SlotFacts, Movement
  <2>2. slots'[s].state = "STOPPING" => keptOpen'[s] = keptOpen[s]
    BY <1>1 DEF Physics
  <2>3. Conduit(s)
    BY <1>2 DEF Conduits
  <2> QED
    BY <1>1, <1>2, <2>1, <2>2, <2>3 DEF Conduit, HeldOpen, Open
<1>3. CASE slots'[s].age = 0 /\ slots'[s].state \in {"PREPARING", "STOPPING", "FAULT"}
  BY <1>1, <1>3, PlantNumbers
<1> QED
  BY <1>2, <1>3 DEF Quiet, Between

LEMMA ElapseConduits ==
  ASSUME Inv, PlantType, Directed, Conduits, Physics, Elapse
  PROVE  Conduits'
<1> SUFFICES ASSUME NEW s \in Slot, slots'[s].state # "IDLE",
                    NEW v \in ValvesOf[slots'[s].route]
             PROVE  /\ slots'[s].state = "RUNNING" => HeldOpen(v)'
                    /\ slots'[s].state = "PREPARING" =>
                         \/ slots'[s].age <= since1'
                         \/ v \in commanded' /\ (Open(v)' \/ slots'[s].age <= position'[v] + Lag1)
                    /\ slots'[s].state = "STOPPING" =>
                         \/ v \in keptOpen'[s]
                         \/ slots'[s].age < DEPRESSURIZE + since1'
                         \/ /\ v \notin commanded'
                            /\ \/ position'[v] = 0
                               \/ position'[v] + slots'[s].age
                                    < ValveTravel[v] + DEPRESSURIZE + Lag1
  BY DEF Conduits, Conduit
<1>1. since1' = since1 + 1 /\ commanded' = commanded /\ since1 \in Nat
  BY BoundsAssumption DEF Elapse, Inv, TypeOK
<1>2. slots[s] \in SlotRecord /\ slots'[s] = OlderSlot(slots[s])
  BY DEF Elapse, Inv, TypeOK
<1>3. slots'[s].route = slots[s].route /\ slots'[s].state = slots[s].state
  BY <1>2 DEF OlderSlot, SlotRecord
<1>4. /\ slots[s].age \in Nat /\ v \in Valve /\ ValveTravel[v] \in Nat
      /\ v \in ValvesOf[slots[s].route]
  BY <1>3, SlotFacts
<1>5. slots'[s].age \in Nat /\ (slots'[s].age = slots[s].age + 1 \/ slots'[s].age = 0)
  <2>1. slots'[s].age = (slots[s].age + 1) % Wrap
    <3>1. slots'[s].age = Older(slots[s].age)
      BY <1>2, <1>3 DEF OlderSlot, SlotRecord
    <3> QED
      BY <1>4, <3>1 DEF Older, NotSince
  <2>2. slots[s].age < Wrap /\ Wrap \in Nat
    BY <1>2, BoundsAssumption DEF SlotRecord, Age
  <2>3. CASE slots[s].age + 1 < Wrap
    BY <1>4, <2>1, <2>2, <2>3
  <2>4. CASE slots[s].age + 1 = Wrap
    BY <1>4, <2>1, <2>2, <2>4, BoundsAssumption
  <2> QED
    BY <1>4, <2>2, <2>3, <2>4
<1>6. position'[v] = Toward(position[v], target[v])
  BY <1>1, <1>4, Movement
<1>7. /\ position[v] \in Nat /\ position[v] <= ValveTravel[v]
      /\ target[v] = IF v \in commanded THEN ValveTravel[v] ELSE 0
  BY <1>4 DEF PlantType, Directed
<1>8. Conduit(s)
  BY <1>3 DEF Conduits
<1>9. CASE slots'[s].state = "RUNNING"
  BY <1>1, <1>3, <1>4, <1>6, <1>7, <1>8, <1>9 DEF Conduit, HeldOpen, Open, Toward
<1>10. CASE slots'[s].state = "PREPARING"
  <2>1. CASE slots[s].age <= since1
    BY <1>1, <1>4, <1>5, <1>10, <2>1
  <2>2. CASE v \in commanded /\ (Open(v) \/ slots[s].age <= position[v] + Lag1)
    BY <1>1, <1>4, <1>5, <1>6, <1>7, <1>10, <2>2, PlantNumbers DEF Open, Toward
  <2> QED
    BY <1>3, <1>4, <1>8, <1>10, <2>1, <2>2 DEF Conduit
<1>11. CASE slots'[s].state = "STOPPING"
  <2>1. CASE v \in keptOpen[s]
    BY <1>1, <1>11, <2>1 DEF Physics
  <2>2. CASE slots[s].age < DEPRESSURIZE + since1
    BY <1>1, <1>4, <1>5, <1>11, <2>2, PlantNumbers
  <2>3. CASE /\ v \notin commanded
             /\ \/ position[v] = 0
                \/ position[v] + slots[s].age < ValveTravel[v] + DEPRESSURIZE + Lag1
    BY <1>1, <1>4, <1>5, <1>6, <1>7, <1>11, <2>3, PlantNumbers DEF Toward
  <2> QED
    BY <1>3, <1>4, <1>8, <1>11, <2>1, <2>2, <2>3 DEF Conduit
<1> QED
  BY <1>9, <1>10, <1>11

\* A live slot's valves are commanded after a tick.
LEMMA TickCommands ==
  ASSUME SomeTick1s, NEW s \in Slot, NEW v \in ValvesOf[slots'[s].route],
         Live(slots'[s])
  PROVE  v \in commanded'
<1>1. commanded' = DesiredValves(slots')
  BY DEF SomeTick1s, Tick1s
<1>2. v \in SlotValves(slots'[s])
  BY DEF SlotValves
<1> QED
  BY <1>1, <1>2 DEF DesiredValves

LEMMA TickTimes ==
  ASSUME Inv, SomeTick1s
  PROVE  since1 \in Nat /\ 0 < since1 /\ since1 <= Lag1 /\ since1' = 0
BY BoundsAssumption DEF Inv, TypeOK, SomeTick1s, Tick1s

LEMMA TickConduits ==
  ASSUME Inv, PlantType, Conduits, Physics, SomeTick1s
  PROVE  Conduits'
<1> SUFFICES ASSUME NEW s \in Slot, slots'[s].state # "IDLE",
                    NEW v \in ValvesOf[slots'[s].route]
             PROVE  /\ slots'[s].state = "RUNNING" => HeldOpen(v)'
                    /\ slots'[s].state = "PREPARING" =>
                         \/ slots'[s].age <= since1'
                         \/ v \in commanded' /\ (Open(v)' \/ slots'[s].age <= position'[v] + Lag1)
                    /\ slots'[s].state = "STOPPING" =>
                         \/ v \in keptOpen'[s]
                         \/ slots'[s].age < DEPRESSURIZE + since1'
                         \/ /\ v \notin commanded'
                            /\ \/ position'[v] = 0
                               \/ position'[v] + slots'[s].age
                                    < ValveTravel[v] + DEPRESSURIZE + Lag1
  BY DEF Conduits, Conduit
<1>1. since1 \in Nat /\ 0 < since1 /\ since1 <= Lag1 /\ since1' = 0
  BY TickTimes
<1>2. \/ slots'[s] = TickSlot(slots[s])
      \/ Refilled(slots'[s], TickSlot(slots[s]))
  BY Tick1sMoves
<1>3. CASE Refilled(slots'[s], TickSlot(slots[s]))
  BY <1>1, <1>3, FreshFacts DEF Refilled
<1>4. CASE slots'[s] = TickSlot(slots[s])
  <2>1. slots[s].state # "IDLE"
    BY <1>4 DEF TickSlot
  <2>2. /\ slots[s] \in SlotRecord /\ slots[s].age \in Nat
        /\ Travel[slots[s].route] \in Nat
    BY <2>1, SlotFacts
  <2>3. slots'[s].route = slots[s].route
    BY <1>4, <2>2 DEF TickSlot, SlotRecord, EmptySlot
  <2>4. v \in Valve /\ ValveTravel[v] \in Nat /\ ValveTravel[v] <= Travel[slots[s].route]
    BY <2>1, <2>3, SlotFacts
  <2>5. /\ position'[v] = position[v] /\ position[v] \in Nat
        /\ position[v] <= ValveTravel[v]
    BY <1>1, <2>4, Movement DEF PlantType
  <2>6. Conduit(s)
    BY <2>1 DEF Conduits
  <2>7. CASE slots'[s].state = "RUNNING"
    <3>1. v \in commanded'
      BY <2>7, TickCommands DEF Live
    <3>2. CASE slots[s].state = "RUNNING"
      BY <2>3, <2>5, <2>6, <2>7, <3>1, <3>2 DEF Conduit, HeldOpen, Open
    <3>3. CASE slots[s].state # "RUNNING"
      <4>1. slots[s].state = "PREPARING" /\ slots[s].age > Travel[slots[s].route] + SETTLE
        BY <1>4, <2>2, <2>7, <3>3 DEF TickSlot, SlotRecord, EmptySlot
      <4>2. Open(v) \/ slots[s].age <= position[v] + Lag1
        BY <1>1, <2>2, <2>3, <2>6, <4>1, PlantNumbers DEF Conduit
      <4>3. position[v] = ValveTravel[v]
        BY <2>2, <2>4, <2>5, <4>1, <4>2, PlantNumbers DEF Open
      <4> QED
        BY <2>5, <2>7, <3>1, <4>3 DEF HeldOpen, Open
    <3> QED
      BY <3>2, <3>3
  <2>8. CASE slots'[s].state = "PREPARING"
    <3>1. v \in commanded'
      BY <2>8, TickCommands DEF Live
    <3>2. slots[s].state = "PREPARING" /\ slots'[s].age = slots[s].age
      BY <1>4, <2>2, <2>8 DEF TickSlot, SlotRecord, EmptySlot
    <3>3. \/ slots[s].age <= since1
          \/ Open(v) \/ slots[s].age <= position[v] + Lag1
      BY <2>3, <2>6, <3>2 DEF Conduit
    <3> QED
      BY <1>1, <2>2, <2>5, <2>8, <3>1, <3>2, <3>3, PlantNumbers DEF Open
  <2>9. CASE slots'[s].state = "STOPPING"
    <3>1. slots'[s] = slots[s]
      BY <1>4, <2>2, <2>9 DEF TickSlot, SlotRecord, EmptySlot
    <3>2. keptOpen'[s] = keptOpen[s] \cup (commanded' \cap LetGo(slots'[s]))
      BY <1>1, <2>9 DEF Physics
    <3>3. CASE slots[s].age < DEPRESSURIZE
      BY <1>1, <2>2, <2>9, <3>1, <3>3, PlantNumbers
    <3>4. CASE ~(slots[s].age < DEPRESSURIZE)
      <4>1. v \in LetGo(slots'[s])
        BY <2>9, <3>1, <3>4 DEF LetGo, SlotValves, Live
      <4>2. CASE v \in commanded' \/ v \in keptOpen[s]
        BY <2>9, <3>2, <4>1, <4>2
      <4>3. CASE v \notin commanded' /\ v \notin keptOpen[s]
        <5>1. \/ slots[s].age < DEPRESSURIZE + since1
              \/ position[v] = 0
              \/ position[v] + slots[s].age < ValveTravel[v] + DEPRESSURIZE + Lag1
          BY <2>3, <2>6, <2>9, <3>1, <4>3 DEF Conduit
        <5>2. \/ position[v] = 0
              \/ position[v] + slots[s].age < ValveTravel[v] + DEPRESSURIZE + Lag1
          BY <1>1, <2>2, <2>4, <2>5, <5>1, PlantNumbers
        <5> QED
          BY <2>5, <2>9, <3>1, <4>3, <5>2
      <4> QED
        BY <4>2, <4>3
    <3> QED
      BY <3>3, <3>4
  <2> QED
    BY <2>7, <2>8, <2>9
<1> QED
  BY <1>2, <1>3, <1>4

-----------------------------------------------------------------------------
(* Pumps.                                                                  *)

\* Between two ticks a valve that is held open stays so.
LEMMA HeldOpenStays ==
  ASSUME PlantType, Directed, Physics, Elapse \/ Quiet, NEW v \in Valve, HeldOpen(v)
  PROVE  HeldOpen(v)'
<1>1. commanded' = commanded
  BY DEF Elapse, Quiet
<1>2. target[v] = position[v] /\ position[v] \in Nat
  BY DEF Directed, HeldOpen, Open, PlantType
<1>3. position'[v] = position[v]
  BY <1>2, Movement DEF Toward
<1> QED
  BY <1>1, <1>3 DEF HeldOpen, Open

LEMMA DrivenKept ==
  ASSUME Inv, Inv', PlantType, Directed, Physics, Elapse \/ Quiet, NEW p \in Pump, Driven(p)
  PROVE  Driven(p)'
<1>1. pumpsOn' = pumpsOn /\ ~(since1' < since1)
  BY BoundsAssumption DEF Elapse, Quiet, Inv, TypeOK
<1>2. claimedSince \subseteq claimedSince'
  BY <1>1 DEF Physics
<1> SUFFICES ASSUME p \in pumpsOn' \ claimedSince'
             PROVE  \E r \in Route : PumpOf[r] = p /\ \A v \in ValvesOf[r] : HeldOpen(v)'
  BY DEF Driven
<1>3. PICK r \in Route : PumpOf[r] = p /\ \A v \in ValvesOf[r] : HeldOpen(v)
  BY <1>1, <1>2 DEF Driven
<1>4. \A v \in ValvesOf[r] : v \in Valve
  BY TableAssumption DEF RouteTable
<1> QED
  BY <1>3, <1>4, HeldOpenStays

LEMMA DrivenTicked ==
  ASSUME Inv, Inv', Conduits', Physics, SomeTick1s, NEW p \in Pump
  PROVE  Driven(p)'
<1> SUFFICES ASSUME p \in pumpsOn' \ claimedSince'
             PROVE  \E r \in Route : PumpOf[r] = p /\ \A v \in ValvesOf[r] : HeldOpen(v)'
  BY DEF Driven
<1>1. since1' < since1
  BY TickTimes
<1>2. p \notin claims
  BY <1>1 DEF Physics, SomeTick1s, Tick1s
<1>3. PumpWanted(slots', guard', p)
  BY DEF SomeTick1s, Tick1s
<1>4. PICK s \in Slot : slots'[s].state = "RUNNING" /\ PumpOf[slots'[s].route] = p
  BY <1>2, <1>3 DEF PumpWanted, RouteNeeds
<1>5. slots'[s].route \in Route
  <2>1. /\ slots'[s] \in SlotRecord
        /\ (slots'[s].state = "IDLE" <=> slots'[s].route = NoRoute)
    BY DEF Inv, TypeOK, OneSlotPerRoute
  <2> QED
    BY <1>4, <2>1 DEF SlotRecord
<1>6. \A v \in ValvesOf[slots'[s].route] : HeldOpen(v)'
  BY <1>4 DEF Conduits, Conduit
<1> QED
  BY <1>4, <1>5, <1>6

\* What the guard makes of a pump, by what it finds.
LEMMA GuardTickCases ==
  ASSUME NEW g \in PumpGuard, NEW p \in Pump, NEW table, NEW flow
  PROVE  LET new == GuardTick(g, p, table, flow) IN
         /\ RouteNeeds(table, p) \/ p \notin claims
              => new.runFor = NotSince /\ new.latch = "NONE"
         /\ ~RouteNeeds(table, p) /\ p \in claims /\ safety_override
              => new.runFor = NotSince /\ new.latch = g.latch
         /\ ~RouteNeeds(table, p) /\ p \in claims /\ ~safety_override =>
              IF g.latch # "NONE" THEN new = g
              ELSE /\ new.runFor = IF g.runFor = NotSince THEN 0 ELSE g.runFor
                   /\ new.latch = "NONE" => new.runFor <= PumpMaxRuntime[p]
<1> DEFINE begun == IF g.runFor = NotSince
                    THEN [g EXCEPT !.runFor = 0, !.lastFlow = 0] ELSE g
           seen == IF flow THEN [begun EXCEPT !.lastFlow = 0] ELSE begun
           new == GuardTick(g, p, table, flow)
<1>1. CASE RouteNeeds(table, p) \/ p \notin claims
  BY <1>1 DEF GuardTick, PumpGuard
<1>2. CASE ~RouteNeeds(table, p) /\ p \in claims /\ (safety_override \/ g.latch # "NONE")
  BY <1>2 DEF GuardTick, PumpGuard
<1>3. CASE ~RouteNeeds(table, p) /\ p \in claims /\ ~safety_override /\ g.latch = "NONE"
  <2>1. /\ begun.runFor = IF g.runFor = NotSince THEN 0 ELSE g.runFor
        /\ begun.latch = "NONE" /\ DOMAIN begun = {"latch", "runFor", "lastFlow"}
    BY <1>3 DEF PumpGuard
  <2>2. /\ seen.runFor = begun.runFor /\ seen.latch = "NONE"
        /\ DOMAIN seen = {"latch", "runFor", "lastFlow"}
    <3> HIDE DEF begun
    <3> QED
      BY <2>1
  <2>3. new = IF p \in FlowPump /\ seen.runFor > FlowWatchdog /\ seen.lastFlow > FlowWatchdog
              THEN [seen EXCEPT !.latch = "NO_FLOW"]
              ELSE IF seen.runFor > PumpMaxRuntime[p]
              THEN [seen EXCEPT !.latch = "MAX_RUNTIME"] ELSE seen
    BY <1>3 DEF GuardTick
  <2>4. g.runFor \in Int /\ PumpMaxRuntime[p] \in Nat
    BY BoundsAssumption, TableAssumption DEF PumpGuard, AgeOrNot, Age, NotSince
  <2>5. new.runFor = seen.runFor /\ (new.latch = "NONE" => new.runFor <= PumpMaxRuntime[p])
    <3> HIDE DEF seen, new
    <3>1. seen.runFor \in Int
      BY <2>1, <2>2, <2>4
    <3>2. CASE new = [seen EXCEPT !.latch = "NO_FLOW"]
      BY <2>2, <3>2
    <3>3. CASE new = [seen EXCEPT !.latch = "MAX_RUNTIME"]
      BY <2>2, <3>3
    <3>4. CASE new = seen /\ ~(seen.runFor > PumpMaxRuntime[p])
      BY <2>4, <3>1, <3>4
    <3> QED
      BY <2>3, <3>2, <3>3, <3>4
  <2> QED
    BY <1>3, <2>1, <2>2, <2>5
<1> QED
  BY <1>1, <1>2, <1>3

LEMMA PumpNumbers ==
  ASSUME Inv, PlantType, NEW p \in Pump
  PROVE  /\ guard[p] \in PumpGuard /\ guard[p].runFor \in Int /\ -1 <= guard[p].runFor
         /\ guard[p].runFor < Wrap
         /\ PumpMaxRuntime[p] \in Nat /\ PumpMaxRuntime[p] + Lag1 < Wrap
         /\ drivenFor[p] \in Nat /\ since1 \in Nat /\ since1 <= Lag1
<1>1. guard[p] \in PumpGuard /\ drivenFor[p] \in Nat
  BY DEF Inv, TypeOK, PlantType
<1>2. since1 \in Nat /\ since1 <= Lag1
  BY BoundsAssumption DEF Inv, TypeOK
<1>3. PumpMaxRuntime[p] \in Nat /\ PumpMaxRuntime[p] + Lag1 < Wrap
  BY TableAssumption, MarginAssumption
<1>4. guard[p].runFor \in AgeOrNot
  BY <1>1 DEF PumpGuard
<1>5. guard[p].runFor \in Int /\ -1 <= guard[p].runFor /\ guard[p].runFor < Wrap
  BY <1>4, BoundsAssumption DEF AgeOrNot, Age, NotSince
<1> QED
  BY <1>1, <1>2, <1>3, <1>5

\* A renewal is worth one allowance.
LEMMA RenewalIsWorth ==
  ASSUME Inv, PlantType, NEW p \in Pump
  PROVE  /\ Allowance(p) \in Nat /\ Spent(p) \in Nat /\ renewed[p] \in Nat
         /\ Allowance(p) = PumpMaxRuntime[p] + 2 * Lag1
         /\ (renewed[p] + 1) * Allowance(p) = Spent(p) + Allowance(p)
         /\ renewed'[p] = renewed[p] => Spent(p)' = Spent(p)
         /\ renewed'[p] = renewed[p] + 1 => Spent(p)' = Spent(p) + Allowance(p)
<1>1. renewed[p] \in Nat
  BY DEF PlantType
<1>2. Allowance(p) \in Nat /\ Allowance(p) = PumpMaxRuntime[p] + 2 * Lag1
  BY PumpNumbers, PlantNumbers DEF Allowance
<1>3. \A n, a \in Nat : n * a \in Nat /\ (n + 1) * a = n * a + a
  OBVIOUS
<1>4. Spent(p)' = renewed'[p] * Allowance(p)
  BY DEF Spent, Allowance
<1> QED
  BY <1>1, <1>2, <1>3, <1>4 DEF Spent

\* What the plant counts of a pump that a claim drives.
LEMMA DrivenForCases ==
  ASSUME PlantType, Physics, NEW p \in Pump
  PROVE  \/ drivenFor'[p] = 0
         \/ /\ p \in pumpsOn'
            /\ IF since1' > since1 /\ ByClaim(p)' THEN drivenFor'[p] = drivenFor[p] + 1
               ELSE drivenFor'[p] = drivenFor[p]
            /\ IF Renews(p) THEN renewed'[p] = renewed[p] + 1
               ELSE renewed'[p] = renewed[p]
<1>1. /\ renewed'[p] = IF p \notin pumpsOn' THEN 0
                       ELSE IF Renews(p) /\ renewed[p] <= MaxRenewals THEN renewed[p] + 1
                       ELSE renewed[p]
      /\ drivenFor'[p] = IF p \notin pumpsOn' \/ renewed'[p] > MaxRenewals THEN 0
                         ELSE IF since1' > since1 /\ ByClaim(p)' THEN drivenFor[p] + 1
                         ELSE drivenFor[p]
  BY Zenon DEF Physics
<1>2. CASE p \notin pumpsOn' \/ renewed'[p] > MaxRenewals
  BY <1>1, <1>2
<1>3. CASE /\ p \in pumpsOn' /\ ~(renewed'[p] > MaxRenewals)
           /\ Renews(p) => renewed[p] <= MaxRenewals
  <2> HIDE DEF Renews, ByClaim
  <2>1. CASE Renews(p)
    BY <1>1, <1>3, <2>1
  <2>2. CASE ~Renews(p)
    BY <1>1, <1>3, <2>2
  <2> QED
    BY <2>1, <2>2
<1>4. CASE /\ p \in pumpsOn' /\ ~(renewed'[p] > MaxRenewals)
           /\ Renews(p) /\ ~(renewed[p] <= MaxRenewals)
  <2>1. renewed'[p] = renewed[p]
    BY <1>1, <1>4
  <2>2. renewed[p] \in Nat
    BY DEF PlantType
  <2> QED
    BY <1>4, <2>1, <2>2, RenewalAssumption
<1> QED
  BY <1>2, <1>3, <1>4

\* Between two renewals the present allowance is not exceeded.
LEMMA UsedIsAllowed ==
  ASSUME Inv, PlantType, NEW p \in Pump, Guarded(p)
  PROVE  Used(p) \in Int /\ 0 <= Used(p) /\ Used(p) <= Allowance(p)
<1>1. /\ guard[p].runFor \in Int /\ -1 <= guard[p].runFor
      /\ PumpMaxRuntime[p] \in Nat /\ Lag1 \in Nat /\ 0 < Lag1
      /\ since1 \in Nat /\ since1 <= Lag1
      /\ Allowance(p) = PumpMaxRuntime[p] + 2 * Lag1
  BY PumpNumbers, PlantNumbers, RenewalIsWorth
<1>2. ByClaim(p) => guard[p].runFor = NotSince
                      \/ guard[p].runFor <= PumpMaxRuntime[p] + since1
  BY DEF Guarded, ByClaim
<1> QED
  BY <1>1, <1>2 DEF Used

\* A renewal leaves the whole of the next allowance; without one it is enough to
\* look at the present one.
LEMMA AllowanceKept ==
  ASSUME Inv, Inv', PlantType, PlantType', Physics, NEW p \in Pump, Guarded(p),
         Used(p)' \in Int, 0 <= Used(p)',
         since1' > since1 => ~Renews(p),
         ~Renews(p) => IF since1' > since1 /\ ByClaim(p)' THEN Used(p) + 1 <= Used(p)'
                       ELSE Used(p) <= Used(p)'
  PROVE  drivenFor'[p] <= Spent(p)' + Used(p)'
<1>1. /\ drivenFor[p] \in Nat /\ drivenFor'[p] \in Nat
      /\ Spent(p) \in Nat /\ Allowance(p) \in Nat
      /\ renewed'[p] = renewed[p] => Spent(p)' = Spent(p)
      /\ renewed'[p] = renewed[p] + 1 => Spent(p)' = Spent(p) + Allowance(p)
  BY RenewalIsWorth DEF PlantType
<1>2. Spent(p)' \in Nat
  <2>1. /\ renewed'[p] \in Nat /\ Spent(p)' = renewed'[p] * Allowance(p)
    BY DEF PlantType, Spent, Allowance
  <2>2. \A n, a \in Nat : n * a \in Nat
    OBVIOUS
  <2> QED
    BY <1>1, <2>1, <2>2
<1>3. Used(p) \in Int /\ 0 <= Used(p) /\ Used(p) <= Allowance(p)
  BY UsedIsAllowed
<1>4. drivenFor[p] <= Spent(p) + Used(p)
  BY DEF Guarded
<1>5. CASE drivenFor'[p] = 0
  BY <1>2, <1>5
<1>6. CASE /\ IF since1' > since1 /\ ByClaim(p)' THEN drivenFor'[p] = drivenFor[p] + 1
              ELSE drivenFor'[p] = drivenFor[p]
           /\ IF Renews(p) THEN renewed'[p] = renewed[p] + 1
              ELSE renewed'[p] = renewed[p]
  <2>1. CASE Renews(p)
    <3>1. drivenFor'[p] = drivenFor[p] /\ Spent(p)' = Spent(p) + Allowance(p)
      BY <1>1, <1>6, <2>1
    <3> QED
      BY <1>1, <1>3, <1>4, <3>1
  <2>2. CASE ~Renews(p)
    <3>1. Spent(p)' = Spent(p)
      BY <1>1, <1>6, <2>2
    <3> QED
      BY <1>1, <1>3, <1>4, <1>6, <2>2, <3>1
  <2> QED
    BY <2>1, <2>2
<1> QED
  BY <1>5, <1>6, DrivenForCases

LEMMA GuardedTicked ==
  ASSUME Inv, Inv', PlantType, PlantType', Physics, SomeTick1s, NEW p \in Pump, Guarded(p)
  PROVE  Guarded(p)'
<1>1. PICK pumpFlow : Tick1s(pumpFlow)
  BY DEF SomeTick1s
<1> DEFINE g == guard[p]
           new == GuardTick(guard[p], p, slots', p \in pumpFlow)
<1>2. guard'[p] = new
  BY <1>1 DEF Tick1s
<1>3. /\ g \in PumpGuard /\ g.runFor \in Int /\ -1 <= g.runFor
      /\ PumpMaxRuntime[p] \in Nat /\ Lag1 \in Nat /\ 0 < Lag1
      /\ drivenFor[p] \in Nat /\ since1 \in Nat /\ since1 <= Lag1
  BY PumpNumbers, PlantNumbers
<1>4. since1' = 0 /\ ~(since1' > since1) /\ claims' = claims /\ safety_override' = safety_override
  BY <1>1, TickTimes DEF Tick1s
<1>5. p \in pumpsOn' <=> PumpWanted(slots', guard', p)
  BY <1>1 DEF Tick1s
<1>6. PumpWanted(slots', guard', p) <=>
        RouteNeeds(slots', p) \/ (p \in claims /\ (safety_override \/ new.latch = "NONE"))
  BY <1>2 DEF PumpWanted
<1>7. ByClaim(p)' <=> p \in pumpsOn' /\ ~RouteNeeds(slots', p) /\ ~safety_override'
  BY DEF ByClaim, RouteNeeds
<1>8. /\ RouteNeeds(slots', p) \/ p \notin claims => new.runFor = NotSince /\ new.latch = "NONE"
      /\ ~RouteNeeds(slots', p) /\ p \in claims /\ safety_override
           => new.runFor = NotSince /\ new.latch = g.latch
      /\ ~RouteNeeds(slots', p) /\ p \in claims /\ ~safety_override =>
           IF g.latch # "NONE" THEN new = g
           ELSE /\ new.runFor = IF g.runFor = NotSince THEN 0 ELSE g.runFor
                /\ new.latch = "NONE" => new.runFor <= PumpMaxRuntime[p]
  BY <1>3, GuardTickCases
<1> HIDE DEF new
<1>9. new.latch = "NONE" => new.runFor <= PumpMaxRuntime[p] + since1'
  BY <1>3, <1>4, <1>8 DEF NotSince
<1>10. p \in pumpsOn' => new.runFor = NotSince \/ new.latch = "NONE"
  BY <1>5, <1>6, <1>8
<1>11. ByClaim(p)' => /\ new.runFor = IF g.runFor = NotSince THEN 0 ELSE g.runFor
                      /\ Used(p)' = new.runFor + Lag1
  <2> SUFFICES ASSUME ByClaim(p)'
               PROVE  /\ new.runFor = IF g.runFor = NotSince THEN 0 ELSE g.runFor
                      /\ Used(p)' = new.runFor + Lag1
    OBVIOUS
  <2>1. /\ ~RouteNeeds(slots', p) /\ p \in claims /\ ~safety_override /\ new.latch = "NONE"
    BY <1>4, <1>5, <1>6, <1>7
  <2>2. g.latch = "NONE" /\ new.runFor = IF g.runFor = NotSince THEN 0 ELSE g.runFor
    BY <1>8, <2>1
  <2>3. new.runFor # NotSince
    BY <1>3, <2>2 DEF NotSince
  <2> QED
    BY <1>2, <2>2, <2>3 DEF Used
<1>12. ~ByClaim(p)' => Used(p)' = 0
  BY DEF Used
<1>13. Used(p)' \in Int /\ 0 <= Used(p)'
  BY <1>3, <1>11, <1>12 DEF NotSince
<1>14. ~Renews(p) => Used(p) <= Used(p)'
  <2>1. CASE ByClaim(p)'
    <3>1. Used(p) = 0 \/ Used(p) = IF g.runFor = NotSince THEN since1 ELSE g.runFor + Lag1
      BY DEF Used
    <3> QED
      BY <1>3, <1>11, <2>1, <3>1 DEF NotSince
  <2>2. CASE ~ByClaim(p)'
    BY <1>12, <2>2 DEF Renews, Used
  <2> QED
    BY <2>1, <2>2
<1>15. drivenFor'[p] <= Spent(p)' + Used(p)'
  BY <1>4, <1>13, <1>14, AllowanceKept
<1> QED
  BY <1>2, <1>9, <1>10, <1>15 DEF Guarded

LEMMA GuardedElapsed ==
  ASSUME Inv, Inv', PlantType, PlantType', Physics, Elapse, NEW p \in Pump, Guarded(p)
  PROVE  Guarded(p)'
<1> DEFINE g == guard[p]
<1>1. /\ g \in PumpGuard /\ g.runFor \in Int /\ -1 <= g.runFor /\ g.runFor < Wrap
      /\ PumpMaxRuntime[p] \in Nat /\ Lag1 \in Nat /\ Wrap \in Nat
      /\ PumpMaxRuntime[p] + Lag1 < Wrap
      /\ drivenFor[p] \in Nat /\ since1 \in Nat
  BY PumpNumbers, PlantNumbers
<1>2. since1' = since1 + 1 /\ since1 < Lag1 /\ since1' > since1 /\ pumpsOn' = pumpsOn
  BY <1>1 DEF Elapse
<1>3. guard'[p] = OlderGuard(g)
  BY DEF Elapse
<1>4. guard'[p].latch = g.latch
  BY <1>1, <1>3 DEF OlderGuard, PumpGuard
<1>5. g.runFor = NotSince => guard'[p].runFor = NotSince
  BY <1>3 DEF OlderGuard
<1>6. g.runFor # NotSince /\ g.latch = "NONE" => guard'[p].runFor = g.runFor + 1
  <2> SUFFICES ASSUME g.runFor # NotSince, g.latch = "NONE"
               PROVE  guard'[p].runFor = g.runFor + 1
    OBVIOUS
  <2>1. guard'[p].runFor = Older(g.runFor)
    BY <1>1, <1>3 DEF OlderGuard, PumpGuard
  <2>2. g.runFor <= PumpMaxRuntime[p] + since1
    BY DEF Guarded
  <2>3. 0 <= g.runFor + 1 /\ g.runFor + 1 < Wrap
    BY <1>1, <1>2, <2>2
  <2> QED
    BY <1>1, <2>1, <2>3 DEF Older
<1>7. ByClaim(p)' <=> ByClaim(p)
  <2>1. ASSUME NEW s \in Slot
        PROVE  slots'[s].state = slots[s].state /\ slots'[s].route = slots[s].route
    <3>1. slots[s] \in SlotRecord /\ slots'[s] = OlderSlot(slots[s])
      BY DEF Elapse, Inv, TypeOK
    <3> QED
      BY <3>1 DEF OlderSlot, SlotRecord
  <2>2. UNCHANGED <<pumpsOn, safety_override>>
    BY DEF Elapse
  <2> QED
    BY <2>1, <2>2 DEF ByClaim, RouteNeeds
<1>8. ~Renews(p)
  <2>1. OperatorResets(p) => since1' = since1
    BY DEF OperatorResets, ResetFaults, Release
  <2> QED
    BY <1>1, <1>2, <1>7, <2>1 DEF Renews
<1>9. guard'[p].latch = "NONE" => guard'[p].runFor <= PumpMaxRuntime[p] + since1'
  BY <1>1, <1>2, <1>4, <1>5, <1>6 DEF Guarded, NotSince
<1>10. p \in pumpsOn' => guard'[p].runFor = NotSince \/ guard'[p].latch = "NONE"
  BY <1>2, <1>4, <1>5 DEF Guarded
<1>11. Used(p) \in Int /\ 0 <= Used(p)
  BY UsedIsAllowed
<1>12. Used(p)' = IF ByClaim(p) THEN Used(p) + 1 ELSE 0
  <2>1. CASE ~ByClaim(p)
    BY <1>7, <2>1 DEF Used
  <2>2. CASE ByClaim(p) /\ g.runFor = NotSince
    BY <1>2, <1>5, <1>7, <2>2 DEF Used
  <2>3. CASE ByClaim(p) /\ g.runFor # NotSince
    <3>1. g.latch = "NONE"
      BY <2>3 DEF Guarded, ByClaim
    <3>2. guard'[p].runFor = g.runFor + 1 /\ guard'[p].runFor # NotSince
      BY <1>1, <1>6, <2>3, <3>1 DEF NotSince
    <3> QED
      BY <1>1, <1>7, <2>3, <3>2 DEF Used
  <2> QED
    BY <2>1, <2>2, <2>3
<1>13. Used(p) <= Used(p)' /\ (ByClaim(p)' => Used(p) + 1 <= Used(p)')
  BY <1>7, <1>11, <1>12 DEF Used
<1>14. drivenFor'[p] <= Spent(p)' + Used(p)'
  <2>1. Used(p)' \in Int /\ 0 <= Used(p)'
    BY <1>11, <1>12
  <2> QED
    BY <1>8, <1>13, <2>1, AllowanceKept
<1> QED
  BY <1>9, <1>10, <1>14 DEF Guarded

LEMMA GuardedQuiet ==
  ASSUME Inv, Inv', PlantType, PlantType', Physics, Quiet, NEW p \in Pump, Guarded(p)
  PROVE  Guarded(p)'
<1>1. /\ guard[p].runFor \in Int /\ -1 <= guard[p].runFor
      /\ PumpMaxRuntime[p] \in Nat /\ Lag1 \in Nat /\ 0 < Lag1
      /\ drivenFor[p] \in Nat /\ since1 \in Nat
  BY PumpNumbers, PlantNumbers
<1>2. since1' = since1 /\ ~(since1' > since1) /\ pumpsOn' = pumpsOn
  BY <1>1 DEF Quiet
<1>3. \/ guard'[p] = guard[p]
      \/ OperatorResets(p) /\ guard'[p].latch = "NONE" /\ guard'[p].runFor = NotSince
  BY DEF Quiet, GuardKept
<1>4. /\ guard'[p].latch = "NONE" => guard'[p].runFor <= PumpMaxRuntime[p] + since1'
      /\ p \in pumpsOn' => guard'[p].runFor = NotSince \/ guard'[p].latch = "NONE"
  BY <1>1, <1>2, <1>3 DEF Guarded, NotSince
<1>5. Used(p)' = IF ~ByClaim(p)' THEN 0
                 ELSE IF guard'[p].runFor = NotSince THEN since1 ELSE guard'[p].runFor + Lag1
  BY <1>2 DEF Used
<1>6. Used(p)' \in Int /\ 0 <= Used(p)'
  BY <1>1, <1>3, <1>5 DEF NotSince
<1>7. ~Renews(p) => Used(p) <= Used(p)'
  <2> SUFFICES ASSUME ~Renews(p) PROVE Used(p) <= Used(p)'
    OBVIOUS
  <2>1. guard'[p] = guard[p] /\ (ByClaim(p) => ByClaim(p)')
    BY <1>3 DEF Renews
  <2>2. CASE ~ByClaim(p)
    BY <1>6, <2>2 DEF Used
  <2>3. CASE ByClaim(p)
    BY <1>1, <1>5, <2>1, <2>3 DEF Used
  <2> QED
    BY <2>2, <2>3
<1>8. drivenFor'[p] <= Spent(p)' + Used(p)'
  BY <1>2, <1>6, <1>7, AllowanceKept
<1> QED
  BY <1>4, <1>8 DEF Guarded

-----------------------------------------------------------------------------
(* The theorems.                                                           *)

LEMMA InitPlantInv == PlantInit => PlantInv
<1> SUFFICES ASSUME PlantInit
             PROVE  PlantInv
  OBVIOUS
<1>1. PlantType /\ Directed
  <2>1. /\ position \in [Valve -> 0 .. LongestTravel]
        /\ \A v \in Valve : position[v] <= ValveTravel[v]
    BY DEF PlantInit
  <2>2. /\ drivenFor = [p \in Pump |-> 0] /\ renewed = [p \in Pump |-> 0]
        /\ keptOpen = [s \in Slot |-> {}]
        /\ target = [v \in Valve |-> 0] /\ commanded = {}
    BY DEF PlantInit, Init
  <2> QED
    BY <2>1, <2>2, TravelAssumption DEF PlantType, Directed
<1>2. Conduits
  BY DEF PlantInit, Init, Conduits, EmptySlot
<1>3. ASSUME NEW p \in Pump
      PROVE  Driven(p) /\ Guarded(p)
  <2>1. /\ pumpsOn = {} /\ guard[p] = OpenGuard /\ since1 = 0
        /\ drivenFor[p] = 0 /\ renewed[p] = 0
    BY <1>3 DEF PlantInit, Init
  <2>2. PumpMaxRuntime[p] \in Nat /\ Allowance(p) \in Nat
    BY TableAssumption, PlantNumbers DEF Allowance
  <2>3. Used(p) = 0 /\ Driven(p)
    BY <2>1 DEF Used, ByClaim, Driven
  <2>4. Spent(p) = 0
    BY <2>1, <2>2 DEF Spent
  <2> QED
    BY <2>1, <2>2, <2>3, <2>4 DEF Guarded, OpenGuard, NotSince
<1> QED
  BY <1>1, <1>2, <1>3 DEF PlantInv

LEMMA NextPlantInv ==
  ASSUME Inv, Inv', PlantInv, [PlantNext]_<<vars, plant>>
  PROVE  PlantInv'
<1> USE DEF PlantInv
<1>1. CASE PlantNext
  <2>1. Physics /\ (SomeTick1s \/ Elapse \/ Quiet)
    BY <1>1, PlantStepKinds DEF PlantNext
  <2>2. PlantType'
    BY <2>1, PlantTypeKept
  <2>3. CASE SomeTick1s
    <3>1. Directed' /\ Conduits'
      BY <2>1, <2>3, TickDirected, TickConduits
    <3> QED
      BY <2>1, <2>2, <2>3, <3>1, DrivenTicked, GuardedTicked
  <2>4. CASE Elapse
    <3>1. Directed' /\ Conduits'
      BY <2>1, <2>4, TickDirected, ElapseConduits
    <3> QED
      BY <2>1, <2>2, <2>4, <3>1, DrivenKept, GuardedElapsed
  <2>5. CASE Quiet
    <3>1. Directed' /\ Conduits'
      BY <2>1, <2>5, QuietDirected, QuietConduits
    <3> QED
      BY <2>1, <2>2, <2>5, <3>1, DrivenKept, GuardedQuiet
  <2> QED
    BY <2>1, <2>3, <2>4, <2>5
<1>2. CASE UNCHANGED <<vars, plant>>
  <2> USE <1>2 DEF vars, plant
  <2>1. PlantType' /\ Directed' /\ Conduits'
    BY DEF PlantType, Directed, Conduits, Conduit, HeldOpen, Open
  <2>2. ASSUME NEW p \in Pump
        PROVE  Driven(p)' /\ Guarded(p)'
    <3>1. ByClaim(p)' <=> ByClaim(p)
      BY DEF ByClaim, RouteNeeds
    <3>2. Driven(p)'
      BY DEF Driven, HeldOpen, Open
    <3>3. Spent(p)' = Spent(p) /\ Used(p)' = Used(p)
      BY <3>1 DEF Spent, Used
    <3> QED
      BY <3>2, <3>3 DEF Guarded
  <2> QED
    BY <2>1, <2>2
<1> QED
  BY <1>1, <1>2

\* The kernel with its plant is the kernel.
LEMMA PlantKernel == PlantSpec => []Inv
<1>1. PlantInit => Inv
  BY InitInv DEF PlantInit
<1>2. Inv /\ [PlantNext]_<<vars, plant>> => Inv'
  BY NextInv DEF PlantNext
<1> QED
  BY <1>1, <1>2, PTL DEF PlantSpec

\* The relation between ages, valves and guards holds throughout.
THEOREM PlantInvariance == PlantSpec => []PlantInv
<1>1. Inv /\ Inv' /\ PlantInv /\ [PlantNext]_<<vars, plant>> => PlantInv'
  BY NextPlantInv
<1> QED
  BY <1>1, InitPlantInv, PlantKernel, PTL DEF PlantSpec

\* A pump that no claim drives never pushes against a closed valve, for any plant,
\* any travel times and any order of starts, stops, faults and ticks, as long as a
\* tick is no later than the margin.
THEOREM PumpsHaveAPath == PlantSpec => []PumpOnlyThroughOpenPath
<1>1. Inv /\ PlantInv => PumpOnlyThroughOpenPath
  <2> SUFFICES ASSUME Inv, PlantInv, NEW p \in pumpsOn \ claimedSince
               PROVE  \E r \in Route : PumpOf[r] = p /\ \A v \in ValvesOf[r] : Open(v)
    BY DEF PumpOnlyThroughOpenPath
  <2>1. p \in Pump
    BY DEF Inv, TypeOK
  <2> QED
    BY <2>1 DEF PlantInv, Driven, HeldOpen
<1> QED
  BY <1>1, PlantKernel, PlantInvariance, PTL

\* A claim drives a pump for its runtime limit and two ticks, and as long again for
\* every route, override or reset that comes by while the pump is on, whatever
\* else routes and leases do: for any number of renewals, pumps and routes.
THEOREM ClaimedPumpsStop == PlantSpec => []ClaimRunBounded
<1>1. Inv /\ PlantInv => ClaimRunBounded
  <2> SUFFICES ASSUME Inv, PlantInv, NEW p \in Pump
               PROVE  drivenFor[p] <= (renewed[p] + 1) * Allowance(p)
    BY DEF ClaimRunBounded
  <2>1. PlantType /\ Guarded(p)
    BY DEF PlantInv
  <2>2. drivenFor[p] \in Nat /\ drivenFor[p] <= Spent(p) + Used(p)
    BY <2>1 DEF Guarded, PlantType
  <2>3. /\ Spent(p) \in Nat /\ Allowance(p) \in Nat
        /\ (renewed[p] + 1) * Allowance(p) = Spent(p) + Allowance(p)
    BY <2>1, RenewalIsWorth
  <2>4. Used(p) \in Int /\ Used(p) <= Allowance(p)
    BY <2>1, UsedIsAllowed
  <2> QED
    BY <2>2, <2>3, <2>4
<1> QED
  BY <1>1, PlantKernel, PlantInvariance, PTL

\* A stopped run leaves its slot only once its valves are closed, those aside that
\* something else kept open after the run had let go of them.
THEOREM IdleSlotsAreClosed == PlantSpec => IdleMeansClosed
<1> DEFINE Emptied(s) ==
      slots[s].state = "STOPPING" /\ slots'[s] # slots[s] /\ since1' < since1
        => \A v \in ValvesOf[slots[s].route] \ keptOpen[s] : position[v] = 0
<1>1. ASSUME Inv, PlantInv, [PlantNext]_<<vars, plant>>, NEW s \in Slot,
             slots[s].state = "STOPPING", slots'[s] # slots[s], since1' < since1,
             NEW v \in ValvesOf[slots[s].route] \ keptOpen[s]
      PROVE  position[v] = 0
  <2>1. SomeTick1s
    <3>1. since1 \in Nat
      BY <1>1, BoundsAssumption DEF Inv, TypeOK
    <3>2. ~Elapse /\ ~Quiet /\ ~UNCHANGED <<vars, plant>>
      BY <1>1, <3>1 DEF Elapse, Quiet, vars
    <3> QED
      BY <1>1, <3>2, PlantStepKinds DEF PlantNext
  <2>2. TickSlot(slots[s]) # slots[s]
    BY <1>1, <2>1, Tick1sMoves DEF Refilled
  <2>3. slots[s].age > DEPRESSURIZE + Travel[slots[s].route] + SETTLE
    BY <1>1, <2>2 DEF TickSlot
  <2>4. /\ v \in Valve /\ ValveTravel[v] \in Nat /\ Travel[slots[s].route] \in Nat
        /\ ValveTravel[v] <= Travel[slots[s].route] /\ slots[s].age \in Nat
    BY <1>1, SlotFacts
  <2>5. since1 \in Nat /\ since1 <= Lag1 /\ position[v] \in Nat
    BY <1>1, <2>1, <2>4, TickTimes DEF PlantInv, PlantType
  <2>6. Conduit(s)
    BY <1>1 DEF PlantInv, Conduits
  <2>7. \/ slots[s].age < DEPRESSURIZE + since1
        \/ position[v] = 0
        \/ position[v] + slots[s].age < ValveTravel[v] + DEPRESSURIZE + Lag1
    BY <1>1, <2>6 DEF Conduit
  <2> QED
    BY <2>3, <2>4, <2>5, <2>7, PlantNumbers
<1>2. Inv /\ PlantInv /\ [PlantNext]_<<vars, plant>>
        => [\A s \in Slot : Emptied(s)]_<<vars, plant>>
  BY <1>1
<1> QED
  BY <1>2, PlantKernel, PlantInvariance, PTL DEF PlantSpec, IdleMeansClosed

-----------------------------------------------------------------------------
(* The run meter: the inductive invariant.                                 *)

MeterType ==
  /\ prev_state \in [Slot -> States] /\ prev_stop \in [Slot -> StopReasons]
  /\ open \in [Slot -> Route \cup {NoRoute}] /\ ran \in [Slot -> Route \cup {NoRoute}]
  /\ stamped \in BOOLEAN /\ missed \subseteq Slot

\* What a slot has come to that the meter has not seen is younger than the last
\* 1 s tick.
Seen(s) ==
  /\ slots[s].state = "RUNNING" => prev_state[s] = "RUNNING"
  /\ slots[s].state = "PREPARING" => prev_state[s] = "PREPARING" \/ slots[s].age <= since1
  /\ slots[s].state = "STOPPING" =>
       \/ prev_state[s] = "STOPPING" /\ prev_stop[s] = slots[s].reason
       \/ slots[s].age <= since1

\* A run that the meter has stamped is over when its slot is; a missed one has
\* left its slot to another that has not begun.
Honest(s) ==
  /\ ran[s] # NoRoute => /\ slots[s].state \in {"RUNNING", "STOPPING"}
                         /\ prev_state[s] \in {"RUNNING", "STOPPING"}
                         /\ stamped
  /\ s \in missed => /\ ran[s] = NoRoute /\ stamped
                     /\ slots[s].state \in {"PREPARING", "STOPPING"}
  /\ s \notin missed => open[s] = ran[s]

MeterInv == MeterType /\ \A s \in Slot : Seen(s) /\ Honest(s)

-----------------------------------------------------------------------------
(* What a step does to a slot, as far as the meter looks at it.            *)

Same(new, old) ==
  new.state = old.state /\ new.route = old.route /\ new.reason = old.reason

\* The ticks after which the meter looks.  A start that reaches RUNNING and a stop
\* that leaves its slot are older than the last tick.
Watching(new, old) ==
  \/ Same(new, old)
  \/ old.state = "PREPARING" /\ new.state = "RUNNING" /\ old.age > Lag1
  \/ old.state = "RUNNING" /\ new.state \in {"STOPPING", "FAULT"}
  \/ old.state = "STOPPING" /\ new.state \in {"IDLE", "PREPARING"} /\ old.age > Lag1
  \/ old.state = "IDLE" /\ new.state = "PREPARING"

\* The steps it does not look at, time aside.
Unwatched(new, old) ==
  \/ new = old
  \/ Live(old) /\ new.state = "STOPPING" /\ new.age = 0
  \/ old.state = "IDLE" /\ new.state = "PREPARING" /\ new.age = 0
  \/ old.state = "FAULT" /\ new.state = "IDLE"

\* The tick assumption in the terms of a slot.
LEMMA SettlingTakesATick ==
  ASSUME NEW sl \in SlotRecord, sl.state # "IDLE",
         sl.state = "IDLE" <=> sl.route = NoRoute
  PROVE  /\ Travel[sl.route] \in Nat
         /\ Lag1 <= Travel[sl.route] + SETTLE
<1>1. sl.route \in Route
  BY DEF SlotRecord
<1> QED
  BY <1>1, TickAssumption, TableAssumption DEF RouteTable

LEMMA Tick1sIsWatched ==
  ASSUME Inv, SomeTick1s, NEW s \in Slot
  PROVE  Watching(slots'[s], slots[s])
<1> DEFINE sl == slots[s]
<1>1. sl \in SlotRecord /\ (sl.state = "IDLE" <=> sl.route = NoRoute)
  BY DEF Inv, TypeOK, OneSlotPerRoute
<1>2. sl.age \in Nat /\ Lag1 \in Nat /\ SETTLE \in Nat /\ DEPRESSURIZE \in Nat
  BY <1>1, SpecType, BoundsAssumption
<1>3. slots'[s] = TickSlot(sl) \/ Refilled(slots'[s], TickSlot(sl))
  BY Tick1sMoves
<1>4. CASE /\ sl.state = "PREPARING" /\ sl.age > Travel[sl.route] + SETTLE
           /\ TickSlot(sl) = [sl EXCEPT !.state = "RUNNING", !.age = 0]
  <2>1. TickSlot(sl).state = "RUNNING"
    BY <1>1, <1>4 DEF SlotRecord
  <2>2. slots'[s] = TickSlot(sl)
    BY <1>3, <2>1 DEF Refilled
  <2>3. sl.age > Lag1
    BY <1>1, <1>2, <1>4, SettlingTakesATick
  <2> QED
    BY <1>4, <2>1, <2>2, <2>3 DEF Watching
<1>5. CASE /\ sl.state = "STOPPING"
           /\ sl.age > DEPRESSURIZE + Travel[sl.route] + SETTLE
           /\ TickSlot(sl) = EmptySlot
  <2>1. slots'[s].state \in {"IDLE", "PREPARING"}
    BY <1>3, <1>5, RefilledIsBusy DEF EmptySlot
  <2>2. sl.age > Lag1
    BY <1>1, <1>2, <1>5, SettlingTakesATick
  <2> QED
    BY <1>5, <2>1, <2>2 DEF Watching
<1>6. CASE TickSlot(sl) = sl
  <2>1. CASE slots'[s] = sl
    BY <2>1 DEF Watching, Same
  <2>2. CASE Refilled(slots'[s], sl)
    BY <2>2, RefilledIsBusy DEF Watching, Refilled
  <2> QED
    BY <1>3, <1>6, <2>1, <2>2
<1> QED
  BY <1>4, <1>5, <1>6 DEF TickSlot

LEMMA Tick2sIsWatched ==
  ASSUME Inv, SomeTick2s, NEW s \in Slot
  PROVE  IF safety_override THEN slots'[s] = slots[s] ELSE Watching(slots'[s], slots[s])
<1> DEFINE sl == slots[s]
<1>1. sl \in SlotRecord
  BY DEF Inv, TypeOK
<1>2. PICK flow, low, full, volumeMet : Tick2s(flow, low, full, volumeMet)
  BY DEF SomeTick2s
<1>3. CASE safety_override
  BY <1>2, <1>3 DEF Tick2s
<1>4. CASE ~safety_override /\ sl.state # "RUNNING"
  BY <1>2, <1>4 DEF Tick2s, Watching, Same
<1>5. CASE ~safety_override /\ sl.state = "RUNNING"
  <2> DEFINE m == Sampled(sl, s \in flow)
             clean == CleanStop(m, s \in low, s \in full, s \in volumeMet)
  <2>1. slots'[s] = WatchSlot(sl, s \in flow, s \in low, s \in full, s \in volumeMet)
    BY <1>2, <1>5 DEF Tick2s
  <2>2. (s \in flow) \in BOOLEAN
    OBVIOUS
  <2>3. m \in SlotRecord /\ m.route = sl.route /\ m.state = sl.state
    BY Zenon, <1>1, <2>2, SampledType
  <2>4. m.reason = sl.reason
    BY <1>1 DEF Sampled, SlotRecord
  <2>5. \/ slots'[s] = m
        \/ \E state \in {"STOPPING", "FAULT"}, why \in StopReasons :
             slots'[s] = Stopped(m, state, why)
    <3>1. /\ clean \in StopReasons /\ "NO_FLOW" \in StopReasons
          /\ "FLOW_STALLED" \in StopReasons /\ "TANK_FULL" \in StopReasons
      BY CleanStopType DEF StopReasons
    <3> QED
      BY <2>1, <3>1 DEF WatchSlot
  <2>6. ASSUME NEW state \in {"STOPPING", "FAULT"}, NEW why \in StopReasons,
               slots'[s] = Stopped(m, state, why)
        PROVE  slots'[s].state = state
    <3> HIDE DEF m
    <3> QED
      BY <2>3, <2>6, StoppedType
  <2> HIDE DEF m
  <2> QED
    BY <1>5, <2>3, <2>4, <2>5, <2>6 DEF Watching, Same
<1> QED
  BY <1>3, <1>4, <1>5

LEMMA QuietStepIsUnwatched ==
  ASSUME Inv, Commands \/ ClaimChanges, NEW s \in Slot
  PROVE  Unwatched(slots'[s], slots[s])
<1>1. CASE Commands
  <2>1. slots[s] \in SlotRecord /\ "MANUAL" \in StopReasons
    BY DEF Inv, TypeOK, StopReasons
  <2>2. ASSUME Refilled(slots'[s], slots[s])
        PROVE  Unwatched(slots'[s], slots[s])
    BY <2>2, FreshFacts DEF Refilled, Unwatched
  <2>3. ASSUME Live(slots[s]), slots'[s] = Stopped(slots[s], "STOPPING", "MANUAL")
        PROVE  Unwatched(slots'[s], slots[s])
    <3>1. slots'[s].state = "STOPPING" /\ slots'[s].age = 0
      BY <2>1, <2>3 DEF Stopped, EmptySlot, SlotRecord
    <3> QED
      BY <2>3, <3>1 DEF Unwatched
  <2>4. ASSUME slots[s].state = "FAULT", slots'[s] = EmptySlot
        PROVE  Unwatched(slots'[s], slots[s])
    BY <2>4 DEF Unwatched, EmptySlot
  <2>5. slots'[s] = slots[s] => Unwatched(slots'[s], slots[s])
    BY DEF Unwatched
  <2> QED
    BY <1>1, <2>2, <2>3, <2>4, <2>5, CommandMoves
<1>2. CASE ClaimChanges
  BY <1>2 DEF ClaimChanges, Extend, Release, Lapse, control, Unwatched
<1> QED
  BY <1>1, <1>2


-----------------------------------------------------------------------------
(* What the meter makes of it.                                             *)

Opens(s) == prev_state[s] = "PREPARING" /\ slots'[s].state = "RUNNING" /\ stamped'

Ends(s) == /\ prev_state[s] \in {"PREPARING", "RUNNING", "STOPPING"}
           /\ slots'[s].state \in {"IDLE", "FAULT"}

Closing(s) ==
  [slot |-> s, route |-> open[s],
   reason |-> StopTok(IF slots'[s].state = "IDLE" THEN prev_stop[s]
                      ELSE slots'[s].reason)]

LEMMA SyncFacts ==
  ASSUME Sync
  PROVE  /\ open' = [s \in Slot |-> IF Opens(s) THEN slots'[s].route
                                    ELSE IF Ends(s) THEN NoRoute ELSE open[s]]
         /\ prev_state' = [s \in Slot |-> slots'[s].state]
         /\ prev_stop' = [s \in Slot |-> slots'[s].reason]
         /\ closed' = {Closing(s) : s \in {t \in Slot : Ends(t) /\ open[t] # NoRoute}}
BY DEF Sync, Opens, Ends, Closing

LEMMA RanFacts ==
  ASSUME Ran, NEW s \in Slot
  PROVE  /\ ran'[s] = IF slots[s].state = "PREPARING" /\ slots'[s].state = "RUNNING"
                      THEN IF stamped' THEN slots'[s].route ELSE NoRoute
                      ELSE IF slots'[s].state \in {"RUNNING", "STOPPING"} THEN ran[s]
                      ELSE NoRoute
         /\ s \in missed' <=>
              \/ slots'[s].state = "PREPARING" /\ (s \in missed \/ ran[s] # NoRoute)
              \/ slots'[s].state = "STOPPING" /\ s \in missed
BY DEF Ran

LEMMA RanType ==
  ASSUME Ran, MeterType, slots' \in Table
  PROVE  ran' \in [Slot -> Route \cup {NoRoute}] /\ missed' \subseteq Slot
<1>1. ASSUME NEW s \in Slot
      PROVE  ran'[s] \in Route \cup {NoRoute}
  <2>1. slots'[s].route \in Route \cup {NoRoute}
    BY DEF Table, SlotRecord
  <2> QED
    BY <2>1, RanFacts DEF MeterType
<1> QED
  BY <1>1 DEF Ran

\* Whatever the meter has not seen of a slot is younger than a tick, so at a tick
\* it knows what is older.
LEMMA OldIsSeen ==
  ASSUME Inv, NEW s \in Slot, Seen(s), slots[s].age > Lag1
  PROVE  /\ slots[s].state = "PREPARING" => prev_state[s] = "PREPARING"
         /\ slots[s].state = "STOPPING" => /\ prev_state[s] = "STOPPING"
                                           /\ prev_stop[s] = slots[s].reason
<1>1. slots[s] \in SlotRecord /\ since1 \in 0 .. Lag1
  BY DEF Inv, TypeOK
<1>2. slots[s].age \in Nat
  BY <1>1, SpecType
<1>3. ~(slots[s].age <= since1)
  BY <1>1, <1>2, BoundsAssumption
<1> QED
  BY <1>3 DEF Seen

LEMMA SyncHonest ==
  ASSUME Inv, MeterInv, Sync, Ran, stamped => stamped', stamped' \in BOOLEAN,
         NEW s \in Slot, Watching(slots'[s], slots[s]),
         slots'[s].state = "IDLE" <=> slots'[s].route = NoRoute
  PROVE  Seen(s)' /\ Honest(s)'
<1> DEFINE old == slots[s].state
           new == slots'[s].state
<1>1. /\ prev_state'[s] = new /\ prev_stop'[s] = slots'[s].reason
      /\ open'[s] = IF Opens(s) THEN slots'[s].route
                    ELSE IF Ends(s) THEN NoRoute ELSE open[s]
  BY SyncFacts
<1>2. Seen(s) /\ Honest(s)
  BY DEF MeterInv
<1>3. Seen(s)'
  BY <1>1 DEF Seen
<1>4. /\ ran'[s] = IF old = "PREPARING" /\ new = "RUNNING"
                   THEN IF stamped' THEN slots'[s].route ELSE NoRoute
                   ELSE IF new \in {"RUNNING", "STOPPING"} THEN ran[s] ELSE NoRoute
      /\ s \in missed' <=> \/ new = "PREPARING" /\ (s \in missed \/ ran[s] # NoRoute)
                           \/ new = "STOPPING" /\ s \in missed
  BY RanFacts
<1>5. /\ slots[s].age > Lag1 /\ old = "PREPARING" => prev_state[s] = "PREPARING"
      /\ slots[s].age > Lag1 /\ old = "STOPPING" => prev_state[s] = "STOPPING"
  BY <1>2, OldIsSeen
<1>6. old = "PREPARING" /\ new = "RUNNING" /\ stamped' <=> Opens(s)
  <2>1. new = "RUNNING" /\ old # "PREPARING" => old = "RUNNING" /\ prev_state[s] = "RUNNING"
    BY <1>2 DEF Watching, Same, Seen
  <2>2. old = "PREPARING" /\ new = "RUNNING" => prev_state[s] = "PREPARING"
    BY <1>5 DEF Watching, Same
  <2> QED
    BY <2>1, <2>2 DEF Opens
<1>7. ran'[s] # NoRoute => new \in {"RUNNING", "STOPPING"} /\ stamped'
  BY <1>2, <1>4 DEF Honest
<1>8. s \in missed' => /\ ran'[s] = NoRoute /\ stamped'
                       /\ new \in {"PREPARING", "STOPPING"}
  BY <1>2, <1>4 DEF Honest
<1>9. s \notin missed' => open'[s] = ran'[s]
  <2> SUFFICES ASSUME s \notin missed'
               PROVE  open'[s] = ran'[s]
    OBVIOUS
  <2>1. CASE Opens(s)
    BY <1>1, <1>4, <1>6, <2>1
  <2>2. CASE ~Opens(s) /\ Ends(s)
    BY <1>1, <1>4, <2>2 DEF Ends
  <2>3. CASE ~Opens(s) /\ ~Ends(s)
    <3>1. open'[s] = open[s]
      BY <1>1, <2>3
    <3>2. CASE s \in missed
      <4>1. old \in {"PREPARING", "STOPPING"} /\ ran[s] = NoRoute /\ stamped
        BY <1>2, <3>2 DEF Honest
      <4>2. new \notin {"PREPARING", "STOPPING"}
        BY <1>4, <3>2
      <4>3. old = "PREPARING" => new = "RUNNING"
        BY <4>1, <4>2 DEF Watching, Same
      <4>4. old = "STOPPING" => new = "IDLE" /\ prev_state[s] = "STOPPING"
        BY <1>5, <4>1, <4>2 DEF Watching, Same
      <4> QED
        BY <1>6, <2>3, <4>1, <4>3, <4>4 DEF Ends
    <3>3. CASE s \notin missed /\ ran[s] = NoRoute
      BY <1>2, <1>4, <1>6, <2>3, <3>1, <3>3 DEF Honest
    <3>4. CASE s \notin missed /\ ran[s] # NoRoute
      <4>1. old \in {"RUNNING", "STOPPING"} /\ prev_state[s] \in {"RUNNING", "STOPPING"}
        BY <1>2, <3>4 DEF Honest
      <4>2. new \in {"RUNNING", "STOPPING"}
        BY <1>4, <2>3, <3>4, <4>1 DEF Watching, Same, Ends
      <4> QED
        BY <1>2, <1>4, <3>1, <3>4, <4>1, <4>2 DEF Honest
    <3> QED
      BY <3>2, <3>3, <3>4
  <2> QED
    BY <2>1, <2>2, <2>3
<1> QED
  BY <1>1, <1>3, <1>7, <1>8, <1>9 DEF Honest

LEMMA SyncKeeps ==
  ASSUME Inv, Inv', MeterInv, Sync, Ran, stamped => stamped', stamped' \in BOOLEAN,
         \A s \in Slot : Watching(slots'[s], slots[s])
  PROVE  MeterInv'
<1>1. ASSUME NEW s \in Slot
      PROVE  Seen(s)' /\ Honest(s)'
  <2>1. slots'[s].state = "IDLE" <=> slots'[s].route = NoRoute
    BY DEF Inv, OneSlotPerRoute
  <2> QED
    BY <2>1, SyncHonest
<1>2. slots' \in Table
  BY DEF Inv, TypeOK, Table
<1>3. /\ prev_state' \in [Slot -> States] /\ prev_stop' \in [Slot -> StopReasons]
      /\ open' \in [Slot -> Route \cup {NoRoute}]
  <2>1. \A s \in Slot : /\ slots'[s].state \in States /\ slots'[s].reason \in StopReasons
                        /\ slots'[s].route \in Route \cup {NoRoute}
    BY <1>2 DEF Table, SlotRecord
  <2>2. open \in [Slot -> Route \cup {NoRoute}]
    BY DEF MeterInv, MeterType
  <2> QED
    BY <2>1, <2>2, SyncFacts
<1>4. ran' \in [Slot -> Route \cup {NoRoute}] /\ missed' \subseteq Slot
  BY <1>2, RanType DEF MeterInv
<1> QED
  BY <1>1, <1>3, <1>4 DEF MeterInv, MeterType

\* The slot as time goes by.
Waits(new, old) == Same(new, old) /\ new.age <= old.age + 1

LEMMA NoSyncKeeps ==
  ASSUME Inv, Inv', MeterInv, NoSync, Ran, UNCHANGED stamped,
         \/ since1' = since1 /\ \A s \in Slot : Unwatched(slots'[s], slots[s])
         \/ since1' = since1 + 1 /\ \A s \in Slot : Waits(slots'[s], slots[s])
  PROVE  MeterInv'
<1>1. ASSUME NEW s \in Slot
      PROVE  Seen(s)' /\ Honest(s)'
  <2> DEFINE old == slots[s].state
             new == slots'[s].state
  <2>1. Seen(s) /\ Honest(s)
    BY DEF MeterInv
  <2>2. /\ prev_state' = prev_state /\ prev_stop' = prev_stop /\ open' = open
        /\ stamped' = stamped
    BY DEF NoSync
  <2>3. /\ slots[s].age \in Nat /\ slots'[s].age \in Nat
        /\ since1 \in Nat /\ since1' \in Nat
    BY SpecType, BoundsAssumption DEF Inv, TypeOK
  <2>4. Unwatched(slots'[s], slots[s]) \/ Same(slots'[s], slots[s])
    BY DEF Waits
  <2>5. Seen(s)'
    <3>1. CASE since1' = since1 /\ Unwatched(slots'[s], slots[s])
      BY <2>1, <2>2, <2>3, <3>1 DEF Seen, Unwatched
    <3>2. CASE since1' = since1 + 1 /\ Waits(slots'[s], slots[s])
      <4>1. slots[s].age <= since1 => slots'[s].age <= since1'
        BY <2>3, <3>2 DEF Waits
      <4> QED
        BY <2>1, <2>2, <3>2, <4>1 DEF Seen, Waits, Same
    <3> QED
      BY <3>1, <3>2
  <2>6. /\ ran'[s] = IF old = "PREPARING" /\ new = "RUNNING"
                     THEN IF stamped' THEN slots'[s].route ELSE NoRoute
                     ELSE IF new \in {"RUNNING", "STOPPING"} THEN ran[s] ELSE NoRoute
        /\ s \in missed' <=> \/ new = "PREPARING" /\ (s \in missed \/ ran[s] # NoRoute)
                             \/ new = "STOPPING" /\ s \in missed
    BY RanFacts
  <2>7. ~(old = "PREPARING" /\ new = "RUNNING")
    BY <2>4 DEF Unwatched, Same
  <2>8. ran'[s] = ran[s]
    <3>1. ran[s] # NoRoute => new \in {"RUNNING", "STOPPING"}
      BY <2>1, <2>4 DEF Honest, Unwatched, Same, Live
    <3> QED
      BY <2>6, <2>7, <3>1
  <2>9. s \in missed' <=> s \in missed
    <3>1. s \in missed => new \in {"PREPARING", "STOPPING"}
      BY <2>1, <2>4 DEF Honest, Unwatched, Same, Live
    <3>2. ran[s] # NoRoute => new # "PREPARING"
      BY <2>1, <2>4 DEF Honest, Unwatched, Same, Live
    <3> QED
      BY <2>6, <3>1, <3>2
  <2>10. Honest(s)'
    <3>1. /\ ran[s] # NoRoute => new \in {"RUNNING", "STOPPING"}
          /\ s \in missed => new \in {"PREPARING", "STOPPING"}
      BY <2>1, <2>4 DEF Honest, Unwatched, Same, Live
    <3> QED
      BY <2>1, <2>2, <2>8, <2>9, <3>1 DEF Honest
  <2> QED
    BY <2>5, <2>10
<1>2. slots' \in Table
  BY DEF Inv, TypeOK, Table
<1>3. ran' \in [Slot -> Route \cup {NoRoute}] /\ missed' \subseteq Slot
  BY <1>2, RanType DEF MeterInv
<1> QED
  BY <1>1, <1>3 DEF MeterInv, MeterType, NoSync

-----------------------------------------------------------------------------
(* The theorems.                                                           *)

\* Every step is one after which the meter looks, or one it does not look at.
LEMMA StepKinds ==
  ASSUME Inv, Inv', MeteredNext
  PROVE  /\ Ran
         /\ \/ /\ Sync /\ (stamped => stamped') /\ (stamped \in BOOLEAN => stamped' \in BOOLEAN)
               /\ \A s \in Slot : Watching(slots'[s], slots[s])
            \/ /\ NoSync /\ UNCHANGED stamped
               /\ \/ since1' = since1 /\ \A s \in Slot : Unwatched(slots'[s], slots[s])
                  \/ since1' = since1 + 1 /\ \A s \in Slot : Waits(slots'[s], slots[s])
<1>1. ASSUME NEW wall \in BOOLEAN, MeteredTick1s(wall)
      PROVE  /\ Ran /\ Sync /\ (stamped => stamped')
             /\ (stamped \in BOOLEAN => stamped' \in BOOLEAN)
             /\ \A s \in Slot : Watching(slots'[s], slots[s])
  <2>1. \A s \in Slot : Watching(slots'[s], slots[s])
    BY <1>1, Tick1sIsWatched DEF MeteredTick1s
  <2>2. stamped' = (stamped \/ wall)
    BY <1>1 DEF MeteredTick1s
  <2>3. (stamped => stamped') /\ (stamped \in BOOLEAN => stamped' \in BOOLEAN)
    BY Zenon, <2>2
  <2> QED
    BY <1>1, <2>1, <2>3 DEF MeteredTick1s
<1>2. CASE MeteredTick2s
  <2>1. SomeTick2s /\ Ran /\ UNCHANGED stamped
    BY <1>2 DEF MeteredTick2s
  <2>2. CASE safety_override
    <3>1. NoSync /\ \A s \in Slot : slots'[s] = slots[s]
      BY <1>2, <2>1, <2>2, Tick2sIsWatched DEF MeteredTick2s
    <3>2. since1' = since1
      BY <2>1 DEF SomeTick2s, Tick2s
    <3> QED
      BY <2>1, <3>1, <3>2 DEF Unwatched
  <2>3. CASE ~safety_override
    <3>1. Sync /\ \A s \in Slot : Watching(slots'[s], slots[s])
      BY <1>2, <2>1, <2>3, Tick2sIsWatched DEF MeteredTick2s
    <3> QED
      BY <2>1, <3>1
  <2> QED
    BY <2>2, <2>3
<1>3. CASE (Commands \/ ClaimChanges) /\ NoSync /\ UNCHANGED stamped /\ Ran
  <2>1. ASSUME NEW s \in Slot
        PROVE  Unwatched(slots'[s], slots[s])
    BY <1>3, QuietStepIsUnwatched
  <2>2. since1' = since1
    BY <1>3 DEF Commands, StartRoute, StopRoute, StopAll, ClearQueue, ResetFaults,
                FaultReset, SetOverride, ClaimChanges, Extend, Release, Lapse
  <2> QED
    BY <1>3, <2>1, <2>2
<1>4. CASE Elapse /\ NoSync /\ UNCHANGED stamped /\ Ran
  <2>1. since1' = since1 + 1
    BY <1>4 DEF Elapse
  <2>2. ASSUME NEW s \in Slot
        PROVE  Waits(slots'[s], slots[s])
    <3>1. slots[s] \in SlotRecord /\ slots'[s] = OlderSlot(slots[s])
      BY <1>4 DEF Elapse, Inv, TypeOK
    <3>2. slots[s].age \in Nat /\ slots[s].age < Wrap
      BY <3>1, BoundsAssumption DEF SlotRecord, Age
    <3>3. Older(slots[s].age) <= slots[s].age + 1
      <4>1. CASE slots[s].age + 1 < Wrap
        BY <3>2, <4>1, BoundsAssumption DEF Older, NotSince
      <4>2. CASE slots[s].age + 1 = Wrap
        BY <3>2, <4>2, BoundsAssumption DEF Older, NotSince
      <4> QED
        BY <3>2, <4>1, <4>2, BoundsAssumption
    <3>4. slots'[s].age \in {slots[s].age, Older(slots[s].age)}
      BY <3>1 DEF OlderSlot, SlotRecord
    <3>5. Same(slots'[s], slots[s])
      BY <3>1 DEF OlderSlot, SlotRecord, Same
    <3> QED
      BY <3>2, <3>3, <3>4, <3>5 DEF Waits
  <2> QED
    BY <1>4, <2>1, <2>2
<1> QED
  BY <1>1, <1>2, <1>3, <1>4 DEF MeteredNext

LEMMA MeteredStepIsStep == MeteredNext => Next
BY DEF MeteredNext, MeteredTick1s, MeteredTick2s, Next

\* The kernel under its meter is the kernel.
LEMMA MeteredKernel == MeteredSpec => []Inv
<1>1. MeteredInit => Inv
  BY InitInv DEF MeteredInit
<1>2. Inv /\ [MeteredNext]_<<vars, meter>> => Inv'
  BY NextInv, MeteredStepIsStep
<1> QED
  BY <1>1, <1>2, PTL DEF MeteredSpec

LEMMA InitMeterInv == MeteredInit => MeterInv
<1> SUFFICES ASSUME MeteredInit
             PROVE  MeterInv
  OBVIOUS
<1>1. "IDLE" \in States /\ "NONE" \in StopReasons
  BY DEF States, StopReasons
<1>2. MeterType
  BY <1>1 DEF MeteredInit, MeterType
<1>3. ASSUME NEW s \in Slot
      PROVE  Seen(s) /\ Honest(s)
  <2>1. slots[s].state = "IDLE" /\ open[s] = ran[s] /\ ran[s] = NoRoute /\ missed = {}
    BY DEF MeteredInit, Init, EmptySlot
  <2> QED
    BY <2>1 DEF Seen, Honest
<1> QED
  BY <1>2, <1>3 DEF MeterInv

LEMMA NextMeterInv ==
  ASSUME Inv, Inv', MeterInv, [MeteredNext]_<<vars, meter>>
  PROVE  MeterInv'
<1>1. CASE MeteredNext
  BY <1>1, StepKinds, SyncKeeps, NoSyncKeeps DEF MeterInv, MeterType
<1>2. CASE UNCHANGED <<vars, meter>>
  BY <1>2 DEF vars, meter, MeterInv, MeterType, Seen, Honest
<1> QED
  BY <1>1, <1>2

THEOREM MeterInvariance == MeteredSpec => []MeterInv
<1>1. Inv /\ Inv' /\ MeterInv /\ [MeteredNext]_<<vars, meter>> => MeterInv'
  BY NextMeterInv
<1> QED
  BY <1>1, InitMeterInv, MeteredKernel, PTL DEF MeteredSpec

\* The meter has a record open exactly while a stamped run goes on, and for its
\* route, for every plant and every number of slots, unless the slot of the run
\* before was freed and given away within one tick.
THEOREM RecordsFollowRuns == MeteredSpec => []LedgerInStep
<1>1. MeterInv => LedgerInStep
  BY DEF MeterInv, Honest, LedgerInStep
<1> QED
  BY <1>1, MeterInvariance, PTL

LEMMA SyncRecords ==
  ASSUME Inv, MeterInv, Sync, Ran, NEW s \in Slot, Watching(slots'[s], slots[s])
  PROVE  /\ (Ends(s) /\ open[s] # NoRoute /\ s \notin missed)
              <=> (Ended(s) /\ s \notin missed')
         /\ Ended(s) /\ s \notin missed' => Closing(s) = EndRecord(s)
<1> DEFINE old == slots[s].state
           new == slots'[s].state
<1>1. Seen(s) /\ Honest(s)
  BY DEF MeterInv
<1>2. /\ ran'[s] = IF old = "PREPARING" /\ new = "RUNNING"
                   THEN IF stamped' THEN slots'[s].route ELSE NoRoute
                   ELSE IF new \in {"RUNNING", "STOPPING"} THEN ran[s] ELSE NoRoute
      /\ s \in missed' <=> \/ new = "PREPARING" /\ (s \in missed \/ ran[s] # NoRoute)
                           \/ new = "STOPPING" /\ s \in missed
  BY RanFacts
<1>3. CASE ran[s] = NoRoute
  <2>1. ~Ended(s)
    BY <1>3 DEF Ended
  <2>2. s \notin missed => open[s] = NoRoute
    BY <1>1, <1>3 DEF Honest
  <2> QED
    BY <2>1, <2>2
<1>4. CASE ran[s] # NoRoute
  <2>1. /\ s \notin missed /\ open[s] = ran[s]
        /\ old \in {"RUNNING", "STOPPING"} /\ prev_state[s] \in {"RUNNING", "STOPPING"}
    BY <1>1, <1>4 DEF Honest
  <2>2. new \in {"RUNNING", "STOPPING", "IDLE", "FAULT", "PREPARING"}
    BY <2>1 DEF Watching, Same
  <2>3. Ended(s) <=> new \notin {"RUNNING", "STOPPING"}
    BY <1>2, <1>4, <2>1 DEF Ended
  <2>4. s \in missed' <=> new = "PREPARING"
    BY <1>2, <1>4, <2>1
  <2>5. Ends(s) <=> new \in {"IDLE", "FAULT"}
    BY <2>1 DEF Ends
  <2>6. ASSUME new = "IDLE"
        PROVE  Closing(s) = EndRecord(s)
    <3>1. old = "STOPPING" /\ slots[s].age > Lag1
      BY <2>1, <2>6 DEF Watching, Same
    <3>2. prev_stop[s] = slots[s].reason
      BY <1>1, <3>1, OldIsSeen
    <3> QED
      BY <2>1, <2>6, <3>1, <3>2 DEF Closing, EndRecord, EndReason, StopTok
  <2>7. ASSUME new = "FAULT"
        PROVE  Closing(s) = EndRecord(s)
    <3>1. old = "RUNNING"
      BY <2>1, <2>7 DEF Watching, Same
    <3> QED
      BY <2>1, <2>7, <3>1 DEF Closing, EndRecord, EndReason, StopTok
  <2> QED
    BY <1>4, <2>1, <2>2, <2>3, <2>4, <2>5, <2>6, <2>7
<1> QED
  BY <1>3, <1>4

LEMMA NoSyncRecords ==
  ASSUME MeterInv, Ran, NEW s \in Slot,
         Unwatched(slots'[s], slots[s]) \/ Waits(slots'[s], slots[s])
  PROVE  ~Ended(s)
<1>1. Honest(s)
  BY DEF MeterInv
<1>2. ran[s] # NoRoute => /\ slots[s].state \in {"RUNNING", "STOPPING"}
                          /\ slots'[s].state \in {"RUNNING", "STOPPING"}
  BY <1>1 DEF Honest, Unwatched, Waits, Same, Live
<1>3. ran'[s] = IF slots[s].state = "PREPARING" /\ slots'[s].state = "RUNNING"
                THEN IF stamped' THEN slots'[s].route ELSE NoRoute
                ELSE IF slots'[s].state \in {"RUNNING", "STOPPING"} THEN ran[s]
                ELSE NoRoute
  BY RanFacts
<1> QED
  BY <1>2, <1>3 DEF Ended

\* Every stamped run is closed once, when it is over, for its route and with the
\* reason it ended for (none for a stalled flow), and nothing else is closed, for every plant and number of
\* slots, as long as no run is missed.
THEOREM EveryRunIsRecorded == MeteredSpec => RunsAreRecorded
<1> DEFINE Recorded ==
      {c \in closed' : c.slot \notin missed}
        = {EndRecord(s) : s \in {t \in Slot : Ended(t) /\ t \notin missed'}}
<1>1. ASSUME Inv, Inv', MeterInv, MeteredNext
      PROVE  Recorded
  <2>1. CASE Sync /\ Ran /\ \A s \in Slot : Watching(slots'[s], slots[s])
    <3>1. \A s \in Slot :
            /\ (Ends(s) /\ open[s] # NoRoute /\ s \notin missed)
                 <=> (Ended(s) /\ s \notin missed')
            /\ Ended(s) /\ s \notin missed' => Closing(s) = EndRecord(s)
      BY <1>1, <2>1, SyncRecords
    <3>2. closed' = {Closing(s) : s \in {t \in Slot : Ends(t) /\ open[t] # NoRoute}}
      BY <2>1, SyncFacts
    <3>3. \A s : Closing(s).slot = s
      BY DEF Closing
    <3>4. {c \in closed' : c.slot \notin missed}
            = {Closing(s) : s \in {t \in Slot : Ends(t) /\ open[t] # NoRoute /\ t \notin missed}}
      <4> HIDE DEF Ends, Closing
      <4> QED
        BY <3>2, <3>3
    <3> HIDE DEF Ends, Closing, Ended, EndRecord
    <3> QED
      BY <3>1, <3>4
  <2>2. CASE NoSync /\ Ran /\ \A s \in Slot : \/ Unwatched(slots'[s], slots[s])
                                              \/ Waits(slots'[s], slots[s])
    <3>1. \A s \in Slot : ~Ended(s)
      BY <1>1, <2>2, NoSyncRecords
    <3>2. closed' = {}
      BY <2>2 DEF NoSync
    <3> QED
      BY <3>1, <3>2
  <2> QED
    BY <1>1, <2>1, <2>2, StepKinds
<1>2. Inv /\ Inv' /\ MeterInv /\ [MeteredNext]_<<vars, meter>> => [Recorded]_<<vars, meter>>
  BY <1>1
<1> QED
  BY <1>2, MeteredKernel, MeterInvariance, PTL DEF MeteredSpec, RunsAreRecorded
=============================================================================
