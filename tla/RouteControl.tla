----------------------------- MODULE RouteControl -----------------------------
(***************************************************************************)
(* The control kernel of the controller firmware (maji_control): a small   *)
(* pool of slots in which routes run, the queue of starts that wait for a  *)
(* slot or for a conflicting route to leave, the 1 s tick that moves slots *)
(* and reconciles pumps and valves, and the 2 s safety monitor.            *)
(*                                                                         *)
(* Everything here runs on the ESPHome main loop, so a handler is one      *)
(* atomic step; what is concurrent is the order in which commands, the two *)
(* ticks and the passage of time come.  Time is counted in seconds.  The   *)
(* code keeps uint32 stamps and only ever uses them as now - stamp, so the *)
(* model keeps that difference: an age, which wraps at Wrap as the         *)
(* unsigned subtraction does at 2^32 ms.                                   *)
(***************************************************************************)
EXTENDS Integers, Sequences, FiniteSets

CONSTANTS
  Route,                  \* the rows of the generated route table
  Valve, Pump,            \* the local actuators
  NoRoute, NoPump,        \* route_id = -1 and pump_idx = 0xFF
  NoSensor,               \* flow_sensor = 0xFF
  ValvesOf,               \* [Route -> SUBSET Valve]          valve_mask
  PumpOf,                 \* [Route -> Pump \cup {NoPump}]    pump_idx
  SensorOf,               \* [Route -> flow sensor]           flow_sensor
  Travel,                 \* [Route -> Nat]  slowest valve of the route
  StallEnabled,           \* monitored routes whose flow_stall tunable is on
  SourceChecked,          \* routes whose source level is checked in the run
  DestChecked,            \* routes whose destination level is checked
  OpenEnded,              \* routes that end outside a tank (dest_tank = 0xFF)
  StopSpec,               \* effective run parameters a start may carry
  Actor, System,          \* who a run is attributed to; System at boot
  Claimable,              \* actuators that manual or peer claims may hold
  FlowPump,               \* pumps with a flow sensor of their own
  PumpMaxRuntime,         \* [Pump -> Nat]  limit of a claim-only pump run
  MAX_CONCURRENT_ROUTES, MAX_QUEUE_SIZE,
  DEPRESSURIZE, SETTLE,   \* the 2 s window and the 1 s safety margin
  FlowWatchdog, FlowConfirm,
  Wrap,                   \* the modulus of the millisecond clock
  Lag1, Lag2,             \* longest time between two 1 s ticks, two 2 s ticks
  MayOverride             \* whether the operator uses safety_override

Slot == 0 .. MAX_CONCURRENT_ROUTES - 1

\* Routes with a flow sensor are watched and metered.
Monitored == {r \in Route : SensorOf[r] # NoSensor}

\* conflict_mask, as the generator computes it: the routes that share a meter.
Conflicts(r) ==
  {q \in Route \ {r} : r \in Monitored /\ SensorOf[q] = SensorOf[r]}

RouteTable ==
  /\ ValvesOf \in [Route -> SUBSET Valve]
  /\ PumpOf \in [Route -> Pump \cup {NoPump}]
  /\ Travel \in [Route -> Nat]
  /\ StallEnabled \subseteq Monitored
  /\ SourceChecked \subseteq Route /\ DestChecked \subseteq Route
  /\ OpenEnded \subseteq Route

ASSUME TableAssumption ==
  /\ RouteTable
  /\ NoRoute \notin Route /\ NoPump \notin Pump
  /\ StopSpec \subseteq [maxRuntime: Nat, duration: Nat, volume: BOOLEAN]
  /\ System \in Actor
  /\ Claimable \subseteq Valve \cup Pump
  /\ FlowPump \subseteq Pump /\ PumpMaxRuntime \in [Pump -> Nat]

ASSUME BoundsAssumption ==
  /\ MAX_CONCURRENT_ROUTES \in Nat \ {0}
  /\ MAX_QUEUE_SIZE \in 1 .. 4
  /\ DEPRESSURIZE \in Nat /\ SETTLE \in Nat
  /\ FlowWatchdog \in Nat /\ FlowConfirm \in Nat
  /\ Wrap \in Nat \ {0}
  /\ Lag1 \in Nat \ {0} /\ Lag2 \in Nat \ {0}
  /\ MayOverride \in BOOLEAN

VARIABLES
  slots,            \* [Slot -> the run in it]
  queue,            \* starts waiting, oldest first
  route_actor,      \* who each route's current state is attributed to
  safety_override,  \* the operator's bypass switch
  claims,           \* actuators with a live claim in maji_claims
  guard,            \* [Pump -> manual pump guard]
  commanded,        \* commanded_valve_mask: the valves told to be open
  pumpsOn,          \* the relays that are on
  since1, since2    \* time since the last 1 s and the last 2 s tick

control == <<slots, queue, route_actor>>
outputs == <<guard, commanded, pumpsOn>>
vars == <<slots, queue, route_actor, safety_override, claims, guard,
          commanded, pumpsOn, since1, since2>>

-----------------------------------------------------------------------------
States == {"IDLE", "PREPARING", "RUNNING", "STOPPING", "FAULT"}
StopReasons == {"NONE", "MANUAL", "TANK_FULL", "NO_FLOW", "MAX_RUNTIME",
                "SOURCE_LOW", "VOLUME_REACHED", "DURATION_REACHED",
                "FLOW_STALLED"}
Age == 0 .. Wrap - 1
NotSince == -1                 \* a stamp of 0: the event has not begun
AgeOrNot == Age \cup {NotSince}

Older(a) == IF a = NotSince THEN a ELSE (a + 1) % Wrap

NoSpec == [maxRuntime |-> 0, duration |-> 0, volume |-> FALSE]

\* A run's limit is a uint16 of seconds, far below 2^32 ms.
ASSUME LimitAssumption ==
  \A spec \in StopSpec \cup {NoSpec} : spec.maxRuntime + Lag2 < Wrap

\* One age serves start_time, run_start_time and stop_time: each is stamped on
\* entry to the state it times and read only there.  fault_code is set only
\* together with the state FAULT, so the state stands for it.
SlotRecord == [route: Route \cup {NoRoute}, state: States, age: Age,
               spec: StopSpec \cup {NoSpec}, reason: StopReasons,
               flowFor: AgeOrNot, lastFlow: Age, confirmed: BOOLEAN]
Entry == [route: Route, spec: StopSpec, actor: Actor]
PumpGuard == [latch: StopReasons, runFor: AgeOrNot, lastFlow: Age]

EmptySlot == [route |-> NoRoute, state |-> "IDLE", age |-> 0, spec |-> NoSpec,
              reason |-> "NONE", flowFor |-> NotSince, lastFlow |-> 0,
              confirmed |-> FALSE]
OpenGuard == [latch |-> "NONE", runFor |-> NotSince, lastFlow |-> 0]

-----------------------------------------------------------------------------
\* Views of a slot table.

Live(sl) == sl.state \in {"PREPARING", "RUNNING"}

InSlot(table, r) == \E s \in Slot : table[s].route = r

Free(table) == {s \in Slot : table[s].state = "IDLE"}

\* Mutant of HasConflict: only a RUNNING route stands in the way.
HasConflictRunningOnly(table, r) ==
  \E s \in Slot : table[s].state = "RUNNING" /\ table[s].route \in Conflicts(r)

HasConflict(table, r) ==
  \E s \in Slot : Live(table[s]) /\ table[s].route \in Conflicts(r)

\* pump_ref_count(table, p) > 0
RouteNeeds(table, p) ==
  \E s \in Slot : table[s].state = "RUNNING" /\ PumpOf[table[s].route] = p

SlotValves(sl) ==
  IF \/ Live(sl)
     \/ sl.state \in {"STOPPING", "FAULT"} /\ sl.age < DEPRESSURIZE
  THEN ValvesOf[sl.route] ELSE {}

DesiredValves(table) ==
  (UNION {SlotValves(table[s]) : s \in Slot}) \cup (claims \cap Valve)

\* No actuator on the path: nothing to run.
Runnable(r) == ValvesOf[r] # {} \/ PumpOf[r] # NoPump

-----------------------------------------------------------------------------
\* Starting a route.

FirstFree(table) ==
  CHOOSE s \in Free(table) : \A t \in Free(table) : s <= t

Activate(table, e) ==
  [table EXCEPT ![FirstFree(table)] =
     [EmptySlot EXCEPT !.route = e.route, !.state = "PREPARING",
                       !.spec = e.spec]]

Blocked(table, r) == HasConflict(table, r) \/ Free(table) = {}

\* Mutant of StartResult: the queue takes one entry too many.
StartResultOffByOne(r, level) ==
  IF ~Runnable(r) \/ InSlot(slots, r) THEN "REJECTED"
  ELSE IF Blocked(slots, r)
       THEN IF Len(queue) <= MAX_QUEUE_SIZE THEN "QUEUED" ELSE "REJECTED"
  ELSE IF safety_override THEN "STARTED" ELSE level

\* The result code of try_route_start for a command that is no duplicate;
\* level is what the pre-start level check says.
StartResult(r, level) ==
  IF ~Runnable(r) \/ InSlot(slots, r) THEN "REJECTED"
  ELSE IF Blocked(slots, r)
       THEN IF Len(queue) < MAX_QUEUE_SIZE THEN "QUEUED" ELSE "REJECTED"
  ELSE IF safety_override THEN "STARTED" ELSE level

PrecheckResults == {"STARTED", "SOURCE_LOW", "DEST_FULL"}

StartRoute(r, spec, actor, level) ==
  LET e == [route |-> r, spec |-> spec, actor |-> actor]
      rc == StartResult(r, level)
  IN /\ slots' = IF rc = "STARTED" THEN Activate(slots, e) ELSE slots
     /\ route_actor' = IF rc = "STARTED"
                       THEN [route_actor EXCEPT ![r] = actor] ELSE route_actor
     /\ queue' = IF rc = "QUEUED" THEN Append(queue, e) ELSE queue
     /\ UNCHANGED <<safety_override, claims, outputs, since1, since2>>

\* Entering STOPPING or FAULT.  The flow fields are not read again before
\* init_slot clears them; they are cleared here.
Stopped(sl, state, why) ==
  [EmptySlot EXCEPT !.route = sl.route, !.spec = sl.spec,
                    !.state = state, !.reason = why]

StopResult(r) ==
  IF ~InSlot(slots, r) THEN "NOT_ACTIVE"
  ELSE IF \E s \in Slot : slots[s].route = r /\ Live(slots[s])
       THEN "STOPPED" ELSE "ALREADY_STOPPING"

StopRoute(r, actor) ==
  /\ StopResult(r) = "STOPPED"
  /\ slots' = [s \in Slot |-> IF slots[s].route = r
                              THEN Stopped(slots[s], "STOPPING", "MANUAL")
                              ELSE slots[s]]
  /\ route_actor' = [route_actor EXCEPT ![r] = actor]
  /\ UNCHANGED <<queue, safety_override, claims, outputs, since1, since2>>

\* Mutant of StopAll: it stops every slot that is not idle.
StopAllActive ==
  /\ slots' = [s \in Slot |-> IF slots[s].state # "IDLE"
                              THEN Stopped(slots[s], "STOPPING", "MANUAL")
                              ELSE slots[s]]
  /\ queue' = <<>>
  /\ UNCHANGED <<route_actor, safety_override, claims, outputs, since1, since2>>

StopAll ==
  /\ slots' = [s \in Slot |-> IF Live(slots[s])
                              THEN Stopped(slots[s], "STOPPING", "MANUAL")
                              ELSE slots[s]]
  /\ queue' = <<>>
  /\ UNCHANGED <<route_actor, safety_override, claims, outputs, since1, since2>>

ClearQueue ==
  /\ queue' = <<>>
  /\ UNCHANGED <<slots, route_actor, safety_override, claims, outputs,
                 since1, since2>>

ResetFaults ==
  /\ slots' = [s \in Slot |-> IF slots[s].state = "FAULT"
                              THEN EmptySlot ELSE slots[s]]
  /\ guard' = [p \in Pump |-> [guard[p] EXCEPT !.latch = "NONE",
                                               !.runFor = NotSince]]
  /\ UNCHANGED <<queue, route_actor, safety_override, claims, commanded,
                 pumpsOn, since1, since2>>

FaultReset(r) ==
  /\ \E s \in Slot : slots[s].route = r /\ slots[s].state = "FAULT"
  /\ slots' = [s \in Slot |-> IF slots[s].route = r
                              THEN EmptySlot ELSE slots[s]]
  /\ UNCHANGED <<queue, route_actor, safety_override, claims, outputs,
                 since1, since2>>

SetOverride(on) ==
  /\ MayOverride
  /\ safety_override' = on
  /\ UNCHANGED <<control, claims, outputs, since1, since2>>

-----------------------------------------------------------------------------
\* Claims on single actuators, as the control kernel sees maji_claims.

\* node_set on = true, or a peer's claim: a manual pump claim is refused when
\* its pre-check fails (no flow sensor, or the source is low).
Extend(n, manual, sourceLow) ==
  /\ n \in Claimable
  /\ manual /\ n \in Pump /\ ~safety_override => n \in FlowPump /\ ~sourceLow
  /\ claims' = claims \cup {n}
  /\ UNCHANGED <<control, safety_override, outputs, since1, since2>>

\* node_set on = false drops the manual claim (a peer's may remain) and always
\* clears the pump's latch.
Release(n, peerHolds) ==
  /\ n \in Claimable
  /\ claims' = IF peerHolds THEN claims ELSE claims \ {n}
  /\ guard' = IF n \in Pump
              THEN [guard EXCEPT ![n].latch = "NONE", ![n].runFor = NotSince]
              ELSE guard
  /\ UNCHANGED <<control, safety_override, commanded, pumpsOn, since1, since2>>

\* A lease runs out.
Lapse(n) ==
  /\ n \in claims
  /\ claims' = claims \ {n}
  /\ UNCHANGED <<control, safety_override, outputs, since1, since2>>

-----------------------------------------------------------------------------
\* The 1 s tick: slot transitions, queue drain, pump guard, pumps, valves.

\* Mutants of TickSlot: one does not wait for the valves, the next forgets the
\* window of pressure, the last expects a tick at the very second the valves are
\* open.
TickSlotHasty(sl) ==
  IF sl.state = "PREPARING" /\ sl.age >= Travel[sl.route]
  THEN [sl EXCEPT !.state = "RUNNING", !.age = 0]
  ELSE IF sl.state = "STOPPING" /\ sl.age > DEPRESSURIZE + SETTLE
  THEN EmptySlot
  ELSE sl

TickSlotEarly(sl) ==
  IF sl.state = "PREPARING" /\ sl.age > Travel[sl.route] + SETTLE
  THEN [sl EXCEPT !.state = "RUNNING", !.age = 0]
  ELSE IF sl.state = "STOPPING" /\ sl.age > Travel[sl.route] + SETTLE
  THEN EmptySlot
  ELSE sl

TickSlotExact(sl) ==
  IF sl.state = "PREPARING" /\ sl.age = Travel[sl.route] + SETTLE
  THEN [sl EXCEPT !.state = "RUNNING", !.age = 0]
  ELSE IF /\ sl.state = "STOPPING"
          /\ sl.age > DEPRESSURIZE + Travel[sl.route] + SETTLE
  THEN EmptySlot
  ELSE sl

TickSlot(sl) ==
  IF sl.state = "PREPARING" /\ sl.age > Travel[sl.route] + SETTLE
  THEN [sl EXCEPT !.state = "RUNNING", !.age = 0]
  ELSE IF /\ sl.state = "STOPPING"
          /\ sl.age > DEPRESSURIZE + Travel[sl.route] + SETTLE
  THEN EmptySlot
  ELSE sl

\* Mutant of DrainStep: it does not look whether the route is in a slot.
DrainStepBlind(st) ==
  IF st.queue = <<>> THEN st
  ELSE LET e == Head(st.queue) IN
    IF Blocked(st.slots, e.route) THEN st
    ELSE [slots |-> Activate(st.slots, e), queue |-> Tail(st.queue),
          actor |-> [st.actor EXCEPT ![e.route] = e.actor]]

\* One round of the drain loop over st = [slots, queue, actor]; it stays put
\* once the loop is over.
DrainStep(st) ==
  IF st.queue = <<>> THEN st
  ELSE LET e == Head(st.queue) IN
    IF InSlot(st.slots, e.route) THEN [st EXCEPT !.queue = Tail(@)]
    ELSE IF Blocked(st.slots, e.route) THEN st
    ELSE [slots |-> Activate(st.slots, e), queue |-> Tail(st.queue),
          actor |-> [st.actor EXCEPT ![e.route] = e.actor]]

\* Mutant of Drain: one entry per tick.
DrainOnce(st) == DrainStep(st)

\* A round takes an entry out or ends the loop, and the ring holds at most
\* four entries.
Drain(st) == DrainStep(DrainStep(DrainStep(DrainStep(st))))

\* Mutant of GuardTick: a pump with a flow sensor is left to the flow watchdog.
GuardTickUncapped(g, p, table, flow) ==
  IF RouteNeeds(table, p) \/ p \notin claims
  THEN [g EXCEPT !.runFor = NotSince, !.latch = "NONE"]
  ELSE IF safety_override THEN [g EXCEPT !.runFor = NotSince]
  ELSE IF g.latch # "NONE" THEN g
  ELSE LET begun == IF g.runFor = NotSince
                    THEN [g EXCEPT !.runFor = 0, !.lastFlow = 0] ELSE g
           seen == IF flow THEN [begun EXCEPT !.lastFlow = 0] ELSE begun
       IN IF seen.runFor > FlowWatchdog /\ seen.lastFlow > FlowWatchdog
          THEN [seen EXCEPT !.latch = "NO_FLOW"] ELSE seen

\* manual_pump_guard_tick for one pump, given the slot table after the tick.
GuardTick(g, p, table, flow) ==
  IF RouteNeeds(table, p) \/ p \notin claims
  THEN [g EXCEPT !.runFor = NotSince, !.latch = "NONE"]
  ELSE IF safety_override THEN [g EXCEPT !.runFor = NotSince]
  ELSE IF g.latch # "NONE" THEN g
  ELSE LET begun == IF g.runFor = NotSince
                    THEN [g EXCEPT !.runFor = 0, !.lastFlow = 0] ELSE g
           seen == IF flow THEN [begun EXCEPT !.lastFlow = 0] ELSE begun
       IN IF /\ p \in FlowPump
             /\ seen.runFor > FlowWatchdog /\ seen.lastFlow > FlowWatchdog
          THEN [seen EXCEPT !.latch = "NO_FLOW"]
          ELSE IF seen.runFor > PumpMaxRuntime[p]
          THEN [seen EXCEPT !.latch = "MAX_RUNTIME"]
          ELSE seen

PumpWanted(table, g, p) ==
  \/ RouteNeeds(table, p)
  \/ p \in claims /\ (safety_override \/ g[p].latch = "NONE")

Tick1s(pumpFlow) ==
  LET ticked == [s \in Slot |-> TickSlot(slots[s])]
      drained == Drain([slots |-> ticked, queue |-> queue,
                        actor |-> route_actor])
  IN /\ since1 > 0
     /\ slots' = drained.slots
     /\ queue' = drained.queue
     /\ route_actor' = drained.actor
     /\ guard' = [p \in Pump |->
                    GuardTick(guard[p], p, slots', p \in pumpFlow)]
     /\ pumpsOn' = {p \in Pump : PumpWanted(slots', guard', p)}
     /\ commanded' = DesiredValves(slots')
     /\ since1' = 0
     /\ UNCHANGED <<safety_override, claims, since2>>

-----------------------------------------------------------------------------
\* The 2 s safety monitor.

Sampled(sl, flow) ==
  IF sl.route \notin Monitored THEN sl
  ELSE IF ~flow THEN [sl EXCEPT !.flowFor = NotSince]
  ELSE LET since == IF sl.flowFor = NotSince THEN 0 ELSE sl.flowFor
       IN [sl EXCEPT !.flowFor = since, !.lastFlow = 0,
                     !.confirmed = @ \/ since >= FlowConfirm]

FlowOverdue(sl) ==
  /\ sl.route \in Monitored
  /\ sl.age > FlowWatchdog /\ sl.lastFlow > FlowWatchdog

\* Mutant of CleanStop: without the backstop of the maximum runtime.
CleanStopUncapped(sl, low, full, volumeMet) ==
  IF low THEN "SOURCE_LOW"
  ELSE IF full THEN "TANK_FULL"
  ELSE IF volumeMet THEN "VOLUME_REACHED"
  ELSE IF sl.spec.duration > 0 /\ sl.age >= sl.spec.duration
       THEN "DURATION_REACHED"
  ELSE "NONE"

\* The first clean stop that applies, in the order of the code.
CleanStop(sl, low, full, volumeMet) ==
  IF low THEN "SOURCE_LOW"
  ELSE IF full THEN "TANK_FULL"
  ELSE IF volumeMet THEN "VOLUME_REACHED"
  ELSE IF sl.spec.duration > 0 /\ sl.age >= sl.spec.duration
       THEN "DURATION_REACHED"
  ELSE IF sl.age > sl.spec.maxRuntime THEN "MAX_RUNTIME"
  ELSE "NONE"

\* An unconfirmed run without flow faults before any other check; a confirmed
\* run that stalls overrides whatever clean stop the checks before it chose.
WatchSlot(sl, flow, low, full, volumeMet) ==
  LET m == Sampled(sl, flow)
      clean == CleanStop(m, low, full, volumeMet)
  IN IF FlowOverdue(m) /\ ~m.confirmed THEN Stopped(m, "FAULT", "NO_FLOW")
     ELSE IF FlowOverdue(m) /\ sl.route \in StallEnabled
          THEN Stopped(m, "STOPPING", IF sl.route \in OpenEnded
                                      THEN "FLOW_STALLED" ELSE "TANK_FULL")
     ELSE IF clean # "NONE" THEN Stopped(m, "STOPPING", clean)
     ELSE m

\* The slots in which one of the given routes is running.
Running(routes) ==
  {s \in Slot : slots[s].state = "RUNNING" /\ slots[s].route \in routes}

\* flow, low, full and volumeMet: the slots whose sensors say so this tick.
Tick2s(flow, low, full, volumeMet) ==
  /\ since2 > 0
  /\ slots' = IF safety_override THEN slots
              ELSE [s \in Slot |->
                      IF slots[s].state = "RUNNING"
                      THEN WatchSlot(slots[s], s \in flow, s \in low,
                                     s \in full, s \in volumeMet)
                      ELSE slots[s]]
  /\ since2' = 0
  /\ UNCHANGED <<queue, route_actor, safety_override, claims, outputs, since1>>

-----------------------------------------------------------------------------
\* Time passes by one second, as long as neither tick is overdue.

OlderSlot(sl) ==
  IF sl.state = "IDLE" THEN sl
  ELSE [sl EXCEPT !.age = Older(@),
                  !.flowFor = Older(@),
                  !.lastFlow = IF sl.state = "RUNNING" /\ sl.route \in Monitored
                               THEN Older(@) ELSE @]

OlderGuard(g) ==
  IF g.runFor = NotSince THEN g
  ELSE [g EXCEPT !.runFor = Older(@), !.lastFlow = Older(@)]

Elapse ==
  /\ since1 < Lag1 /\ since2 < Lag2
  /\ slots' = [s \in Slot |-> OlderSlot(slots[s])]
  /\ guard' = [p \in Pump |-> OlderGuard(guard[p])]
  /\ since1' = since1 + 1
  /\ since2' = since2 + 1
  /\ UNCHANGED <<queue, route_actor, safety_override, claims, commanded,
                 pumpsOn>>

-----------------------------------------------------------------------------
\* setup() closes every valve and starts with empty slots and an empty queue.
Init ==
  /\ slots = [s \in Slot |-> EmptySlot]
  /\ queue = <<>>
  /\ route_actor = [r \in Route |-> System]
  /\ safety_override = FALSE
  /\ claims = {}
  /\ guard = [p \in Pump |-> OpenGuard]
  /\ commanded = {}
  /\ pumpsOn = {}
  /\ since1 = 0
  /\ since2 = 0

Commands ==
  \/ \E r \in Route, spec \in StopSpec, actor \in Actor,
        level \in PrecheckResults : StartRoute(r, spec, actor, level)
  \/ \E r \in Route, actor \in Actor : StopRoute(r, actor)
  \/ \E r \in Route : FaultReset(r)
  \/ StopAll
  \/ ClearQueue
  \/ ResetFaults
  \/ \E on \in BOOLEAN : SetOverride(on)

ClaimChanges ==
  \E n \in Claimable :
    \/ \E manual, sourceLow \in BOOLEAN : Extend(n, manual, sourceLow)
    \/ \E peerHolds \in BOOLEAN : Release(n, peerHolds)
    \/ Lapse(n)

SomeTick1s == \E pumpFlow \in SUBSET (FlowPump \cap claims) : Tick1s(pumpFlow)

SomeTick2s ==
  \E flow \in SUBSET Running(Monitored), low \in SUBSET Running(SourceChecked),
     full \in SUBSET Running(DestChecked),
     volumeMet \in SUBSET {s \in Running(Monitored) : slots[s].spec.volume} :
    Tick2s(flow, low, full, volumeMet)

Next == Commands \/ ClaimChanges \/ SomeTick1s \/ SomeTick2s \/ Elapse

Spec == Init /\ [][Next]_vars

\* The main loop keeps running and its intervals keep firing: the 1 s tick falls
\* due and comes, again and again.  As time waits for a tick that is overdue, so
\* does the 2 s tick: this is the weak fairness of Elapse and both ticks, told
\* by the state they leave.
Fairness == []<>(since1 > 0) /\ []<>(since1 = 0)

-----------------------------------------------------------------------------
(***************************************************************************)
(* What the kernel promises.                                               *)
(***************************************************************************)

\* Every variable keeps its type: the slot table, the bounded queue, the guard
\* and the two tick timers.
TypeOK ==
  /\ slots \in [Slot -> SlotRecord]
  /\ queue \in Seq(Entry) /\ Len(queue) <= MAX_QUEUE_SIZE
  /\ route_actor \in [Route -> Actor]
  /\ safety_override \in BOOLEAN
  /\ claims \subseteq Claimable
  /\ guard \in [Pump -> PumpGuard]
  /\ commanded \subseteq Valve
  /\ pumpsOn \subseteq Pump
  /\ since1 \in 0 .. Lag1 /\ since2 \in 0 .. Lag2

\* A route is in at most one slot, and a slot is empty exactly when it is IDLE,
\* however starts, the drain of queued duplicates and fault resets interleave.
\* find_slot_by_route returns the first match only, so a second copy could
\* never be stopped.
OneSlotPerRoute ==
  /\ \A s \in Slot : slots[s].state = "IDLE" <=> slots[s].route = NoRoute
  /\ \A s, t \in Slot :
       slots[s].route = slots[t].route /\ slots[s].route # NoRoute => s = t

\* No two routes that share a meter prepare or run together: neither a direct
\* start nor the drain, which may fill several slots in one tick, lets a
\* conflicting route in.
NoConflictingRuns ==
  \A s, t \in Slot :
    Live(slots[s]) /\ Live(slots[t])
      => slots[s].route \notin Conflicts(slots[t].route)

\* The drain never stops early: when a 1 s tick leaves a start in the queue,
\* the start at its head conflicts with a live run or finds no free slot.
DrainIsComplete ==
  [][since1' < since1 => \/ queue' = <<>>
                         \/ Blocked(slots', Head(queue').route)]_vars

\* A fault latches: whatever commands and ticks come, the route stays in its
\* slot in FAULT, and is not started again, until the operator resets it.
FaultLatches ==
  [][\A s \in Slot :
       slots[s].state = "FAULT" /\ slots'[s].state # "FAULT"
         => since1' = since1 /\ since2' = since2 /\ slots'[s] = EmptySlot]_vars

\* The monitor bounds a run: as long as it is never overridden, a run does not
\* outlast its limit, nor a run that never confirmed flow stay without flow
\* past the watchdog, by more than the monitor's own period.
WatchedRunBounded ==
  ~MayOverride =>
    \A s \in Slot : slots[s].state = "RUNNING" =>
      /\ slots[s].age <= slots[s].spec.maxRuntime + Lag2
      /\ slots[s].route \in Monitored /\ ~slots[s].confirmed
           => slots[s].lastFlow <= FlowWatchdog + Lag2

\* A run that has begun comes to rest: its slot is emptied or latches a fault,
\* unless the operator has overridden the monitor.
RunsFinish ==
  \A s \in Slot :
    slots[s].state \in {"PREPARING", "RUNNING", "STOPPING"}
      ~> slots[s].state \in {"IDLE", "FAULT"} \/ safety_override

\* Without new starts every queued start gets its turn, or faults come to hold
\* every slot.
QueueDrains ==
  queue # <<>> ~> queue = <<>> \/ \A s \in Slot : slots[s].state = "FAULT"
=============================================================================
