-------------------------- MODULE RouteControlProofs --------------------------
(***************************************************************************)
(* Proofs about RouteControl for every route table, every number of slots  *)
(* and every bound.  The inductive invariant is Inv: the type invariant,   *)
(* OneSlotPerRoute and NoConflictingRuns.  They need each other: that the  *)
(* valves told to open are valves rests on a busy slot holding a route.    *)
(***************************************************************************)
EXTENDS RouteControl, TLAPS, WellFoundedInduction

\* Both facts about a slot table that no step may break, and its type.
Table == [Slot -> SlotRecord]

Tidy(t) ==
  /\ \A s \in Slot : t[s].state = "IDLE" <=> t[s].route = NoRoute
  /\ \A s, u \in Slot :
       t[s].route = t[u].route /\ t[s].route # NoRoute => s = u

Apart(t) ==
  \A s, u \in Slot :
    Live(t[s]) /\ Live(t[u]) => t[s].route \notin Conflicts(t[u].route)

Good(t) == t \in Table /\ Tidy(t) /\ Apart(t)

\* What a step may do to one slot: empty it, or let its run go on without
\* becoming live again.
Yields(new, old) ==
  \/ new.route = NoRoute /\ new.state = "IDLE"
  \/ /\ new.route = old.route
     /\ new.state = "IDLE" <=> old.state = "IDLE"
     /\ Live(new) => Live(old)

Inv == TypeOK /\ OneSlotPerRoute /\ NoConflictingRuns

-----------------------------------------------------------------------------
(***************************************************************************)
(* Slot tables.                                                            *)
(***************************************************************************)

\* Sharing a meter is mutual.
LEMMA ConflictsSymmetric ==
  ASSUME NEW q \in Route, NEW r \in Route, q \in Conflicts(r)
  PROVE  r \in Conflicts(q)
BY DEF Conflicts, Monitored

\* A step that only empties slots or lets their runs wind down keeps a table
\* good.
LEMMA YieldingIsGood ==
  ASSUME NEW t, Good(t), NEW u \in Table,
         \A s \in Slot : Yields(u[s], t[s])
  PROVE  Good(u)
<1>1. Tidy(u)
  BY DEF Good, Tidy, Yields
<1>2. Apart(u)
  <2> SUFFICES ASSUME NEW s \in Slot, NEW v \in Slot, Live(u[s]), Live(u[v])
               PROVE  u[s].route \notin Conflicts(u[v].route)
    BY DEF Apart
  <2>1. /\ Live(t[s]) /\ u[s].route = t[s].route
        /\ Live(t[v]) /\ u[v].route = t[v].route
    BY DEF Yields, Live
  <2> QED
    BY <2>1 DEF Good, Apart
<1> QED
  BY <1>1, <1>2 DEF Good

LEMMA EmptySlotType == EmptySlot \in SlotRecord
BY BoundsAssumption DEF EmptySlot, SlotRecord, States, StopReasons, Age,
                        AgeOrNot, NotSince, NoSpec

LEMMA ActivatedType ==
  ASSUME NEW t \in Table, NEW e \in Entry
  PROVE  Activate(t, e) \in Table
<1>1. [EmptySlot EXCEPT !.route = e.route, !.state = "PREPARING",
                        !.spec = e.spec] \in SlotRecord
  BY EmptySlotType DEF SlotRecord, Entry, States
<1> QED
  BY <1>1 DEF Activate, Table

\* Starting a route that is in no slot and conflicts with none keeps a table
\* good, wherever it is put.
LEMMA ActivateIsGood ==
  ASSUME NEW t, Good(t), NEW e \in Entry,
         ~InSlot(t, e.route), ~HasConflict(t, e.route)
  PROVE  Good(Activate(t, e))
<1> DEFINE u == Activate(t, e)
           f == FirstFree(t)
<1>1. t \in Table /\ u \in Table
  BY ActivatedType DEF Good
<1>2. \A s \in Slot :
        \/ u[s] = t[s]
        \/ s = f /\ u[s].route = e.route /\ u[s].state = "PREPARING"
  <2> SUFFICES ASSUME NEW s \in Slot
               PROVE  \/ u[s] = t[s]
                      \/ /\ s = f
                         /\ u[s].route = e.route /\ u[s].state = "PREPARING"
    OBVIOUS
  <2>1. CASE s = f
    BY <1>1, <2>1 DEF Activate, Table, EmptySlot
  <2>2. CASE s # f
    BY <1>1, <2>2 DEF Activate, Table
  <2> QED
    BY <2>1, <2>2
<1>3. e.route \in Route /\ e.route # NoRoute
  BY TableAssumption DEF Entry
<1>4. Tidy(u)
  <2> HIDE DEF u, f
  <2> QED BY <1>2, <1>3 DEF Good, Tidy, InSlot
<1>5. Apart(u)
  <2> HIDE DEF u, f
  <2> SUFFICES ASSUME NEW s \in Slot, NEW v \in Slot, Live(u[s]), Live(u[v])
               PROVE  u[s].route \notin Conflicts(u[v].route)
    BY DEF Apart
  <2>1. CASE u[s] = t[s] /\ u[v] = t[v]
    BY <2>1 DEF Good, Apart
  <2>2. CASE u[s] = t[s] /\ u[v].route = e.route
    BY <2>2 DEF HasConflict
  <2>3. CASE u[s].route = e.route /\ u[v].route = e.route
    BY <2>3 DEF Conflicts
  <2>4. CASE u[s].route = e.route /\ u[v] = t[v]
    <3>1. t[v].route \notin Conflicts(e.route)
      BY <2>4 DEF HasConflict
    <3>2. t[v].route # NoRoute
      BY <2>4 DEF Good, Tidy, Live
    <3>3. t[v].route \in Route
      BY <3>2, <1>1 DEF Table, SlotRecord
    <3> QED
      BY <2>4, <3>1, <3>3, <1>3, ConflictsSymmetric
  <2> QED
    BY <1>2, <2>1, <2>2, <2>3, <2>4
<1> QED
  BY <1>1, <1>4, <1>5 DEF Good

-----------------------------------------------------------------------------
(***************************************************************************)
(* What the tick, the monitor, a stop and the clock do to one slot.        *)
(***************************************************************************)

LEMMA OlderType ==
  ASSUME NEW a \in AgeOrNot
  PROVE  /\ Older(a) \in AgeOrNot
         /\ a \in Age => Older(a) \in Age
<1>1. a \in Age => (a + 1) % Wrap \in Age
  BY BoundsAssumption DEF Age
<1> QED
  BY <1>1, BoundsAssumption DEF Older, AgeOrNot, Age, NotSince

LEMMA StoppedType ==
  ASSUME NEW sl \in SlotRecord, NEW state \in {"STOPPING", "FAULT"},
         NEW why \in StopReasons
  PROVE  /\ Stopped(sl, state, why) \in SlotRecord
         /\ Stopped(sl, state, why).route = sl.route
         /\ Stopped(sl, state, why).state = state
BY EmptySlotType DEF Stopped, EmptySlot, SlotRecord, States

LEMMA TickSlotYields ==
  ASSUME NEW sl \in SlotRecord
  PROVE  TickSlot(sl) \in SlotRecord /\ Yields(TickSlot(sl), sl)
<1>1. CASE sl.state = "PREPARING" /\ sl.age > Travel[sl.route] + SETTLE
  <2>1. TickSlot(sl) = [sl EXCEPT !.state = "RUNNING", !.age = 0]
    BY <1>1 DEF TickSlot
  <2>2. 0 \in Age /\ "RUNNING" \in States /\ sl.state = "PREPARING"
    BY <1>1, BoundsAssumption DEF Age, States
  <2>3. TickSlot(sl) \in SlotRecord
    BY <2>1, <2>2 DEF SlotRecord
  <2>4. TickSlot(sl).route = sl.route /\ TickSlot(sl).state = "RUNNING"
    BY <2>1 DEF SlotRecord
  <2> QED
    BY <2>2, <2>3, <2>4 DEF Yields, Live
<1>2. CASE TickSlot(sl) = EmptySlot
  BY <1>2, EmptySlotType DEF Yields, EmptySlot
<1>3. CASE TickSlot(sl) = sl
  BY <1>3 DEF Yields
<1> QED
  BY <1>1, <1>2, <1>3 DEF TickSlot

LEMMA OlderSlotYields ==
  ASSUME NEW sl \in SlotRecord
  PROVE  OlderSlot(sl) \in SlotRecord /\ Yields(OlderSlot(sl), sl)
<1>1. /\ Older(sl.age) \in Age
      /\ Older(sl.flowFor) \in AgeOrNot
      /\ Older(sl.lastFlow) \in Age
  BY OlderType DEF SlotRecord, AgeOrNot
<1>2. CASE sl.state = "IDLE"
  BY <1>2 DEF OlderSlot, Yields
<1>3. CASE sl.state # "IDLE"
  BY <1>1, <1>3 DEF OlderSlot, Yields, SlotRecord, Live
<1> QED
  BY <1>2, <1>3

LEMMA SampledType ==
  ASSUME NEW sl \in SlotRecord, NEW flow \in BOOLEAN
  PROVE  /\ Sampled(sl, flow) \in SlotRecord
         /\ Sampled(sl, flow).route = sl.route
         /\ Sampled(sl, flow).state = sl.state
<1> DEFINE since == IF sl.flowFor = NotSince THEN 0 ELSE sl.flowFor
<1>1. since \in AgeOrNot /\ 0 \in Age
  BY BoundsAssumption DEF SlotRecord, AgeOrNot, Age
<1>2. sl.confirmed \in BOOLEAN /\ (sl.confirmed \/ since >= FlowConfirm) \in BOOLEAN
  BY DEF SlotRecord
<1> QED
  BY <1>1, <1>2 DEF Sampled, SlotRecord, AgeOrNot

LEMMA CleanStopType ==
  ASSUME NEW sl, NEW low, NEW full, NEW volumeMet
  PROVE  CleanStop(sl, low, full, volumeMet) \in StopReasons
BY DEF CleanStop, StopReasons

LEMMA WatchSlotYields ==
  ASSUME NEW sl \in SlotRecord, sl.state = "RUNNING",
         NEW flow \in BOOLEAN, NEW low, NEW full, NEW volumeMet
  PROVE  /\ WatchSlot(sl, flow, low, full, volumeMet) \in SlotRecord
         /\ Yields(WatchSlot(sl, flow, low, full, volumeMet), sl)
<1> DEFINE m == Sampled(sl, flow)
           clean == CleanStop(m, low, full, volumeMet)
           new == WatchSlot(sl, flow, low, full, volumeMet)
<1>1. m \in SlotRecord /\ m.route = sl.route /\ m.state = "RUNNING"
  BY SampledType
<1>2. \/ new = m
      \/ \E state \in {"STOPPING", "FAULT"}, why \in StopReasons :
           new = Stopped(m, state, why)
  <2>1. /\ clean \in StopReasons /\ "NO_FLOW" \in StopReasons
        /\ "FLOW_STALLED" \in StopReasons /\ "TANK_FULL" \in StopReasons
    BY CleanStopType DEF StopReasons
  <2> QED
    BY <2>1 DEF WatchSlot
<1>3. CASE new = m
  BY <1>1, <1>3 DEF Yields, Live
<1>4. ASSUME NEW state \in {"STOPPING", "FAULT"}, NEW why \in StopReasons,
             new = Stopped(m, state, why)
      PROVE  new \in SlotRecord /\ Yields(new, sl)
  <2> HIDE DEF m, new
  <2>1. /\ new \in SlotRecord
        /\ new.route = sl.route /\ new.state = state
    BY <1>1, <1>4, StoppedType
  <2> QED
    BY <2>1 DEF Yields, Live
<1> QED
  BY <1>2, <1>3, <1>4

-----------------------------------------------------------------------------
(***************************************************************************)
(* The drain of the queue.                                                 *)
(***************************************************************************)

\* The slots, the queue and the attribution while the drain goes on.
Draining(st) ==
  /\ st \in [slots: Table, queue: Seq(Entry), actor: [Route -> Actor]]
  /\ Len(st.queue) <= MAX_QUEUE_SIZE
  /\ Good(st.slots)

LEMMA DrainStepIsGood ==
  ASSUME NEW st, Draining(st)
  PROVE  Draining(DrainStep(st))
<1> DEFINE e == Head(st.queue)
<1>1. CASE st.queue = <<>>
  BY <1>1 DEF DrainStep
<1>2. CASE st.queue # <<>>
  <2>1. /\ e \in Entry /\ Tail(st.queue) \in Seq(Entry)
        /\ Len(Tail(st.queue)) <= MAX_QUEUE_SIZE
    BY <1>2, BoundsAssumption DEF Draining
  <2>2. CASE InSlot(st.slots, e.route)
    BY <1>2, <2>1, <2>2 DEF DrainStep, Draining
  <2>3. CASE ~InSlot(st.slots, e.route) /\ Blocked(st.slots, e.route)
    BY <1>2, <2>3 DEF DrainStep
  <2>4. CASE ~InSlot(st.slots, e.route) /\ ~Blocked(st.slots, e.route)
    <3>1. DrainStep(st) = [slots |-> Activate(st.slots, e),
                           queue |-> Tail(st.queue),
                           actor |-> [st.actor EXCEPT ![e.route] = e.actor]]
      BY <1>2, <2>4 DEF DrainStep
    <3>2. Good(Activate(st.slots, e))
      BY <2>1, <2>4, ActivateIsGood DEF Draining, Blocked
    <3>3. [st.actor EXCEPT ![e.route] = e.actor] \in [Route -> Actor]
      BY <2>1 DEF Draining, Entry
    <3> QED
      BY <2>1, <3>1, <3>2, <3>3 DEF Draining, Good
  <2> QED
    BY <2>2, <2>3, <2>4
<1> QED
  BY <1>1, <1>2

LEMMA DrainIsGood ==
  ASSUME NEW st, Draining(st)
  PROVE  Draining(Drain(st))
<1>1. Draining(DrainStep(st))
  BY DrainStepIsGood
<1>2. Draining(DrainStep(DrainStep(st)))
  BY <1>1, DrainStepIsGood
<1>3. Draining(DrainStep(DrainStep(DrainStep(st))))
  BY <1>2, DrainStepIsGood
<1> QED
  BY <1>3, DrainStepIsGood DEF Drain

-----------------------------------------------------------------------------
(***************************************************************************)
(* The pump guard and the outputs.                                         *)
(***************************************************************************)

LEMMA OlderGuardType ==
  ASSUME NEW g \in PumpGuard
  PROVE  OlderGuard(g) \in PumpGuard
<1>1. Older(g.runFor) \in AgeOrNot /\ Older(g.lastFlow) \in Age
  BY OlderType DEF PumpGuard, AgeOrNot
<1> QED
  BY <1>1 DEF OlderGuard, PumpGuard

LEMMA GuardTickType ==
  ASSUME NEW g \in PumpGuard, NEW p \in Pump, NEW table, NEW flow
  PROVE  GuardTick(g, p, table, flow) \in PumpGuard
<1> DEFINE begun == IF g.runFor = NotSince
                    THEN [g EXCEPT !.runFor = 0, !.lastFlow = 0] ELSE g
           seen == IF flow THEN [begun EXCEPT !.lastFlow = 0] ELSE begun
<1>1. /\ 0 \in Age /\ 0 \in AgeOrNot /\ NotSince \in AgeOrNot
      /\ {"NONE", "NO_FLOW", "MAX_RUNTIME"} \subseteq StopReasons
  BY BoundsAssumption DEF Age, AgeOrNot, StopReasons
<1>2. begun \in PumpGuard
  BY <1>1 DEF PumpGuard
<1>3. seen \in PumpGuard
  <2> HIDE DEF begun
  <2> QED BY <1>1, <1>2 DEF PumpGuard
<1>4. /\ [seen EXCEPT !.latch = "NO_FLOW"] \in PumpGuard
      /\ [seen EXCEPT !.latch = "MAX_RUNTIME"] \in PumpGuard
      /\ [g EXCEPT !.runFor = NotSince] \in PumpGuard
      /\ [g EXCEPT !.runFor = NotSince, !.latch = "NONE"] \in PumpGuard
  <2> HIDE DEF seen
  <2> QED BY <1>1, <1>3 DEF PumpGuard
<1> HIDE DEF begun
<1>5. GuardTick(g, p, table, flow) \in
        {g, seen, [seen EXCEPT !.latch = "NO_FLOW"],
         [seen EXCEPT !.latch = "MAX_RUNTIME"],
         [g EXCEPT !.runFor = NotSince],
         [g EXCEPT !.runFor = NotSince, !.latch = "NONE"]}
  BY DEF GuardTick, begun
<1> HIDE DEF seen
<1> QED
  BY <1>3, <1>4, <1>5

\* The union of what busy slots claim is a set of valves.
LEMMA DesiredValvesType ==
  ASSUME NEW t, Good(t), claims \subseteq Claimable
  PROVE  DesiredValves(t) \subseteq Valve
<1>1. ASSUME NEW s \in Slot
      PROVE  SlotValves(t[s]) \subseteq Valve
  <2>1. CASE SlotValves(t[s]) = {}
    BY <2>1
  <2>2. CASE t[s].state # "IDLE" /\ SlotValves(t[s]) = ValvesOf[t[s].route]
    <3>1. t[s].route \in Route
      BY <2>2 DEF Good, Tidy, Table, SlotRecord
    <3> QED
      BY <2>2, <3>1, TableAssumption DEF RouteTable
  <2> QED
    BY <2>1, <2>2 DEF SlotValves, Live
<1> QED
  BY <1>1 DEF DesiredValves

-----------------------------------------------------------------------------
(***************************************************************************)
(* Every step keeps the invariant.                                         *)
(***************************************************************************)

\* The invariant, put in the terms of the lemmas above.
LEMMA InvIsGood ==
  /\ Inv => Good(slots)
  /\ Inv' <=> TypeOK' /\ Tidy(slots') /\ Apart(slots')
<1>1. OneSlotPerRoute' <=> Tidy(slots')
  BY DEF OneSlotPerRoute, Tidy
<1>2. NoConflictingRuns' <=> Apart(slots')
  BY DEF NoConflictingRuns, Apart
<1> QED
  BY <1>1, <1>2 DEF Inv, TypeOK, OneSlotPerRoute, NoConflictingRuns, Good,
                    Table, Tidy, Apart

LEMMA InitInv == Init => Inv
<1> SUFFICES ASSUME Init
             PROVE  Inv
  OBVIOUS
<1>1. OpenGuard \in PumpGuard
  BY BoundsAssumption DEF OpenGuard, PumpGuard, StopReasons, AgeOrNot, Age
<1>2. TypeOK
  <2>1. queue \in Seq(Entry) /\ Len(queue) <= MAX_QUEUE_SIZE
    BY BoundsAssumption DEF Init
  <2>2. since1 \in 0 .. Lag1 /\ since2 \in 0 .. Lag2
    BY BoundsAssumption DEF Init
  <2>3. slots \in [Slot -> SlotRecord] /\ guard \in [Pump -> PumpGuard]
    BY <1>1, EmptySlotType DEF Init
  <2> QED
    BY <2>1, <2>2, <2>3, TableAssumption DEF Init, TypeOK
<1>3. \A s \in Slot : slots[s].state = "IDLE" /\ slots[s].route = NoRoute
  BY DEF Init, EmptySlot
<1> QED
  BY <1>2, <1>3 DEF Inv, OneSlotPerRoute, NoConflictingRuns, Live

LEMMA StartRouteInv ==
  ASSUME Inv, NEW r \in Route, NEW spec \in StopSpec, NEW actor \in Actor,
         NEW level \in PrecheckResults, StartRoute(r, spec, actor, level)
  PROVE  Inv'
<1> DEFINE e == [route |-> r, spec |-> spec, actor |-> actor]
           rc == StartResult(r, level)
<1>1. e \in Entry
  BY DEF Entry
<1>2. /\ rc = "STARTED" => ~InSlot(slots, r) /\ ~HasConflict(slots, r)
      /\ rc = "QUEUED" => Len(queue) < MAX_QUEUE_SIZE
  BY DEF StartResult, Blocked, PrecheckResults
<1>3. Good(slots')
  <2>1. CASE rc = "STARTED"
    BY <1>1, <1>2, <2>1, ActivateIsGood, InvIsGood DEF StartRoute
  <2>2. CASE rc # "STARTED"
    BY <2>2, InvIsGood DEF StartRoute
  <2> QED
    BY <2>1, <2>2
<1>4. queue' \in Seq(Entry) /\ Len(queue') <= MAX_QUEUE_SIZE
  <2> HIDE DEF e
  <2>1. CASE rc = "QUEUED"
    <3>1. queue' = Append(queue, e)
      BY <2>1 DEF StartRoute, e
    <3>2. queue \in Seq(Entry) /\ Len(queue) < MAX_QUEUE_SIZE
      BY <1>2, <2>1 DEF Inv, TypeOK
    <3> QED
      BY <1>1, <3>1, <3>2, BoundsAssumption
  <2>2. CASE rc # "QUEUED"
    BY <2>2 DEF StartRoute, Inv, TypeOK
  <2> QED
    BY <2>1, <2>2
<1>5. route_actor' \in [Route -> Actor]
  BY DEF StartRoute, Inv, TypeOK
<1> QED
  BY <1>3, <1>4, <1>5, InvIsGood
     DEF StartRoute, Inv, TypeOK, outputs, Good, Table

\* A step that changes the slots alone, and only lets them yield.
LEMMA YieldingInv ==
  ASSUME Inv, slots' \in Table, \A s \in Slot : Yields(slots'[s], slots[s]),
         queue' \in Seq(Entry), Len(queue') <= MAX_QUEUE_SIZE,
         route_actor' \in [Route -> Actor], guard' \in [Pump -> PumpGuard],
         since1' \in 0 .. Lag1, since2' \in 0 .. Lag2,
         UNCHANGED <<safety_override, claims, commanded, pumpsOn>>
  PROVE  Inv'
<1>1. Good(slots')
  BY YieldingIsGood, InvIsGood
<1> QED
  BY <1>1, InvIsGood DEF Inv, TypeOK, Good, Table

LEMMA StopRouteInv ==
  ASSUME Inv, NEW r \in Route, NEW actor \in Actor, StopRoute(r, actor)
  PROVE  Inv'
<1>1. PICK s0 \in Slot : slots[s0].route = r /\ Live(slots[s0])
  BY DEF StopRoute, StopResult
<1>2. ASSUME NEW s \in Slot
      PROVE  slots'[s] \in SlotRecord /\ Yields(slots'[s], slots[s])
  <2>1. slots[s] \in SlotRecord
    BY DEF Inv, TypeOK
  <2>2. CASE slots[s].route = r
    <3>1. slots[s].state # "IDLE"
      BY <2>2, TableAssumption DEF Inv, OneSlotPerRoute
    <3>2. slots'[s] = Stopped(slots[s], "STOPPING", "MANUAL")
      BY <2>2 DEF StopRoute
    <3>3. "MANUAL" \in StopReasons
      BY DEF StopReasons
    <3> QED
      BY <2>1, <3>1, <3>2, <3>3, StoppedType DEF Yields, Live
  <2>3. CASE slots[s].route # r
    BY <2>1, <2>3 DEF StopRoute, Yields
  <2> QED
    BY <2>2, <2>3
<1>3. slots' \in Table /\ route_actor' \in [Route -> Actor]
  BY <1>2 DEF StopRoute, Table, Inv, TypeOK
<1> QED
  BY <1>2, <1>3, YieldingInv DEF StopRoute, outputs, Inv, TypeOK

LEMMA StopAllInv == ASSUME Inv, StopAll PROVE Inv'
<1>1. ASSUME NEW s \in Slot
      PROVE  slots'[s] \in SlotRecord /\ Yields(slots'[s], slots[s])
  <2>1. slots[s] \in SlotRecord
    BY DEF Inv, TypeOK
  <2>2. CASE Live(slots[s])
    <3>1. slots'[s] = Stopped(slots[s], "STOPPING", "MANUAL")
      BY <2>2 DEF StopAll
    <3>2. "MANUAL" \in StopReasons
      BY DEF StopReasons
    <3> QED
      BY <2>1, <2>2, <3>1, <3>2, StoppedType DEF Yields, Live
  <2>3. CASE ~Live(slots[s])
    BY <2>1, <2>3 DEF StopAll, Yields
  <2> QED
    BY <2>2, <2>3
<1>2. slots' \in Table
  BY <1>1 DEF StopAll, Table
<1>3. queue' \in Seq(Entry) /\ Len(queue') <= MAX_QUEUE_SIZE
  BY BoundsAssumption DEF StopAll
<1> QED
  BY <1>1, <1>2, <1>3, YieldingInv DEF StopAll, outputs, Inv, TypeOK

LEMMA ClearQueueInv == ASSUME Inv, ClearQueue PROVE Inv'
<1>1. queue' \in Seq(Entry) /\ Len(queue') <= MAX_QUEUE_SIZE
  BY BoundsAssumption DEF ClearQueue
<1> QED
  BY <1>1 DEF ClearQueue, outputs, Inv, TypeOK, OneSlotPerRoute,
              NoConflictingRuns

LEMMA ResetFaultsInv == ASSUME Inv, ResetFaults PROVE Inv'
<1>1. ASSUME NEW s \in Slot
      PROVE  slots'[s] \in SlotRecord /\ Yields(slots'[s], slots[s])
  BY EmptySlotType DEF ResetFaults, Inv, TypeOK, Yields, EmptySlot
<1>2. slots' \in Table
  BY <1>1 DEF ResetFaults, Table
<1>3. guard' \in [Pump -> PumpGuard]
  <2>1. "NONE" \in StopReasons /\ NotSince \in AgeOrNot
    BY DEF StopReasons, AgeOrNot
  <2> QED
    BY <2>1 DEF ResetFaults, Inv, TypeOK, PumpGuard
<1> QED
  BY <1>1, <1>2, <1>3, YieldingInv DEF ResetFaults, Inv, TypeOK

LEMMA FaultResetInv ==
  ASSUME Inv, NEW r \in Route, FaultReset(r)
  PROVE  Inv'
<1>1. ASSUME NEW s \in Slot
      PROVE  slots'[s] \in SlotRecord /\ Yields(slots'[s], slots[s])
  BY EmptySlotType DEF FaultReset, Inv, TypeOK, Yields, EmptySlot
<1>2. slots' \in Table
  BY <1>1 DEF FaultReset, Table
<1> QED
  BY <1>1, <1>2, YieldingInv DEF FaultReset, outputs, Inv, TypeOK

LEMMA ClaimInv == ASSUME Inv, ClaimChanges PROVE Inv'
<1> SUFFICES ASSUME NEW n \in Claimable,
                    \/ \E manual, sourceLow \in BOOLEAN :
                         Extend(n, manual, sourceLow)
                    \/ \E peerHolds \in BOOLEAN : Release(n, peerHolds)
                    \/ Lapse(n)
             PROVE  Inv'
  BY DEF ClaimChanges
<1>1. slots' = slots /\ queue' = queue /\ route_actor' = route_actor
  BY DEF Extend, Release, Lapse, control
<1>2. claims' \subseteq Claimable
  BY DEF Extend, Release, Lapse, Inv, TypeOK
<1>3. guard' \in [Pump -> PumpGuard]
  <2>1. "NONE" \in StopReasons /\ NotSince \in AgeOrNot
    BY DEF StopReasons, AgeOrNot
  <2>2. guard \in [Pump -> PumpGuard]
    BY DEF Inv, TypeOK
  <2>3. ASSUME NEW peerHolds \in BOOLEAN, Release(n, peerHolds), n \in Pump
        PROVE  guard' \in [Pump -> PumpGuard]
    <3>1. [guard[n] EXCEPT !.latch = "NONE", !.runFor = NotSince] \in PumpGuard
      BY <2>1, <2>2, <2>3 DEF PumpGuard
    <3>2. guard' = [guard EXCEPT ![n] = [guard[n] EXCEPT !.latch = "NONE",
                                                        !.runFor = NotSince]]
      BY <2>2, <2>3 DEF Release, PumpGuard
    <3> QED
      BY <2>2, <3>1, <3>2
  <2> QED
    BY <2>2, <2>3 DEF Extend, Release, Lapse, outputs
<1>4. UNCHANGED <<safety_override, commanded, pumpsOn, since1, since2>>
  BY DEF Extend, Release, Lapse, outputs
<1> QED
  BY <1>1, <1>2, <1>3, <1>4
     DEF Inv, TypeOK, OneSlotPerRoute, NoConflictingRuns

LEMMA Tick1sInv ==
  ASSUME Inv, NEW pumpFlow, Tick1s(pumpFlow)
  PROVE  Inv'
<1> DEFINE ticked == [s \in Slot |-> TickSlot(slots[s])]
           before == [slots |-> ticked, queue |-> queue, actor |-> route_actor]
           after == Drain(before)
<1>1. Good(ticked)
  <2>1. \A s \in Slot : ticked[s] \in SlotRecord /\ Yields(ticked[s], slots[s])
    BY TickSlotYields DEF Inv, TypeOK
  <2>2. ticked \in Table
    BY <2>1 DEF Table
  <2> HIDE DEF ticked
  <2> QED
    BY <2>1, <2>2, YieldingIsGood, InvIsGood
<1>2. Draining(before)
  BY <1>1 DEF Draining, Good, Inv, TypeOK
<1>3. Draining(after)
  BY <1>2, DrainIsGood
<1>4. slots' = after.slots /\ queue' = after.queue /\ route_actor' = after.actor
  BY DEF Tick1s
<1> HIDE DEF after
<1>5. /\ Good(slots')
      /\ queue' \in Seq(Entry) /\ Len(queue') <= MAX_QUEUE_SIZE
      /\ route_actor' \in [Route -> Actor]
  BY <1>3, <1>4 DEF Draining
<1>6. guard' \in [Pump -> PumpGuard]
  BY GuardTickType DEF Tick1s, Inv, TypeOK
<1>7. commanded' \subseteq Valve
  BY <1>5, DesiredValvesType DEF Tick1s, Inv, TypeOK
<1>8. pumpsOn' \subseteq Pump /\ since1' \in 0 .. Lag1
  BY BoundsAssumption DEF Tick1s
<1> QED
  BY <1>5, <1>6, <1>7, <1>8, InvIsGood DEF Tick1s, Inv, TypeOK, Good, Table

LEMMA Tick2sInv ==
  ASSUME Inv, NEW flow, NEW low, NEW full, NEW volumeMet,
         Tick2s(flow, low, full, volumeMet)
  PROVE  Inv'
<1>1. ASSUME NEW s \in Slot
      PROVE  slots'[s] \in SlotRecord /\ Yields(slots'[s], slots[s])
  <2>1. slots[s] \in SlotRecord
    BY DEF Inv, TypeOK
  <2>2. CASE ~safety_override /\ slots[s].state = "RUNNING"
    <3>1. slots'[s] = WatchSlot(slots[s], s \in flow, s \in low,
                                s \in full, s \in volumeMet)
      BY <2>2 DEF Tick2s
    <3>2. (s \in flow) \in BOOLEAN
      OBVIOUS
    <3> QED
      BY <2>1, <2>2, <3>1, <3>2, WatchSlotYields
  <2>3. CASE safety_override \/ slots[s].state # "RUNNING"
    <3>1. slots'[s] = slots[s]
      BY <2>3 DEF Tick2s, Inv, TypeOK
    <3> QED
      BY <2>1, <3>1 DEF Yields
  <2> QED
    BY <2>2, <2>3
<1>2. slots' \in Table
  BY <1>1 DEF Tick2s, Table, Inv, TypeOK
<1>3. since2' \in 0 .. Lag2
  BY BoundsAssumption DEF Tick2s
<1> QED
  BY <1>1, <1>2, <1>3, YieldingInv DEF Tick2s, outputs, Inv, TypeOK

LEMMA ElapseInv == ASSUME Inv, Elapse PROVE Inv'
<1>1. ASSUME NEW s \in Slot
      PROVE  slots'[s] \in SlotRecord /\ Yields(slots'[s], slots[s])
  BY OlderSlotYields DEF Elapse, Inv, TypeOK
<1>2. slots' \in Table
  BY <1>1 DEF Elapse, Table
<1>3. guard' \in [Pump -> PumpGuard]
  BY OlderGuardType DEF Elapse, Inv, TypeOK
<1>4. since1' \in 0 .. Lag1 /\ since2' \in 0 .. Lag2
  BY BoundsAssumption DEF Elapse, Inv, TypeOK
<1> QED
  BY <1>1, <1>2, <1>3, <1>4, YieldingInv DEF Elapse, Inv, TypeOK

LEMMA NextInv == ASSUME Inv, [Next]_vars PROVE Inv'
<1>1. ASSUME NEW r \in Route, NEW spec \in StopSpec, NEW actor \in Actor,
             NEW level \in PrecheckResults, StartRoute(r, spec, actor, level)
      PROVE  Inv'
  BY <1>1, StartRouteInv
<1>2. ASSUME NEW r \in Route, NEW actor \in Actor, StopRoute(r, actor)
      PROVE  Inv'
  BY <1>2, StopRouteInv
<1>3. ASSUME NEW r \in Route, FaultReset(r)
      PROVE  Inv'
  BY <1>3, FaultResetInv
<1>4. CASE StopAll
  BY <1>4, StopAllInv
<1>5. CASE ClearQueue
  BY <1>5, ClearQueueInv
<1>6. CASE ResetFaults
  BY <1>6, ResetFaultsInv
<1>7. ASSUME NEW on \in BOOLEAN, SetOverride(on)
      PROVE  Inv'
  BY <1>7 DEF SetOverride, control, outputs, Inv, TypeOK, OneSlotPerRoute,
              NoConflictingRuns
<1>8. CASE ClaimChanges
  BY <1>8, ClaimInv
<1>9. CASE SomeTick1s
  BY <1>9, Tick1sInv DEF SomeTick1s
<1>10. CASE SomeTick2s
  BY <1>10, Tick2sInv DEF SomeTick2s
<1>11. CASE Elapse
  BY <1>11, ElapseInv
<1>12. CASE UNCHANGED vars
  BY <1>12 DEF vars, Inv, TypeOK, OneSlotPerRoute, NoConflictingRuns
<1> QED
  BY <1>1, <1>2, <1>3, <1>4, <1>5, <1>6, <1>7, <1>8, <1>9, <1>10, <1>11, <1>12
     DEF Next, Commands

\* The three invariants hold together in every reachable state.
THEOREM Invariance == Spec => []Inv
<1>1. Init => Inv
  BY InitInv
<1>2. Inv /\ [Next]_vars => Inv'
  BY NextInv
<1> QED
  BY <1>1, <1>2, PTL DEF Spec

\* Type correctness: whatever comes, the slot table, the bounded queue, the
\* guards and the outputs keep their types.
THEOREM TypeCorrect == Spec => []TypeOK
BY Invariance, PTL DEF Inv

\* A route is never in two slots, however starts, queued duplicates and resets
\* interleave.
THEOREM RouteInOneSlot == Spec => []OneSlotPerRoute
BY Invariance, PTL DEF Inv

\* Routes that share a meter never prepare or run together, whether they were
\* started by a command or taken from the queue.
THEOREM SharedMeterExcludes == Spec => []NoConflictingRuns
BY Invariance, PTL DEF Inv

-----------------------------------------------------------------------------
(***************************************************************************)
(* Action properties.                                                      *)
(***************************************************************************)

\* find_free_slot returns a free slot when there is one.
LEMMA FirstFreeIsFree ==
  ASSUME NEW t, Free(t) # {}
  PROVE  FirstFree(t) \in Free(t)
<1>1. Free(t) \subseteq Nat
  BY BoundsAssumption DEF Free, Slot
<1>2. \E s \in Free(t) : \A u \in Free(t) : ~(<<u, s>> \in OpToRel(<, Nat))
  BY <1>1, NatLessThanWellFounded, WFMin
<1>3. ASSUME NEW s \in Nat, NEW u \in Nat, ~(<<u, s>> \in OpToRel(<, Nat))
      PROVE  s <= u
  <2>1. ~(u < s)
    BY <1>3, Zenon DEF OpToRel
  <2> QED
    BY <2>1
<1>4. \E s \in Free(t) : \A u \in Free(t) : s <= u
  BY <1>1, <1>2, <1>3
<1> QED
  BY <1>4 DEF FirstFree

\* Nothing but a free slot is given to a route.
LEMMA ActivateKeeps ==
  ASSUME NEW t \in Table, NEW e, Free(t) # {},
         NEW s \in Slot, t[s].state # "IDLE"
  PROVE  Activate(t, e)[s] = t[s]
<1>1. s # FirstFree(t)
  BY FirstFreeIsFree DEF Free
<1> QED
  BY <1>1 DEF Activate, Table

LEMMA DrainStepKeeps ==
  ASSUME NEW st, Draining(st), NEW s \in Slot, st.slots[s].state # "IDLE"
  PROVE  DrainStep(st).slots[s] = st.slots[s]
<1> DEFINE e == Head(st.queue)
<1>1. CASE st.queue # <<>> /\ ~InSlot(st.slots, e.route)
           /\ ~Blocked(st.slots, e.route)
  <2>1. DrainStep(st).slots = Activate(st.slots, e)
    BY <1>1 DEF DrainStep
  <2>2. st.slots \in Table /\ Free(st.slots) # {}
    BY <1>1 DEF Draining, Blocked
  <2> HIDE DEF e
  <2> QED
    BY <2>1, <2>2, ActivateKeeps
<1>2. CASE \/ st.queue = <<>> \/ InSlot(st.slots, e.route)
           \/ Blocked(st.slots, e.route)
  BY <1>2 DEF DrainStep, Draining
<1> QED
  BY <1>1, <1>2

LEMMA DrainKeeps ==
  ASSUME NEW st, Draining(st), NEW s \in Slot, st.slots[s].state # "IDLE"
  PROVE  Drain(st).slots[s] = st.slots[s]
<1> DEFINE a == DrainStep(st)
           b == DrainStep(a)
           c == DrainStep(b)
<1>1. Draining(a) /\ a.slots[s] = st.slots[s]
  BY DrainStepIsGood, DrainStepKeeps
<1> HIDE DEF a
<1>2. Draining(b) /\ b.slots[s] = st.slots[s]
  BY <1>1, DrainStepIsGood, DrainStepKeeps
<1> HIDE DEF b
<1>3. Draining(c) /\ c.slots[s] = st.slots[s]
  BY <1>2, DrainStepIsGood, DrainStepKeeps
<1> HIDE DEF c
<1>4. Drain(st) = DrainStep(c)
  BY DEF Drain, a, b, c
<1> QED
  BY <1>3, <1>4, DrainStepKeeps

\* The drain loop is over: there is nothing left, or the start at the head has
\* to wait.
Settled(st) ==
  \/ st.queue = <<>>
  \/ /\ ~InSlot(st.slots, Head(st.queue).route)
     /\ Blocked(st.slots, Head(st.queue).route)

\* After at most n more rounds the loop is over.
Within(st, n) == Draining(st) /\ (Settled(st) \/ Len(st.queue) <= n)

\* A round takes an entry out unless the loop is over.
LEMMA DrainStepProgress ==
  ASSUME NEW st, NEW n \in Nat \ {0}, Within(st, n)
  PROVE  Within(DrainStep(st), n - 1)
<1>1. Draining(DrainStep(st))
  BY DrainStepIsGood DEF Within
<1>2. CASE Settled(st)
  <2>1. DrainStep(st) = st
    BY <1>2 DEF Settled, DrainStep
  <2> QED
    BY <1>2, <2>1 DEF Within
<1>3. CASE ~Settled(st)
  <2>1. st.queue \in Seq(Entry) /\ st.queue # <<>> /\ Len(st.queue) <= n
    BY <1>3 DEF Settled, Draining, Within
  <2>2. Len(Tail(st.queue)) <= n - 1
    BY <2>1
  <2>3. DrainStep(st).queue = Tail(st.queue)
    BY <1>3, <2>1 DEF Settled, DrainStep, Draining
  <2> QED
    BY <1>1, <2>2, <2>3 DEF Within
<1> QED
  BY <1>2, <1>3

\* The ring holds four entries at most, so four rounds are enough.
LEMMA DrainSettles ==
  ASSUME NEW st, Draining(st)
  PROVE  Settled(Drain(st))
<1>1. Within(st, 4)
  BY BoundsAssumption DEF Within, Draining
<1>2. Within(DrainStep(st), 3)
  BY <1>1, DrainStepProgress
<1>3. Within(DrainStep(DrainStep(st)), 2)
  BY <1>2, DrainStepProgress
<1>4. Within(DrainStep(DrainStep(DrainStep(st))), 1)
  BY <1>3, DrainStepProgress
<1>5. Within(Drain(st), 0)
  BY <1>4, DrainStepProgress DEF Drain
<1> QED
  BY <1>5 DEF Within, Settled, Draining

\* What the 1 s tick hands to the drain.
Ticked == [slots |-> [s \in Slot |-> TickSlot(slots[s])],
           queue |-> queue, actor |-> route_actor]

LEMMA TickedIsDraining == Inv => Draining(Ticked)
<1> SUFFICES ASSUME Inv
             PROVE  Draining(Ticked)
  OBVIOUS
<1>1. \A s \in Slot : /\ Ticked.slots[s] \in SlotRecord
                      /\ Yields(Ticked.slots[s], slots[s])
  BY TickSlotYields DEF Inv, TypeOK, Ticked
<1>2. Ticked.slots \in Table
  BY <1>1 DEF Table, Ticked
<1>3. Good(Ticked.slots)
  BY <1>1, <1>2, YieldingIsGood, InvIsGood
<1> QED
  BY <1>3 DEF Draining, Good, Inv, TypeOK, Ticked

LEMMA DrainStepComplete ==
  ASSUME Inv, [Next]_vars, since1' < since1
  PROVE  queue' = <<>> \/ Blocked(slots', Head(queue').route)
<1>1. since1 \in Nat
  BY DEF Inv, TypeOK
<1>2. SomeTick1s
  <2>1. since1' # since1 /\ since1' # since1 + 1
    BY <1>1
  <2> QED
    BY <2>1 DEF Next, Commands, ClaimChanges, StartRoute, StopRoute, StopAll,
                ClearQueue, ResetFaults, FaultReset, SetOverride, Extend,
                Release, Lapse, SomeTick2s, Tick2s, Elapse, vars
<1>3. slots' = Drain(Ticked).slots /\ queue' = Drain(Ticked).queue
  BY <1>2 DEF SomeTick1s, Tick1s, Ticked
<1>4. Settled(Drain(Ticked))
  BY TickedIsDraining, DrainSettles
<1> QED
  BY <1>3, <1>4 DEF Settled

\* The drain never stops early: what a tick leaves in the queue really has to
\* wait, for every size of the ring up to the four of the code.
THEOREM DrainCompletes == Spec => DrainIsComplete
<1>1. Inv /\ [Next]_vars =>
        [since1' < since1 => \/ queue' = <<>>
                             \/ Blocked(slots', Head(queue').route)]_vars
  BY DrainStepComplete
<1> QED
  BY <1>1, Invariance, PTL DEF Spec, DrainIsComplete

LEMMA FaultStays ==
  ASSUME Inv, [Next]_vars, NEW s \in Slot,
         slots[s].state = "FAULT", slots'[s].state # "FAULT"
  PROVE  since1' = since1 /\ since2' = since2 /\ slots'[s] = EmptySlot
<1> USE DEF Inv, TypeOK
<1>1. ASSUME NEW r \in Route, NEW spec \in StopSpec, NEW actor \in Actor,
             NEW level \in PrecheckResults, StartRoute(r, spec, actor, level)
      PROVE  FALSE
  <2> DEFINE e == [route |-> r, spec |-> spec, actor |-> actor]
  <2>1. CASE StartResult(r, level) = "STARTED"
    <3>1. Free(slots) # {}
      BY <2>1 DEF StartResult, Blocked, PrecheckResults
    <3>2. slots' = Activate(slots, e)
      BY <1>1, <2>1 DEF StartRoute
    <3>3. Activate(slots, e)[s] = slots[s]
      BY <3>1, ActivateKeeps DEF Table
    <3> QED
      BY <3>2, <3>3
  <2>2. CASE StartResult(r, level) # "STARTED"
    BY <1>1, <2>2 DEF StartRoute
  <2> QED
    BY <2>1, <2>2
<1>2. ASSUME NEW r \in Route, NEW actor \in Actor, StopRoute(r, actor)
      PROVE  FALSE
  <2>1. slots[s].route = r
    BY <1>2 DEF StopRoute
  <2>2. PICK t \in Slot : slots[t].route = r /\ Live(slots[t])
    BY <1>2 DEF StopRoute, StopResult
  <2> QED
    BY <2>1, <2>2, TableAssumption DEF OneSlotPerRoute, Live
<1>3. ASSUME NEW r \in Route, FaultReset(r)
      PROVE  since1' = since1 /\ since2' = since2 /\ slots'[s] = EmptySlot
  BY <1>3 DEF FaultReset
<1>4. CASE StopAll
  BY <1>4 DEF StopAll, Live
<1>5. CASE ClearQueue
  BY <1>5 DEF ClearQueue
<1>6. CASE ResetFaults
  BY <1>6 DEF ResetFaults
<1>7. ASSUME NEW on \in BOOLEAN, SetOverride(on)
      PROVE  FALSE
  BY <1>7 DEF SetOverride, control
<1>8. CASE ClaimChanges
  BY <1>8 DEF ClaimChanges, Extend, Release, Lapse, control
<1>9. CASE SomeTick1s
  <2>1. slots' = Drain(Ticked).slots
    BY <1>9 DEF SomeTick1s, Tick1s, Ticked
  <2>2. Ticked.slots[s] = slots[s]
    BY DEF Ticked, TickSlot
  <2> QED
    BY <2>1, <2>2, DrainKeeps, TickedIsDraining
<1>10. CASE SomeTick2s
  BY <1>10 DEF SomeTick2s, Tick2s
<1>11. CASE Elapse
  <2>1. slots'[s] = OlderSlot(slots[s]) /\ slots[s] \in SlotRecord
    BY <1>11 DEF Elapse
  <2>2. OlderSlot(slots[s]).state = slots[s].state
    BY <2>1 DEF OlderSlot, SlotRecord
  <2> QED
    BY <2>1, <2>2
<1>12. CASE UNCHANGED vars
  BY <1>12 DEF vars
<1> QED
  BY <1>1, <1>2, <1>3, <1>4, <1>5, <1>6, <1>7, <1>8, <1>9, <1>10, <1>11, <1>12
     DEF Next, Commands

\* A fault stays latched until the operator resets it, for every route table
\* and every order of commands and ticks.
THEOREM FaultsLatch == Spec => FaultLatches
<1>1. Inv /\ [Next]_vars =>
        [\A s \in Slot :
           slots[s].state = "FAULT" /\ slots'[s].state # "FAULT"
             => since1' = since1 /\ since2' = since2
                /\ slots'[s] = EmptySlot]_vars
  BY FaultStays
<1> QED
  BY <1>1, Invariance, PTL DEF Spec, FaultLatches

-----------------------------------------------------------------------------
(***************************************************************************)
(* What a step may make of one slot.                                       *)
(***************************************************************************)

\* The slot a start is put into.
Fresh(e) ==
  [EmptySlot EXCEPT !.route = e.route, !.state = "PREPARING", !.spec = e.spec]

Refilled(new, old) == old.state = "IDLE" /\ \E e \in Entry : new = Fresh(e)

LEMMA FreshFacts ==
  ASSUME NEW e \in Entry
  PROVE  /\ Fresh(e) \in SlotRecord
         /\ Fresh(e).state = "PREPARING" /\ Fresh(e).route = e.route
         /\ Fresh(e).spec = e.spec /\ Fresh(e).reason = "NONE"
         /\ Fresh(e).age = 0 /\ Fresh(e).lastFlow = 0
BY EmptySlotType DEF Fresh, EmptySlot, SlotRecord, Entry, States

LEMMA ActivateMoves ==
  ASSUME NEW t \in Table, NEW e \in Entry, Free(t) # {}, NEW s \in Slot
  PROVE  Activate(t, e)[s] = t[s] \/ Refilled(Activate(t, e)[s], t[s])
<1>1. CASE t[s].state # "IDLE"
  BY <1>1, ActivateKeeps
<1>2. CASE t[s].state = "IDLE" /\ s = FirstFree(t)
  BY <1>2 DEF Activate, Table, Refilled, Fresh
<1>3. CASE s # FirstFree(t)
  BY <1>3 DEF Activate, Table
<1> QED
  BY <1>1, <1>2, <1>3

LEMMA DrainStepMoves ==
  ASSUME NEW st, Draining(st), NEW s \in Slot
  PROVE  \/ DrainStep(st).slots[s] = st.slots[s]
         \/ Refilled(DrainStep(st).slots[s], st.slots[s])
<1> DEFINE e == Head(st.queue)
<1>1. CASE st.queue # <<>> /\ ~InSlot(st.slots, e.route)
           /\ ~Blocked(st.slots, e.route)
  <2>1. DrainStep(st).slots = Activate(st.slots, e)
    BY <1>1 DEF DrainStep
  <2>2. st.slots \in Table /\ Free(st.slots) # {} /\ e \in Entry
    BY <1>1 DEF Draining, Blocked
  <2> HIDE DEF e
  <2> QED
    BY <2>1, <2>2, ActivateMoves
<1>2. CASE \/ st.queue = <<>> \/ InSlot(st.slots, e.route)
           \/ Blocked(st.slots, e.route)
  BY <1>2 DEF DrainStep, Draining
<1> QED
  BY <1>1, <1>2

LEMMA RefilledIsBusy ==
  ASSUME NEW new, NEW old, Refilled(new, old)
  PROVE  new.state = "PREPARING"
BY FreshFacts DEF Refilled

LEMMA DrainMoves ==
  ASSUME NEW st, Draining(st), NEW s \in Slot
  PROVE  \/ Drain(st).slots[s] = st.slots[s]
         \/ Refilled(Drain(st).slots[s], st.slots[s])
<1> DEFINE a == DrainStep(st)
           b == DrainStep(a)
           c == DrainStep(b)
           Moved(x) == \/ x.slots[s] = st.slots[s]
                       \/ Refilled(x.slots[s], st.slots[s])
<1>1. ASSUME NEW x, Draining(x), Moved(x)
      PROVE  Draining(DrainStep(x)) /\ Moved(DrainStep(x))
  <2>1. CASE x.slots[s] = st.slots[s]
    BY <1>1, <2>1, DrainStepIsGood, DrainStepMoves
  <2>2. CASE Refilled(x.slots[s], st.slots[s])
    <3>1. x.slots[s].state # "IDLE"
      BY <2>2, RefilledIsBusy
    <3>2. DrainStep(x).slots[s] = x.slots[s]
      BY <1>1, <3>1, DrainStepKeeps
    <3> QED
      BY <1>1, <2>2, <3>2, DrainStepIsGood
  <2> QED
    BY <1>1, <2>1, <2>2
<1>2. Moved(st)
  OBVIOUS
<1>3. Drain(st) = DrainStep(c)
  BY DEF Drain
<1> HIDE DEF Moved
<1>4. Draining(a) /\ Moved(a)
  BY <1>1, <1>2
<1> HIDE DEF a
<1>5. Draining(b) /\ Moved(b)
  BY <1>1, <1>4
<1> HIDE DEF b
<1>6. Draining(c) /\ Moved(c)
  BY <1>1, <1>5
<1> HIDE DEF c
<1>7. Moved(Drain(st))
  BY <1>1, <1>3, <1>6
<1> QED
  BY <1>7 DEF Moved

\* The 1 s tick lets a slot move on, and may give it away when that frees it.
LEMMA Tick1sMoves ==
  ASSUME Inv, SomeTick1s, NEW s \in Slot
  PROVE  \/ slots'[s] = TickSlot(slots[s])
         \/ Refilled(slots'[s], TickSlot(slots[s]))
<1>1. slots' = Drain(Ticked).slots
  BY DEF SomeTick1s, Tick1s, Ticked
<1>2. Ticked.slots[s] = TickSlot(slots[s])
  BY DEF Ticked
<1> QED
  BY <1>1, <1>2, DrainMoves, TickedIsDraining

\* A command starts a route in an idle slot, stops a live one, or resets one that
\* is in FAULT.
LEMMA CommandMoves ==
  ASSUME Inv, Commands, NEW s \in Slot
  PROVE  \/ slots'[s] = slots[s]
         \/ Refilled(slots'[s], slots[s])
         \/ Live(slots[s]) /\ slots'[s] = Stopped(slots[s], "STOPPING", "MANUAL")
         \/ slots[s].state = "FAULT" /\ slots'[s] = EmptySlot
<1> USE DEF Inv, TypeOK
<1>1. ASSUME NEW r \in Route, NEW spec \in StopSpec, NEW actor \in Actor,
             NEW level \in PrecheckResults, StartRoute(r, spec, actor, level)
      PROVE  slots'[s] = slots[s] \/ Refilled(slots'[s], slots[s])
  <2> DEFINE e == [route |-> r, spec |-> spec, actor |-> actor]
  <2>1. CASE StartResult(r, level) = "STARTED"
    <3>1. Free(slots) # {}
      BY <2>1 DEF StartResult, Blocked, PrecheckResults
    <3>2. slots' = Activate(slots, e) /\ e \in Entry
      BY <1>1, <2>1 DEF StartRoute, Entry
    <3> HIDE DEF e
    <3> QED
      BY <3>1, <3>2, ActivateMoves DEF Table
  <2>2. CASE StartResult(r, level) # "STARTED"
    BY <1>1, <2>2 DEF StartRoute
  <2> QED
    BY <2>1, <2>2
<1>2. ASSUME NEW r \in Route, NEW actor \in Actor, StopRoute(r, actor)
      PROVE  \/ slots'[s] = slots[s]
             \/ Live(slots[s]) /\ slots'[s] = Stopped(slots[s], "STOPPING", "MANUAL")
  <2>1. PICK t \in Slot : slots[t].route = r /\ Live(slots[t])
    BY <1>2 DEF StopRoute, StopResult
  <2>2. slots[s].route = r => s = t
    BY <2>1, TableAssumption DEF OneSlotPerRoute
  <2> QED
    BY <1>2, <2>1, <2>2 DEF StopRoute
<1>3. ASSUME NEW r \in Route, FaultReset(r)
      PROVE  \/ slots'[s] = slots[s]
             \/ slots[s].state = "FAULT" /\ slots'[s] = EmptySlot
  <2>1. PICK t \in Slot : slots[t].route = r /\ slots[t].state = "FAULT"
    BY <1>3 DEF FaultReset
  <2>2. slots[s].route = r => s = t
    BY <2>1, TableAssumption DEF OneSlotPerRoute
  <2> QED
    BY <1>3, <2>1, <2>2 DEF FaultReset
<1>4. CASE StopAll
  BY <1>4 DEF StopAll
<1>5. CASE ClearQueue
  BY <1>5 DEF ClearQueue
<1>6. CASE ResetFaults
  BY <1>6 DEF ResetFaults
<1>7. ASSUME NEW on \in BOOLEAN, SetOverride(on)
      PROVE  slots'[s] = slots[s]
  BY <1>7 DEF SetOverride, control
<1> QED
  BY <1>1, <1>2, <1>3, <1>4, <1>5, <1>6, <1>7 DEF Commands

-----------------------------------------------------------------------------
(***************************************************************************)
(* The safety monitor bounds a run.  Between two ticks of the monitor a    *)
(* run may be over its limit, but by no more than the time since the last. *)
(* That an age is still what it says needs the limits to lie below the     *)
(* wrap of the clock (LimitAssumption).                                    *)
(***************************************************************************)

Watched(sl, since) ==
  /\ sl.state = "PREPARING" => sl.lastFlow = 0
  /\ sl.state = "RUNNING" =>
       /\ sl.age <= sl.spec.maxRuntime + since
       /\ sl.lastFlow <= sl.age
       /\ sl.route \in Monitored /\ ~sl.confirmed
            => sl.lastFlow <= FlowWatchdog + since

WatchInv ==
  ~MayOverride => ~safety_override /\ \A s \in Slot : Watched(slots[s], since2)

LEMMA SpecType ==
  ASSUME NEW sl \in SlotRecord
  PROVE  /\ sl.spec.maxRuntime \in Nat /\ sl.spec.duration \in Nat
         /\ sl.spec.maxRuntime + Lag2 < Wrap
         /\ sl.age \in Nat /\ sl.lastFlow \in Nat /\ sl.confirmed \in BOOLEAN
<1>1. sl.spec \in StopSpec \cup {NoSpec}
  BY DEF SlotRecord
<1>2. sl.spec.maxRuntime \in Nat /\ sl.spec.duration \in Nat
  BY <1>1, TableAssumption DEF NoSpec
<1>3. sl.spec.maxRuntime + Lag2 < Wrap
  BY <1>1, LimitAssumption
<1>4. sl.age \in Age /\ sl.lastFlow \in Age /\ sl.confirmed \in BOOLEAN
  BY DEF SlotRecord
<1> QED
  BY <1>2, <1>3, <1>4, BoundsAssumption DEF Age

\* A run that the monitor lets go on is within its limits.
LEMMA WatchSlotIsStrict ==
  ASSUME NEW sl \in SlotRecord, sl.state = "RUNNING", Watched(sl, Lag2),
         NEW flow \in BOOLEAN, NEW low, NEW full, NEW volumeMet
  PROVE  Watched(WatchSlot(sl, flow, low, full, volumeMet), 0)
<1> DEFINE m == Sampled(sl, flow)
           clean == CleanStop(m, low, full, volumeMet)
           new == WatchSlot(sl, flow, low, full, volumeMet)
<1>1. /\ m \in SlotRecord /\ m.route = sl.route /\ m.state = "RUNNING"
      /\ m.age = sl.age /\ m.lastFlow \in {0, sl.lastFlow}
  <2>1. m \in SlotRecord /\ m.route = sl.route /\ m.state = "RUNNING"
    BY SampledType
  <2>2. m.age = sl.age /\ m.lastFlow \in {0, sl.lastFlow}
    BY DEF Sampled, SlotRecord
  <2> QED
    BY <2>1, <2>2
<1>2. \/ /\ new = m /\ clean = "NONE" /\ (FlowOverdue(m) => m.confirmed)
      \/ \E why \in StopReasons : new = Stopped(m, "STOPPING", why)
      \/ \E why \in StopReasons : new = Stopped(m, "FAULT", why)
  <2>1. /\ clean \in StopReasons /\ "NO_FLOW" \in StopReasons
        /\ "FLOW_STALLED" \in StopReasons /\ "TANK_FULL" \in StopReasons
    BY CleanStopType DEF StopReasons
  <2> HIDE DEF m, clean
  <2>2. new = IF FlowOverdue(m) /\ ~m.confirmed THEN Stopped(m, "FAULT", "NO_FLOW")
              ELSE IF FlowOverdue(m) /\ sl.route \in StallEnabled
                   THEN Stopped(m, "STOPPING", IF sl.route \in OpenEnded
                                               THEN "FLOW_STALLED" ELSE "TANK_FULL")
              ELSE IF clean # "NONE" THEN Stopped(m, "STOPPING", clean)
              ELSE m
    BY DEF WatchSlot, m, clean
  <2> HIDE DEF new
  <2> QED
    BY <2>1, <2>2
<1>3. CASE \E why \in StopReasons : \/ new = Stopped(m, "STOPPING", why)
                                    \/ new = Stopped(m, "FAULT", why)
  <2> HIDE DEF m
  <2>1. new.state \in {"STOPPING", "FAULT"}
    BY <1>1, <1>3, StoppedType
  <2> QED
    BY <2>1 DEF Watched
<1>4. CASE new = m /\ clean = "NONE" /\ (FlowOverdue(m) => m.confirmed)
  <2> HIDE DEF m
  <2>1. /\ m.age \in Nat /\ m.lastFlow \in Nat /\ m.spec.maxRuntime \in Nat
        /\ m.confirmed \in BOOLEAN
    BY <1>1, SpecType
  <2>2. ~(m.age > m.spec.maxRuntime)
    BY <1>4, Zenon DEF CleanStop
  <2>3. m.lastFlow <= m.age
    BY <1>1, SpecType DEF Watched
  <2>4. m.route \in Monitored /\ ~m.confirmed =>
          ~(m.age > FlowWatchdog) \/ ~(m.lastFlow > FlowWatchdog)
    BY <1>4 DEF FlowOverdue
  <2>5. m.route \in Monitored /\ ~m.confirmed => m.lastFlow <= FlowWatchdog
    BY <2>1, <2>3, <2>4, BoundsAssumption
  <2> QED
    BY <1>1, <1>4, <2>1, <2>2, <2>3, <2>5, BoundsAssumption DEF Watched
<1> HIDE DEF new, m, clean
<1> QED
  BY <1>2, <1>3, <1>4

\* A second of time makes a run a second older.
LEMMA OlderSlotIsWatched ==
  ASSUME NEW sl \in SlotRecord, NEW since \in Nat, since < Lag2, Watched(sl, since)
  PROVE  Watched(OlderSlot(sl), since + 1)
<1> DEFINE new == OlderSlot(sl)
<1>1. CASE sl.state = "PREPARING"
  <2>1. new.state = "PREPARING" /\ new.lastFlow = sl.lastFlow
    BY <1>1 DEF OlderSlot, SlotRecord
  <2> QED
    BY <1>1, <2>1 DEF Watched
<1>2. CASE sl.state = "RUNNING"
  <2>1. /\ new.state = "RUNNING" /\ new.route = sl.route /\ new.spec = sl.spec
        /\ new.confirmed = sl.confirmed /\ new.age = Older(sl.age)
        /\ new.lastFlow = IF sl.route \in Monitored THEN Older(sl.lastFlow) ELSE sl.lastFlow
    BY <1>2 DEF OlderSlot, SlotRecord
  <2>2. /\ sl.age \in Nat /\ sl.lastFlow \in Nat /\ sl.spec.maxRuntime \in Nat
        /\ sl.spec.maxRuntime + Lag2 < Wrap
    BY SpecType
  <2>3. sl.age <= sl.spec.maxRuntime + since /\ sl.lastFlow <= sl.age
    BY <1>2 DEF Watched
  <2>4. sl.age + 1 < Wrap /\ sl.lastFlow + 1 < Wrap
    BY <2>2, <2>3, BoundsAssumption
  <2>5. Older(sl.age) = sl.age + 1 /\ Older(sl.lastFlow) = sl.lastFlow + 1
    BY <2>2, <2>4, BoundsAssumption DEF Older, NotSince
  <2>6. sl.route \in Monitored /\ ~sl.confirmed => sl.lastFlow <= FlowWatchdog + since
    BY <1>2 DEF Watched
  <2> HIDE DEF new
  <2>7. new.age <= new.spec.maxRuntime + (since + 1) /\ new.lastFlow <= new.age
    BY <2>1, <2>2, <2>3, <2>5
  <2>8. new.route \in Monitored /\ ~new.confirmed => new.lastFlow <= FlowWatchdog + (since + 1)
    BY <2>1, <2>2, <2>5, <2>6, BoundsAssumption
  <2> QED
    BY <2>1, <2>7, <2>8 DEF Watched, new
<1>3. CASE sl.state \notin {"PREPARING", "RUNNING"}
  <2>1. new.state = sl.state
    BY DEF OlderSlot, SlotRecord
  <2> QED
    BY <1>3, <2>1 DEF Watched
<1> QED
  BY <1>1, <1>2, <1>3

LEMMA TickSlotIsWatched ==
  ASSUME NEW sl \in SlotRecord, NEW since \in Nat, Watched(sl, since)
  PROVE  Watched(TickSlot(sl), since)
<1>1. CASE sl.state = "PREPARING" /\ TickSlot(sl) = [sl EXCEPT !.state = "RUNNING", !.age = 0]
  <2>1. /\ TickSlot(sl).age = 0 /\ TickSlot(sl).lastFlow = 0
        /\ TickSlot(sl).state = "RUNNING" /\ TickSlot(sl).spec = sl.spec
    BY <1>1 DEF SlotRecord, Watched
  <2>2. sl.spec.maxRuntime \in Nat
    BY SpecType
  <2> QED
    BY <2>1, <2>2, BoundsAssumption DEF Watched
<1>2. CASE TickSlot(sl) = EmptySlot
  BY <1>2 DEF Watched, EmptySlot
<1>3. CASE TickSlot(sl) = sl
  BY <1>3
<1> QED
  BY <1>1, <1>2, <1>3 DEF TickSlot

LEMMA RefilledIsWatched ==
  ASSUME NEW new, NEW old, NEW since, Refilled(new, old)
  PROVE  Watched(new, since)
BY FreshFacts DEF Refilled, Watched

LEMMA NextWatched == ASSUME Inv, WatchInv, [Next]_vars PROVE WatchInv'
<1> SUFFICES ASSUME ~MayOverride
             PROVE  ~safety_override' /\ \A s \in Slot : Watched(slots[s], since2)'
  BY DEF WatchInv
<1> USE DEF Inv, TypeOK
<1>1. ~safety_override /\ \A s \in Slot : Watched(slots[s], since2)
  BY DEF WatchInv
<1>2. safety_override' = safety_override
  BY DEF Next, Commands, ClaimChanges, StartRoute, StopRoute, StopAll, ClearQueue,
         ResetFaults, FaultReset, SetOverride, Extend, Release, Lapse, SomeTick1s,
         Tick1s, SomeTick2s, Tick2s, Elapse, vars
<1>3. ASSUME NEW s \in Slot
      PROVE  Watched(slots'[s], since2')
  <2>1. /\ slots[s] \in SlotRecord /\ since2 \in Nat /\ since2 <= Lag2
        /\ Watched(slots[s], since2)
    BY <1>1, BoundsAssumption
  <2>2. CASE Commands
    <3>1. since2' = since2
      BY <2>2 DEF Commands, StartRoute, StopRoute, StopAll, ClearQueue, ResetFaults,
                  FaultReset, SetOverride
    <3>2. CASE slots'[s] = slots[s] \/ Refilled(slots'[s], slots[s])
      BY <2>1, <3>1, <3>2, RefilledIsWatched
    <3>3. CASE slots'[s] = Stopped(slots[s], "STOPPING", "MANUAL") \/ slots'[s] = EmptySlot
      <4>1. slots'[s].state \in {"STOPPING", "IDLE"}
        BY <2>1, <3>3, StoppedType DEF EmptySlot, StopReasons
      <4> QED
        BY <4>1 DEF Watched
    <3> QED
      BY <2>2, <3>2, <3>3, CommandMoves
  <2>3. CASE SomeTick1s
    <3>1. since2' = since2
      BY <2>3 DEF SomeTick1s, Tick1s
    <3> QED
      BY <2>1, <2>3, <3>1, Tick1sMoves, TickSlotIsWatched, RefilledIsWatched
  <2>4. CASE SomeTick2s
    <3>1. since2' = 0
      BY <2>4 DEF SomeTick2s, Tick2s
    <3>2. CASE slots[s].state = "RUNNING"
      <4>1. PICK flow, low, full, volumeMet : Tick2s(flow, low, full, volumeMet)
        BY <2>4 DEF SomeTick2s
      <4>2. slots'[s] = WatchSlot(slots[s], s \in flow, s \in low, s \in full,
                                  s \in volumeMet)
        BY <1>1, <3>2, <4>1 DEF Tick2s
      <4>3. Watched(slots[s], Lag2)
        BY SMTT(20), <2>1, SpecType, BoundsAssumption DEF Watched
      <4>4. (s \in flow) \in BOOLEAN
        OBVIOUS
      <4>5. Watched(WatchSlot(slots[s], s \in flow, s \in low, s \in full,
                              s \in volumeMet), 0)
        BY Zenon, <2>1, <3>2, <4>3, <4>4, WatchSlotIsStrict
      <4> QED
        BY <3>1, <4>2, <4>5
    <3>3. CASE slots[s].state # "RUNNING"
      <4>1. slots'[s] = slots[s]
        BY <2>4, <3>3 DEF SomeTick2s, Tick2s
      <4> QED
        BY <2>1, <3>3, <4>1 DEF Watched
    <3> QED
      BY <3>2, <3>3
  <2>5. CASE Elapse
    <3>1. /\ slots'[s] = OlderSlot(slots[s])
          /\ since2' = since2 + 1 /\ since2 < Lag2
      BY <2>5 DEF Elapse
    <3> QED
      BY <2>1, <3>1, OlderSlotIsWatched
  <2>6. CASE ClaimChanges \/ UNCHANGED vars
    <3>1. slots' = slots /\ since2' = since2
      BY <2>6 DEF ClaimChanges, Extend, Release, Lapse, control, vars
    <3> QED
      BY <2>1, <3>1
  <2> QED
    BY <2>2, <2>3, <2>4, <2>5, <2>6 DEF Next
<1> QED
  BY <1>1, <1>2, <1>3

THEOREM WatchInvariance == Spec => []WatchInv
<1>1. Init => WatchInv
  BY DEF Init, WatchInv, Watched, EmptySlot
<1>2. Inv /\ WatchInv /\ [Next]_vars => WatchInv'
  BY NextWatched
<1> QED
  BY <1>1, <1>2, Invariance, PTL DEF Spec

\* As long as the monitor is not overridden, no run outlasts its limit and no
\* unconfirmed run stays without flow past the watchdog by more than the monitor's
\* period, for every plant, every limit of a run and every order of events.
THEOREM RunsAreBounded == Spec => []WatchedRunBounded
<1>1. Inv /\ WatchInv => WatchedRunBounded
  <2> SUFFICES ASSUME Inv, WatchInv, ~MayOverride, NEW s \in Slot,
                      slots[s].state = "RUNNING"
               PROVE  /\ slots[s].age <= slots[s].spec.maxRuntime + Lag2
                      /\ slots[s].route \in Monitored /\ ~slots[s].confirmed
                           => slots[s].lastFlow <= FlowWatchdog + Lag2
    BY DEF WatchedRunBounded
  <2>1. slots[s] \in SlotRecord /\ since2 \in Nat /\ since2 <= Lag2
    BY BoundsAssumption DEF Inv, TypeOK
  <2>2. Watched(slots[s], since2)
    BY DEF WatchInv
  <2> QED
    BY <2>1, <2>2, SpecType, BoundsAssumption DEF Watched
<1> QED
  BY <1>1, Invariance, WatchInvariance, PTL

\* The age of a run is the time it has truly been running: as long as the monitor
\* is not overridden the clock does not wrap under it.
THEOREM RunsAreTimed ==
  Spec => [][~MayOverride /\ Elapse =>
               \A s \in Slot : slots[s].state = "RUNNING"
                                 => slots'[s].age = slots[s].age + 1]_vars
<1>1. ASSUME Inv, WatchInv, ~MayOverride, Elapse, NEW s \in Slot,
             slots[s].state = "RUNNING"
      PROVE  slots'[s].age = slots[s].age + 1
  <2>1. /\ slots[s] \in SlotRecord /\ since2 \in Nat /\ since2 < Lag2
        /\ slots'[s] = OlderSlot(slots[s])
    BY <1>1, BoundsAssumption DEF Inv, TypeOK, Elapse
  <2>2. slots'[s].age = Older(slots[s].age)
    BY <1>1, <2>1 DEF OlderSlot, SlotRecord
  <2>3. /\ slots[s].age \in Nat /\ slots[s].spec.maxRuntime \in Nat
        /\ slots[s].spec.maxRuntime + Lag2 < Wrap
    BY <2>1, SpecType
  <2>4. slots[s].age <= slots[s].spec.maxRuntime + since2
    BY <1>1 DEF WatchInv, Watched
  <2>5. slots[s].age + 1 < Wrap
    BY <2>1, <2>3, <2>4, BoundsAssumption
  <2> QED
    BY <2>2, <2>3, <2>5, BoundsAssumption DEF Older, NotSince
<1>2. Inv /\ WatchInv =>
        [~MayOverride /\ Elapse =>
           \A s \in Slot : slots[s].state = "RUNNING"
                             => slots'[s].age = slots[s].age + 1]_vars
  BY <1>1
<1> QED
  BY <1>2, Invariance, WatchInvariance, PTL
=============================================================================
