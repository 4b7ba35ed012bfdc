# Majiflow: verification

Majiflow turns a drawing of a water site (tanks, pumps, valves, meters, routes)
into firmware for ESP32 controllers, and runs a server that bills the water and
passes commands on. This directory holds TLA+ modules for the parts of it whose
correctness rests on order, loss and timing, the TLC runs that check them, and
proofs of the main theorems.

Paths below are relative to the repository. Times are in seconds unless a run
says otherwise.

## 1. The system

```
  browser (Angular)          server (Go, PocketBase)            controller (ESP32, C++)
  designer -> generator ----------------------------------->    generated config + kernel
  dashboard  --HTTP--> command.go --MQTT command-->             maji_control   slots, queue, ticks
  lifecycle store      automations/publish.go --retained-->     maji_automations
                       config.go       --retained-->            tunables
             <--SSE--  telemetry/ingest.go <--snapshot QoS 0--  snapshot every period
                                           --runs_ack retained-> maji_meter    runs, outbox
                       metering/* <--UDP--> prepaid meters       maji_claims <--UDP--> peers (maji_coord)
                       billing/*  -> valve commands              maji_local_ui <--SSE--> browser on site
```

| Component | State | Operations | What is hard | What makes it correct |
|---|---|---|---|---|
| Control kernel, `firmware/components/maji_control/core.cpp`, `maji_control.cpp` | a pool of route slots, a queue of starts, pump guards, the commanded valve mask, the override | `start_route`, `stop_route`, `stop_all`, `clear_queue`, resets, 1 s tick, 2 s monitor | commands come between any two ticks; the outputs follow only at the next tick; wrapping stamps | one slot per route, exclusive meters, no early end of the drain, latched faults, bounded runs, every run ends |
| Valves and pumps (ESPHome covers and relays) | position and target of each cover, the relays | open, close, stop | nothing comes back: the kernel goes by time | no pump against a closed valve, a slot free only when its valves are closed |
| Run meter, `meter.cpp` | open runs, litre counters, outbox, run number | `meter_sync_`, `close_run`, `on_ack`, save and load | it sees slots only from tick to tick; flash lags behind RAM | every run recorded once, for its route, with its reason's token |
| Ledger ingest, `maji-server/internal/telemetry/ingest.go` | `runs`, the high-water-mark | `IngestSnapshot`, `persistRun`, retained `runs_ack` | lossy, repeated and reordered messages, refused inserts, crashed devices | every closed run is billed once |
| Claim registry, `maji_claims` | per actuator the owners and their leases | extend, drop, prune on read | a writer that is lost; wrapping clock | an actuator runs only under a live lease |
| Peer coordination, `maji_coord`, `remote-proxy.ts`, `coordination.ts` | leases towards and from peers, replay counters, confirmation lights | claim, release, heartbeat, `held` | UDP: loss, repetition, order; reboots | silence ends a claim; the light does not lie; no peer stays deaf |
| Automations, `build.service.ts`, `automations/publish.go`, `maji_automations` | the rows and their stamps, the retained set, the table and its blob in flash, an edge state per trigger | edit, restamp, publish, apply, restore, tick | a design that changes under the rows; a build that fails half-way; late publications; the broker's replays | no index is used against a table it was not made for; the controller ends up with the rows |
| Command lane, `command.go`, generated dispatcher, `command-lifecycle.store.ts`, `command-confirm.ts` | audit rows, the device's ring of outcomes, browser entries and held claims | dispatch, deduplicate, report, reconcile, re-assert | loss, repetition, expiry, a view that is left while a POST is under way | a held pump neither lapses nor is orphaned; a command acts at most once |
| Designer workspace, `workspace.service.ts`, `sites.store.ts`, `collection-store.ts` | the site shown, its design, dirty flag and autosave timer, shared requests | open, edit, autosave, add and remove a controller | every request may be overtaken by an edit or a change of site | nothing drawn is lost or shown under another site |
| Prepaid metering, `metering/*` | per meter its commands, the one outstanding | contact, flush, acknowledge, time out, expire | late acknowledgements, restarts | one outstanding command; the valve state shown is the valve's |
| Billing and arrears, `billing/*` | invoices, payments, warnings, closures | daily pass, pay, re-evaluate | a payment while the pass is under way or a close command is out | debtors are closed, a settled tenant is not, and is reopened |
| Local UI, `maji_local_ui` | two SSE slots | claim, flush, close, reap | the httpd task and the main loop share the slots | no slot lost, none given away twice |
| Configuration, `config.go` | desired bag, retained configuration, applied number | write, publish, echo | offline devices, debounce | the device ends up with the last write |
| Alert mails, `alerts/*` | open alerts | sweep | repetition | one mail per episode |
| Rollups, broker, HTTP API, entitlements, generator, dashboard views | databases and text | | | |

How they interact: the kernel's slots are read by the meter at the end of each
tick, and its claims come from the registry, which the operator's commands and
the peers' datagrams write; the meter's records travel in the snapshot to the
ledger; the designer decides the route table that both the firmware and the
automations' stamps refer to; billing reaches the prepaid meters only through
the metering package's queue.

## 2. The modules

| Module | Models | Uses |
|---|---|---|
| `RouteControl` | the control kernel | |
| `ControlPlant` | the kernel together with valves and pumps | extends `RouteControl` |
| `MeteredControl` | the kernel together with the run meter's watch over its slots | extends `RouteControl` |
| `RunLedger` | abstract: what the billing of runs promises | |
| `LedgerSync` | the run records on their way from the meter's RAM and flash to the ledger | instantiates `RunLedger` |
| `ManualHold` | a pump held on from the dashboard: browser, server, broker, controller | |
| `Coordination` | an importer and an owner of one actuator over UDP | |
| `Workspace` | the editor's design between browser and server | |
| `Automations` | the automations of one controller, from rows to the firmware's table | |
| `MeterValve` | a prepaid meter's valve commands; also the abstract queue `MeterSpec` that anyone who commands a valve must keep to | |
| `Arrears` | invoices, payments and the collections pass above it | extends `MeterValve` |
| `RouteControlProofs`, `PlantAndMeterProofs`, `LedgerSyncProofs`, `ManualHoldProofs`, `CoordinationProofs`, `WorkspaceProofs`, `AutomationsProofs`, `ArrearsProofs` | theorems | extend the module they are about; `PlantAndMeterProofs` is about `ControlPlant` and `MeteredControl`, `ArrearsProofs` also about `MeterValve` |
| `MCRouteControl`, `MCQuiet`, `MCControlPlant`, `MCMeteredControl`, `MCWorkspace`, `MCAutomations` | instances for TLC | |

A definition whose comment begins with "Mutant" is a plausible mistake in the
definition after it; nothing but a mutation test uses it.

### RouteControl

Everything in the kernel runs on one loop, so a handler is one action, and what
varies is their order.

| Model | Code |
|---|---|
| `slots` | `ControlState::slots`; a slot's `route`, `state`, `spec`, `reason`, flow stamps |
| `age` of a slot | `now - start_time`, `now - run_start_time` or `now - stop_time`: each is stamped on entry to the state it times and read only there |
| `queue` | the ring buffer `queue` |
| `claims` | the actuators for which `maji_claims` has a live claim |
| `guard` | `manual_latch`, `manual_run_start`, `manual_last_flow` per pump |
| `commanded`, `pumpsOn` | `commanded_valve_mask`, the relays |
| `since1`, `since2` | time since the last tick of each interval |
| `StartRoute` ... `FaultReset`, `SetOverride` | the dispatcher's commands with `try_route_start` and so on |
| `Extend`, `Release`, `Lapse` | `node_set` and peers' claims; the end of a lease |
| `Tick1s` | `tick_1s`, queue drain, pump guard, `apply_pumps_`, `apply_valves_`, in one step as in `MajiControl::tick_1s` |
| `Tick2s` | the safety monitor, slot by slot |
| `Elapse` | one second passes |

Abstractions. The level check and the sensors are inputs: any result at any
time. Volumes are an input that says whether a volume target is met.
The tunables and the travel times are constants, although an operator can
change them while a route runs. Ages count whole seconds, so a bound may be off
by one. Deduplication of commands, the ring of outcomes and the event log are
left out: `StartResult` is the result for a command that is no duplicate. A
reboot is `Init` again, which is why it is no action: the kernel keeps nothing
across it (`safety_override` comes back off), and `ControlPlant` starts with
the valves wherever they were.

### ControlPlant

`position` and `target` of each valve follow the calls `apply_valves_` makes: a
valve whose bit rises travels to open, one whose bit falls travels to closed,
and the valves of a run that faults are told to stop where they are.
`drivenFor`, `renewed` and `keptOpen` are history variables: for how long, since a
pump was last off, a claim has been what drives it (`ByClaim`); how often meanwhile a
route or the override has taken the claim's place or an operator has reset the
guard (`Renews`); which valves of a stopping slot were still wanted by something
else, a run through the same valve, a fault or a claim, after the run had let go of
them. Neither of the first two is reset where the guard's own clock is. `MaxRenewals`
bounds the history: a pump renewed more often is no longer followed.

### MeteredControl

`prev_state` and `prev_stop` are what `meter_sync_` saw last, `open` the route of
the record open in each slot, `stamped` whether the clock has been trusted
(`run_epoch`). `closed` are the records the last step closed, each with the token
`stop_tok` has for its reason (`StopTok`). Two history
variables hold the truth: `ran` is the route that has been running in the slot,
and `missed` the slots that were freed and given away within one tick while a
run was open in them. The meter does not see such an end (run `unrecorded`), and
its books of that slot are wrong until the next run in it begins; everywhere else
they are claimed to be exact.

### LedgerSync and RunLedger

`dev` is the meter in RAM, `staged` the blob given to the preferences, `flash`
the blob a crash comes back to, `uplink` the snapshot under way, `ledger` the
server's `runs`, `acks` the goroutines that have yet to publish, `retained` the
broker's retained `runs_ack`. `Run` are the runs that truly happen; a record
carries both its run and its number `seq`, so that a number given twice can be
seen. `OpenRun` writes over a record that is still open in its slot, as `open_run`
does. `LongRuns` have records of twice the room (a long actor, a fault), and a
snapshot larger than `SnapshotRoom` is no JSON and is ignored. `Ingest(stop)` inserts
in the order of the numbers up to a failure at `stop`. One snapshot is under way at a
time; losing and repeating it are separate choices. The lineage epoch never changes
and is left out. `over` and `before` are history: which runs have ended, and which
ended first of two.

`RunLedger` knows only the phase of each run (none, open, overwritten, owed, billed,
dropped), `before`, and whether the device has come back from an old blob
(`restarted`). Before that a run that is owed is dropped in two ways only: when as
many runs as the outbox holds have ended after it (`Crowded`), or when a run that
began after it and ended before it is billed (`Outrun`). Afterwards what the blob
had not yet may go, but what is billed survives (`Survives`). `KeepsLedger` says that
`LedgerSync`, with any number of slots, implements it under the mapping `Phase`.

### ManualHold

| Model | Code |
|---|---|
| `entry` | the newest entry of the actuator's key in `command-lifecycle.store.ts` |
| `hold` | the store's sustained claim: its command, its age, the time since it was last re-asserted |
| `posts` | requests to the server; `tracked` ones have an entry, re-asserts and the give-up's release have not |
| `topic`, `link` | the broker's queue of the controller and its connection; the browser's presence is taken to be `link` |
| `lease`, `latch`, `outcome` | the registry's claim, the pump guard, the ring of outcomes |
| `trusted` | `time_trusted`: set by `on_time_sync`, at any time (`SyncTime`) |
| `screen` | the shadow the browser keeps, filled from snapshots |
| `Dispatch`, `ToggleClaim`, `StopAll`, `SwitchSite` | the operator at the dashboard |
| `Publish`, `Answer`, `Fail` | the server's handler and the promise's two ends, in any order |
| `Receive`, `Snapshot`, ... | the generated dispatcher with its TTL gate, the snapshot and its loss |
| `Tick` | one reconcile tick, with time in the rest of the system |

Time is counted in reconcile ticks. `calm`, `orphaned` and `overdue` are history
variables: nothing has gone wrong since the hold was registered; how long the claim has
outlived the browser's interest in it; meanwhile a claim older than the TTL was
taken, which the gate lets happen before the clock is trusted. The server stamps
`issued_at` on every message of this lane, so the gate's other way out (no stamp)
does not occur. A reboot of the controller, which ends every claim, is left out, and so
is how long a settled entry's result stays visible.

### Coordination

One importer and one owner, one actuator, one unit of time per heartbeat. A
frame carries the sender's counter; `boot` and `late` are history: which boot
sent it, and whether a unit has passed since. `seen` is `seen_`, `lease` the
peer's claim in the registry, `light` and `confirmed` the generated
`cc_<node>`. Assumed of the link: a datagram is not overtaken by more than
`Window` frames, does not outlast a boot of its sender and is two units under
way at most. Assumed of the importer: its proxy is off after a reboot, since
`MajiControl::setup` closes the covers. Signatures are taken as sound, and
readings count as frames only.

### Workspace

A design is the set of its parts. `loads`, `fetch` and `saves` are the requests
under way: a load awaits first the shared request of its site, then the boards.
`madeFor`, `abandoned`, `crossed` and `overtaken` are history variables; `crossed`
and `overtaken` mark two behaviours that section 5 describes, a removal answered
after its design has changed and requests the server takes out of order, and the
properties name them. The site's own fields, the boards map,
`dirtyControllerIds`, undo and the design lock are left out.

### Automations

`rows` is the collection, `page` and `build` what a browser resolves against,
`hooks` the publications under way (one per waiting request: each has read its
rows, or not yet), `retained` and `wire` what the broker keeps and what is on
its way, `table`, `flash` and `baked` the controller, `staged` a set that is saved and
not yet flushed. A build reads the design (`StartBuild`), later the rows
(`ReadRows`), and patches these one by one, with a publication for each. Three
history variables: `torn` are the rows patched from an older reading, whose index and
version may belong to different tables; `mixed`, a field of every set, says that it was
read from rows that were not `Sound` (different stamps, a torn row, or one that is
enabled although its version lacks its route), and `strayed` that the set in the
controller's table is such a one: it is cleared by the next that is not; `raced`
that the last publication was of rows read too early. The engine that fires triggers is
not modelled.

### MeterValve and Arrears

| Model | Code |
|---|---|
| `cmd[m]` | the one valve command of a meter that is queued or sent |
| `orphan[m]` | the listener's table awaits the answer to a command whose record was deleted |
| `down`, `up` | the datagrams under way |
| `shown`, `landing` | the server's `valve_state`; the state an acknowledgement has told, between the save of the command and the save of the meter (`ResolveAck`, `ShowState`) |
| `inv` | the invoices |
| `sweep`, `closing`, `todo`, `seen` | the pass: the copies it has yet to work through, the one it closes meters for, the meters it has yet to come to, its copies of `valve_state` |
| `reeval`, `list`, `copy`, `at` | a payment's re-evaluation: booked or at work, the invoices whose `closed_at` it will clear, its copies of `valve_state`, how far it is with each meter |

The pass and the re-evaluation hold no lock and no transaction, so every read and
write of theirs that the listener's can fall between is a step of its own: for the
pass `Collect`, `Evaluate`, `CloseMeter` for each meter and `SaveClosed`, for the
re-evaluation `Reevaluate` (the meters), then for each meter `Look` (its pending
command), `Cancel` (the deletion) and `OpenUp`, and at last `ClearClosed`. `MeterSpec`
takes in what all of them may do to the slots (`Dispatch`): put a command into an empty
one, withdraw a closing, be it queued or sent by then.

`unsure`, `excused` and `gone` are history variables: a command was sent since the
last acknowledged one; the meters the rule has given up, each for a reason that
section 5 lists (`Excuses`); those whose closing had been sent when the account was
settled. The excuses end when the valve is shown open again.

Taken as one step: marking overdue together with listing; the reads at the beginning
of a re-evaluation; `EnqueueValve`, whose check and insert a unique index makes one;
reading a command, sending it and marking it sent; a timeout's and the expiry's read
and save; one payment at a time, and one valve command under way at a time. Left
out: amounts (an invoice is paid in whole or in part), local failures to send, errors
of the database, `set_interval`, repeated datagrams. Assumed: a meter has a valve, its
report carries the valve's state, its acknowledgement carries its IMEI and the echo,
`Save` writes only the fields that changed, and an acknowledgement outlives at most one
later exchange, a report or a command that is flushed (`AckLife <= 2`): one that
outlived two could pass for the answer to a later command.

## 3. The runs

| Run | Question | Properties |
|---|---|---|
| `shared` | slots, conflicts, queue and faults, and the meter's watch over them, with three routes, two of them behind one meter and one pump, and two slots | `TypeOK`, `OneSlotPerRoute`, `NoConflictingRuns`, `LedgerInStep`, `DrainIsComplete`, `FaultLatches`, `RunsAreRecorded` |
| `quiet` | every branch of the monitor, and does the queue drain once the operator has left | `WatchedRunBounded`, `QueueDrains`, `RunsFinish` |
| `piped` | kernel and valves in half seconds, a shared pump and a shared valve | `PumpOnlyThroughOpenPath`, `IdleMeansClosed` |
| `claimed` | how long a claim can drive a pump that a route may drive as well | `ClaimRunBounded` |
| `unrecorded` | divergence: a slot freed and given to the next route within one tick | `EndsAreClosed` violated |
| `sync` | two slots, a full outbox, records too large to send, a lossy link, refused inserts and a crash: refinement and liveness | `TypeOK`, `NoRunBilledTwice`, `KeepsLedger`, `EveryRunIsBilled` |
| `hold` | does a held pump stay on while all is well, and end when nobody holds it, with and without a trusted clock | `OrphanedClaimEnds`, `HoldNeverLapses`, `NoFalseBlock` |
| `workspace` | two sites, overlapping loads, saves and removals, failing requests | `TypeOK`, `OpensWhatWasAsked`, `DrawingKept`, `DirtyHasASave`, `AnswerMeansSaved` |
| `stamped` | a redesign, a build that reads late and fails half-way, a reflash, a lost flush, edits, late publications | `TypeOK`, `StampGuards`, `MirrorsRows` |
| `misfire` | divergence: rows of one controller with different stamps | `NoWrongRoute` violated |
| `coordination` | loss, repetition, reordering and a reboot of either side | `TypeOK`, `SilenceStops`, `LightIsHonest`, `HeardAfterBoot`, `TakenInOrder` |
| `arrears` | debts, warnings, closures, payments and the listener, step by step beside one another, an operator, a restart, lost and late acknowledgements | `TypeOK`, `ShownIsTrue`, `NobodyForgotten`, `KeepsTheQueue`, `SettledStaysOpen`, `ClosureIsRetried`, `SettledIsServed` |

Bounds and why they are enough.

- Two slots show everything one slot does to another; a third route gives the
  queue something to hold while both are busy. The queue holds two: the drain
  then fills several slots in one tick. The duplicates that `OneSlotPerRoute` is
  about need a queue of two.
- `Wrap` is the modulus of the clock. It is larger than every limit a live run
  is compared with, plus the lag, as 2^32 ms is; so a wrap can only reach the
  stamps nobody limits: those of a latched fault and of a slot under the
  override. In both the ages do wrap in the runs.
- `Lag1` and `Lag2` bound how late a tick may be. 1 and 2 are the intervals;
  `quiet` lets the 1 s tick be one second late, since a route there may then
  miss the second at which its valves are open.
- `piped` counts in half seconds, so that a command can fall between a tick and
  the second it stands for. Its valves take half a second and a second, and the
  shared one is the slow one: were it fast, it would be closed in time whoever
  kept it open, and the exception in `IdleMeansClosed` would never be needed.
- `shared` cuts the settle time to zero, the depressurisation to one second and
  the clock to four to stay below a million states (438,112): the slot table, the queue
  and the meter look at states, not at times. The routes behind the meter may stall and
  have no limit of their own, so that runs end with each kind of token.
  `TickAssumption`, which the meter needs,
  holds with equality. Three routes for two slots, two of them in conflict, are
  the least in which a freed slot goes to a waiting route while another runs; two
  routes behind one meter and two slots never show it. The two routes behind the
  meter differ in nothing but their valves, so exchanging both with one another is
  a symmetry.
- `claimed` follows a pump through two renewals (338,911 states): the second is the
  least that could profit from a first. `piped` is about valves and follows none.
- `sync` has the two slots of the code and begins three runs, so that a run can be
  overtaken, the outbox of two overflows, and a number can be given twice. One of the
  runs has a long record: two of them together do not fit into the buffer. One crash
  returns to a blob in which runs are open that have ended since (308,583 states). That
  a second crash may return to the same blob is left to the theorems, which hold for
  any number.
- `hold` gives two commands and keeps two messages: a claim can be overtaken by
  a release and the other way round, and a claim can wait in the broker while
  the browser has moved on. TTL, cadence, grace and round trip are one tick and
  the lease is five, the least that `LeaseAssumption` (a cadence and three round
  trips fit into a lease) allows. 5.5 million states.
- `workspace` has two sites, of which one needs migration, three loads, two
  saves at once and one failure: an answer can be overtaken by a load, by a
  second load of the same site and by an edit. That makes 2.4 million states.
- `stamped` has two automations and two versions of the table, so that a set
  can mix stamps and an index can mean two routes; two edits reorder two
  publications. 1,016,837 states; a build that restamps both rows, with the mixed set
  between its two patches, is among them. `misfire` needs a second boot to show the effect.
- `coordination` lets the importer's counter pass the replay window (`Window` is
  1, where the code has 4096) and start anew; the lease of two heartbeats is longer
  than the confirmation timeout of one, as the 90 s and 40 s of the defaults. An
  operator may set a lease of 30 s, shorter than the timeout: the same properties
  hold with the two exchanged (not among the runs), and the theorems assume
  nothing of the order of the two.
- `arrears` has one meter, one invoice, one command of an operator and one restart
  (166,055 states). The races are between one meter's command and one account's pass,
  payment and listener; each of them is there, and each excuse is needed: without any
  one of them `NobodyForgotten` is violated. `AckLife` 2 lets an acknowledgement arrive
  one exchange late, two attempts a requeued command. What a second invoice adds, a
  memory that sits on a paid one while another is overdue, and a second meter, is left
  to the theorems, which hold for any number of both; only the two liveness properties
  are not checked with them.

Deadlock is checked except where the bounds let the system stop, as said in the
configuration: `workspace`, `stamped`, `misfire`, `coordination`, `arrears`.

Fairness.

- `RouteControl`'s `Fairness`: time passes, and a tick that is due comes. The code
  is two ESPHome intervals on a loop with a watchdog, so a loop that stops is a
  reboot. Nothing is assumed of commands; `quiet` further assumes that the operator
  leaves: without it a queue can be filled for ever.
- `LedgerSync`'s `FairSpec`: the device goes on publishing (an interval), and of
  infinitely many snapshots one is ingested without a refused insert (strong
  fairness): without that nothing can be billed at all. It says nothing about
  acknowledgements, so liveness does not lean on them.
- `Automations`: a hook that has begun goes on (a goroutine), a set that was sent is
  received and a controller reconnects (MQTT client). Nothing is assumed of
  operators, builds or reboots.
- `Arrears`: the daily pass comes, it and the re-evaluation after a payment run to their
  end, and so do the listener's second save and its timeout (cron, handler and loop code;
  weak). Strong fairness of contact
  with a command waiting, of execution and of an answer: of infinitely many
  attempts one gets through. A bound on attempts is what makes the excuses
  necessary, and they are in the properties.

## 4. The proofs

| Module | Theorem | Statement |
|---|---|---|
| `RouteControlProofs` | `TypeCorrect` | `Spec => []TypeOK` |
| | `RouteInOneSlot` | `Spec => []OneSlotPerRoute` |
| | `SharedMeterExcludes` | `Spec => []NoConflictingRuns` |
| | `DrainCompletes` | `Spec => DrainIsComplete` |
| | `FaultsLatch` | `Spec => FaultLatches` |
| | `RunsAreBounded` | `Spec => []WatchedRunBounded` |
| | `RunsAreTimed` | without an override the clock never wraps under a run |
| `PlantAndMeterProofs` | `PumpsHaveAPath` | `PlantSpec => []PumpOnlyThroughOpenPath` |
| | `ClaimedPumpsStop` | `PlantSpec => []ClaimRunBounded` |
| | `IdleSlotsAreClosed` | `PlantSpec => IdleMeansClosed` |
| | `RecordsFollowRuns` | `MeteredSpec => []LedgerInStep` |
| | `EveryRunIsRecorded` | `MeteredSpec => RunsAreRecorded` |
| `LedgerSyncProofs` | `LedgerTyped` | `Spec => []TypeOK` |
| | `BilledOnce` | `Spec => []NoRunBilledTwice` |
| | `SlotsKeepLedger` | `Spec => KeepsLedger` (refinement of `RunLedger`) |
| `ManualHoldProofs` | `HoldTyped` | `Spec => []TypeOK` |
| | `StoppingIsFailSafe` | `Spec => []OrphanedClaimEnds` |
| | `HoldsStay` | `Spec => HoldNeverLapses` |
| | `AcceptedHoldIsKept` | `Spec => NoFalseBlock` |
| `CoordinationProofs` | `CoordinationTyped` | `Spec => []TypeOK` |
| | `ClaimEndsInSilence` | `Spec => []SilenceStops` |
| | `LightFollowsClaim` | `Spec => []LightIsHonest` |
| | `DeafnessIsBounded` | `Spec => []HeardAfterBoot` |
| | `FramesTakenInOrder` | `Spec => TakenInOrder` |
| `WorkspaceProofs` | `WorkspaceTyped` | `Spec => []TypeOK` |
| | `LastAskedIsShown` | `Spec => []OpensWhatWasAsked` |
| | `DrawingSurvives` | `Spec => []DrawingKept` |
| | `DirtyIsSaved` | `Spec => []DirtyHasASave` |
| | `AnswersAreHonest` | `Spec => AnswerMeansSaved` |
| `AutomationsProofs` | `TypeCorrect` | `Spec => []TypeOK` |
| | `StampsGuardRoutes` | `Spec => []StampGuards` |
| `ArrearsProofs` | `StateShownIsTrue` | `MeterSpec => []ShownIsTrue` |
| | `ArrearsTyped` | `Spec => []TypeOK` |
| | `AccountsKeepTheQueue` | `Spec => KeepsTheQueue` (refinement of `MeterSpec`) |
| | `AccountShowsTheTruth` | `Spec => []ShownIsTrue`, through the refinement |
| | `ShutValveIsRemembered` | `Spec => []NobodyForgotten` |
| | `SettledValveStaysOpen` | `Spec => SettledStaysOpen` |

All hold for every value of the constants within the named assumptions of the
modules. Most of these only give the constants their types. Those that say more:

- `BoundsAssumption`: the queue holds at most four starts (`MAX_QUEUE_SIZE` is 4).
- `LimitAssumption`: a run's limit and the monitor's lag stay below the wrap of
  the clock. The limit is a uint16 of seconds, the clock wraps after 49 days.
- `TickAssumption`: a 1 s tick is never so late that a route reaches RUNNING
  before the tick after its start has been seen. The settle time alone is one second.
- `MarginAssumption`: a 1 s tick is no later than the settle time, the drain is not
  zero, and a pump's runtime limit stays below the wrap. `SETTLE` is a second and so
  is the tick's interval: the kernel has no other margin.
- `LeaseAssumption`, `GraceAssumption`: a cadence and three round trips fit into a
  lease, and a claim has time to be confirmed.
- `MeterAssumption`: `AckLife <= 2`, as section 2 says. `ArrearsAssumption`: the account
  has a meter.
- `WorkspaceAssumption`: what is drawn by hand and what stands for a controller
  are different parts of a design.
- `NoRowAssumption`, `NoDesignAssumption`, `NoHoldAssumption`, `NoRoute \notin Route`
  and its like: the value that stands for nothing is none of the values.

**The kernel.** The inductive invariant `Inv` is the conjunction of the first
three. None of them stands alone: a conflict-free table stays so under the drain
only if the table is well typed and a route sits in one slot, and the valves
told to open are valves only because a busy slot holds a route. The argument has
two halves. Every step but a start lets each slot *yield* (`Yields`): it is
emptied, or keeps its route without becoming live; such a step keeps any good
table good (`YieldingIsGood`), whatever the timers say. A start puts a route that
is in no slot and in conflict with none into one slot (`ActivateIsGood`, where the
symmetry of `Conflicts` is needed). The drain is four rounds of a step that
keeps the table good (`DrainStepIsGood`).

`DrainCompletes` adds a measure: `Within(st, n)` says the loop is over after at
most n rounds, each round lowers n, and the ring holds at most four entries.
That is the one place where a number from the code (`MAX_QUEUE_SIZE` is 4)
enters an assumption. `FaultsLatch` rests on `FirstFreeIsFree`: the slot the code
picks for a start is a free one, so a start never falls on a fault.

`WatchedRunBounded` is a bound on ages, and not inductive: a run may be over its
limit only by the time since the monitor last looked. `WatchInv` puts `since2` in
the place of `Lag2`, and adds that a run was never without flow for longer than it
has run. The monitor lets a run go on only within its limits (`WatchSlotIsStrict`),
a second adds one to both sides, and `LimitAssumption` keeps the age from wrapping
before the monitor sees it.

**The valves and pumps.** Nothing comes back from a valve, so the invariant says how
far it must have come by the age of the slot (`Conduit`): of a run that prepares,
either no tick has seen it yet or its valves move at least as fast as it ages; of
one that stops, its valves are on their way to closed since the drain, unless
something else wants them (`keptOpen`). A tick gives the kernel's word to the valves
(`Directed`) and looks at the slots in the same step; a run that reaches RUNNING
has thereby waited long enough, by `MarginAssumption`, for its valves to be open, and
they stay so until the next tick even if the run is stopped (`Driven`). For the
guard, what a claim has driven the pump beyond the allowances of its renewals is at
most the guard's own clock and a tick (`Guarded`): whatever resets that clock either
stops the pump or is counted as a renewal.

**The run meter.** The meter compares states from tick to tick, and commands
change them in between. `Seen` says that what a slot has come to without the meter
having seen it is younger than the last 1 s tick. So a start that reaches RUNNING,
or a stop that leaves its slot, was seen before (`Tick1sIsWatched`, with
`TickAssumption`), and every step is one of a few (`Watching`, `Unwatched`).
`Honest` relates the books to `ran` and says what a missed slot looks like.

**The ledger.** A crash takes the counter back, so one number may come to stand for
two runs; but no run ever has two numbers, in whatever blob, snapshot or ledger it
is found (`Numbered`), and the server holds each number once (`Distinct`): that is
`NoRunBilledTwice`, for any number of slots. It needs that the numbers within one
meter differ and lie below its counter (`Whole`), of the meter in RAM and of both
blobs, as any of them may become the next meter.

For the refinement, `FirstLife` says what is so until the first crash: a run's number is
its place in the order of births, the outbox lists runs in the order in which they
ended (`before`), and an acknowledgement covers a number only if a run with that number
or a higher one is billed. So a run that an acknowledgement erases unbilled has a
higher one beside it in the ledger, which had ended before it was sent: `Outrun`. And a
run that is missing from a full outbox has `OUTBOX_CAP` later ones in it: `Crowded`
(`FullCount`). After a crash `RunLedger` promises only that what is billed stays so
(`PhaseSurvives`). The loop of `meter_load_` and `remove_if` are recursive functions;
what they preserve is shown by an induction over sets of numbers (`CountingUp`,
`StepByStep`), which needs no theorem that takes an operator.

**The held claim.** `OrphanedClaimEnds` bounds a history variable, and is not
inductive: a claim that waits in the broker may renew the lease later. While
nobody holds or asks, no claim joins the broker's queue (`Published`), so those in
it age at least as fast as the claim is orphaned (`Aged`), and the TTL gate lets
none through that is older than TTL, or `overdue` says so. `Ending` puts both together:
the time orphaned and what is left of the lease make no more than TTL and one lease.

`HoldNeverLapses` needs to know where the next re-assertion is (`RenewalInTime`): in
the cadence, in a request or in the broker's queue; wherever it is, the lease is
longer than it may still take. That holds of a hold just registered because the
controller cannot have taken its claim earlier than it was asked for
(`TakenSince`), by `LeaseAssumption`. `NoFalseBlock` needs that the outcome of a
command under way is settled once (`SentOnce`), so that the shadow never shows a
refusal the controller did not give, and that a hold whose outcome no snapshot has
shown yet is younger than the snapshot interval and a way there (`Judged`), by
`GraceAssumption`.

**Peer coordination.** A claim on its way carries how long the proxy may have
been off since, and a receipt how long the owner may have ceased to hold
(`InAir`). Applied, these ages pass into the lease (`Leased`) and into the light
(`Lit`). `Heard` relates what a receiver has accepted and refused to the counter
of the sender's present boot; a refused counter lies within the window below the
last one accepted, so there are at most Window + 1 of them.

**Meters and arrears.** `MeterInv` says what a datagram under way can still do:
the frame repeats the command that was sent or what the server was told (`Aimed`), and
an acknowledgement that would be taken for the answer tells the valve's position
(`Traced`; here `AckLife <= 2` is needed). `Told` is what joins the two saves of an
acknowledgement: what the second has yet to write counts as told already. Above it,
`Arrears` refines `MeterSpec` step by step, so `ShownIsTrue` carries over.
`NobodyForgotten` follows from `Lulled`: while no invoice remembers a closure, but for
those a re-evaluation is about to clear, no meter it is done with has a closing in its
slot (`Body`), and a shut valve has its opening there. The meters that the pass has come to for an
invoice without a memory yet are set apart (`Dealt`) until `closed_at` is saved, or a
re-evaluation that could not know of them makes them an excuse (`Spare`). `Called` says
where a closing in a slot of a settled account can come from, `Listed` that a stale
copy of the pass is of a paid invoice.

**The workspace.** What the editor shows depends on requests that overtake one
another, and the invariant orders them: only the load of the site asked for last
may show anything (`LoadsOrdered`), the save that is awaited is the last one sent
(`AwaitedIsLast`), and unless the server took two out of order, what it stores is
what it was sent last (`ServedInOrder`, `FetchIsFresh`). On top of it, everything
drawn for the site on the screen is shown, and is stored, on its way or due to be
saved (`ShownIsWhole`); for any other site it is stored or on its way
(`AwayIsSafe`); and no save that is still on its way takes any of it back
(`SavesGrow`). That a new controller's part is nowhere before it is added (`Blank`)
keeps it from being claimed for two sites.

**Automations.** `StampGuards` speaks of the controller's table only, but a wrong
index can come from any earlier state, so the invariant says of every row that is not
torn, every build under way and every set on its way that an index is right in the
version it is stamped with (`RowsRight`, `SetsRight`), whatever the design is by now. Of
a set that was read from mixed rows it says nothing, and each set carries with it
whether it was (`SetRight`). The controller accepts a set only if the versions agree,
which makes its own table right (`TableRight`) unless it is of such a set. A mixed set
is nothing rare: a build that restamps two rows publishes one in between. The theorem
says that it does no harm beyond its own stay in the table, and run `misfire` shows
that it does harm there.

Only model-checked is what holds under fairness alone (`RunsFinish`, `QueueDrains`,
`EveryRunIsBilled`, `MirrorsRows`, `ClosureIsRetried`, `SettledIsServed`), which
the prover cannot do.

## 5. Where code and documents differ

Two are findings in `PROJECT.json`, with their quotes:

- `misfire`: a set is published under the stamp of its oldest row, and rows of one
  controller may carry different stamps; the controller accepts the set and an
  automation starts the route that has its index in another table.
- `unrecorded`: the tick frees a slot and its drain gives it to the next route at
  once; the meter, which runs after the tick, sees no end of the run, whose record
  stays open and is closed with another run's end or overwritten.

No run is spent on the following; the models show them, or exclude them by a
history variable that a property names.

Runs and meter
- `meter.cpp:92`: runs are numbered when they begin and sent when they end, and one
  high-water-mark acknowledges them all; with two slots the run that ends last
  but began first is erased unbilled, against `ingest.go:347-351`.
- `meter.cpp:50`: a run's number is only safe once the blob has reached flash;
  `meter.h:26-27` says it is "unique per device forever".
- `meter.cpp:46-47`: a record that is still open in the slot is written over without
  being closed; with `unrecorded` above, that is a run lost.
- `mqtt.ts:341`: an outbox too large for the snapshot's buffer is never sent at
  all, against :452 and :325-326. The buffer reserves 150 bytes for each of the 16
  records, and most are longer; what does not fit is cut off, the snapshot is unreadable
  as a whole, and it stays so until an acknowledgement or an overflow changes the
  outbox (`EveryRunIsBilled` excuses it).
- `maji_control.cpp:24-28`: `stop_tok` has nine tokens, `STOP_FLOW_STALLED` is the tenth
  reason (`core.h:236`, `codegen-ids.ts:544`): a run that stalled is recorded with the
  reason NONE, against the comment at :17-19 that the tokens mirror the enums. The
  model records it so (`StopTok`).

Kernel
- `core.h:331-334` says a tripped pump stays gated off until its claim is released
  or reset. `core.cpp:537` clears the latch as soon as a route uses the pump, and
  the claim drives the pump again afterwards, for its whole limit: routes that come by
  often enough keep a claim alive for ever. `ClaimRunBounded` bounds the time by their
  number (`renewed`).
- `architecture.md:198` says a fault's claim on its valves is empty outside its
  window. After 2^32 ms the age of its stamp is small again, and the valves of a
  fault nobody reset open for two seconds.
- `architecture.md:203` says a slot "only declares itself idle once the valves have
  physically had time to close". Not so for a valve that another run, a fault or a
  claim kept open after this run had let go of it.
- `route-capabilities.ts:123-125` says routes that share a meter are exclusive.
  `has_conflict` does not count a route that is stopping, whose record is still
  open, so a second one may run through the meter before that record is closed.

Held claim
- "Stop all" while a claim's POST is pending: the late answer registers the hold
  (`command-lifecycle.store.ts:129`), against the comment at :119, and the pump
  comes back.
- An APPLIED outcome short-circuits the judgement (`command-confirm.ts:174`): a pump
  that its guard trips later is not judged by what the shadow shows.
- Concurrent POSTs may carry a re-assert past a release.
- `mqtt.ts:71-76`: the TTL is not looked at before the controller's clock is
  synchronised ("fail-open", :70), so after a boot without SNTP the broker's queue of an
  absent controller is carried out whatever its age: a claim nobody holds may start
  the pump for a lease (`overdue`).

Workspace
- `removeController` awaits the server and then sets the design it had read
  before (`workspace.service.ts:398`); `addBlankController` adds to whatever site is
  loaded by then (:348, :374). The device is deregistered before the design
  without it is saved (:396).
- A failed autosave is not tried again until the next edit (:145); an edit less
  than 800 ms before a change of site is dropped (:489); the end of a load clears
  the dirty flag although the draft was migrated or edited meanwhile (:236).
  `editor.component.ts:79` says "workspace autosaves; this confirms it".
- `sites.store.ts:118-131` with `collection-store.ts:54-103`: a cached list that is
  invalidated while a patch is under way may keep the older row.

Automations
- Every build that restamps two rows publishes a set of mixed stamps between its two
  patches (`build.service.ts:242-252`, a publication for each), against
  `publish.go:126-127`; if the oldest row's stamp is the controller's, it is accepted.
- The build restamps rows for the design it has read at its beginning (:146), while the
  page may have saved a newer one since.
- `toggleEnabled` switches on a row that was paused because its route is gone
  (`build.service.ts:223-224`); a build patches a row as it had read it, over one
  saved since; hooks of two requests may publish in the other order; a replay of the
  retained set resets the edge states (`maji_automations.cpp:42`).

Coordination
- The release that a stop of a remote cover sends is undone by the next
  heartbeat while the proxy's position is above one half
  (`remote-proxy.ts:103-112`, against :20).
- `architecture.md:217` has a peer that reboots refused for "one stale interval". The
  receiver refuses as many of its frames as the window is long, and one more
  (`HeardAfterBoot`): 4097 in the code (`wire.cpp:98`), which are hours of heartbeats,
  unless the counter had already passed the window.
- `claims.cpp:47` compares a deadline as an absolute number: a lease across the
  wrap of the clock ends at once, or not for 49 days.

Arrears
- A closing that the meter has executed, with its acknowledgement lost, is
  requeued as `queued`; a payment then cancels it as one "before the meter ever
  heard the command" (`arrears.go:177-193`): the valve is shut, shown open, and
  nothing opens it.
- A closing that was under way at the payment, timed out and requeued is sent to a
  settled tenant. An opening that fails or expires is not tried again, since
  `closed_at` is cleared when it is queued.
- The pass acts on copies: one of an invoice paid meanwhile queues a closing, and
  leaves the memory of it cleared; `markOverdue` can put "overdue" over "paid"
  (`scheduler.go:454-467`), and `AllocatePayment` skips that invoice ever after.
- "keep closed_at so a later payment re-triggers": a payment re-evaluates only
  if something was allocated (`payments.go:156`). A restart between allocation and
  re-evaluation loses the reopening.
- A payment cancels an operator's queued closing as well.
- The re-evaluation reads the meters (`arrears.go:175`), then each pending command
  (:182), and deletes it (:188), with the listener beside it. A closing acknowledged
  between the first two, or whose state is not saved yet (`session.go:172`, :188), leaves
  a copy that says open and no pending command: `closed_at` is cleared over a shut
  valve. A closing sent between the last two is deleted although the meter carries it
  out, against :179-181 ("can't be cancelled safely"), and its answer finds no command.
- `closed_at` is saved after the closings are queued (:134-138): a payment
  re-evaluated in between finds nothing closed by the rule and returns (:166), and the
  closings stay.

## 6. Not modelled, and why

Code generation and dashboard views: pure functions and user interface; together
with the designer's forms they are most of the repository's lines, which is why
the models stand for a small share of them. HTTP API, users, entitlements,
rollups: handlers over a database without state or order of their own. The MQTT
broker: a third party's; its delivery is in the environment of the modules that
use it. Mail and payment gateways: I/O. Everything under `legacy/` and the
prototypes: not in use. Within the modelled components, what section 2 names as
left out.

## 7. Plan

Modules, the most important first:

1. The rest of the command lane: deduplication on the controller, the ring of
   outcomes for route commands, the server's audit rows; at most one effect per
   command, and the row agrees with the effect.
2. The automation engine's tick: edge and level triggers, minute stamps, replays
   and refused starts; one firing per crossing and per minute.
3. The lease registry with a wrapping clock and several claimants of one node.
4. The local UI's slots, configuration convergence, alert episodes.
5. The generator's route table and conflict masks as operators over a topology,
   against the definition `RouteControl` assumes of them; billing amounts and
   cycles.

Theorems: every safety property that holds of the present modules has one; those of
each new module are to get theirs.
