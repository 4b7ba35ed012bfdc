---------------------------- MODULE MeteredControl ----------------------------
(***************************************************************************)
(* The control kernel and the run meter that watches it.  The meter is not *)
(* called when a run begins or ends: after each tick meter_sync_ compares  *)
(* every slot with what it was after the tick before, and opens or closes  *)
(* a run record from the difference.  Commands change slots in between.    *)
(* ran is the truth to compare with: the route whose run in the slot has   *)
(* begun under a trusted clock and is not over.  A run whose slot is freed *)
(* and given to another route within one tick is missed: the meter sees no *)
(* end of it.                                                              *)
(***************************************************************************)
EXTENDS RouteControl

\* The 1 s tick is never so late that a start reaches RUNNING, or a stop IDLE,
\* before the meter has seen it: the settle time alone is one second.
ASSUME TickAssumption == \A r \in Route : Lag1 <= Travel[r] + SETTLE

VARIABLES
  prev_state, prev_stop,   \* what meter_sync_ saw last, per slot
  open,                    \* the route of the run record open in each slot
  stamped,                 \* run_epoch # 0: the clock has been trusted once
  closed,                  \* the records the last step closed
  ran,                     \* the route that has truly been running
  missed                   \* the slots whose last run the meter has missed

meter == <<prev_state, prev_stop, open, stamped, closed, ran, missed>>

\* The table of stop_tok has nine entries; the code of FLOW_STALLED, the tenth
\* reason of the kernel, is out of its range.
StopTok(reason) == IF reason = "FLOW_STALLED" THEN "NONE" ELSE reason

Tokens == StopReasons \ {"FLOW_STALLED"}

Record == [slot: Slot, route: Route, reason: Tokens]

\* Mutant of Sync: the reason is read after the tick has wiped it.
SyncLate ==
  LET Opens(s) == /\ prev_state[s] = "PREPARING"
                  /\ slots'[s].state = "RUNNING" /\ stamped'
      Ends(s) == /\ prev_state[s] \in {"PREPARING", "RUNNING", "STOPPING"}
                 /\ slots'[s].state \in {"IDLE", "FAULT"}
  IN /\ open' = [s \in Slot |-> IF Opens(s) THEN slots'[s].route
                                ELSE IF Ends(s) THEN NoRoute ELSE open[s]]
     /\ closed' = {[slot |-> s, route |-> open[s],
                    reason |-> StopTok(slots'[s].reason)] :
                     s \in {t \in Slot : Ends(t) /\ open[t] # NoRoute}}
     /\ prev_state' = [s \in Slot |-> slots'[s].state]
     /\ prev_stop' = [s \in Slot |-> slots'[s].reason]

\* One pass of meter_sync_ over the slots, after the kernel's tick.
Sync ==
  LET Opens(s) == /\ prev_state[s] = "PREPARING"
                  /\ slots'[s].state = "RUNNING" /\ stamped'
      Ends(s) == /\ prev_state[s] \in {"PREPARING", "RUNNING", "STOPPING"}
                 /\ slots'[s].state \in {"IDLE", "FAULT"}
      Why(s) == IF slots'[s].state = "IDLE" THEN prev_stop[s]
                ELSE slots'[s].reason
      Ending == {s \in Slot : Ends(s) /\ open[s] # NoRoute}
  IN /\ open' = [s \in Slot |-> IF Opens(s) THEN slots'[s].route
                                ELSE IF Ends(s) THEN NoRoute ELSE open[s]]
     /\ closed' = {[slot |-> s, route |-> open[s], reason |-> StopTok(Why(s))] :
                     s \in Ending}
     /\ prev_state' = [s \in Slot |-> slots'[s].state]
     /\ prev_stop' = [s \in Slot |-> slots'[s].reason]

NoSync == closed' = {} /\ UNCHANGED <<prev_state, prev_stop, open>>

\* A run is missed until the next one in its slot begins, or ends before that.
Ran ==
  /\ ran' = [s \in Slot |->
       IF slots[s].state = "PREPARING" /\ slots'[s].state = "RUNNING"
       THEN IF stamped' THEN slots'[s].route ELSE NoRoute
       ELSE IF slots'[s].state \in {"RUNNING", "STOPPING"} THEN ran[s]
       ELSE NoRoute]
  /\ missed' = {s \in Slot :
       \/ slots'[s].state = "PREPARING" /\ (s \in missed \/ ran[s] # NoRoute)
       \/ slots'[s].state = "STOPPING" /\ s \in missed}

MeteredInit ==
  /\ Init
  /\ prev_state = [s \in Slot |-> "IDLE"]
  /\ prev_stop = [s \in Slot |-> "NONE"]
  /\ open = [s \in Slot |-> NoRoute]
  /\ stamped = FALSE
  /\ closed = {}
  /\ ran = [s \in Slot |-> NoRoute]
  /\ missed = {}

\* Mutant of MeteredTick1s: only the 2 s tick looks at the slots.
UnmeteredTick1s(wall) ==
  /\ SomeTick1s
  /\ stamped' = (stamped \/ wall)
  /\ NoSync
  /\ Ran

\* wall: whether the tick is handed a trusted wall clock.
MeteredTick1s(wall) ==
  /\ SomeTick1s
  /\ stamped' = (stamped \/ wall)
  /\ Sync
  /\ Ran

\* The shell leaves before the sync when the operator overrides the monitor.
MeteredTick2s ==
  /\ SomeTick2s
  /\ UNCHANGED stamped
  /\ IF safety_override THEN NoSync ELSE Sync
  /\ Ran

MeteredNext ==
  \/ \E wall \in BOOLEAN : MeteredTick1s(wall)
  \/ MeteredTick2s
  \/ /\ Commands \/ ClaimChanges \/ Elapse
     /\ NoSync /\ UNCHANGED stamped /\ Ran

MeteredSpec == MeteredInit /\ [][MeteredNext]_<<vars, meter>>

-----------------------------------------------------------------------------
\* The meter has a record open in a slot exactly while a run that began there
\* under a trusted clock goes on, and for the right route: no transition falls
\* between two syncs, whatever commands come between the ticks, but for the one
\* that frees a slot and gives it away within a tick.
LedgerInStep == \A s \in Slot \ missed : open[s] = ran[s]

Ended(s) == ran[s] # NoRoute /\ ran'[s] # ran[s]

\* What a run ended for.
EndReason(s) ==
  IF slots[s].state = "RUNNING" THEN slots'[s].reason ELSE slots[s].reason

\* A run that stopped because its flow stalled goes into the ledger without a
\* reason, every other one with its own.
EndRecord(s) ==
  [slot |-> s, route |-> ran[s],
   reason |-> IF EndReason(s) = "FLOW_STALLED" THEN "NONE" ELSE EndReason(s)]

\* Every such run is closed once it is over, for the route that ran, with the
\* reason it ended for (NONE if its flow stalled), and nothing else is closed, as
\* long as no run is missed.
RunsAreRecorded ==
  [][{c \in closed' : c.slot \notin missed}
       = {EndRecord(s) : s \in {t \in Slot : Ended(t) /\ t \notin missed'}}]_<<vars, meter>>

\* The comment on meter_sync_ promises to open a run on PREPARING->RUNNING and
\* to close it on active->IDLE (clean) or ->FAULT: the record of a run is closed
\* when the run is over.
EndsAreClosed ==
  [][\A s \in Slot : Ended(s) =>
       \E c \in closed' : c.slot = s /\ c.route = ran[s]]_<<vars, meter>>
=============================================================================
