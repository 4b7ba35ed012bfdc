------------------------------- MODULE MeterValve -------------------------------
(***************************************************************************)
(* The valve of a prepaid meter.  The meter sleeps and reports about once  *)
(* a day; only then the server can send it a command, the one it holds     *)
(* queued for it, and the meter's acknowledgement is a datagram of its own *)
(* that may come late or never.  What the server believes of the valve is  *)
(* what the last acknowledged command said: it saves the command first and *)
(* the state shown after it.  A meter has at most one valve command queued *)
(* or sent (a partial unique index), so cmd[m] is a slot.  One goroutine   *)
(* hears the meters; billing and the operators use the slots beside it.    *)
(* The listener's table of unacknowledged sends holds the commands marked  *)
(* sent, and those (orphan) whose record was deleted after it was sent.    *)
(***************************************************************************)
EXTENDS Integers

CONSTANTS
  Meter,
  MaxAttempts,   \* billing_settings.cmd_max_attempts
  AckLife        \* an acknowledgement is lost at this exchange after it was sent

\* One that outlived two exchanges could pass for the answer to a later command.
ASSUME MeterAssumption == MaxAttempts \in Nat \ {0} /\ AckLife \in 1 .. 2

VARIABLES
  valve,    \* the valve itself
  shown,    \* meter_devices.valve_state
  landing,  \* what an acknowledgement says that the listener is still saving
  cmd,      \* the queued or sent valve command in meter_commands
  orphan,   \* the listener awaits the answer to a command that was deleted
  down,     \* the command under way to the meter
  up,       \* the acknowledgements under way to the server
  unsure    \* a command was sent, and none has been acknowledged since

meterVars == <<valve, shown, landing, cmd, orphan, down, up, unsure>>

Position == {"open", "closed"}
State == Position \cup {"unknown"}
Command == [to: Position, sent: BOOLEAN, tries: 0 .. MaxAttempts]
NoCommand == [to |-> "none", sent |-> FALSE, tries |-> 0]
Queued(to) == [to |-> to, sent |-> FALSE, tries |-> 0]
Ack == [to: Position, age: 0 .. AckLife - 1]

\* m's command waits for the next exchange.
Waiting(m) == cmd[m] # NoCommand /\ ~cmd[m].sent

\* The listener is between two datagrams.
Idle == \A m \in Meter : landing[m] = "none"

\* What the server has been told of the valve, saved or not.
Told(m) == IF landing[m] = "none" THEN shown[m] ELSE landing[m]

-----------------------------------------------------------------------------
\* What billing and the operators do to the slots.

\* Mutant of EnqueueValve: the pending command is not looked for.
EnqueueAnyway(m, state, to) == IF state # to THEN Queued(to) ELSE cmd[m]

\* The slot after EnqueueValve, asked to bring m to a position by a caller whose
\* copy of the meter has this state: a change, and only if no command is pending.
EnqueueValve(m, state, to) ==
  IF state # to /\ cmd[m] = NoCommand THEN Queued(to) ELSE cmd[m]

\* Copies may be old: either direction may come, but never replaces a command.
Enqueue(m, to) ==
  /\ cmd[m] = NoCommand
  /\ cmd' = [cmd EXCEPT ![m] = Queued(to)]
  /\ UNCHANGED <<valve, shown, landing, orphan, down, up, unsure>>

\* A closing is withdrawn.  It was queued when it was looked at; if it has been
\* sent since, the meter may carry it out and its answer finds no command.
Withdraw(m) ==
  /\ cmd[m].to = "closed"
  /\ cmd' = [cmd EXCEPT ![m] = NoCommand]
  /\ orphan' = [orphan EXCEPT ![m] = @ \/ cmd[m].sent]
  /\ unsure' = [unsure EXCEPT ![m] = @ \/ cmd[m].sent]
  /\ UNCHANGED <<valve, shown, landing, down, up>>

Dispatch == \E m \in Meter : Withdraw(m) \/ \E to \in Position : Enqueue(m, to)

-----------------------------------------------------------------------------
\* The listener and the meters.

\* flushOne: the queued command goes out, and whatever was under way before is
\* lost, an acknowledgement after one more exchange.
Aged(m) == [up EXCEPT ![m] = {[a EXCEPT !.age = @ + 1] :
                                a \in {b \in @ : b.age + 1 < AckLife}}]

Flush(m) ==
  /\ cmd' = [cmd EXCEPT ![m].sent = TRUE, ![m].tries = @ + 1]
  /\ down' = [down EXCEPT ![m] = cmd[m].to]
  /\ up' = Aged(m)

\* ingestUplink: the report fills in an unknown state, then the session sends
\* the queued command if none awaits its answer.
Contact(m) ==
  /\ Idle
  /\ shown' = [shown EXCEPT ![m] = IF @ = "unknown" THEN valve[m] ELSE @]
  /\ \/ Waiting(m) /\ ~orphan[m] /\ Flush(m)
     \/ /\ ~Waiting(m) \/ orphan[m]
        /\ down' = [down EXCEPT ![m] = "none"] /\ up' = Aged(m)
        /\ UNCHANGED cmd
  /\ UNCHANGED <<valve, landing, orphan, unsure>>

\* The meter turns its valve and acknowledges, echoing the command.
Execute(m) ==
  /\ down[m] # "none"
  /\ valve' = [valve EXCEPT ![m] = down[m]]
  /\ up' = [up EXCEPT ![m] = @ \cup {[to |-> down[m], age |-> 0]}]
  /\ down' = [down EXCEPT ![m] = "none"]
  /\ UNCHANGED <<shown, landing, cmd, orphan, unsure>>

\* Mutant of Echoes: the echo in the acknowledgement is not looked at.
EchoesAny(m, a) == TRUE

\* The acknowledgement echoes the command that was sent.
Echoes(m, a) == a.to = cmd[m].to

\* resolveAck: without a command that awaits it an acknowledgement is dropped; a
\* wrong echo fails the command, a right one marks it acked.
ResolveAck(m, a) ==
  /\ Idle /\ a \in up[m]
  /\ up' = [up EXCEPT ![m] = @ \ {a}]
  /\ orphan' = [orphan EXCEPT ![m] = FALSE]
  /\ IF cmd[m].sent
     THEN /\ cmd' = [cmd EXCEPT ![m] = NoCommand]
          /\ unsure' = [unsure EXCEPT ![m] = ~Echoes(m, a)]
          /\ landing' = IF Echoes(m, a) THEN [landing EXCEPT ![m] = cmd[m].to] ELSE landing
     ELSE UNCHANGED <<cmd, unsure, landing>>
  /\ UNCHANGED <<valve, shown, down>>

\* Its second save makes the state shown; a command queued since goes out, for
\* the meter is still there.
ShowState(m) ==
  /\ landing[m] # "none"
  /\ shown' = [shown EXCEPT ![m] = landing[m]]
  /\ landing' = [landing EXCEPT ![m] = "none"]
  /\ \/ Waiting(m) /\ Flush(m)
     \/ ~Waiting(m) /\ UNCHANGED <<cmd, down, up>>
  /\ UNCHANGED <<valve, orphan, unsure>>

\* Mutant of Requeued: one attempt too many.
RequeuedOnceMore(c) ==
  IF c.tries > MaxAttempts THEN NoCommand ELSE [c EXCEPT !.sent = FALSE]

\* requeueExpiredAcks puts the command back, or fails it after its last attempt.
Requeued(c) ==
  IF c.tries >= MaxAttempts THEN NoCommand ELSE [c EXCEPT !.sent = FALSE]

Timeout(m) ==
  /\ Idle
  /\ cmd[m].sent \/ orphan[m]
  /\ orphan' = [orphan EXCEPT ![m] = FALSE]
  /\ cmd' = [cmd EXCEPT ![m] = IF orphan[m] THEN @ ELSE Requeued(@)]
  /\ unsure' = [unsure EXCEPT ![m] = TRUE]
  /\ UNCHANGED <<valve, shown, landing, down, up>>

\* expireStale gives up a queued command after its time to live.
Expire(m) ==
  /\ Waiting(m)
  /\ cmd' = [cmd EXCEPT ![m] = NoCommand]
  /\ UNCHANGED <<valve, shown, landing, orphan, down, up, unsure>>

\* A restart of the server expires what it had sent (ExpireOrphanedSent), and
\* between the two saves of an acknowledgement it loses the state.
RestartListener ==
  /\ cmd' = [m \in Meter |-> IF cmd[m].sent THEN NoCommand ELSE cmd[m]]
  /\ unsure' = [m \in Meter |-> unsure[m] \/ cmd[m].sent \/ landing[m] # "none"]
  /\ landing' = [m \in Meter |-> "none"] /\ orphan' = [m \in Meter |-> FALSE]
  /\ UNCHANGED <<valve, shown, down, up>>

\* A meter is installed with its valve open.
MeterInit ==
  /\ valve = [m \in Meter |-> "open"] /\ shown = [m \in Meter |-> "unknown"]
  /\ landing = [m \in Meter |-> "none"] /\ orphan = [m \in Meter |-> FALSE]
  /\ cmd = [m \in Meter |-> NoCommand] /\ down = [m \in Meter |-> "none"]
  /\ up = [m \in Meter |-> {}] /\ unsure = [m \in Meter |-> FALSE]

MeterStep ==
  \/ \E m \in Meter : Contact(m) \/ Execute(m) \/ ShowState(m) \/ Timeout(m) \/ Expire(m)
  \/ \E m \in Meter : \E a \in up[m] : ResolveAck(m, a)

MeterNext == MeterStep \/ RestartListener \/ Dispatch

MeterSpec == MeterInit /\ [][MeterNext]_meterVars

-----------------------------------------------------------------------------
MeterTypeOK ==
  /\ valve \in [Meter -> Position] /\ shown \in [Meter -> State]
  /\ landing \in [Meter -> Position \cup {"none"}] /\ orphan \in [Meter -> BOOLEAN]
  /\ cmd \in [Meter -> Command \cup {NoCommand}]
  /\ down \in [Meter -> Position \cup {"none"}]
  /\ up \in [Meter -> SUBSET Ack] /\ unsure \in [Meter -> BOOLEAN]

\* meter_devices.valve_state is the position of the valve, unless a command is on
\* its way, its answer is being saved, or one was sent and never acknowledged:
\* late, lost and mixed up acknowledgements do not make the server believe what
\* is not so.
ShownIsTrue ==
  \A m \in Meter :
    ~unsure[m] /\ ~cmd[m].sent /\ landing[m] = "none" => shown[m] \in {"unknown", valve[m]}
=============================================================================
