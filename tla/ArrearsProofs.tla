----------------------------- MODULE ArrearsProofs -----------------------------
(***************************************************************************)
(* Proofs about MeterValve and about Arrears above it, for any meters,     *)
(* invoices, attempts and bounds.  Of MeterValve: the frame and the        *)
(* acknowledgements under way say what they can still do (Aimed, Traced).  *)
(* What the server has been told of a valve (Told), saved or not, is so.   *)
(* Of Arrears: that a shut valve is remembered rests on what holds of the  *)
(* meters a re-evaluation is done with, should it clear the memory         *)
(* (Lulled): no closing is in the slot, and a shut valve has its opening   *)
(* there.  That a settled tenant's valve stays open rests on where a       *)
(* closing in a slot can come from (Called).                               *)
(***************************************************************************)
EXTENDS Arrears, TLAPS

-----------------------------------------------------------------------------
(* The meters' queue.                                                      *)


\* A queued command has an attempt left.
Spared == \A m \in Meter : Waiting(m) => cmd[m].tries < MaxAttempts

\* The frame under way repeats the command that was sent, or else what was told.
Aimed ==
  \A m \in Meter :
    down[m] # "none" =>
      /\ cmd[m].sent => down[m] = cmd[m].to
      /\ ~cmd[m].sent /\ ~unsure[m] => down[m] = Told(m)

\* An acknowledgement of the present contact tells the valve's position, and so
\* does every one that would be taken for the answer to the command.
Traced ==
  \A m \in Meter : \A a \in up[m] :
    /\ a.age = 0 => down[m] = "none" /\ valve[m] = a.to
    /\ cmd[m].sent /\ a.to = cmd[m].to => valve[m] = a.to

\* Before the first contact the valve is as it was installed.
Fresh ==
  \A m \in Meter :
    shown[m] = "unknown" =>
      valve[m] = "open" /\ down[m] = "none" /\ landing[m] = "none" /\ ~cmd[m].sent

\* What was told is so, unless a command is on its way or was never acknowledged.
ToldIsTrue ==
  \A m \in Meter : ~unsure[m] /\ ~cmd[m].sent => Told(m) \in {"unknown", valve[m]}

MeterInv == MeterTypeOK /\ Spared /\ Aimed /\ Traced /\ Fresh /\ ToldIsTrue

-----------------------------------------------------------------------------

\* Of the constants the proofs use this much.
LEMMA MeterConstants ==
  MaxAttempts \in Nat /\ MaxAttempts >= 1 /\ AckLife \in Nat /\ 1 <= AckLife /\ AckLife <= 2
BY MeterAssumption

\* A slot holds a command or nothing, and what is sent is a command.
LEMMA SlotTypes ==
  ASSUME MeterTypeOK, NEW m \in Meter
  PROVE  /\ cmd[m] # NoCommand => cmd[m] \in Command
         /\ cmd[m].sent => cmd[m] \in Command
         /\ cmd[m].sent \in BOOLEAN
         /\ cmd[m] = NoCommand => cmd[m].to = "none" /\ ~cmd[m].sent
         /\ cmd[m].to \in Position \cup {"none"}
         /\ cmd[m].to = "none" => cmd[m] = NoCommand
<1>1. CASE cmd[m] \in Command
  <2>1. cmd[m].to \in Position /\ cmd[m].sent \in BOOLEAN /\ cmd[m].to # "none"
    BY <1>1 DEF Command, Position
  <2> QED
    BY <1>1, <2>1 DEF NoCommand
<1>2. CASE cmd[m] = NoCommand
  BY <1>2 DEF NoCommand
<1> QED
  BY <1>1, <1>2 DEF MeterTypeOK

\* The initial state satisfies the invariant.
LEMMA MeterInitInv == MeterInit => MeterInv
<1> SUFFICES ASSUME MeterInit PROVE MeterInv
  OBVIOUS
<1>1. MeterTypeOK
  BY MeterConstants DEF MeterInit, MeterTypeOK, Position, State, NoCommand
<1>2. Spared /\ Aimed /\ Traced /\ Fresh /\ ToldIsTrue
  BY DEF MeterInit, Spared, Waiting, Aimed, Traced, Fresh, ToldIsTrue, Told, NoCommand
<1> QED
  BY <1>1, <1>2 DEF MeterInv

\* An exchange ages the acknowledgements under way: those left are of the exchange
\* before, and tell the position.
LEMMA AgedUp ==
  ASSUME MeterInv, NEW m \in Meter, up' = Aged(m), valve' = valve
  PROVE  /\ up' \in [Meter -> SUBSET Ack]
         /\ \A k \in Meter \ {m} : up'[k] = up[k]
         /\ \A b \in up'[m] : b.age = 1 /\ valve[m] = b.to
<1> USE MeterConstants DEF MeterInv
<1> DEFINE late == {a \in up[m] : a.age + 1 < AckLife}
<1>1. \A a \in up[m] : a \in Ack /\ a.age \in Nat
  BY DEF MeterTypeOK, Ack
<1>2. \A a \in late :
        /\ a.age = 0 /\ [a EXCEPT !.age = @ + 1] \in Ack
        /\ [a EXCEPT !.age = @ + 1].to = a.to /\ [a EXCEPT !.age = @ + 1].age = 1
  BY <1>1 DEF Ack
<1>3. /\ up' = [up EXCEPT ![m] = {[a EXCEPT !.age = @ + 1] : a \in late}]
      /\ up'[m] = {[a EXCEPT !.age = @ + 1] : a \in late}
      /\ \A k \in Meter \ {m} : up'[k] = up[k]
  BY DEF Aged, MeterTypeOK
<1>4. up' \in [Meter -> SUBSET Ack]
  BY <1>2, <1>3 DEF MeterTypeOK
<1>5. \A b \in up'[m] : b.age = 1 /\ valve[m] = b.to
  <2> SUFFICES ASSUME NEW a \in late
               PROVE  valve[m] = a.to
    BY ZenonT(30), <1>2, <1>3
  <2> QED
    BY <1>2 DEF Traced
<1> QED
  BY <1>3, <1>4, <1>5

\* What flushing a queued command makes of the slot and the frame.
LEMMA Flushed ==
  ASSUME MeterInv, NEW m \in Meter, Waiting(m), Flush(m)
  PROVE  /\ cmd' \in [Meter -> Command \cup {NoCommand}]
         /\ down' \in [Meter -> Position \cup {"none"}]
         /\ cmd'[m] \in Command /\ cmd'[m].sent /\ cmd'[m].to = cmd[m].to
         /\ down'[m] = cmd[m].to /\ cmd[m].to \in Position
         /\ \A k \in Meter \ {m} : cmd'[k] = cmd[k] /\ down'[k] = down[k]
<1> USE MeterConstants DEF MeterInv
<1>1. /\ cmd' = [cmd EXCEPT ![m].sent = TRUE, ![m].tries = @ + 1]
      /\ down' = [down EXCEPT ![m] = cmd[m].to]
  BY DEF Flush
<1>2. cmd[m] \in Command /\ cmd[m].tries < MaxAttempts
  BY SlotTypes DEF Waiting, Spared
<1>3. /\ cmd'[m] \in Command /\ cmd'[m].sent /\ cmd'[m].to = cmd[m].to
      /\ down'[m] = cmd[m].to /\ cmd[m].to \in Position
      /\ \A k \in Meter \ {m} : cmd'[k] = cmd[k] /\ down'[k] = down[k]
  BY <1>1, <1>2 DEF Command, MeterTypeOK
<1>4. cmd' \in [Meter -> Command \cup {NoCommand}]
  BY <1>1, <1>3 DEF MeterTypeOK
<1> QED
  BY <1>1, <1>3, <1>4 DEF MeterTypeOK

\* A contact sends the queued command: from there on the frame is aimed, and the
\* acknowledgements of the contact before still tell the position.
LEMMA ContactInv ==
  ASSUME MeterInv, NEW m \in Meter, Contact(m)
  PROVE  MeterInv'
<1> USE MeterConstants DEF MeterInv
<1>1. /\ shown' = [shown EXCEPT ![m] = IF shown[m] = "unknown" THEN valve[m] ELSE shown[m]]
      /\ valve' = valve /\ unsure' = unsure /\ landing' = landing /\ orphan' = orphan
      /\ up' = Aged(m) /\ landing[m] = "none"
  BY DEF Contact, Flush, Idle
<1>2. /\ up' \in [Meter -> SUBSET Ack]
      /\ \A k \in Meter \ {m} : up'[k] = up[k]
      /\ \A b \in up'[m] : b.age = 1 /\ valve[m] = b.to
  BY <1>1, AgedUp
<1>3. /\ shown'[m] # "unknown" /\ shown' \in [Meter -> State]
      /\ \A k \in Meter \ {m} : shown'[k] = shown[k] /\ Told(k)' = Told(k)
      /\ Told(m)' = IF shown[m] = "unknown" THEN valve[m] ELSE shown[m]
      /\ Told(m) = shown[m]
  BY <1>1 DEF MeterTypeOK, State, Position, Told
<1>4. CASE Waiting(m) /\ Flush(m)
  <2>1. /\ cmd' \in [Meter -> Command \cup {NoCommand}]
        /\ down' \in [Meter -> Position \cup {"none"}]
        /\ cmd'[m] \in Command /\ cmd'[m].sent /\ cmd'[m].to = cmd[m].to
        /\ down'[m] = cmd[m].to /\ cmd[m].to \in Position
        /\ \A k \in Meter \ {m} : cmd'[k] = cmd[k] /\ down'[k] = down[k]
    BY <1>4, Flushed
  <2>2. MeterTypeOK'
    BY <1>1, <1>2, <1>3, <2>1 DEF MeterTypeOK
  <2>3. Spared'
    BY <2>1 DEF Spared, Waiting
  <2>4. Aimed'
    BY <1>1, <1>3, <2>1 DEF Aimed
  <2>5. Traced'
    BY <1>1, <1>2, <2>1 DEF Traced
  <2>6. Fresh' /\ ToldIsTrue'
    BY <1>1, <1>3, <2>1 DEF Fresh, ToldIsTrue
  <2> QED
    BY <2>2, <2>3, <2>4, <2>5, <2>6
<1>5. CASE cmd' = cmd /\ down' = [down EXCEPT ![m] = "none"]
  <2>1. MeterTypeOK'
    BY <1>1, <1>2, <1>3, <1>5 DEF MeterTypeOK
  <2>2. Spared'
    BY <1>5 DEF Spared, Waiting
  <2>3. Aimed'
    BY <1>1, <1>3, <1>5 DEF Aimed, MeterTypeOK
  <2>4. Traced'
    BY <1>1, <1>2, <1>5 DEF Traced, MeterTypeOK
  <2>5. Fresh' /\ ToldIsTrue'
    BY <1>1, <1>3, <1>5 DEF Fresh, ToldIsTrue, MeterTypeOK
  <2> QED
    BY <2>1, <2>2, <2>3, <2>4, <2>5
<1> QED
  BY <1>4, <1>5 DEF Contact

\* The meter carries out the frame: the valve is where the command wants it.
LEMMA ExecuteInv ==
  ASSUME MeterInv, NEW m \in Meter, Execute(m)
  PROVE  MeterInv'
<1> USE MeterConstants DEF MeterInv
<1> DEFINE new == [to |-> down[m], age |-> 0]
<1>1. /\ down[m] # "none" /\ down[m] \in Position /\ new \in Ack
      /\ valve' = [valve EXCEPT ![m] = down[m]]
      /\ up' = [up EXCEPT ![m] = up[m] \cup {new}]
      /\ down' = [down EXCEPT ![m] = "none"]
      /\ shown' = shown /\ cmd' = cmd /\ unsure' = unsure
      /\ landing' = landing /\ orphan' = orphan
      /\ \A k \in Meter : Told(k)' = Told(k)
  BY DEF Execute, MeterTypeOK, Ack, Told
<1>2. MeterTypeOK'
  BY <1>1 DEF MeterTypeOK
<1>3. Spared' /\ Aimed'
  BY <1>1 DEF Spared, Waiting, Aimed, MeterTypeOK
<1>4. Traced'
  <2>1. \A a \in up[m] : a.age # 0
    BY <1>1 DEF Traced
  <2>2. cmd[m].sent => down[m] = cmd[m].to
    BY <1>1 DEF Aimed
  <2> QED
    BY <1>1, <2>1, <2>2 DEF Traced, MeterTypeOK
<1>5. Fresh' /\ ToldIsTrue'
  BY <1>1 DEF Fresh, Aimed, ToldIsTrue, MeterTypeOK
<1> QED
  BY <1>2, <1>3, <1>4, <1>5

\* An answer that is taken tells where the valve is.
LEMMA ResolveAckInv ==
  ASSUME MeterInv, NEW m \in Meter, NEW a \in up[m], ResolveAck(m, a)
  PROVE  MeterInv'
<1> USE DEF MeterInv
<1>1. /\ up' = [up EXCEPT ![m] = up[m] \ {a}]
      /\ orphan' = [orphan EXCEPT ![m] = FALSE]
      /\ valve' = valve /\ down' = down /\ shown' = shown
      /\ \A k \in Meter : up'[k] \subseteq up[k]
  BY DEF ResolveAck, MeterTypeOK
<1>2. CASE ~cmd[m].sent
  <2>1. cmd' = cmd /\ unsure' = unsure /\ landing' = landing
    BY <1>2 DEF ResolveAck
  <2>2. \A k \in Meter : Told(k)' = Told(k)
    BY <1>1, <2>1 DEF Told
  <2>3. MeterTypeOK'
    BY <1>1, <2>1 DEF MeterTypeOK
  <2> QED
    BY <1>1, <2>1, <2>2, <2>3 DEF Spared, Waiting, Aimed, Traced, Fresh, ToldIsTrue
<1>3. CASE cmd[m].sent
  <2>1. /\ cmd' = [cmd EXCEPT ![m] = NoCommand]
        /\ unsure' = [unsure EXCEPT ![m] = ~Echoes(m, a)]
        /\ landing' = IF Echoes(m, a) THEN [landing EXCEPT ![m] = cmd[m].to] ELSE landing
    BY <1>3 DEF ResolveAck
  <2>2. /\ cmd[m] \in Command /\ cmd[m].to \in Position
        /\ Echoes(m, a) => valve[m] = cmd[m].to
        /\ down[m] # "none" => down[m] = cmd[m].to
        /\ Echoes(m, a) \in BOOLEAN
        /\ shown[m] # "unknown"
    BY <1>3, SlotTypes DEF Command, Echoes, Traced, Aimed, Fresh
  <2>3. MeterTypeOK'
    BY <1>1, <2>1, <2>2 DEF MeterTypeOK
  <2>4. Spared'
    BY <2>1 DEF Spared, Waiting, MeterTypeOK
  <2>5. /\ cmd'[m] = NoCommand /\ unsure'[m] = ~Echoes(m, a)
        /\ Echoes(m, a) => Told(m)' = cmd[m].to
        /\ \A k \in Meter \ {m} :
             cmd'[k] = cmd[k] /\ unsure'[k] = unsure[k] /\ Told(k)' = Told(k)
             /\ landing'[k] = landing[k]
    BY <1>1, <2>1, <2>2 DEF MeterTypeOK, Told, Position
  <2>6. Aimed'
    <3>1. ~cmd'[m].sent
      BY <2>5 DEF NoCommand
    <3>2. CASE Echoes(m, a)
      BY <1>1, <2>2, <2>5, <3>1, <3>2 DEF Aimed
    <3>3. CASE ~Echoes(m, a)
      <4>1. unsure'[m]
        BY <2>5, <3>3
      <4> QED
        BY <1>1, <2>2, <2>5, <3>1, <4>1 DEF Aimed
    <3> QED
      BY <3>2, <3>3
  <2>7. Traced'
    BY <1>1, <2>5 DEF Traced, NoCommand
  <2>8. Fresh' /\ ToldIsTrue'
    BY <1>1, <2>2, <2>5 DEF Fresh, ToldIsTrue, NoCommand
  <2> QED
    BY <2>3, <2>4, <2>6, <2>7, <2>8
<1> QED
  BY <1>2, <1>3

\* The second save tells nothing new; a command flushed after it is aimed.
LEMMA ShowStateInv ==
  ASSUME MeterInv, NEW m \in Meter, ShowState(m)
  PROVE  MeterInv'
<1> USE MeterConstants DEF MeterInv
<1>1. /\ landing[m] \in Position /\ landing[m] # "none" /\ landing[m] # "unknown"
      /\ shown' = [shown EXCEPT ![m] = landing[m]]
      /\ landing' = [landing EXCEPT ![m] = "none"]
      /\ valve' = valve /\ unsure' = unsure /\ orphan' = orphan
  BY DEF ShowState, MeterTypeOK, Position
<1>2. /\ shown' \in [Meter -> State] /\ landing' \in [Meter -> Position \cup {"none"}]
      /\ shown'[m] = landing[m]
      /\ \A k \in Meter : Told(k)' = Told(k)
      /\ \A k \in Meter \ {m} : shown'[k] = shown[k] /\ landing'[k] = landing[k]
  BY <1>1 DEF MeterTypeOK, State, Position, Told
<1>3. CASE Waiting(m) /\ Flush(m)
  <2>1. /\ cmd' \in [Meter -> Command \cup {NoCommand}]
        /\ down' \in [Meter -> Position \cup {"none"}]
        /\ cmd'[m] \in Command /\ cmd'[m].sent /\ cmd'[m].to = cmd[m].to
        /\ down'[m] = cmd[m].to /\ cmd[m].to \in Position
        /\ \A k \in Meter \ {m} : cmd'[k] = cmd[k] /\ down'[k] = down[k]
    BY <1>3, Flushed
  <2>2. /\ up' \in [Meter -> SUBSET Ack]
        /\ \A k \in Meter \ {m} : up'[k] = up[k]
        /\ \A b \in up'[m] : b.age = 1 /\ valve[m] = b.to
    BY <1>1, <1>3, AgedUp DEF Flush
  <2>3. MeterTypeOK'
    BY <1>1, <1>2, <2>1, <2>2 DEF MeterTypeOK
  <2>4. Spared'
    BY <2>1 DEF Spared, Waiting
  <2>5. Aimed'
    BY <1>1, <1>2, <2>1 DEF Aimed
  <2>6. Traced'
    BY <1>1, <2>1, <2>2 DEF Traced
  <2>7. Fresh' /\ ToldIsTrue'
    BY <1>1, <1>2, <2>1 DEF Fresh, ToldIsTrue
  <2> QED
    BY <2>3, <2>4, <2>5, <2>6, <2>7
<1>4. CASE UNCHANGED <<cmd, down, up>>
  <2>1. MeterTypeOK'
    BY <1>1, <1>2, <1>4 DEF MeterTypeOK
  <2> QED
    BY <1>1, <1>2, <1>4, <2>1 DEF Spared, Waiting, Aimed, Traced, Fresh, ToldIsTrue
<1> QED
  BY <1>3, <1>4 DEF ShowState

\* A command whose answer does not come is queued again or failed.
LEMMA TimeoutInv ==
  ASSUME MeterInv, NEW m \in Meter, Timeout(m)
  PROVE  MeterInv'
<1> USE MeterConstants DEF MeterInv
<1> DEFINE next == IF orphan[m] THEN cmd[m] ELSE Requeued(cmd[m])
<1>1. /\ cmd' = [cmd EXCEPT ![m] = next]
      /\ orphan' = [orphan EXCEPT ![m] = FALSE]
      /\ unsure' = [unsure EXCEPT ![m] = TRUE]
      /\ valve' = valve /\ shown' = shown /\ down' = down /\ up' = up /\ landing' = landing
      /\ \A k \in Meter : Told(k)' = Told(k)
  BY DEF Timeout, Told
<1>2. CASE orphan[m]
  <2>1. cmd' = cmd
    BY <1>1, <1>2 DEF MeterTypeOK
  <2>2. MeterTypeOK'
    BY <1>1, <2>1 DEF MeterTypeOK
  <2>3. \A k \in Meter : ~unsure'[k] => ~unsure[k]
    BY <1>1 DEF MeterTypeOK
  <2> QED
    BY <1>1, <2>1, <2>2, <2>3 DEF Spared, Waiting, Aimed, Traced, Fresh, ToldIsTrue
<1>3. CASE ~orphan[m]
  <2>1. cmd[m].sent /\ cmd[m] \in Command /\ next = Requeued(cmd[m])
    BY <1>3, SlotTypes DEF Timeout
  <2>2. /\ next \in Command \cup {NoCommand} /\ ~next.sent
        /\ next # NoCommand => next.tries < MaxAttempts
    <3>1. CASE cmd[m].tries >= MaxAttempts
      BY <2>1, <3>1 DEF Requeued, NoCommand
    <3>2. CASE ~(cmd[m].tries >= MaxAttempts)
      <4>1. next = [cmd[m] EXCEPT !.sent = FALSE]
        BY <2>1, <3>2 DEF Requeued
      <4>2. /\ next \in Command /\ next.sent = FALSE
            /\ next.tries = cmd[m].tries /\ cmd[m].tries \in 0 .. MaxAttempts
        BY <2>1, <4>1 DEF Command
      <4> QED
        BY <3>2, <4>2
    <3> QED
      BY <3>1, <3>2
  <2> HIDE DEF next
  <2>3. MeterTypeOK'
    BY <1>1, <2>2 DEF MeterTypeOK
  <2>4. Spared' /\ Aimed' /\ Traced' /\ Fresh' /\ ToldIsTrue'
    BY <1>1, <2>1, <2>2 DEF Spared, Waiting, Aimed, Traced, Fresh, ToldIsTrue, MeterTypeOK
  <2> QED
    BY <2>3, <2>4
<1> QED
  BY <1>2, <1>3 DEF MeterTypeOK

\* A command that was not sent comes and goes without a trace, and one that was
\* sent goes only with the remark that the valve is unsure.
LEMMA SlotInv ==
  ASSUME MeterInv, NEW m \in Meter, UNCHANGED <<valve, shown, landing, down, up>>,
         orphan' \in [Meter -> BOOLEAN], unsure' \in [Meter -> BOOLEAN],
         NEW c \in Command \cup {NoCommand}, cmd' = [cmd EXCEPT ![m] = c],
         ~c.sent /\ c.tries = 0,
         \A k \in Meter : ~unsure'[k] => ~unsure[k],
         cmd[m].sent => unsure'[m]
  PROVE  MeterInv'
<1> USE MeterConstants DEF MeterInv
<1>1. /\ cmd'[m] = c /\ \A k \in Meter \ {m} : cmd'[k] = cmd[k]
      /\ \A k \in Meter : Told(k)' = Told(k)
  BY DEF MeterTypeOK, Told
<1>2. MeterTypeOK'
  BY DEF MeterTypeOK
<1>3. Spared' /\ Aimed'
  BY <1>1 DEF Spared, Waiting, Aimed
<1>4. Traced' /\ Fresh' /\ ToldIsTrue'
  BY <1>1 DEF Traced, Fresh, ToldIsTrue
<1> QED
  BY <1>2, <1>3, <1>4

\* What billing and the operators do to the slots is of that kind, and so is the
\* expiry of a queued command.
LEMMA DispatchInv ==
  ASSUME MeterInv, Dispatch \/ \E m \in Meter : Expire(m)
  PROVE  MeterInv'
<1> USE DEF MeterInv
<1>1. /\ NoCommand \in Command \cup {NoCommand} /\ ~NoCommand.sent /\ NoCommand.tries = 0
      /\ \A to \in Position :
           Queued(to) \in Command /\ ~Queued(to).sent /\ Queued(to).tries = 0
  BY MeterConstants DEF NoCommand, Queued, Command
<1>2. /\ orphan \in [Meter -> BOOLEAN] /\ unsure \in [Meter -> BOOLEAN]
      /\ \A m \in Meter : cmd[m].sent \in BOOLEAN
  BY SlotTypes DEF MeterTypeOK
<1>3. ASSUME NEW m \in Meter, NEW to \in Position, Enqueue(m, to) PROVE MeterInv'
  <2>1. ~cmd[m].sent
    BY <1>3 DEF Enqueue, NoCommand
  <2> QED
    BY <1>1, <1>2, <1>3, <2>1, SlotInv DEF Enqueue
<1>4. ASSUME NEW m \in Meter, Withdraw(m) PROVE MeterInv'
  <2>1. /\ orphan' \in [Meter -> BOOLEAN] /\ unsure' \in [Meter -> BOOLEAN]
        /\ cmd[m].sent => unsure'[m]
        /\ \A k \in Meter : ~unsure'[k] => ~unsure[k]
    BY <1>2, <1>4 DEF Withdraw
  <2> QED
    BY <1>1, <1>4, <2>1, SlotInv DEF Withdraw
<1>5. ASSUME NEW m \in Meter, Expire(m) PROVE MeterInv'
  BY <1>1, <1>2, <1>5, SlotInv DEF Expire, Waiting
<1> QED
  BY <1>3, <1>4, <1>5 DEF Dispatch

\* A restart forgets what was sent or told, and says that it is unsure.
LEMMA RestartInv ==
  ASSUME MeterInv, RestartListener
  PROVE  MeterInv'
<1> USE DEF MeterInv
<1>1. /\ cmd' = [m \in Meter |-> IF cmd[m].sent THEN NoCommand ELSE cmd[m]]
      /\ unsure' = [m \in Meter |-> unsure[m] \/ cmd[m].sent \/ landing[m] # "none"]
      /\ landing' = [m \in Meter |-> "none"] /\ orphan' = [m \in Meter |-> FALSE]
      /\ valve' = valve /\ shown' = shown /\ down' = down /\ up' = up
  BY DEF RestartListener
<1>2. \A m \in Meter : ~cmd'[m].sent /\ (cmd'[m] = NoCommand \/ cmd'[m] = cmd[m])
  BY <1>1, SlotTypes DEF NoCommand
<1>3. \A m \in Meter :
        ~unsure'[m] => ~unsure[m] /\ ~cmd[m].sent /\ Told(m)' = Told(m)
  BY <1>1 DEF Told
<1>4. MeterTypeOK'
  BY <1>1, SlotTypes DEF MeterTypeOK
<1>5. Spared' /\ Aimed' /\ Traced' /\ Fresh' /\ ToldIsTrue'
  BY <1>1, <1>2, <1>3 DEF Spared, Waiting, Aimed, Traced, Fresh, ToldIsTrue
<1> QED
  BY <1>4, <1>5

\* Every step keeps the invariant.
LEMMA MeterNextInv ==
  ASSUME MeterInv, [MeterNext]_meterVars
  PROVE  MeterInv'
<1>1. CASE UNCHANGED meterVars
  BY <1>1 DEF meterVars, MeterInv, MeterTypeOK, Spared, Waiting, Aimed, Traced, Fresh,
              ToldIsTrue, Told
<1>2. ASSUME NEW m \in Meter, Contact(m) PROVE MeterInv'
  BY <1>2, ContactInv
<1>3. ASSUME NEW m \in Meter, Execute(m) PROVE MeterInv'
  BY <1>3, ExecuteInv
<1>4. ASSUME NEW m \in Meter, ShowState(m) PROVE MeterInv'
  BY <1>4, ShowStateInv
<1>5. ASSUME NEW m \in Meter, Timeout(m) PROVE MeterInv'
  BY <1>5, TimeoutInv
<1>6. ASSUME NEW m \in Meter, Expire(m) PROVE MeterInv'
  BY <1>6, DispatchInv
<1>7. ASSUME NEW m \in Meter, NEW a \in up[m], ResolveAck(m, a) PROVE MeterInv'
  BY <1>7, ResolveAckInv
<1>8. CASE RestartListener
  BY <1>8, RestartInv
<1>9. CASE Dispatch
  BY <1>9, DispatchInv
<1> QED
  BY <1>1, <1>2, <1>3, <1>4, <1>5, <1>6, <1>7, <1>8, <1>9 DEF MeterNext, MeterStep

-----------------------------------------------------------------------------

\* The invariant holds throughout.
LEMMA MeterInvariant == MeterSpec => []MeterInv
<1>1. MeterInit => MeterInv
  BY MeterInitInv
<1>2. MeterInv /\ [MeterNext]_meterVars => MeterInv'
  BY MeterNextInv
<1> QED
  BY <1>1, <1>2, PTL DEF MeterSpec

\* Whatever billing and operators do with the slots (Dispatch), and whatever is
\* lost or late, meter_devices.valve_state is the valve's position unless a
\* command is on its way, its answer is being saved, or it was never acknowledged.
THEOREM StateShownIsTrue == MeterSpec => []ShownIsTrue
<1>1. MeterInv => ShownIsTrue
  BY DEF MeterInv, ToldIsTrue, Told, ShownIsTrue
<1> QED
  BY <1>1, MeterInvariant, PTL

-----------------------------------------------------------------------------
(* The accounts.                                                           *)


Clear == \A i \in Invoice : ~inv[i].closed

\* An invoice the rule has a hand in fell due and was issued.
Reached ==
  \A i \in Invoice :
    sweep[i] # "none" \/ inv[i].closed \/ inv[i].status = "overdue" =>
      inv[i].due /\ inv[i].status \in {"overdue", "partial", "paid"}

\* A copy that says closed where the memory has gone since is of a paid invoice.
Listed ==
  \A i \in Invoice :
    /\ sweep[i] = "closed" /\ ~inv[i].closed => inv[i].status = "paid"
    /\ sweep[i] = "unclosed" => ~inv[i].closed

\* The pass and the re-evaluation: the memory to be cleared is of paid invoices, it
\* is there while the re-evaluation works, and a closing to be cancelled is there.
Work ==
  /\ closing # 0 => sweep[closing] # "none"
  /\ reeval = "working" => ~Clear
  /\ reeval # "working" => list = {} /\ \A m \in Meter : at[m] = "done"
  /\ \A i \in list : inv[i].status = "paid" /\ inv[i].closed
  /\ \A m \in Meter : at[m] = "cancel" => cmd[m].to = "closed"

\* No closing is in the slot, and a shut valve has its opening there.
Body(m) ==
  /\ cmd[m].to # "closed"
  /\ ~unsure[m] /\ (valve[m] = "closed" \/ down[m] = "closed") => cmd[m].to = "open"

\* As long as there are arrears, or a re-evaluation is still to begin, what the
\* pass has dealt with is not held against the rule either.
Spare == IF Settled /\ reeval # "booked" THEN excused ELSE excused \cup Dealt

Lulled ==
  (\A i \in Invoice \ list : ~inv[i].closed) =>
    \A m \in Meter \ Spare :
      /\ at[m] = "done" => Body(m)
      /\ at[m] = "open" => cmd[m].to # "closed"

Called ==
  Settled =>
    \A m \in Meter :
      reeval # "booked" /\ at[m] \in {"open", "done"} /\ cmd[m].to = "closed"
        => m \in excused \cup gone

Keeping == Reached /\ Listed /\ Work /\ Lulled /\ Called

Inv == TypeOK /\ MeterInv /\ Keeping

-----------------------------------------------------------------------------

\* The initial state satisfies the invariant.
LEMMA InitInv == Init => Inv
<1> SUFFICES ASSUME Init PROVE Inv
  OBVIOUS
<1>1. MeterInv
  BY MeterInitInv DEF Init
<1>2. /\ inv \in [Invoice -> Record] /\ sweep \in [Invoice -> {"none", "closed", "unclosed"}]
      /\ \A m \in Meter :
           /\ cmd[m].to = "none" /\ at[m] = "done"
           /\ valve[m] = "open" /\ down[m] = "none"
      /\ \A i \in Invoice :
           sweep[i] = "none" /\ ~inv[i].closed /\ inv[i].status = "draft"
  BY DEF Init, MeterInit, Record, Statuses, Warned, NoCommand
<1>3. TypeOK
  <2>1. manual \in 0 .. MaxManual /\ restarts \in 0 .. MaxRestarts /\ closing \in 0 .. Invoices
    BY ArrearsAssumption DEF Init
  <2> QED
    BY <1>1, <1>2, <2>1 DEF Init, TypeOK, MeterInv, State
<1>4. Keeping
  <2>1. closing = 0 /\ reeval = "idle" /\ list = {}
    BY DEF Init
  <2> QED
    BY <1>2, <2>1 DEF Keeping, Reached, Listed, Work, Lulled, Body, Called
<1> QED
  BY <1>1, <1>3, <1>4 DEF Inv

\* A meter's step takes the command out of the slot or leaves its direction; a
\* valve shown open again is open; and nothing shuts where no closing was due.
LEMMA MeterMoves ==
  ASSUME MeterInv, MeterStep, NEW m \in Meter
  PROVE  /\ cmd'[m].to \in {cmd[m].to, "none"}
         /\ shown[m] = "closed" /\ shown'[m] = "open" /\ cmd'[m].to # "closed" => Body(m)'
         /\ /\ ~unsure'[m] /\ cmd[m].to # "closed"
            /\ valve'[m] = "closed" \/ down'[m] = "closed"
            => \/ /\ cmd'[m].to = cmd[m].to /\ ~unsure[m]
                  /\ valve[m] = "closed" \/ down[m] = "closed"
               \/ cmd[m].to = "open" /\ cmd'[m] = NoCommand /\ landing'[m] # "open"
         /\ valve[m] = "open" /\ valve'[m] = "closed" =>
              unsure[m] \/ cmd[m].to = "closed"
<1> DEFINE Goal ==
      /\ cmd'[m].to \in {cmd[m].to, "none"}
      /\ shown[m] = "closed" /\ shown'[m] = "open" /\ cmd'[m].to # "closed" => Body(m)'
      /\ /\ ~unsure'[m] /\ cmd[m].to # "closed"
         /\ valve'[m] = "closed" \/ down'[m] = "closed"
         => \/ /\ cmd'[m].to = cmd[m].to /\ ~unsure[m]
               /\ valve[m] = "closed" \/ down[m] = "closed"
            \/ cmd[m].to = "open" /\ cmd'[m] = NoCommand /\ landing'[m] # "open"
      /\ valve[m] = "open" /\ valve'[m] = "closed" => unsure[m] \/ cmd[m].to = "closed"
<1> USE DEF MeterInv
<1>1. /\ cmd[m] # NoCommand => cmd[m] \in Command
      /\ cmd[m].to = "none" => cmd[m] = NoCommand
      /\ cmd[m].to \in Position \cup {"none"} /\ cmd[m].sent \in BOOLEAN
      /\ down[m] \in Position \cup {"none"} /\ valve[m] \in Position
      /\ landing[m] \in Position \cup {"none"}
      /\ cmd \in [Meter -> Command \cup {NoCommand}]
      /\ shown \in [Meter -> State]
      /\ landing \in [Meter -> Position \cup {"none"}]
      /\ unsure \in [Meter -> BOOLEAN]
  BY SlotTypes DEF MeterTypeOK
<1>2. /\ NoCommand.to = "none" /\ NoCommand.sent = FALSE
  BY DEF NoCommand
<1>3. ~cmd[m].sent /\ ~unsure[m] =>
        /\ Told(m) \in {"unknown", valve[m]}
        /\ down[m] # "none" => down[m] = Told(m)
  BY DEF ToldIsTrue, Aimed
<1>4. cmd[m].sent /\ down[m] # "none" => down[m] = cmd[m].to
  BY DEF Aimed
<1>5. ASSUME NEW k \in Meter, k # m,
             \/ Contact(k) \/ Execute(k) \/ ShowState(k) \/ Timeout(k) \/ Expire(k)
             \/ \E a \in up[k] : ResolveAck(k, a)
      PROVE  Goal
  <2>1. /\ cmd'[m] = cmd[m] /\ shown'[m] = shown[m] /\ valve'[m] = valve[m]
        /\ down'[m] = down[m] /\ unsure'[m] = unsure[m]
    BY <1>5 DEF Contact, Flush, Execute, ShowState, Timeout, Expire, ResolveAck, MeterTypeOK
  <2> QED
    BY <2>1
<1>6. CASE Contact(m)
  <2>1. /\ valve' = valve /\ unsure' = unsure
        /\ shown'[m] = IF shown[m] = "unknown" THEN valve[m] ELSE shown[m]
        /\ cmd'[m].to = cmd[m].to /\ down'[m] \in {"none", cmd[m].to}
    <3>1. CASE Waiting(m) /\ Flush(m)
      <4>1. cmd'[m].to = cmd[m].to /\ down'[m] = cmd[m].to
        BY <3>1, Flushed
      <4> QED
        BY <1>1, <1>6, <4>1 DEF Contact
    <3>2. CASE cmd' = cmd /\ down' = [down EXCEPT ![m] = "none"]
      BY <1>1, <1>6, <3>2 DEF Contact, MeterTypeOK
    <3> QED
      BY <1>6, <3>1, <3>2 DEF Contact
  <2> QED
    BY <1>1, <2>1 DEF Position
<1>7. CASE Execute(m)
  <2>1. /\ valve'[m] = down[m] /\ down[m] # "none" /\ down'[m] = "none"
        /\ cmd' = cmd /\ shown' = shown /\ unsure' = unsure
    BY <1>7 DEF Execute, MeterTypeOK
  <2> QED
    BY <1>1, <1>3, <1>4, <2>1 DEF Position
<1>8. CASE ShowState(m)
  <2>1. /\ valve' = valve /\ unsure' = unsure /\ shown'[m] = landing[m]
        /\ Told(m) = landing[m] /\ landing[m] # "none"
    BY <1>1, <1>8 DEF ShowState, Told
  <2>2. CASE Waiting(m) /\ Flush(m)
    <3>1. cmd'[m].to = cmd[m].to /\ down'[m] = cmd[m].to /\ cmd[m].to \in Position
      BY <2>2, Flushed
    <3> QED
      BY <2>1, <3>1 DEF Body, Position
  <2>3. CASE UNCHANGED <<cmd, down, up>>
    <3>1. cmd[m].sent => cmd[m].to \in Position
      BY <1>1, <1>2 DEF Command, NoCommand
    <3> QED
      BY <1>1, <1>3, <1>4, <2>1, <2>3, <3>1 DEF Body, Position
  <2> QED
    BY <1>8, <2>2, <2>3 DEF ShowState
<1>9. CASE Timeout(m)
  <2>1. /\ unsure'[m] = TRUE
        /\ valve' = valve /\ shown' = shown /\ down' = down
        /\ \/ cmd'[m] = NoCommand \/ cmd'[m] = cmd[m]
           \/ cmd[m].sent /\ cmd'[m] = [cmd[m] EXCEPT !.sent = FALSE]
    BY <1>1, <1>9 DEF Timeout, Requeued
  <2>2. cmd'[m].to \in {cmd[m].to, "none"}
    BY <1>1, <1>2, <2>1 DEF Command
  <2> QED
    BY <2>1, <2>2
<1>10. CASE Expire(m)
  <2>1. /\ cmd'[m] = NoCommand /\ ~cmd[m].sent /\ cmd[m].to # "none"
        /\ valve' = valve /\ shown' = shown /\ down' = down /\ unsure' = unsure
        /\ landing' = landing
    BY <1>1, <1>10 DEF Expire, Waiting
  <2>2. landing[m] = "open" => Told(m) = "open"
    BY DEF Told
  <2> QED
    BY <1>1, <1>2, <1>3, <2>1, <2>2 DEF Position
<1>11. ASSUME NEW a \in up[m], ResolveAck(m, a) PROVE Goal
  <2>1. valve' = valve /\ down' = down /\ shown' = shown
    BY <1>11 DEF ResolveAck
  <2>2. CASE ~cmd[m].sent
    BY <1>11, <2>1, <2>2 DEF ResolveAck
  <2>3. CASE cmd[m].sent
    <3>1. /\ cmd'[m] = NoCommand /\ unsure'[m] = ~Echoes(m, a)
          /\ Echoes(m, a) => landing'[m] = cmd[m].to
      BY <1>1, <1>11, <2>3 DEF ResolveAck
    <3>2. Echoes(m, a) => valve[m] = cmd[m].to
      BY <2>3 DEF Echoes, Traced
    <3>3. cmd[m].to \in Position
      BY <1>1, <2>3, SlotTypes DEF Command
    <3> QED
      BY <1>1, <1>2, <1>4, <2>1, <2>3, <3>1, <3>2, <3>3 DEF Position, Echoes
  <2> QED
    BY <2>2, <2>3
<1> QED
  BY <1>5, <1>6, <1>7, <1>8, <1>9, <1>10, <1>11 DEF MeterStep

-----------------------------------------------------------------------------

\* EnqueueValve leaves a slot alone, or fills an empty one.
LEMMA Enqueued ==
  ASSUME MeterTypeOK, NEW m \in Meter, NEW state \in State, NEW to \in Position,
         cmd' = [cmd EXCEPT ![m] = EnqueueValve(m, state, to)]
  PROVE  /\ \A k \in Meter \ {m} : cmd'[k] = cmd[k]
         /\ \/ cmd' = cmd /\ (state = to \/ cmd[m] # NoCommand)
            \/ cmd[m] = NoCommand /\ cmd' = [cmd EXCEPT ![m] = Queued(to)]
                 /\ cmd'[m].to = to /\ cmd'[m] # NoCommand
<1>1. Queued(to).to = to /\ Queued(to) # NoCommand
  BY DEF Queued, NoCommand, Position
<1>2. CASE state # to /\ cmd[m] = NoCommand
  BY <1>1, <1>2 DEF EnqueueValve, MeterTypeOK
<1>3. CASE ~(state # to /\ cmd[m] = NoCommand)
  BY <1>3 DEF EnqueueValve, MeterTypeOK
<1> QED
  BY <1>2, <1>3

\* Of the meters the account's steps change the slots only, within Dispatch.
LEMMA StepsDispatch ==
  ASSUME Inv, [Next]_vars
  PROVE  [MeterNext]_meterVars
<1> USE DEF Inv, TypeOK
<1>1. ASSUME NEW m \in Meter, NEW to \in Position, NEW state \in State,
             cmd' = [cmd EXCEPT ![m] = EnqueueValve(m, state, to)],
             UNCHANGED <<valve, shown, landing, orphan, down, up, unsure>>
      PROVE  [MeterNext]_meterVars
  <2>1. CASE cmd' = cmd
    BY <1>1, <2>1 DEF meterVars
  <2>2. CASE cmd[m] = NoCommand /\ cmd' = [cmd EXCEPT ![m] = Queued(to)]
    BY <1>1, <2>2 DEF Enqueue, Dispatch, MeterNext
  <2> QED
    BY <1>1, <2>1, <2>2, Enqueued
<1>2. ASSUME NEW m \in Meter, CloseMeter(m) PROVE [MeterNext]_meterVars
  BY <1>1, <1>2 DEF CloseMeter, Shut, Position
<1>3. ASSUME NEW m \in Meter, Cancel(m) PROVE [MeterNext]_meterVars
  BY <1>3 DEF Cancel, Dispatch, MeterNext
<1>4. ASSUME NEW m \in Meter, OpenUp(m) PROVE [MeterNext]_meterVars
  <2>1. CASE copy[m] = "closed"
    BY <1>1, <1>4, <2>1 DEF OpenUp, Reopened, Position
  <2>2. CASE copy[m] # "closed"
    <3>1. cmd' = cmd
      BY <1>4, <2>2 DEF OpenUp, Reopened, MeterTypeOK
    <3> QED
      BY <1>4, <3>1 DEF OpenUp, meterVars
  <2> QED
    BY <2>1, <2>2
<1>5. ASSUME NEW m \in Meter, NEW to \in Position, Manual(m, to) PROVE [MeterNext]_meterVars
  BY <1>5 DEF Manual, Dispatch, MeterNext
<1>6. CASE Metering(MeterStep)
  BY <1>6 DEF Metering, MeterNext
<1>7. CASE Restart
  BY <1>7 DEF Restart, MeterNext
<1>8. ASSUME \/ \E i \in Invoice : Issue(i) \/ FallDue(i) \/ Ripen(i) \/ Evaluate(i)
             \/ Collect \/ SaveClosed \/ \E n \in Invoice, whole \in BOOLEAN : Pay(n, whole)
             \/ Reevaluate \/ ClearClosed \/ \E m \in Meter : Look(m)
             \/ UNCHANGED vars
      PROVE  UNCHANGED meterVars
  BY <1>8 DEF Issue, FallDue, Ripen, Evaluate, Collect, SaveClosed, Pay, Reevaluate,
              ClearClosed, Look, vars
<1> QED
  BY <1>2, <1>3, <1>4, <1>5, <1>6, <1>7, <1>8 DEF Next, Passing, Reopening

-----------------------------------------------------------------------------

\* What the meters do leaves the memory sound.
LEMMA MeteringKeeps ==
  ASSUME Inv, Metering(MeterStep)
  PROVE  Keeping'
<1> USE DEF Inv, TypeOK, Keeping
<1>1. /\ MeterStep /\ inv' = inv /\ reeval' = reeval /\ list' = list
      /\ sweep' = sweep /\ closing' = closing /\ todo' = todo
      /\ excused' = (excused \cup GivenUp) \ Opened
      /\ gone' = gone \ Opened
      /\ \A m \in Meter : at'[m] = IF at[m] = "cancel" /\ cmd'[m] = NoCommand
                                   THEN "open" ELSE at[m]
  BY DEF Metering, Excuses, pass
<1>2. Settled' = Settled /\ Dealt' = Dealt /\ Clear' = Clear
  BY <1>1 DEF Settled, InArrears, Dealt, Clear
<1>3. \A m \in Opened : Body(m)' /\ cmd'[m].to # "closed"
  BY <1>1, MeterMoves DEF Opened
<1>4. \A m \in Meter :
        /\ cmd'[m].to \in {cmd[m].to, "none"}
        /\ cmd'[m].to = "none" => cmd'[m] = NoCommand
        /\ NoCommand.to = "none"
  <2>1. MeterInv'
    BY <1>1, MeterNextInv DEF MeterNext
  <2>2. \A m \in Meter : cmd'[m].to = "none" => cmd'[m] = NoCommand
    BY <2>1 DEF MeterInv, MeterTypeOK, Command, Position
  <2> QED
    BY <1>1, <2>2, MeterMoves DEF NoCommand
<1>5. Reached' /\ Listed'
  BY <1>1 DEF Reached, Listed
<1>6. Work'
  BY <1>1, <1>2, <1>4 DEF Work
<1>7. Lulled'
  <2> SUFFICES ASSUME \A i \in Invoice \ list : ~inv[i].closed,
                      NEW m \in Meter, m \notin Spare', m \notin Opened
               PROVE  /\ at'[m] = "done" => Body(m)'
                      /\ at'[m] = "open" => cmd'[m].to # "closed"
    BY <1>1, <1>3 DEF Lulled
  <2>1. m \notin Spare /\ m \notin GivenUp
    BY <1>1, <1>2 DEF Spare
  <2>2. /\ at[m] = "done" => Body(m)
        /\ at[m] = "open" => cmd[m].to # "closed"
    BY <2>1 DEF Lulled
  <2>3. ASSUME at'[m] = "done" PROVE Body(m)'
    <3>1. Body(m)
      BY <1>1, <2>2, <2>3
    <3>2. ~(cmd[m].to = "open" /\ cmd'[m] = NoCommand /\ landing'[m] # "open")
      BY <2>1 DEF GivenUp
    <3> QED
      BY <1>1, <1>4, <3>1, <3>2, MeterMoves DEF Body
  <2>4. ASSUME at'[m] = "open" PROVE cmd'[m].to # "closed"
    BY <1>1, <1>4, <2>2, <2>4
  <2> QED
    BY <2>3, <2>4
<1>8. Called'
  <2> SUFFICES ASSUME Settled, NEW m \in Meter,
                      reeval # "booked", at'[m] \in {"open", "done"}, cmd'[m].to = "closed"
               PROVE  m \in excused' \cup gone'
    BY <1>1, <1>2 DEF Called
  <2>1. cmd[m].to = "closed" /\ m \notin Opened /\ at[m] \in {"open", "done"}
    BY <1>1, <1>3, <1>4
  <2> QED
    BY <1>1, <2>1 DEF Called
<1> QED
  BY <1>5, <1>6, <1>7, <1>8

\* A restart excuses what it makes the rule forget.
LEMMA RestartKeeps ==
  ASSUME Inv, Restart
  PROVE  Keeping'
<1> USE DEF Inv, TypeOK, Keeping
<1>1. /\ inv' = inv /\ reeval' = "idle" /\ list' = {} /\ closing' = 0
      /\ \A i \in Invoice : sweep'[i] = "none"
      /\ \A m \in Meter : at'[m] = "done"
      /\ valve' = valve /\ shown' = shown /\ down' = down
      /\ cmd' = [m \in Meter |-> IF cmd[m].sent THEN NoCommand ELSE cmd[m]]
      /\ unsure' = [m \in Meter |-> unsure[m] \/ cmd[m].sent \/ landing[m] # "none"]
      /\ excused' = (excused \cup
                       (IF reeval # "idle" THEN Meter ELSE GivenUp \cup Dealt)) \ Opened
      /\ gone' = gone \ Opened
  BY DEF Restart, RestartListener, Excuses
<1>2. Opened = {}
  BY <1>1 DEF Opened
<1>3. \A m \in Meter :
        /\ cmd'[m].to \in {cmd[m].to, "none"}
        /\ ~unsure'[m] => cmd'[m] = cmd[m] /\ ~unsure[m]
  BY <1>1, SlotTypes DEF NoCommand, MeterInv
<1>4. Settled' = Settled
  BY <1>1 DEF Settled, InArrears
<1>5. Reached' /\ Listed' /\ Work'
  BY <1>1 DEF Reached, Listed, Work
<1>6. Lulled'
  <2> SUFFICES ASSUME Clear, NEW m \in Meter, m \notin excused' PROVE Body(m)'
    <3>1. excused' \subseteq Spare'
      BY DEF Spare
    <3> QED
      BY <1>1, <3>1 DEF Lulled, Clear
  <2>1. reeval = "idle" /\ m \notin excused /\ m \notin Dealt
    BY <1>1, <1>2
  <2>2. Body(m)
    BY <2>1 DEF Lulled, Work, Clear, Spare
  <2> QED
    BY <1>1, <1>3, <2>2 DEF Body
<1>7. Called'
  <2> SUFFICES ASSUME Settled, NEW m \in Meter, cmd'[m].to = "closed"
               PROVE  m \in excused' \cup gone'
    BY <1>1, <1>4 DEF Called
  <2>1. cmd[m].to = "closed"
    BY <1>3
  <2>2. CASE reeval # "idle"
    BY <1>1, <1>2, <2>2
  <2>3. CASE reeval = "idle"
    BY <1>1, <1>2, <2>1, <2>3 DEF Called, Work
  <2> QED
    BY <2>2, <2>3
<1> QED
  BY <1>5, <1>6, <1>7

\* The invoices' own steps settle nothing and forget nothing.
LEMMA InvoicesKeep ==
  ASSUME Inv,
         \/ \E i \in Invoice : Issue(i) \/ FallDue(i) \/ Ripen(i)
         \/ Collect \/ UNCHANGED vars
  PROVE  Keeping'
<1> USE DEF Inv, TypeOK, Keeping
<1>1. /\ valve' = valve /\ down' = down /\ cmd' = cmd /\ unsure' = unsure
      /\ excused' = excused /\ gone' = gone
      /\ reeval' = reeval /\ list' = list /\ at' = at /\ closing' = closing /\ todo' = todo
  BY DEF Issue, FallDue, Ripen, Collect, vars, meterVars, ghosts, billing, pass, task
<1>2. ASSUME NEW k \in Invoice, Issue(k) \/ FallDue(k) \/ Ripen(k)
      PROVE  /\ sweep' = sweep
             /\ \A i \in Invoice :
                  /\ inv'[i].closed = inv[i].closed
                  /\ inv[i].due => inv'[i].due
                  /\ \/ inv'[i].status = inv[i].status
                     \/ inv[i].status = "draft" /\ inv'[i].status = "issued"
  BY <1>2 DEF Issue, FallDue, Ripen, Record, pass
<1>3. ASSUME Collect
      PROVE  /\ \A i \in Invoice :
                  /\ inv'[i].closed = inv[i].closed /\ inv'[i].due = inv[i].due
                  /\ \/ inv'[i].status = inv[i].status
                     \/ /\ inv[i].due /\ inv[i].status \in {"issued", "partial"}
                        /\ inv'[i].status = "overdue"
                  /\ inv[i].status = "partial" /\ inv[i].due => inv'[i].status = "overdue"
                  /\ sweep[i] = "none"
                  /\ sweep'[i] # "none" => inv'[i].status = "overdue"
                  /\ sweep'[i] = "closed" => inv[i].closed
                  /\ sweep'[i] = "unclosed" => ~inv[i].closed
  BY <1>3 DEF Collect, Record
<1>4. /\ \A i \in Invoice : inv'[i].closed = inv[i].closed
      /\ Clear' = Clear
      /\ \A i \in Invoice : InArrears(i) => InArrears(i)'
      /\ Reached' /\ Listed'
      /\ \A i \in Invoice : inv[i].status = "paid" => inv'[i].status = "paid"
  <2>1. ASSUME NEW k \in Invoice, Issue(k) \/ FallDue(k) \/ Ripen(k)
        PROVE  /\ \A i \in Invoice : InArrears(i) => InArrears(i)'
               /\ Reached' /\ Listed'
    BY <1>2, <2>1 DEF InArrears, Reached, Listed
  <2>2. ASSUME Collect
        PROVE  /\ \A i \in Invoice : InArrears(i) => InArrears(i)'
               /\ Reached' /\ Listed'
    BY <1>3, <2>2 DEF InArrears, Reached, Listed
  <2>3. CASE UNCHANGED vars
    BY <2>3 DEF vars, billing, pass, InArrears, Reached, Listed, Clear
  <2>4. CASE ~UNCHANGED vars
    <3>1. /\ \A i \in Invoice : inv'[i].closed = inv[i].closed
          /\ \A i \in Invoice : inv[i].status = "paid" => inv'[i].status = "paid"
      BY <1>2, <1>3, <2>4
    <3> QED
      BY <2>1, <2>2, <2>4, <3>1 DEF Clear
  <2> QED
    BY <2>3, <2>4
<1>5. /\ Dealt' = Dealt
      /\ closing # 0 => sweep' = sweep
  <2>1. CASE closing = 0
    BY <1>1, <2>1 DEF Dealt
  <2>2. CASE closing # 0
    <3>1. ~Collect
      BY <1>3, <2>2 DEF Work, Invoice
    <3>2. sweep' = sweep
      BY <1>2, <3>1 DEF vars, billing, pass
    <3> QED
      BY <1>1, <3>2 DEF Dealt
  <2> QED
    BY <2>1, <2>2
<1>6. Settled' => Settled
  BY <1>4 DEF Settled
<1>7. Work'
  BY <1>1, <1>4, <1>5 DEF Work
<1>8. Lulled'
  <2>1. Spare \subseteq Spare'
    BY <1>1, <1>5, <1>6 DEF Spare
  <2> QED
    BY <1>1, <1>4, <2>1 DEF Lulled, Body
<1>9. Called'
  BY <1>1, <1>6 DEF Called
<1> QED
  BY <1>4, <1>7, <1>8, <1>9

\* The pass takes up an invoice: nothing is dealt with yet.
LEMMA EvaluateKeeps ==
  ASSUME Inv, NEW i \in Invoice, Evaluate(i)
  PROVE  Keeping'
<1> USE DEF Inv, TypeOK, Keeping
<1>1. /\ valve' = valve /\ down' = down /\ cmd' = cmd /\ unsure' = unsure
      /\ excused' = excused /\ gone' = gone
      /\ reeval' = reeval /\ list' = list /\ at' = at
      /\ closing = 0 /\ sweep[i] # "none"
  BY DEF Evaluate, meterVars, task, ghosts
<1>2. \A j \in Invoice :
        /\ inv'[j].status = inv[j].status /\ inv'[j].due = inv[j].due
        /\ inv'[j].closed = inv[j].closed
        /\ sweep'[j] \in {sweep[j], "none"}
  BY DEF Evaluate, Record
<1>3. closing' = 0 \/ (closing' = i /\ todo' = Meter /\ sweep' = sweep)
  BY <1>1 DEF Evaluate
<1>4. /\ Settled' = Settled /\ Clear' = Clear
      /\ Dealt = {} /\ Dealt' = {}
  BY <1>1, <1>2, <1>3 DEF Settled, InArrears, Clear, Dealt
<1>5. Reached' /\ Listed' /\ Work'
  BY <1>1, <1>2, <1>3, <1>4 DEF Reached, Listed, Work
<1>6. Lulled' /\ Called'
  BY <1>1, <1>2, <1>4 DEF Lulled, Spare, Body, Called
<1> QED
  BY <1>5, <1>6

\* A closing the pass queues is dealt with, or its copy was of a paid invoice.
LEMMA CloseMeterKeeps ==
  ASSUME Inv, NEW m \in Meter, CloseMeter(m)
  PROVE  Keeping'
<1> USE DEF Inv, TypeOK, Keeping
<1>1. /\ closing # 0 /\ closing \in Invoice /\ m \in todo /\ todo' = todo \ {m}
      /\ valve' = valve /\ down' = down /\ unsure' = unsure /\ gone' = gone
      /\ inv' = inv /\ sweep' = sweep /\ closing' = closing
      /\ reeval' = reeval /\ list' = list /\ at' = at
      /\ excused' = IF inv[closing].status # "overdue" /\ cmd' # cmd
                    THEN excused \cup {m} ELSE excused
  BY DEF CloseMeter, task, Invoice
<1>2. /\ \A k \in Meter \ {m} : cmd'[k] = cmd[k]
      /\ cmd' = cmd \/ (cmd[m] = NoCommand /\ cmd'[m].to = "closed")
  BY Enqueued DEF CloseMeter, Shut, Position
<1>3. /\ Settled' = Settled /\ Clear' = Clear
      /\ Dealt' = IF sweep[closing] = "unclosed" THEN Dealt \cup {m} ELSE Dealt
      /\ m \notin Dealt
  BY <1>1 DEF Settled, InArrears, Clear, Dealt
<1>4. Settled => inv[closing].status # "overdue"
  BY <1>1 DEF Settled, InArrears
<1>5. Reached' /\ Listed'
  BY <1>1 DEF Reached, Listed
<1>6. Work'
  <2>1. at[m] = "cancel" => cmd'[m] = cmd[m]
    BY <1>2 DEF Work, NoCommand
  <2> QED
    BY <1>1, <1>2, <1>3, <2>1 DEF Work
<1>7. Lulled'
  <2> SUFFICES ASSUME \A i \in Invoice \ list : ~inv[i].closed,
                      NEW k \in Meter, k \notin Spare'
               PROVE  /\ at[k] = "done" => Body(k)'
                      /\ at[k] = "open" => cmd'[k].to # "closed"
    BY <1>1 DEF Lulled
  <2>1. k \notin Spare
    BY <1>1, <1>3 DEF Spare
  <2>2. cmd'[k] = cmd[k]
    <3>1. CASE k # m
      BY <1>2, <3>1
    <3>2. CASE k = m /\ inv[closing].status # "overdue"
      BY <1>1, <3>2 DEF Spare
    <3>3. CASE k = m /\ inv[closing].status = "overdue"
      <4>1. sweep[closing] = "closed"
        BY <1>1, <1>3, <1>4, <3>3 DEF Spare, Work
      <4>2. inv[closing].closed
        BY <1>1, <3>3, <4>1 DEF Listed
      <4> QED
        BY <1>1, <3>3, <4>2 DEF Work
    <3> QED
      BY <3>1, <3>2, <3>3
  <2> QED
    BY <1>1, <2>1, <2>2 DEF Lulled, Body
<1>8. Called'
  BY <1>1, <1>2, <1>3, <1>4 DEF Called
<1> QED
  BY <1>5, <1>6, <1>7, <1>8

\* The pass remembers what it has dealt with.
LEMMA SaveClosedKeeps ==
  ASSUME Inv, SaveClosed
  PROVE  Keeping'
<1> USE DEF Inv, TypeOK, Keeping
<1>1. /\ closing # 0 /\ closing \in Invoice
      /\ valve' = valve /\ down' = down /\ cmd' = cmd /\ unsure' = unsure
      /\ excused' = excused /\ gone' = gone
      /\ reeval' = reeval /\ list' = list /\ at' = at /\ closing' = 0
      /\ sweep' = [sweep EXCEPT ![closing] = "none"]
  BY DEF SaveClosed, meterVars, task, ghosts, Invoice
<1>2. /\ \A i \in Invoice : inv'[i].status = inv[i].status /\ inv'[i].due = inv[i].due
      /\ \A i \in Invoice \ {closing} : inv'[i].closed = inv[i].closed
      /\ inv'[closing].closed = (inv[closing].closed \/ sweep[closing] = "unclosed")
  BY <1>1 DEF SaveClosed, Record
<1>3. /\ Settled' = Settled /\ (Clear' => Clear) /\ Dealt' = {}
  BY <1>1, <1>2 DEF Settled, InArrears, Clear, Dealt
<1>4. Reached' /\ Listed'
  BY <1>1, <1>2 DEF Reached, Listed, Work
<1>5. Work'
  BY <1>1, <1>2, <1>3 DEF Work
<1>6. Lulled'
  <2>1. CASE sweep[closing] = "unclosed"
    <3>1. inv'[closing].closed /\ closing \in Invoice \ list
      BY <1>1, <1>2, <2>1 DEF Listed, Work
    <3> QED
      BY <1>1, <3>1 DEF Lulled
  <2>2. CASE sweep[closing] # "unclosed"
    <3>1. Dealt = {} /\ \A i \in Invoice : ~inv'[i].closed => ~inv[i].closed
      BY <1>2, <2>2 DEF Dealt
    <3>2. Spare' = Spare
      BY <1>1, <1>3, <3>1 DEF Spare
    <3> QED
      BY <1>1, <3>1, <3>2 DEF Lulled, Body
  <2> QED
    BY <2>1, <2>2
<1>7. Called'
  BY <1>1, <1>3 DEF Called
<1> QED
  BY <1>4, <1>5, <1>6, <1>7

\* A payment leaves the re-evaluation to be done.
LEMMA PayKeeps ==
  ASSUME Inv, NEW n \in Invoice, NEW whole \in BOOLEAN, Pay(n, whole)
  PROVE  Keeping'
<1> USE DEF Inv, TypeOK, Keeping
<1>1. /\ valve' = valve /\ down' = down /\ cmd' = cmd /\ unsure' = unsure
      /\ excused' = excused /\ gone' = gone /\ reeval = "idle" /\ reeval' = "booked"
      /\ sweep' = sweep /\ closing' = closing /\ todo' = todo /\ list' = list /\ at' = at
  BY DEF Pay, meterVars, pass, ghosts
<1>2. \A i \in Invoice :
        /\ inv'[i].closed = inv[i].closed /\ inv'[i].due = inv[i].due
        /\ \/ inv'[i].status = inv[i].status
           \/ /\ inv[i].status \in {"issued", "partial", "overdue"}
              /\ inv'[i].status \in {"partial", "paid"}
  BY DEF Pay, Record
<1>3. Clear' = Clear /\ Dealt' = Dealt
  BY <1>1, <1>2 DEF Clear, Dealt
<1>4. Reached' /\ Listed'
  BY <1>1, <1>2 DEF Reached, Listed
<1>5. Work'
  BY <1>1, <1>2, <1>3 DEF Work
<1>6. Lulled'
  <2>1. Spare \subseteq Spare'
    BY <1>1, <1>3 DEF Spare
  <2> QED
    BY <1>1, <1>2, <2>1 DEF Lulled, Body
<1>7. Called'
  BY <1>1 DEF Called
<1> QED
  BY <1>4, <1>5, <1>6, <1>7

\* The re-evaluation sets out, or excuses what it does not know of yet.
LEMMA ReevaluateKeeps ==
  ASSUME Inv, Reevaluate
  PROVE  Keeping'
<1> USE DEF Inv, TypeOK, Keeping
<1>1. /\ valve' = valve /\ down' = down /\ cmd' = cmd /\ unsure' = unsure
      /\ gone' = gone /\ reeval = "booked" /\ inv' = inv
      /\ sweep' = sweep /\ closing' = closing /\ todo' = todo
  BY DEF Reevaluate, meterVars, pass
<1>2. Settled' = Settled /\ Clear' = Clear /\ Dealt' = Dealt
  BY <1>1 DEF Settled, InArrears, Clear, Dealt
<1>3. Reached' /\ Listed'
  BY <1>1 DEF Reached, Listed
<1>4. CASE /\ Settled /\ \E i \in Invoice : inv[i].closed
           /\ reeval' = "working" /\ list' = {i \in Invoice : inv[i].closed}
           /\ at' = [m \in Meter |-> "look"] /\ excused' = excused
  <2>1. \A i \in list' : inv[i].closed /\ inv[i].status = "paid"
    BY <1>4 DEF Reached, Settled, InArrears
  <2>2. ~Clear
    BY <1>4 DEF Clear
  <2>3. Work'
    BY <1>1, <1>2, <1>4, <2>1, <2>2 DEF Work
  <2>4. Lulled' /\ Called'
    BY <1>4 DEF Lulled, Called
  <2> QED
    BY <1>3, <2>3, <2>4
<1>5. CASE /\ ~Settled \/ \A i \in Invoice : ~inv[i].closed
           /\ reeval' = "idle" /\ list' = list /\ at' = at
           /\ excused' = IF Settled THEN excused \cup Dealt ELSE excused
  <2>1. list = {} /\ \A m \in Meter : at[m] = "done"
    BY <1>1 DEF Work
  <2>2. Work'
    BY <1>1, <1>2, <1>5, <2>1 DEF Work
  <2>3. Spare' = Spare
    BY <1>1, <1>2, <1>5 DEF Spare
  <2>4. Lulled'
    BY <1>1, <1>5, <2>3 DEF Lulled, Body
  <2>5. Called'
    BY <1>1, <1>2, <1>5, <2>1 DEF Called, Lulled, Body, Spare
  <2> QED
    BY <1>3, <2>2, <2>4, <2>5
<1> QED
  BY <1>4, <1>5 DEF Reevaluate

\* A look finds no closing, one to cancel, or one that keeps the memory.
LEMMA LookKeeps ==
  ASSUME Inv, NEW m \in Meter, Look(m)
  PROVE  Keeping'
<1> USE DEF Inv, TypeOK, Keeping
<1>1. /\ valve' = valve /\ down' = down /\ cmd' = cmd /\ unsure' = unsure
      /\ excused' = excused /\ reeval = "working" /\ reeval' = reeval /\ inv' = inv
      /\ sweep' = sweep /\ closing' = closing /\ todo' = todo
      /\ list' = Remembered(m)
      /\ gone' = IF Gone(m) THEN gone \cup {m} ELSE gone
      /\ at'[m] = IF Gone(m) THEN "done" ELSE IF Revocable(m) THEN "cancel" ELSE "open"
      /\ \A k \in Meter \ {m} : at'[k] = at[k]
  BY DEF Look, meterVars, pass
<1>2. Settled' = Settled /\ Clear' = Clear /\ Dealt' = Dealt /\ Spare' = Spare
  BY <1>1 DEF Settled, InArrears, Clear, Dealt, Spare
<1>3. /\ list' \in {list, {}} /\ (Gone(m) => list' = {}) /\ (~Gone(m) => list' = list)
  BY <1>1 DEF Remembered
<1>4. cmd[m].to = "closed" => Gone(m) \/ Revocable(m)
  BY SlotTypes DEF Gone, Revocable, MeterInv
<1>5. Reached' /\ Listed'
  BY <1>1 DEF Reached, Listed
<1>6. Work'
  BY <1>1, <1>2, <1>3 DEF Work, Revocable
<1>7. Lulled'
  <2>1. CASE Gone(m)
    BY <1>1, <1>2, <1>3, <2>1 DEF Lulled, Work, Clear
  <2>2. CASE ~Gone(m)
    BY <1>1, <1>2, <1>3, <1>4, <2>2 DEF Lulled, Body
  <2> QED
    BY <2>1, <2>2
<1>8. Called'
  BY <1>1, <1>2, <1>4 DEF Called
<1> QED
  BY <1>5, <1>6, <1>7, <1>8

\* A cancelled closing leaves an empty slot.
LEMMA CancelKeeps ==
  ASSUME Inv, NEW m \in Meter, Cancel(m)
  PROVE  Keeping'
<1> USE DEF Inv, TypeOK, Keeping
<1>1. /\ valve' = valve /\ down' = down
      /\ excused' = excused /\ gone' = gone /\ reeval' = reeval /\ inv' = inv
      /\ sweep' = sweep /\ closing' = closing /\ todo' = todo /\ list' = list
      /\ at'[m] = "open" /\ cmd'[m].to = "none"
      /\ \A k \in Meter \ {m} :
           at'[k] = at[k] /\ cmd'[k] = cmd[k] /\ unsure'[k] = unsure[k]
  BY DEF Cancel, Withdraw, pass, ghosts, MeterTypeOK, NoCommand
<1>2. at[m] = "cancel"
  BY DEF Cancel
<1>3. Settled' = Settled /\ Clear' = Clear /\ Dealt' = Dealt /\ Spare' = Spare
  BY <1>1 DEF Settled, InArrears, Clear, Dealt, Spare
<1>4. Reached' /\ Listed'
  BY <1>1 DEF Reached, Listed
<1>5. Work'
  BY <1>1, <1>2, <1>3 DEF Work
<1>6. Lulled' /\ Called'
  BY <1>1, <1>3 DEF Lulled, Body, Called
<1> QED
  BY <1>4, <1>5, <1>6

\* The meter is done with: its opening is in the slot, its valve is open, or the
\* re-evaluation has missed the acknowledgement of a closing.
LEMMA OpenUpKeeps ==
  ASSUME Inv, NEW m \in Meter, OpenUp(m)
  PROVE  Keeping'
<1> USE DEF Inv, TypeOK, Keeping
<1>1. /\ valve' = valve /\ down' = down /\ unsure' = unsure
      /\ gone' = gone /\ reeval' = reeval /\ inv' = inv
      /\ sweep' = sweep /\ closing' = closing /\ todo' = todo /\ list' = list
      /\ at[m] = "open" /\ at'[m] = "done"
      /\ \A k \in Meter \ {m} : at'[k] = at[k]
      /\ excused' = IF copy[m] # "closed" /\ Told(m) = "closed"
                    THEN excused \cup {m} ELSE excused
      /\ cmd' = [cmd EXCEPT ![m] = Reopened(m)]
  BY DEF OpenUp, pass
<1>2. /\ \A k \in Meter \ {m} : cmd'[k] = cmd[k]
      /\ \/ cmd'[m] = cmd[m] /\ (copy[m] # "closed" \/ cmd[m] # NoCommand)
         \/ cmd[m] = NoCommand /\ cmd'[m].to = "open"
  <2>1. CASE copy[m] = "closed"
    <3>1. cmd' = [cmd EXCEPT ![m] = EnqueueValve(m, copy[m], "open")]
      BY <1>1, <2>1 DEF Reopened
    <3> QED
      BY <2>1, <3>1, Enqueued DEF Position
  <2>2. CASE copy[m] # "closed"
    BY <1>1, <2>2 DEF Reopened, MeterTypeOK
  <2> QED
    BY <2>1, <2>2
<1>3. Settled' = Settled /\ Clear' = Clear /\ Dealt' = Dealt /\ Spare \subseteq Spare'
  BY <1>1 DEF Settled, InArrears, Clear, Dealt, Spare
<1>4. Reached' /\ Listed'
  BY <1>1 DEF Reached, Listed
<1>5. Work'
  BY <1>1, <1>2, <1>3 DEF Work
<1>6. Lulled'
  <2> SUFFICES ASSUME \A i \in Invoice \ list : ~inv[i].closed, m \notin Spare'
               PROVE  Body(m)'
    BY <1>1, <1>2, <1>3 DEF Lulled, Body
  <2>1. cmd[m].to # "closed" /\ m \notin excused'
    BY <1>1, <1>3 DEF Lulled, Spare
  <2>2. CASE cmd'[m].to = "open"
    BY <2>2 DEF Body
  <2>3. CASE cmd'[m] = cmd[m] /\ cmd[m].to # "open"
    <3>1. cmd[m] = NoCommand /\ ~cmd[m].sent /\ copy[m] # "closed"
      BY <1>2, <2>1, <2>3, SlotTypes DEF Position, MeterInv
    <3>2. Told(m) # "closed"
      BY <1>1, <2>1, <3>1
    <3>3. ~unsure[m] => valve[m] # "closed" /\ down[m] # "closed"
      <4>1. ~unsure[m] => /\ Told(m) \in {"unknown", valve[m]}
                          /\ down[m] # "none" => down[m] = Told(m)
        BY <3>1 DEF MeterInv, ToldIsTrue, Aimed
      <4>2. Told(m) = "unknown" => valve[m] = "open"
        BY DEF MeterInv, Fresh, Told, MeterTypeOK, Position
      <4> QED
        BY <3>2, <4>1, <4>2
    <3> QED
      BY <1>1, <2>1, <2>3, <3>3 DEF Body
  <2> QED
    BY <1>2, <2>2, <2>3
<1>7. Called'
  BY <1>1, <1>2, <1>3 DEF Called
<1> QED
  BY <1>4, <1>5, <1>6, <1>7

\* The memory goes: every meter is done with.
LEMMA ClearClosedKeeps ==
  ASSUME Inv, ClearClosed
  PROVE  Keeping'
<1> USE DEF Inv, TypeOK, Keeping
<1>1. /\ valve' = valve /\ down' = down /\ cmd' = cmd /\ unsure' = unsure
      /\ excused' = excused /\ gone' = gone
      /\ sweep' = sweep /\ closing' = closing /\ todo' = todo /\ at' = at
      /\ reeval = "working" /\ reeval' = "idle" /\ list' = {}
      /\ \A m \in Meter : at[m] = "done"
  BY DEF ClearClosed, meterVars, pass, ghosts
<1>2. \A i \in Invoice :
        /\ inv'[i].status = inv[i].status /\ inv'[i].due = inv[i].due
        /\ inv'[i].closed = (inv[i].closed /\ i \notin list)
  BY DEF ClearClosed, Record
<1>3. Settled' = Settled /\ Dealt' = Dealt /\ Spare' = Spare
  BY <1>1, <1>2 DEF Settled, InArrears, Dealt, Spare
<1>4. Reached' /\ Listed'
  <2>1. Reached'
    BY <1>1, <1>2 DEF Reached
  <2>2. \A i \in list : inv[i].status = "paid"
    BY DEF Work
  <2>3. ASSUME NEW i \in Invoice
        PROVE  /\ sweep[i] = "closed" /\ ~inv'[i].closed => inv'[i].status = "paid"
               /\ sweep[i] = "unclosed" => ~inv'[i].closed
    <3>1. inv'[i].status = inv[i].status /\ inv'[i].closed = (inv[i].closed /\ i \notin list)
      BY <1>2
    <3>2. CASE i \in list
      BY <2>2, <3>1, <3>2
    <3>3. CASE i \notin list
      BY <3>1, <3>3 DEF Listed
    <3> QED
      BY <3>2, <3>3
  <2> QED
    BY <1>1, <2>1, <2>3 DEF Listed
<1>5. Work'
  BY <1>1, <1>2 DEF Work
<1>6. Lulled'
  BY <1>1, <1>2, <1>3 DEF Lulled, Body
<1>7. Called'
  BY <1>1, <1>3 DEF Called
<1> QED
  BY <1>4, <1>5, <1>6, <1>7

\* An operator's closing is an excuse.
LEMMA ManualKeeps ==
  ASSUME Inv, NEW m \in Meter, NEW to \in Position, Manual(m, to)
  PROVE  Keeping'
<1> USE DEF Inv, TypeOK, Keeping
<1>1. /\ valve' = valve /\ down' = down /\ unsure' = unsure
      /\ inv' = inv /\ reeval' = reeval /\ gone' = gone
      /\ sweep' = sweep /\ closing' = closing /\ todo' = todo /\ list' = list /\ at' = at
      /\ cmd' = [cmd EXCEPT ![m] = Queued(to)]
      /\ excused' = IF to = "closed" THEN excused \cup {m} ELSE excused
      /\ cmd[m] = NoCommand
  BY DEF Manual, Enqueue, billing, pass, task
<1>2. /\ cmd'[m].to = to
      /\ \A k \in Meter \ {m} : cmd'[k] = cmd[k]
      /\ excused \subseteq excused' /\ (to = "closed" => m \in excused')
  BY <1>1 DEF Queued, MeterTypeOK
<1>3. Settled' = Settled /\ Clear' = Clear /\ Dealt' = Dealt /\ Spare \subseteq Spare'
  BY <1>1, <1>2 DEF Settled, InArrears, Clear, Dealt, Spare
<1>4. Reached' /\ Listed'
  BY <1>1 DEF Reached, Listed
<1>5. Work'
  <2>1. at[m] # "cancel"
    BY <1>1 DEF Work, NoCommand
  <2> QED
    BY <1>1, <1>2, <1>3, <2>1 DEF Work
<1>6. Lulled'
  <2>1. to = "closed" => m \in Spare'
    BY <1>2 DEF Spare
  <2> QED
    BY <1>1, <1>2, <1>3, <2>1 DEF Lulled, Body, Position
<1>7. Called'
  BY <1>1, <1>2, <1>3 DEF Called, Position
<1> QED
  BY <1>4, <1>5, <1>6, <1>7

-----------------------------------------------------------------------------

\* A record of an invoice remains one when a field is set.
LEMMA InvoiceFields ==
  ASSUME NEW r \in Record
  PROVE  /\ \A s \in Statuses : [r EXCEPT !.status = s] \in Record
         /\ \A w \in Warned : [r EXCEPT !.warned = w] \in Record
         /\ \A b \in BOOLEAN : [r EXCEPT !.due = b] \in Record
         /\ \A b \in BOOLEAN : [r EXCEPT !.closed = b] \in Record
BY DEF Record

\* The account's own variables keep their types.
LEMMA TypeKept ==
  ASSUME Inv, [Next]_vars, MeterTypeOK'
  PROVE  TypeOK'
<1> USE DEF Inv, TypeOK
<1>1. GivenUp \subseteq Meter /\ Dealt \subseteq Meter /\ shown \in [Meter -> State]
  BY DEF GivenUp, Dealt, MeterTypeOK
<1>2. ASSUME NEW i \in Invoice, Issue(i) PROVE TypeOK'
  BY <1>2 DEF Issue, Record, Statuses, ghosts, count, pass, task
<1>3. ASSUME NEW i \in Invoice, FallDue(i) PROVE TypeOK'
  <2>1. [inv[i] EXCEPT !.due = TRUE] \in Record
    BY InvoiceFields
  <2>2. inv' = [inv EXCEPT ![i] = [inv[i] EXCEPT !.due = TRUE]]
    BY <1>3 DEF FallDue
  <2>3. inv' \in [Invoice -> Record]
    BY <2>1, <2>2
  <2> QED
    BY <1>3, <2>3 DEF FallDue, ghosts, count, pass, task
<1>4. ASSUME NEW i \in Invoice, Ripen(i) PROVE TypeOK'
  BY <1>4 DEF Ripen, Record, Warned, ghosts, count, pass, task
<1>5. ASSUME NEW i \in Invoice, Evaluate(i) PROVE TypeOK'
  <2>1. inv' \in [Invoice -> Record]
    <3>1. [inv[i] EXCEPT !.warned = "fresh"] \in Record
      BY InvoiceFields DEF Warned
    <3>2. inv' = inv \/ inv' = [inv EXCEPT ![i] = [inv[i] EXCEPT !.warned = "fresh"]]
      BY <1>5 DEF Evaluate
    <3> QED
      BY <3>1, <3>2
  <2>2. /\ sweep' \in [Invoice -> {"none", "closed", "unclosed"}]
        /\ closing' \in 0 .. Invoices /\ todo' \subseteq Meter /\ seen' \in [Meter -> State]
    BY <1>1, <1>5 DEF Evaluate, Invoice
  <2> QED
    BY <1>5, <2>1, <2>2 DEF Evaluate, task, ghosts, count
<1>6. CASE Collect
  <2>1. inv' \in [Invoice -> Record]
    BY <1>6 DEF Collect, Record, Statuses
  <2>2. sweep' \in [Invoice -> {"none", "closed", "unclosed"}]
    BY <1>6 DEF Collect
  <2> QED
    BY <1>6, <2>1, <2>2 DEF Collect, ghosts, count, task
<1>7. ASSUME NEW m \in Meter, CloseMeter(m) PROVE TypeOK'
  BY <1>7 DEF CloseMeter, task, count
<1>8. CASE SaveClosed
  <2>1. inv' \in [Invoice -> Record]
    <3>1. /\ closing \in Invoice
          /\ (inv[closing].closed \/ sweep[closing] = "unclosed") \in BOOLEAN
      BY <1>8 DEF SaveClosed, Invoice
    <3>2. [inv[closing] EXCEPT !.closed = @ \/ sweep[closing] = "unclosed"] \in Record
      BY <3>1, InvoiceFields
    <3> QED
      BY <1>8, <3>1, <3>2 DEF SaveClosed
  <2>2. closing' \in 0 .. Invoices /\ seen' \in [Meter -> State]
    BY <1>8, ArrearsAssumption DEF SaveClosed, State
  <2> QED
    BY <1>8, <2>1, <2>2 DEF SaveClosed, task, ghosts, count
<1>9. ASSUME NEW n \in Invoice, NEW whole \in BOOLEAN, Pay(n, whole) PROVE TypeOK'
  <2>1. inv' \in [Invoice -> Record]
    BY <1>9 DEF Pay, Record, Statuses
  <2> QED
    BY <1>9, <2>1 DEF Pay, ghosts, count, pass
<1>10. CASE Reevaluate
  BY <1>1, <1>10 DEF Reevaluate, pass, count
<1>11. ASSUME NEW m \in Meter, Look(m) PROVE TypeOK'
  BY <1>11 DEF Look, Remembered, pass, count
<1>12. ASSUME NEW m \in Meter, Cancel(m) \/ OpenUp(m) PROVE TypeOK'
  BY <1>12 DEF Cancel, OpenUp, pass, ghosts, count
<1>13. CASE ClearClosed
  <2>1. inv' \in [Invoice -> Record]
    <3>1. \A i \in Invoice : [inv[i] EXCEPT !.closed = FALSE] \in Record
      BY InvoiceFields
    <3> QED
      BY <1>13, <3>1 DEF ClearClosed
  <2> QED
    BY <1>13, <2>1 DEF ClearClosed, pass, ghosts, count, State
<1>14. ASSUME NEW m \in Meter, NEW to \in Position, Manual(m, to) PROVE TypeOK'
  <2>1. manual' \in 0 .. MaxManual
    BY <1>14, ArrearsAssumption DEF Manual
  <2> QED
    BY <1>14, <2>1 DEF Manual, billing, pass, task
<1>15. CASE Metering(MeterStep)
  BY <1>1, <1>15 DEF Metering, Excuses, pass, count
<1>16. CASE Restart
  <2>1. restarts' \in 0 .. MaxRestarts /\ 0 \in 0 .. Invoices
    BY <1>16, ArrearsAssumption DEF Restart
  <2> QED
    BY <1>1, <1>16, <2>1 DEF Restart, Excuses, State
<1>17. CASE UNCHANGED vars
  BY <1>17 DEF vars, billing, pass, task, ghosts, count
<1> QED
  BY <1>2, <1>3, <1>4, <1>5, <1>6, <1>7, <1>8, <1>9, <1>10, <1>11, <1>12, <1>13, <1>14,
     <1>15, <1>16, <1>17 DEF Next, Passing, Reopening

\* Every step keeps the invariant.
LEMMA NextInv == Inv /\ [Next]_vars => Inv'
<1> SUFFICES ASSUME Inv, [Next]_vars PROVE Inv'
  OBVIOUS
<1>1. MeterInv'
  BY StepsDispatch, MeterNextInv DEF Inv
<1>2. TypeOK'
  BY <1>1, TypeKept DEF MeterInv
<1>3. Keeping'
  <2>1. ASSUME NEW i \in Invoice, Evaluate(i) PROVE Keeping'
    BY <2>1, EvaluateKeeps
  <2>2. ASSUME NEW m \in Meter, CloseMeter(m) PROVE Keeping'
    BY <2>2, CloseMeterKeeps
  <2>3. CASE SaveClosed
    BY <2>3, SaveClosedKeeps
  <2>4. ASSUME NEW n \in Invoice, NEW whole \in BOOLEAN, Pay(n, whole) PROVE Keeping'
    BY <2>4, PayKeeps
  <2>5. CASE Reevaluate
    BY <2>5, ReevaluateKeeps
  <2>6. ASSUME NEW m \in Meter, Look(m) PROVE Keeping'
    BY <2>6, LookKeeps
  <2>7. ASSUME NEW m \in Meter, Cancel(m) PROVE Keeping'
    BY <2>7, CancelKeeps
  <2>8. ASSUME NEW m \in Meter, OpenUp(m) PROVE Keeping'
    BY <2>8, OpenUpKeeps
  <2>9. CASE ClearClosed
    BY <2>9, ClearClosedKeeps
  <2>10. ASSUME NEW m \in Meter, NEW to \in Position, Manual(m, to) PROVE Keeping'
    BY <2>10, ManualKeeps
  <2>11. ASSUME \/ \E i \in Invoice : Issue(i) \/ FallDue(i) \/ Ripen(i)
                \/ Collect \/ UNCHANGED vars
         PROVE  Keeping'
    BY <2>11, InvoicesKeep
  <2>12. CASE Metering(MeterStep)
    BY <2>12, MeteringKeeps
  <2>13. CASE Restart
    BY <2>13, RestartKeeps
  <2> QED
    BY <2>1, <2>2, <2>3, <2>4, <2>5, <2>6, <2>7, <2>8, <2>9, <2>10, <2>11, <2>12, <2>13
       DEF Next, Passing, Reopening
<1> QED
  BY <1>1, <1>2, <1>3 DEF Inv

LEMMA Invariant == Spec => []Inv
<1> QED
  BY InitInv, NextInv, PTL DEF Spec

-----------------------------------------------------------------------------

\* Every variable of the account and of its meters keeps its type: a slot never
\* counts more attempts than requeueExpiredAcks allows.
THEOREM ArrearsTyped == Spec => []TypeOK
<1>1. Inv => TypeOK
  BY DEF Inv
<1> QED
  BY <1>1, Invariant, PTL

\* The arrears rule, the payments and the operators use the meters' slots only as
\* MeterValve has it, whenever the listener comes in between: EnqueueValve into an
\* empty slot, and the withdrawal of a closing that was queued when it was read.
THEOREM AccountsKeepTheQueue == Spec => KeepsTheQueue
<1>1. Init => MeterInit
  BY DEF Init
<1> QED
  BY <1>1, StepsDispatch, Invariant, PTL DEF Spec, KeepsTheQueue, MeterSpec

\* What the billing pages show of a valve is so, whatever the account's steps.
THEOREM AccountShowsTheTruth == Spec => []ShownIsTrue
<1>1. Inv => ShownIsTrue
  BY DEF Inv, MeterInv, ToldIsTrue, Told, ShownIsTrue
<1> QED
  BY <1>1, Invariant, PTL

\* ReevaluateAfterPayment and the daily pass, whatever the listener does between
\* their reads and writes, leave a settled tenant's valve shut without something
\* that reopens it only in the cases that excused and unsure name.
THEOREM ShutValveIsRemembered == Spec => []NobodyForgotten
<1>1. Inv => NobodyForgotten
  <2> SUFFICES ASSUME Inv, Settled, reeval = "idle", Clear,
                      NEW m \in Meter, valve[m] = "closed", ~unsure[m], m \notin excused
               PROVE  cmd[m].to = "open"
    BY DEF NobodyForgotten, Clear
  <2> QED
    BY DEF Inv, Keeping, Lulled, Work, Body, Spare, Clear
<1> QED
  BY <1>1, Invariant, PTL

\* Once a payment has settled the account no valve of it closes, unless the
\* closing had left the server or one of the excuses holds.
THEOREM SettledValveStaysOpen == Spec => SettledStaysOpen
<1> DEFINE Stays ==
      \A m \in Meter :
        valve[m] = "open" /\ valve'[m] = "closed" =>
          ~Settled \/ reeval # "idle" \/ unsure[m] \/ m \in excused \cup gone
<1>1. ASSUME Inv, [Next]_vars PROVE Stays
  <2> SUFFICES ASSUME NEW m \in Meter, valve[m] = "open", valve'[m] = "closed",
                      Settled, reeval = "idle", ~unsure[m]
               PROVE  m \in excused \cup gone
    OBVIOUS
  <2>1. MeterStep
    <3>1. ~(UNCHANGED valve)
      OBVIOUS
    <3> QED
      BY <1>1, <3>1 DEF Next, Issue, FallDue, Ripen, Passing, Evaluate, CloseMeter, SaveClosed,
           Collect, Pay, Reopening, Reevaluate, Look, Cancel, Withdraw, OpenUp, ClearClosed,
           Manual, Enqueue, Restart, RestartListener, Metering, meterVars, vars
  <2>2. cmd[m].to = "closed"
    BY <1>1, <2>1, MeterMoves DEF Inv
  <2> QED
    BY <1>1, <2>2 DEF Inv, Keeping, Called, Work
<1>2. Inv /\ [Next]_vars => [Stays]_vars
  BY <1>1
<1> QED
  BY <1>2, Invariant, PTL DEF Spec, SettledStaysOpen
=============================================================================
