-------------------------------- MODULE Arrears --------------------------------
(***************************************************************************)
(* The arrears rule of one tenant account: invoices fall due, the daily    *)
(* collections pass marks them overdue, warns, and in the end queues the   *)
(* closing of the account's valves; a payment that settles the arrears     *)
(* queues their opening.  closed_at on an invoice is the rule's memory     *)
(* that it has to reopen something.  The pass works through copies of the  *)
(* overdue invoices and of the meters, with mails in between; a payment's  *)
(* re-evaluation works through copies of the meters; neither holds a lock  *)
(* or a transaction, and the listener sends and hears beside them.         *)
(* Amounts are left out: an invoice is paid in whole or in part.           *)
(***************************************************************************)
EXTENDS MeterValve

CONSTANTS
  Invoices,      \* how many invoices, in the order of their due dates
  MaxManual,     \* bound: operator's commands
  MaxRestarts    \* bound: restarts of the server

ASSUME ArrearsAssumption ==
  /\ Meter # {} /\ Invoices \in Nat /\ MaxManual \in Nat /\ MaxRestarts \in Nat

Invoice == 1 .. Invoices

VARIABLES
  inv,       \* the invoices
  sweep,     \* the copies the collections pass has yet to evaluate
  closing,   \* the one for which it is closing the meters, 0 for none
  todo,      \* the meters it has yet to come to
  seen,      \* its copies of valve_state
  reeval,    \* the re-evaluation after a payment: idle, booked or working
  list,      \* the invoices whose closed_at it will clear, {} once it will not
  copy,      \* its copies of valve_state
  at,        \* how far it is with a meter
  excused,   \* meters the rule may leave shut, see Excuses
  gone,      \* meters whose closing had been sent when the account was settled
  manual, restarts

pass == <<sweep, closing, todo, seen>>
task == <<reeval, list, copy, at>>
billing == <<inv, pass, task>>
count == <<manual, restarts>>
ghosts == <<excused, gone>>
vars == <<meterVars, billing, ghosts, count>>

Statuses == {"draft", "issued", "partial", "overdue", "paid"}
Warned == {"no", "fresh", "ripe"}   \* warned_at: unset, set, set warn_days ago
Record == [status: Statuses, due: BOOLEAN, warned: Warned, closed: BOOLEAN]

\* What ReevaluateAfterPayment takes for arrears.
InArrears(i) ==
  \/ inv[i].status = "overdue"
  \/ inv[i].status = "partial" /\ inv[i].due

Settled == \A i \in Invoice : ~InArrears(i)

\* The meters the pass has closed for an invoice without having saved closed_at.
Dealt == IF closing # 0 /\ sweep[closing] = "unclosed" THEN Meter \ todo ELSE {}

\* Meters the rule gives up: an opening that failed or expired, a closing that a
\* stale copy of a paid invoice led to, one that a re-evaluation does not know of
\* yet (Dealt) or whose acknowledgement is newer than its copy, a re-evaluation or
\* a closed_at that a restart has swallowed, and an operator's closing.  A valve
\* shown open again, and not to be closed, makes up for all of them, and for a
\* closing that was gone.
Opened == {m \in Meter : /\ shown[m] = "closed" /\ shown'[m] = "open"
                         /\ cmd'[m].to # "closed"}

Excuses(more) ==
  /\ excused' = (excused \cup more) \ Opened
  /\ gone' = gone \ Opened

GivenUp == {m \in Meter : /\ cmd[m].to = "open" /\ cmd'[m] = NoCommand
                          /\ landing'[m] # "open"}

-----------------------------------------------------------------------------
\* Invoices.

\* IssueCycle, month after month.
Issue(i) ==
  /\ inv[i].status = "draft"
  /\ \A j \in Invoice : j < i => inv[j].status # "draft"
  /\ inv' = [inv EXCEPT ![i].status = "issued"]
  /\ UNCHANGED <<meterVars, pass, task, ghosts, count>>

FallDue(i) ==
  /\ inv[i].status # "draft" /\ ~inv[i].due
  /\ \A j \in Invoice : j < i => inv[j].due
  /\ inv' = [inv EXCEPT ![i].due = TRUE]
  /\ UNCHANGED <<meterVars, pass, task, ghosts, count>>

\* warn_days pass; a pass reckons with the time at which it began.
Ripen(i) ==
  /\ inv[i].warned = "fresh" /\ sweep[i] = "none"
  /\ inv' = [inv EXCEPT ![i].warned = "ripe"]
  /\ UNCHANGED <<meterVars, pass, task, ghosts, count>>

-----------------------------------------------------------------------------
\* The daily collections pass.

\* markOverdue, then the query of sweepSiteArrears.
Collect ==
  /\ \A i \in Invoice : sweep[i] = "none"
  /\ inv' = [i \in Invoice |->
               IF inv[i].due /\ inv[i].status \in {"issued", "partial"}
               THEN [inv[i] EXCEPT !.status = "overdue"] ELSE inv[i]]
  /\ sweep' = [i \in Invoice |->
                 IF inv'[i].status # "overdue" THEN "none"
                 ELSE IF inv[i].closed THEN "closed" ELSE "unclosed"]
  /\ sweep' # sweep \/ inv' # inv
  /\ UNCHANGED <<meterVars, closing, todo, seen, task, ghosts, count>>

\* evaluateArrears, in the order of the due dates: it warns first, or sets out to
\* close once the warning is old enough; of the copy it looks at the stamps only.
\* Grace may or may not be over.
Evaluate(i) ==
  /\ closing = 0
  /\ sweep[i] # "none" /\ \A j \in Invoice : j < i => sweep[j] = "none"
  /\ \/ /\ inv[i].warned = "no"
        /\ inv' = [inv EXCEPT ![i].warned = "fresh"]
        /\ sweep' = [sweep EXCEPT ![i] = "none"]
        /\ UNCHANGED <<closing, todo, seen>>
     \/ /\ inv[i].warned # "ripe"
        /\ sweep' = [sweep EXCEPT ![i] = "none"]
        /\ UNCHANGED <<inv, closing, todo, seen>>
     \/ /\ inv[i].warned = "ripe"
        /\ closing' = i /\ todo' = Meter /\ seen' = shown
        /\ UNCHANGED <<inv, sweep>>
  /\ UNCHANGED <<meterVars, task, ghosts, count>>

\* Mutant of Shut: an invoice the rule has closed once is not looked at again.
ShutOnce(m) ==
  IF sweep[closing] = "unclosed" THEN EnqueueValve(m, seen[m], "closed") ELSE cmd[m]

\* The closing of a meter whose copy does not say closed already.
Shut(m) == EnqueueValve(m, seen[m], "closed")

CloseMeter(m) ==
  /\ closing # 0 /\ m \in todo
  /\ todo' = todo \ {m}
  /\ cmd' = [cmd EXCEPT ![m] = Shut(m)]
  /\ excused' = IF inv[closing].status # "overdue" /\ cmd' # cmd
                THEN excused \cup {m} ELSE excused
  /\ UNCHANGED <<valve, shown, landing, orphan, down, up, unsure>>
  /\ UNCHANGED <<inv, sweep, closing, seen, task, gone, count>>

\* With every meter closed or about to be, closed_at is saved if the copy has none.
SaveClosed ==
  /\ closing # 0 /\ todo = {}
  /\ inv' = [inv EXCEPT ![closing].closed = @ \/ sweep[closing] = "unclosed"]
  /\ sweep' = [sweep EXCEPT ![closing] = "none"]
  /\ closing' = 0 /\ seen' = [m \in Meter |-> "unknown"]
  /\ UNCHANGED <<meterVars, todo, task, ghosts, count>>

-----------------------------------------------------------------------------
\* Payments, one at a time, each with its re-evaluation.

\* AllocatePayment, the oldest debt first: every outstanding invoice before n is
\* paid, and n in whole or in part.
Pay(n, whole) ==
  /\ reeval = "idle"
  /\ inv[n].status \in {"issued", "partial", "overdue"}
  /\ inv' = [i \in Invoice |->
               IF inv[i].status \notin {"issued", "partial", "overdue"} \/ i > n THEN inv[i]
               ELSE [inv[i] EXCEPT !.status =
                       IF i < n \/ whole THEN "paid" ELSE "partial"]]
  /\ reeval' = "booked"
  /\ UNCHANGED <<meterVars, pass, list, copy, at, ghosts, count>>

\* ReevaluateAfterPayment does nothing as long as there are arrears or nothing was
\* closed; else it reads the invoices closed by the rule, and the meters.
Reevaluate ==
  /\ reeval = "booked"
  /\ \/ /\ Settled /\ \E i \in Invoice : inv[i].closed
        /\ reeval' = "working" /\ list' = {i \in Invoice : inv[i].closed}
        /\ copy' = shown /\ at' = [m \in Meter |-> "look"]
        /\ UNCHANGED excused
     \/ /\ ~Settled \/ \A i \in Invoice : ~inv[i].closed
        /\ reeval' = "idle" /\ UNCHANGED <<list, copy, at>>
        /\ excused' = IF Settled THEN excused \cup Dealt ELSE excused
  /\ UNCHANGED <<meterVars, inv, pass, gone, count>>

\* A closing that has been sent cannot be called back.
Gone(m) == cmd[m].to = "closed" /\ cmd[m].sent

\* Mutant of Revocable: a queued closing is left alone.
RevocableNever(m) == FALSE

Revocable(m) == cmd[m].to = "closed" /\ ~cmd[m].sent

\* Mutant of Remembered: the memory is cleared whatever became of the meters.
RememberedNot(m) == list

\* The memory is kept for a later payment if a meter could not be reopened.
Remembered(m) == IF Gone(m) THEN {} ELSE list

\* One meter after the other: PendingValve is read,
Look(m) ==
  /\ reeval = "working" /\ at[m] = "look"
  /\ \A k \in Meter : at[k] \in {"look", "done"}
  /\ at' = [at EXCEPT ![m] = IF Gone(m) THEN "done"
                             ELSE IF Revocable(m) THEN "cancel" ELSE "open"]
  /\ list' = Remembered(m)
  /\ gone' = IF Gone(m) THEN gone \cup {m} ELSE gone
  /\ UNCHANGED <<meterVars, inv, pass, reeval, copy, excused, count>>

\* then the closing that was queued is deleted, whatever has become of it,
Cancel(m) ==
  /\ at[m] = "cancel"
  /\ at' = [at EXCEPT ![m] = "open"]
  /\ Withdraw(m)
  /\ UNCHANGED <<inv, pass, reeval, list, copy, ghosts, count>>

\* Mutant of Reopened: the direction is wrong, which is refused as no change.
ReopenedShut(m) ==
  IF copy[m] = "closed" THEN EnqueueValve(m, copy[m], "closed") ELSE cmd[m]

\* and where the copy says closed, the opening is queued; a pending command counts
\* as if it were one.
Reopened(m) ==
  IF copy[m] = "closed" THEN EnqueueValve(m, copy[m], "open") ELSE cmd[m]

OpenUp(m) ==
  /\ at[m] = "open"
  /\ at' = [at EXCEPT ![m] = "done"]
  /\ cmd' = [cmd EXCEPT ![m] = Reopened(m)]
  /\ excused' = IF copy[m] # "closed" /\ Told(m) = "closed"
                THEN excused \cup {m} ELSE excused
  /\ UNCHANGED <<valve, shown, landing, orphan, down, up, unsure>>
  /\ UNCHANGED <<inv, pass, reeval, list, copy, gone, count>>

ClearClosed ==
  /\ reeval = "working" /\ \A m \in Meter : at[m] = "done"
  /\ inv' = [i \in Invoice |->
               IF i \in list THEN [inv[i] EXCEPT !.closed = FALSE] ELSE inv[i]]
  /\ reeval' = "idle" /\ list' = {} /\ copy' = [m \in Meter |-> "unknown"]
  /\ UNCHANGED <<meterVars, pass, at, ghosts, count>>

-----------------------------------------------------------------------------
\* Operators, the meters and the server.

\* The valve buttons of the billing pages; a refused one changes nothing.
Manual(m, to) ==
  /\ manual < MaxManual /\ shown[m] # to /\ Enqueue(m, to)
  /\ manual' = manual + 1
  /\ excused' = IF to = "closed" THEN excused \cup {m} ELSE excused
  /\ UNCHANGED <<billing, gone, restarts>>

\* What happens between a meter and the listener.  A closing that has left its
\* slot by itself there is none to cancel.
Metering(step) ==
  /\ step /\ Excuses(GivenUp)
  /\ at' = [m \in Meter |-> IF at[m] = "cancel" /\ cmd'[m] = NoCommand
                            THEN "open" ELSE at[m]]
  /\ UNCHANGED <<inv, pass, reeval, list, copy, count>>

\* A pass that was under way begins anew, a re-evaluation is lost.
Restart ==
  /\ restarts < MaxRestarts
  /\ restarts' = restarts + 1
  /\ RestartListener
  /\ sweep' = [i \in Invoice |-> "none"] /\ closing' = 0 /\ todo' = {}
  /\ reeval' = "idle" /\ list' = {} /\ at' = [m \in Meter |-> "done"]
  /\ seen' = [m \in Meter |-> "unknown"] /\ copy' = [m \in Meter |-> "unknown"]
  /\ Excuses(IF reeval # "idle" THEN Meter ELSE GivenUp \cup Dealt)
  /\ UNCHANGED <<inv, manual>>

-----------------------------------------------------------------------------
Init ==
  /\ MeterInit
  /\ inv = [i \in Invoice |-> [status |-> "draft", due |-> FALSE,
                               warned |-> "no", closed |-> FALSE]]
  /\ sweep = [i \in Invoice |-> "none"] /\ closing = 0 /\ todo = {}
  /\ reeval = "idle" /\ list = {} /\ at = [m \in Meter |-> "done"]
  /\ seen = [m \in Meter |-> "unknown"] /\ copy = [m \in Meter |-> "unknown"]
  /\ excused = {} /\ gone = {} /\ manual = 0 /\ restarts = 0

\* The scheduler's pass between Collect and the end, and a payment's handler.
Passing ==
  \/ \E i \in Invoice : Evaluate(i)
  \/ \E m \in Meter : CloseMeter(m)
  \/ SaveClosed

Reopening ==
  \/ Reevaluate \/ ClearClosed
  \/ \E m \in Meter : Look(m) \/ Cancel(m) \/ OpenUp(m)

Next ==
  \/ \E i \in Invoice : Issue(i) \/ FallDue(i) \/ Ripen(i)
  \/ Collect \/ Passing
  \/ \E n \in Invoice, whole \in BOOLEAN : Pay(n, whole)
  \/ Reopening
  \/ \E m \in Meter, to \in Position : Manual(m, to)
  \/ Metering(MeterStep) \/ Restart

Spec == Init /\ [][Next]_vars

\* The scheduler runs its pass every day, a handler runs to its end, the listener's
\* read deadline ends every wait, and neither the meter stays away nor does the
\* network lose every datagram of an exchange it is given again and again.
Delivery(m) == Metering(Waiting(m) /\ ~orphan[m] /\ Contact(m))
Execution(m) == Metering(Execute(m))
Answer(m) == Metering(\E a \in up[m] : cmd[m].sent /\ Echoes(m, a) /\ ResolveAck(m, a))

FairSpec ==
  /\ Spec
  /\ WF_vars(Collect) /\ WF_vars(Passing) /\ WF_vars(Reopening)
  /\ \A m \in Meter :
       /\ WF_vars(Metering(Timeout(m))) /\ WF_vars(Metering(ShowState(m)))
       /\ SF_vars(Delivery(m)) /\ SF_vars(Execution(m)) /\ SF_vars(Answer(m))

-----------------------------------------------------------------------------
TypeOK ==
  /\ MeterTypeOK
  /\ inv \in [Invoice -> Record]
  /\ sweep \in [Invoice -> {"none", "closed", "unclosed"}]
  /\ closing \in 0 .. Invoices /\ todo \subseteq Meter
  /\ seen \in [Meter -> State] /\ copy \in [Meter -> State]
  /\ reeval \in {"idle", "booked", "working"} /\ list \subseteq Invoice
  /\ at \in [Meter -> {"look", "cancel", "open", "done"}]
  /\ excused \subseteq Meter /\ gone \subseteq Meter
  /\ manual \in 0 .. MaxManual /\ restarts \in 0 .. MaxRestarts

\* The slots are used as MeterValve has it: a valve command is queued only into an
\* empty slot, and only closings are withdrawn, one that has been sent only by a
\* deletion that was decided while it was queued.
KeepsTheQueue == MeterSpec

\* billing-shengda-implementation-spec.md: "a settled tenant's valve never closes
\* on the next contact".  A valve closes while there are arrears or a payment is
\* being handled, or under one of the excuses, or because a command was sent and
\* never acknowledged.
SettledStaysOpen ==
  [][\A m \in Meter :
       valve[m] = "open" /\ valve'[m] = "closed" =>
         ~Settled \/ reeval # "idle" \/ unsure[m] \/ m \in excused \cup gone]_vars

\* A shut valve of a settled account is on somebody's list: its opening is queued
\* or sent, closed_at is still set, or one of the excuses applies.
NobodyForgotten ==
  Settled /\ reeval = "idle" =>
    \A m \in Meter :
      valve[m] = "closed" =>
        \/ cmd[m].to = "open"
        \/ \E i \in Invoice : inv[i].closed
        \/ unsure[m] \/ m \in excused

\* "It retries every un-closed meter until closed": as long as the debt stays,
\* every valve ends up closed, or the server believes so since a later opening
\* was never acknowledged.
ClosureIsRetried ==
  <>[](\E i \in Invoice : inv[i].status = "overdue" /\ inv[i].warned = "ripe")
    => \A m \in Meter : <>[](valve[m] = "closed" \/ (shown[m] = "closed" /\ unsure[m]))

\* "Payment covering arrears -> queue valve_open": an account that is and stays
\* settled has its water back, unless an excuse stands or a command was sent and
\* never acknowledged.
SettledIsServed ==
  \A m \in Meter :
    <>[](Settled /\ reeval = "idle" /\ m \notin excused \cup gone /\ ~unsure[m])
      => <>[](valve[m] = "open")
=============================================================================
