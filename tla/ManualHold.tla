------------------------------ MODULE ManualHold ------------------------------
(***************************************************************************)
(* A pump that an operator holds on from the dashboard.  The browser posts *)
(* a claim, registers the hold once the server has answered, re-asserts it *)
(* on a cadence and drops it when the shadow says the controller did not   *)
(* follow; the controller keeps a claim only for a lease.  Between the two *)
(* lie concurrent POSTs, a broker that keeps messages for a controller     *)
(* that is offline, and snapshots that may be lost.  The controller drops  *)
(* commands that are too old, but only by a clock it trusts.               *)
(*                                                                         *)
(* Time is counted in ticks of the browser's reconcile timer.              *)
(***************************************************************************)
EXTENDS Integers, FiniteSets, Sequences

CONSTANTS
  RECLAIM,              \* HOLD_RECLAIM_MS
  LEASE,                \* claim_lease_s on the controller
  TTL,                  \* COMMAND_TTL_S: the controller drops older commands
  GRACE_FLOOR,          \* HOLD_GRACE_MS
  GRACE_MARGIN,         \* GRACE_MARGIN_MS
  INTERVAL,             \* update_interval, between two snapshots
  RTT,                  \* bound: a POST, and a message to an online controller
  MaxCmds,              \* bound: commands the operator gives
  MaxTopic,             \* bound: messages the broker keeps for the controller
  NoHold, NoEntry

\* HOLD_RECLAIM_MS is half the shortest lease an operator can set.
ASSUME LeaseAssumption ==
  /\ {RECLAIM, LEASE, TTL, INTERVAL, RTT, MaxCmds, MaxTopic} \subseteq Nat \ {0}
  /\ RECLAIM + 3 * RTT < LEASE
\* What the margin is for: the way to the controller and back.
ASSUME GraceAssumption ==
  GRACE_FLOOR \in Nat /\ GRACE_MARGIN \in Nat /\ RTT <= GRACE_MARGIN

NoCmd == 0
Cmd == 1 .. MaxCmds

VARIABLES
  view,                 \* the dashboard shows this site, or is elsewhere
  issued,               \* commands given so far; the last is the newest entry
  entry,                \* the newest lifecycle entry of the actuator's key
  hold,                 \* the sustained claim
  posts,                \* requests under way to the server and back
  topic,                \* the broker's queue for the controller
  link,                 \* the controller is connected
  lease,                \* what is left of the claim on the controller
  latch,                \* the pump guard has tripped
  trusted,              \* the controller's clock has been synchronised since boot
  outcome,              \* the controller's ring of outcomes, per command
  screen,               \* the browser's shadow of all this
  sinceSnap,            \* time since the last snapshot
  calm,                 \* a hold, and nothing went wrong since it was registered
  orphaned,             \* how long the claim has outlived the browser's hold
  overdue               \* meanwhile a claim past its TTL was taken: no trusted clock

browser == <<view, issued, entry, hold>>
device == <<lease, latch, outcome, trusted>>
wire == <<posts, topic, link, sinceSnap>>
vars == <<browser, device, wire, screen, calm, orphaned, overdue>>

\* Mutant: the grace forgets the snapshot interval.
GraceFlat == GRACE_FLOOR

Grace ==
  IF GRACE_FLOOR > INTERVAL + GRACE_MARGIN THEN GRACE_FLOOR
  ELSE INTERVAL + GRACE_MARGIN

Later(n, bound) == IF n < bound THEN n + 1 ELSE n

Outcomes == {"none", "APPLIED", "REFUSED"}
Entry == [cmd : Cmd, on : BOOLEAN, posted : BOOLEAN,
          age : 0 .. TTL + Grace + 1]
Hold == [cmd : Cmd, age : 0 .. Grace + 1, sinceReclaim : 0 .. RECLAIM]
Post == [cmd : Cmd \cup {NoCmd}, on : BOOLEAN, tracked : BOOLEAN,
         published : BOOLEAN, age : 0 .. RTT]
\* A message past its TTL still ages until it is delivered.
Message == [cmd : Cmd \cup {NoCmd}, on : BOOLEAN, age : 0 .. TTL + RTT]

ASSUME NoHoldAssumption == NoHold \notin Hold

Running == lease > 0 /\ ~latch

-----------------------------------------------------------------------------
(* command-confirm.ts: the phase of a node_set, from what the shadow shows. *)

Online == link
Applied(c) == screen.outcome[c] = "APPLIED"
Shown == screen.running

ClaimRefused(c, age) ==
  \/ screen.outcome[c] = "REFUSED"
  \/ screen.outcome[c] = "none" /\ ~Shown /\ Online /\ age > Grace

ReleaseSettled(c, age) ==
  screen.outcome[c] # "none" \/ ~Shown \/ age > TTL

\* refused, confirmed and expired alike end an entry; only pending matters here.
Pending(e) ==
  \/ ~e.posted
  \/ /\ e.on
     /\ ~ClaimRefused(e.cmd, e.age) /\ ~Applied(e.cmd) /\ ~Shown
  \/ ~e.on /\ ~ReleaseSettled(e.cmd, e.age)

Busy == entry # NoEntry /\ Pending(entry)

NewEntry(c, on) == [cmd |-> c, on |-> on, posted |-> FALSE, age |-> 0]
NewPost(c, on, tracked) == [cmd |-> c, on |-> on, tracked |-> tracked,
                            published |-> FALSE, age |-> 0]

-----------------------------------------------------------------------------
(* The operator. *)

Dispatch(on) ==
  /\ view = "here"
  /\ issued < MaxCmds
  /\ issued' = issued + 1
  /\ entry' = NewEntry(issued', on)
  /\ hold' = IF on THEN hold ELSE NoHold
  /\ posts' = posts \cup {NewPost(issued', on, TRUE)}
  /\ calm' = (calm /\ on)
  /\ orphaned' = IF on THEN 0 ELSE orphaned
  /\ overdue' = (overdue /\ ~on)
  /\ UNCHANGED <<view, device, topic, link, sinceSnap, screen>>

\* A card is inert while its command is pending and while the site is offline.
ToggleClaim == ~Busy /\ Online /\ Dispatch(hold = NoHold)

\* "Stop all" releases every actuator, whatever is pending.
StopAll == Dispatch(FALSE)

\* The dashboard is pointed at another site or destroyed, or comes back.  Away,
\* nothing it does reaches this controller, and coming back starts from nothing.
SwitchSite ==
  /\ view' = IF view = "here" THEN "away" ELSE "here"
  /\ hold' = NoHold
  /\ entry' = NoEntry
  /\ calm' = FALSE
  /\ UNCHANGED <<issued, device, wire, screen, orphaned, overdue>>

-----------------------------------------------------------------------------
(* The server and the answers to the POSTs, in any order. *)

Publish(p) ==
  /\ ~p.published /\ Len(topic) < MaxTopic
  /\ topic' = Append(topic, [cmd |-> p.cmd, on |-> p.on, age |-> 0])
  /\ posts' = (posts \ {p}) \cup
              {[q EXCEPT !.published = TRUE] : q \in {r \in {p} : r.tracked}}
  /\ UNCHANGED <<browser, device, link, sinceSnap, screen, calm, orphaned, overdue>>

\* The hold is registered by the answer: the operator may have given another
\* command since, or have been away.
Answer(p) ==
  /\ p.tracked /\ p.published
  /\ posts' = posts \ {p}
  /\ IF view = "here"
     THEN /\ entry' = IF p.cmd = issued
                      THEN [NewEntry(p.cmd, p.on) EXCEPT !.posted = TRUE,
                                                         !.age = p.age]
                      ELSE entry
          /\ hold' = IF p.on THEN [cmd |-> p.cmd, age |-> 0, sinceReclaim |-> 0]
                     ELSE hold
          /\ calm' = IF p.on THEN link /\ outcome[p.cmd] # "REFUSED" ELSE calm
     ELSE UNCHANGED <<entry, hold, calm>>
  /\ UNCHANGED <<view, issued, device, topic, link, sinceSnap, screen,
                 orphaned, overdue>>

\* A POST fails on its way there or on its way back.
Fail(p) ==
  /\ posts' = posts \ {p}
  /\ entry' = IF p.cmd = issued /\ p.tracked THEN NoEntry ELSE entry
  /\ calm' = FALSE
  /\ UNCHANGED <<view, issued, hold, device, topic, link, sinceSnap, screen,
                 orphaned, overdue>>

-----------------------------------------------------------------------------
(* The controller. *)

\* The first sync of the clock since the boot.
SyncTime ==
  /\ ~trusted
  /\ trusted' = TRUE
  /\ UNCHANGED <<browser, wire, lease, latch, outcome, screen, calm, orphaned, overdue>>

\* Mutant: no TTL gate.
StaleNever(msg) == FALSE

\* Without a trusted clock the TTL gate lets everything through.  (The server
\* stamps every command, so issued_at is never 0 on this lane.)
Stale(msg) == trusted /\ msg.age > TTL
Extended(left) == LEASE

\* sourceLow: the pump's precheck refuses the claim.
Receive(sourceLow) ==
  /\ link /\ topic # <<>>
  /\ LET msg == Head(topic)
         stale == Stale(msg)
         taken == msg.on /\ ~stale /\ ~sourceLow
         result == IF stale \/ (msg.on /\ sourceLow) THEN "REFUSED"
                   ELSE "APPLIED"
     IN /\ lease' = IF taken THEN Extended(lease)
                    ELSE IF ~msg.on /\ ~stale THEN 0 ELSE lease
        /\ latch' = (latch /\ (msg.on \/ stale))
        /\ outcome' = [c \in Cmd |-> IF c = msg.cmd THEN result ELSE outcome[c]]
        /\ calm' = (calm /\ result = "APPLIED")
        /\ overdue' = (overdue \/ (taken /\ msg.age > TTL /\ ~trusted))
  /\ topic' = Tail(topic)
  /\ orphaned' = IF lease' = 0 THEN 0 ELSE orphaned
  /\ UNCHANGED <<browser, posts, link, sinceSnap, screen, trusted>>

GuardTrips ==
  /\ Running
  /\ latch' = TRUE
  /\ UNCHANGED <<browser, wire, lease, outcome, trusted, screen, calm, orphaned,
                 overdue>>

\* Outcomes are merged into the browser's map; nothing is taken out of it.
Snapshot ==
  /\ link
  /\ screen' = [running |-> Running,
                outcome |-> [c \in Cmd |-> IF outcome[c] = "none"
                                           THEN screen.outcome[c]
                                           ELSE outcome[c]]]
  /\ sinceSnap' = 0
  /\ UNCHANGED <<browser, device, posts, topic, link, calm, orphaned, overdue>>

LoseSnapshot ==
  /\ link /\ sinceSnap = INTERVAL
  /\ sinceSnap' = 0
  /\ calm' = FALSE
  /\ UNCHANGED <<browser, device, posts, topic, link, screen, orphaned, overdue>>

Disconnect ==
  /\ link
  /\ link' = FALSE
  /\ calm' = FALSE
  /\ UNCHANGED <<browser, device, posts, topic, sinceSnap, screen, orphaned, overdue>>

Reconnect ==
  /\ ~link
  /\ link' = TRUE
  /\ UNCHANGED <<browser, device, posts, topic, sinceSnap, screen, calm,
                 orphaned, overdue>>

-----------------------------------------------------------------------------
(* One tick: time passes everywhere and the browser reconciles. *)

OlderHold ==
  [hold EXCEPT !.age = Later(@, Grace + 1), !.sinceReclaim = Later(@, RECLAIM)]

\* An entry that is settled goes; how long its result lingers is left out.
OlderEntry ==
  IF entry = NoEntry \/ ~entry.posted THEN entry
  ELSE LET e == [entry EXCEPT
                   !.age = Later(@, 1 + IF entry.on THEN Grace ELSE TTL)]
       IN  IF Pending(e) THEN e ELSE NoEntry

OlderPosts == {[p EXCEPT !.age = @ + 1] : p \in posts}

\* Mutant: nothing is re-asserted while the pump is seen running.
ReclaimWhenOff(h) == h.sinceReclaim = RECLAIM /\ ~Shown

\* 15 s after the last one, and whatever the presence: an offline send is harmless.
ReclaimDue(h) == h.sinceReclaim = RECLAIM

Reconcile ==
  IF hold = NoHold
  THEN /\ entry' = OlderEntry
       /\ posts' = OlderPosts
       /\ UNCHANGED hold
  ELSE LET h == OlderHold
           due == ReclaimDue(h)
       IN IF ClaimRefused(h.cmd, h.age)
          THEN /\ hold' = NoHold
               /\ entry' = NoEntry
               /\ posts' = OlderPosts \cup {NewPost(NoCmd, FALSE, FALSE)}
          ELSE /\ hold' = IF due THEN [h EXCEPT !.sinceReclaim = 0] ELSE h
               /\ entry' = OlderEntry
               /\ posts' = OlderPosts \cup
                    (IF due THEN {NewPost(h.cmd, TRUE, FALSE)} ELSE {})

\* prune_ drops a claim whose lease is over, and the guard forgets its latch.
Holding ==
  hold # NoHold \/ \E p \in posts : p.on /\ ~p.published

Tick ==
  /\ \A p \in posts : p.age < RTT
  /\ link => sinceSnap < INTERVAL /\ \A i \in DOMAIN topic : topic[i].age < RTT
  /\ Reconcile
  /\ topic' = [i \in DOMAIN topic |->
                 [topic[i] EXCEPT !.age = Later(@, TTL + RTT)]]
  /\ lease' = IF lease = 0 THEN 0 ELSE lease - 1
  /\ latch' = (latch /\ lease' > 0)
  /\ sinceSnap' = Later(sinceSnap, INTERVAL)
  /\ orphaned' = IF lease' = 0 \/ Holding THEN 0
                 ELSE Later(orphaned, TTL + LEASE + 1)
  /\ overdue' = (overdue /\ orphaned' > 0)
  /\ calm' = (calm /\ hold' # NoHold)
  /\ UNCHANGED <<view, issued, link, outcome, trusted, screen>>

-----------------------------------------------------------------------------
Init ==
  /\ view = "here" /\ issued = 0
  /\ entry = NoEntry
  /\ hold = NoHold
  /\ posts = {} /\ topic = <<>> /\ link = TRUE
  /\ lease = 0 /\ latch = FALSE
  /\ outcome = [c \in Cmd |-> "none"]
  /\ screen = [running |-> FALSE, outcome |-> outcome]
  /\ trusted = FALSE
  /\ sinceSnap = 0 /\ calm = FALSE /\ orphaned = 0 /\ overdue = FALSE

Operator == ToggleClaim \/ StopAll \/ SwitchSite

Server == \E p \in posts : Publish(p) \/ Answer(p) \/ Fail(p)

Controller ==
  \/ \E sourceLow \in BOOLEAN : Receive(sourceLow)
  \/ SyncTime \/ GuardTrips \/ Snapshot \/ LoseSnapshot \/ Disconnect \/ Reconnect

Next == Operator \/ Server \/ Controller \/ Tick

Spec == Init /\ [][Next]_vars

-----------------------------------------------------------------------------
\* Every variable keeps its type; the requests and messages under way are
\* commands that were given, re-assertions of one, or untracked releases.
TypeOK ==
  /\ view \in {"here", "away"} /\ issued \in 0 .. MaxCmds
  /\ entry \in Entry \cup {NoEntry}
  /\ hold \in Hold \cup {NoHold}
  /\ posts \subseteq Post /\ topic \in Seq(Message)
  /\ link \in BOOLEAN /\ lease \in 0 .. LEASE /\ latch \in BOOLEAN
  /\ outcome \in [Cmd -> Outcomes]
  /\ screen \in [running : BOOLEAN, outcome : [Cmd -> Outcomes]]
  /\ sinceSnap \in 0 .. INTERVAL /\ calm \in BOOLEAN
  /\ orphaned \in 0 .. TTL + LEASE + 1
  /\ trusted \in BOOLEAN /\ overdue \in BOOLEAN

\* "stopping the re-asserts IS the actuator fail-safe": once the browser holds
\* nothing and asks for nothing, a claim survives at most one lease after the
\* last message that may still count, whatever the broker kept, reordered POSTs,
\* failed releases and answers to a page that was left did; unless meanwhile a
\* controller without a trusted clock took a claim older than the TTL.
OrphanedClaimEnds == orphaned <= TTL + LEASE \/ overdue

\* "a hold never lapses": as long as nothing goes wrong the re-assertions reach
\* the controller before the lease of a claim it has accepted runs out, though
\* the hold is registered later than the claim is accepted.
HoldNeverLapses ==
  [][(/\ hold # NoHold /\ calm
      /\ outcome[hold.cmd] = "APPLIED"
      /\ lease > 0 /\ Len(topic') = Len(topic)) => lease' > 0]_vars

\* "a held claim is never judged blocked before the device's next periodic
\* snapshot could re-confirm it": while nothing goes wrong, the browser gives up
\* a hold by itself only if the controller has refused it or never answered for it.
NoFalseBlock ==
  [][(/\ hold # NoHold /\ hold' = NoHold
      /\ view' = view /\ issued' = issued /\ calm)
        => outcome[hold.cmd] # "APPLIED"]_vars
=============================================================================
