---------------------------- MODULE Coordination ----------------------------
(***************************************************************************)
(* A route of one controller that needs an actuator of another: the        *)
(* importer's proxy claims the node over UDP broadcast, again at every     *)
(* heartbeat; the owner keeps a registry of leases, drives the actuator    *)
(* while one of them is live, and broadcasts who holds it; the importer    *)
(* shows a light while it finds itself in that receipt.  Datagrams are     *)
(* lost, doubled and overtaken; each carries its sender's counter, which   *)
(* the receiver uses to take each at most once, and which a reboot resets. *)
(* One unit of time is one heartbeat.                                      *)
(***************************************************************************)
EXTENDS Naturals, FiniteSets

CONSTANTS
  Window,               \* a counter that falls back further is a reboot (4096)
  Lease,                \* claim_lease_s, in heartbeats
  ConfirmTimeout,       \* confirm_timeout_ms_, in heartbeats
  ImporterMax,          \* bound: frames the importer sends between two boots
  OwnerMax,             \* bound: frames the owner sends between two boots
  MaxAir,               \* bound: datagrams on the way
  MaxBoots,             \* bound: reboots
  Never                 \* no counter seen yet

ASSUME CoordinationAssumption ==
  /\ {Window, Lease, ConfirmTimeout, ImporterMax, OwnerMax, MaxAir, MaxBoots} \subseteq Nat
  /\ 0 < ConfirmTimeout /\ 0 < Lease
  /\ Never \notin Nat

Ctl == {"importer", "owner"}
Peer(p) == CHOOSE q \in Ctl : q # p
Counter == 1 .. IF ImporterMax > OwnerMax THEN ImporterMax ELSE OwnerMax

VARIABLES
  ctr, seen,            \* send_ctr_, and seen_ of the other controller
  air,                  \* datagrams on the way
  due,                  \* whose 10 s interval has still to run in this unit
  on,                   \* the proxy: switch state, or position above one half
  lease,                \* the peer's claim in registry_: heartbeats left, 0 when none
  light, confirmed,     \* cc_<node>, and the age of the last confirmation
  boots,                \* [Ctl -> reboots]
  offFor, unheldFor,    \* units since the proxy was on; since the peer held
  taken, deaf           \* the last frame accepted; those refused since a boot

vars == <<ctr, seen, air, due, on, lease, light, confirmed, boots, offFor,
          unheldFor, taken, deaf>>

Frame == [from : Ctl, t : {"claim", "release", "reading", "held"}, c : Counter,
          boot : 0 .. MaxBoots, late : BOOLEAN, mine : BOOLEAN]

-----------------------------------------------------------------------------
Up(n, top) == IF n < top THEN n + 1 ELSE top
\* Mutant: a lease that has run out goes on counting.
DownBelow(n) == n - 1
Down(n) == IF n > 0 THEN n - 1 ELSE 0

\* has_live_claim, claimants_csv: an expired lease is pruned by the reader.
Held == lease > 0

\* Mutant: the window is one frame short.
VerifyShort(last, c) == last = Never \/ c > last \/ last - c >= Window
\* Mutant: a counter that fell back is never a reboot.
VerifyAhead(last, c) == last = Never \/ c > last
\* verify: each counter once, unless it has fallen far back.
Verify(last, c) == last = Never \/ c > last \/ last - c > Window

\* Mutant: the light is only switched by receipts.
NeverStale(age) == FALSE
\* confirm_stale
ConfirmStale(age) == age >= ConfirmTimeout

-----------------------------------------------------------------------------
(* Sending: the counter goes up, whether or not the datagram gets through. *)
(* None is overtaken by more than Window others of its sender: 4096 frames *)
(* take hours.                                                             *)

Send(p, t) ==
  /\ ctr[p] < (IF p = "importer" THEN ImporterMax ELSE OwnerMax)
  /\ ctr' = [ctr EXCEPT ![p] = @ + 1]
  /\ air' = {f \in air : f.from = p => ctr'[p] - f.c <= Window} \cup
            {[from |-> p, t |-> t, c |-> ctr[p] + 1, boot |-> boots[p],
                       late |-> FALSE, mine |-> t = "held" /\ Held]}
  /\ Cardinality(air') <= MaxAir

\* turn_on_action, open_action
TurnOn ==
  /\ on' = TRUE /\ offFor' = 0
  /\ Send("importer", "claim")
  /\ UNCHANGED <<seen, due, lease, light, confirmed, boots, unheldFor, taken, deaf>>

\* turn_off_action, close_action
TurnOff ==
  /\ on' = FALSE
  /\ Send("importer", "release")
  /\ UNCHANGED <<seen, due, lease, light, confirmed, boots, offFor, unheldFor, taken, deaf>>

\* stop_action of a cover: a release, but the position stays what it was.
StopCover ==
  /\ Send("importer", "release")
  /\ UNCHANGED <<seen, due, on, lease, light, confirmed, boots, offFor, unheldFor,
                 taken, deaf>>

\* Mutant: the interval claims whatever the proxy's state.
ClaimingAlways == TRUE
\* The condition of the lease interval.
Claiming == on

\* The lease interval of the proxy, and the owner's broadcast interval.
Heartbeat(p) ==
  /\ p \in due
  /\ due' = due \ {p}
  /\ IF p = "importer" /\ ~Claiming THEN UNCHANGED <<ctr, air>>
     ELSE Send(p, IF p = "importer" THEN "claim" ELSE "held")
  /\ UNCHANGED <<seen, on, lease, light, confirmed, boots, offFor, unheldFor, taken, deaf>>

\* A reading, or a frame about another node that the receiver verifies too.
SendReading(p) ==
  /\ Send(p, "reading")
  /\ UNCHANGED <<seen, due, on, lease, light, confirmed, boots, offFor, unheldFor,
                 taken, deaf>>

-----------------------------------------------------------------------------
(* Receiving.                                                              *)

\* publish_held: a receipt that lists us restarts the clock, any sets the light.
Apply(f) ==
  /\ lease' = CASE f.t = "claim" -> Lease [] f.t = "release" -> 0 [] OTHER -> lease
  /\ IF f.t = "held"
     THEN light' = f.mine /\ confirmed' = (IF f.mine THEN 0 ELSE confirmed)
     ELSE UNCHANGED <<light, confirmed>>

\* Frames of this boot of the sender that were refused before any was accepted.
Refused(r, f) ==
  IF f.boot = boots[f.from] /\ (taken[r] = Never \/ taken[r].boot < f.boot)
  THEN deaf[r] \cup {f.c} ELSE deaf[r]

\* decode and the dispatch lambda; the datagram may come once more.
Deliver(f, again) ==
  LET r == Peer(f.from) IN
  /\ air' = IF again THEN air ELSE air \ {f}
  /\ IF Verify(seen[r], f.c)
     THEN /\ seen' = [seen EXCEPT ![r] = f.c]
          /\ taken' = [taken EXCEPT ![r] = [boot |-> f.boot, c |-> f.c]]
          /\ deaf' = [deaf EXCEPT ![r] = {}]
          /\ Apply(f)
          /\ unheldFor' = IF f.t = "claim" THEN 0 ELSE unheldFor
     ELSE /\ deaf' = [deaf EXCEPT ![r] = Refused(r, f)]
          /\ UNCHANGED <<seen, taken, lease, light, confirmed, unheldFor>>
  /\ UNCHANGED <<ctr, due, on, boots, offFor>>

Lose(f) ==
  /\ air' = air \ {f}
  /\ UNCHANGED <<ctr, seen, due, on, lease, light, confirmed, boots, offFor,
                 unheldFor, taken, deaf>>

-----------------------------------------------------------------------------
\* A unit of time: the lease runs down, the importer's loop judges its light, and a
\* datagram is on its way for at most two units.
Tick ==
  /\ due = {}
  /\ due' = Ctl
  /\ lease' = Down(lease)
  /\ confirmed' = Up(confirmed, ConfirmTimeout)
  /\ light' = (light /\ ~ConfirmStale(confirmed'))
  /\ air' = {[f EXCEPT !.late = TRUE] : f \in {g \in air : ~g.late}}
  /\ offFor' = IF on THEN 0 ELSE Up(offFor, Lease + 2)
  /\ unheldFor' = IF Held THEN 0 ELSE Up(unheldFor, ConfirmTimeout + 2)
  /\ UNCHANGED <<ctr, seen, on, boots, taken, deaf>>

\* Everything was in RAM.  No datagram outlasts a boot.
Reboot(p) ==
  /\ boots["importer"] + boots["owner"] < MaxBoots
  /\ boots' = [boots EXCEPT ![p] = @ + 1]
  /\ ctr' = [ctr EXCEPT ![p] = 0]
  /\ seen' = [seen EXCEPT ![p] = Never]
  /\ taken' = [taken EXCEPT ![p] = Never]
  /\ deaf' = [q \in Ctl |-> {}]
  /\ air' = {}
  /\ IF p = "importer"
     THEN on' = FALSE /\ light' = FALSE /\ confirmed' = ConfirmTimeout /\ UNCHANGED lease
     ELSE lease' = 0 /\ UNCHANGED <<on, light, confirmed>>
  /\ UNCHANGED <<due, offFor, unheldFor>>

-----------------------------------------------------------------------------
Init ==
  /\ ctr = [p \in Ctl |-> 0] /\ seen = [p \in Ctl |-> Never]
  /\ air = {} /\ due = {}
  /\ on = FALSE /\ lease = 0
  /\ light = FALSE /\ confirmed = ConfirmTimeout
  /\ boots = [p \in Ctl |-> 0]
  /\ offFor = Lease + 2 /\ unheldFor = ConfirmTimeout + 2
  /\ taken = [p \in Ctl |-> Never] /\ deaf = [p \in Ctl |-> {}]

Importer == TurnOn \/ TurnOff \/ StopCover

Network == \E f \in air : Lose(f) \/ \E again \in BOOLEAN : Deliver(f, again)

Next ==
  \/ Importer \/ Network \/ Tick
  \/ \E p \in Ctl : Heartbeat(p) \/ SendReading(p) \/ Reboot(p)

Spec == Init /\ [][Next]_vars

-----------------------------------------------------------------------------
(* Properties.                                                             *)

\* Counters, the lease and datagrams are what their types say.
TypeOK ==
  /\ ctr \in [Ctl -> Counter \cup {0}] /\ seen \in [Ctl -> Counter \cup {Never}]
  /\ air \subseteq Frame /\ Cardinality(air) <= MaxAir /\ due \subseteq Ctl
  /\ on \in BOOLEAN /\ lease \in 0 .. Lease
  /\ light \in BOOLEAN /\ confirmed \in 0 .. ConfirmTimeout
  /\ boots \in [Ctl -> 0 .. MaxBoots]
  /\ offFor \in 0 .. Lease + 2 /\ unheldFor \in 0 .. ConfirmTimeout + 2
  /\ taken \in [Ctl -> [boot : 0 .. MaxBoots, c : Counter] \cup {Never}]
  /\ deaf \in [Ctl -> SUBSET Counter]

\* claims.h: "losing a writer stops the actuator": once the proxy is off, by hand
\* or by a crash, the owner's claim ends within a lease, the way of the last
\* datagram included.
SilenceStops == Held => offFor <= Lease

\* The light never outlasts the owner's claim by more than the timeout, the way
\* of the last receipt included, whatever is lost and whoever reboots.
LightIsHonest == light => unheldFor <= ConfirmTimeout

\* architecture.md: "order by sequence, not arrival": what a controller accepts
\* between two boots of its own was sent in that order, each frame once.
TakenInOrder ==
  [][\A r \in Ctl : taken'[r] # taken[r] /\ Never \notin {taken[r], taken'[r]} =>
       \/ taken'[r].boot > taken[r].boot
       \/ taken'[r].boot = taken[r].boot /\ taken'[r].c > taken[r].c]_vars

\* After a boot of its sender a controller refuses Window + 1 frames at most
\* before it hears it again, whichever others are lost.
HeardAfterBoot == \A r \in Ctl : Cardinality(deaf[r]) <= Window + 1
=============================================================================
