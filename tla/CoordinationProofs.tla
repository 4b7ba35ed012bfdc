-------------------------- MODULE CoordinationProofs --------------------------
(***************************************************************************)
(* Proofs about Coordination for every lease, timeout, replay window and   *)
(* bound.  A claim on the way carries with it how long the proxy may have  *)
(* been off since it was sent, and a receipt how long the owner may have   *)
(* ceased to hold: InAir.  From there these two ages pass into the lease   *)
(* and into the light: Leased, Lit.  What a controller has accepted or     *)
(* refused is related to the counter of the sender's present boot: Heard.  *)
(***************************************************************************)
EXTENDS Coordination, TLAPS, FiniteSetTheorems

Typed == TypeOK /\ IsFiniteSet(air)

\* A datagram is of its sender's present boot, not far behind its counter, and
\* at most one unit older than what it says.
Fresh(f) ==
  /\ f.boot = boots[f.from]
  /\ f.c <= ctr[f.from] /\ ctr[f.from] - f.c <= Window
  /\ f.t = "claim" => offFor <= IF f.late THEN 1 ELSE 0
  /\ f.t = "held" /\ f.mine => unheldFor <= IF f.late THEN 1 ELSE 0

InAir == \A f \in air : Fresh(f)

Leased ==
  /\ on => offFor = 0
  /\ Held => offFor + lease <= Lease + 1
  /\ Held => unheldFor = 0

Lit == light => confirmed < ConfirmTimeout /\ unheldFor <= confirmed + 1

Known(r) ==
  taken[r] # Never =>
    /\ seen[r] = taken[r].c
    /\ taken[r].boot <= boots[Peer(r)]
    /\ taken[r].boot = boots[Peer(r)] => taken[r].c <= ctr[Peer(r)]

Deaf(r) ==
  /\ seen[r] = Never => deaf[r] = {}
  /\ \A c \in deaf[r] : c <= seen[r] /\ seen[r] - c <= Window

Heard == \A r \in Ctl : Known(r) /\ Deaf(r)

Inv == Typed /\ InAir /\ Leased /\ Lit /\ Heard

-----------------------------------------------------------------------------

\* The constants are natural numbers.
LEMMA ConstantsAreNats ==
  /\ Window \in Nat /\ Lease \in Nat /\ ConfirmTimeout \in Nat
  /\ MaxAir \in Nat /\ MaxBoots \in Nat /\ ImporterMax \in Nat /\ OwnerMax \in Nat
  /\ 0 < ConfirmTimeout /\ 0 < Lease /\ Never \notin Nat
BY CoordinationAssumption

\* There are two controllers, each the other's peer.
LEMMA PeersAreMutual ==
  /\ Peer("importer") = "owner" /\ Peer("owner") = "importer"
  /\ \A p \in Ctl : Peer(p) \in Ctl /\ Peer(p) # p /\ Peer(Peer(p)) = p
<1>1. \A p \in Ctl : \E q \in Ctl : q # p
  BY DEF Ctl
<1>2. \A p \in Ctl : Peer(p) \in Ctl /\ Peer(p) # p
  BY <1>1 DEF Peer
<1> QED
  BY <1>2 DEF Ctl

\* The counters are natural numbers, and a sender that may send has a next one.
LEMMA CountersAreNats ==
  /\ \A c \in Counter \cup {0} : c \in Nat
  /\ 0 \notin Counter /\ Never \notin Counter
  /\ \A n \in Nat : n < ImporterMax \/ n < OwnerMax => n + 1 \in Counter
BY ConstantsAreNats DEF Counter

\* The initial state satisfies the invariant.
LEMMA InitInv == Init => Inv
<1> SUFFICES ASSUME Init PROVE Inv
  OBVIOUS
<1>1. /\ ctr \in [Ctl -> Counter \cup {0}] /\ seen \in [Ctl -> Counter \cup {Never}]
      /\ taken \in [Ctl -> [boot : 0 .. MaxBoots, c : Counter] \cup {Never}]
      /\ deaf \in [Ctl -> SUBSET Counter]
      /\ boots \in [Ctl -> 0 .. MaxBoots]
  BY ConstantsAreNats DEF Init
<1>2. air \subseteq Frame /\ IsFiniteSet(air) /\ Cardinality(air) <= MaxAir
  BY FS_EmptySet, ConstantsAreNats DEF Init
<1>3. /\ due \subseteq Ctl /\ lease \in 0 .. Lease
      /\ confirmed \in 0 .. ConfirmTimeout
      /\ offFor \in 0 .. Lease + 2 /\ unheldFor \in 0 .. ConfirmTimeout + 2
  <2>1. \A n \in Nat : 0 \in 0 .. n /\ n \in 0 .. n
    OBVIOUS
  <2>2. Lease + 2 \in Nat /\ ConfirmTimeout + 2 \in Nat
    BY ConstantsAreNats
  <2> QED
    BY <2>1, <2>2, ConstantsAreNats DEF Init
<1>6. on \in BOOLEAN /\ light \in BOOLEAN
  BY DEF Init
<1>4. InAir /\ Leased /\ Lit
  BY DEF Init, InAir, Leased, Lit, Held
<1>5. Heard
  BY DEF Init, Heard, Known, Deaf
<1> QED
  BY <1>1, <1>2, <1>3, <1>4, <1>5, <1>6 DEF Inv, Typed, TypeOK

-----------------------------------------------------------------------------
(* Sending.                                                                *)

\* Whatever sends a frame and leaves the receiver's state alone keeps the
\* invariant, when a claim is only sent by a proxy that is on.
LEMMA SendInv ==
  ASSUME Inv, NEW p \in Ctl, NEW t \in {"claim", "release", "reading", "held"},
         Send(p, t), due' \subseteq Ctl, on' \in BOOLEAN,
         offFor' \in {offFor, 0}, on' => offFor' = 0, t = "claim" => offFor' = 0,
         UNCHANGED <<seen, lease, light, confirmed, boots, unheldFor, taken, deaf>>
  PROVE  Inv'
<1>0. /\ ctr \in [Ctl -> Counter \cup {0}] /\ boots \in [Ctl -> 0 .. MaxBoots]
      /\ air \subseteq Frame /\ IsFiniteSet(air)
      /\ offFor \in 0 .. Lease + 2 /\ unheldFor \in 0 .. ConfirmTimeout + 2
      /\ lease \in 0 .. Lease /\ confirmed \in 0 .. ConfirmTimeout
  BY DEF Inv, Typed, TypeOK
<1> DEFINE f0 == [from |-> p, t |-> t, c |-> ctr[p] + 1, boot |-> boots[p],
                  late |-> FALSE, mine |-> t = "held" /\ Held]
           kept == {f \in air : f.from = p => ctr'[p] - f.c <= Window}
<1>1. /\ ctr[p] \in Nat /\ ctr[p] + 1 \in Counter
      /\ ctr' = [ctr EXCEPT ![p] = @ + 1]
      /\ ctr' \in [Ctl -> Counter \cup {0}]
  <2>1. ctr[p] \in Nat
    <3>1. ctr[p] \in Counter \cup {0}
      BY <1>0
    <3> QED
      BY <3>1, CountersAreNats
  <2>2. ctr[p] < ImporterMax \/ ctr[p] < OwnerMax
    BY DEF Send
  <2>3. ctr[p] + 1 \in Counter
    BY <2>1, <2>2, CountersAreNats
  <2>4. ctr' = [ctr EXCEPT ![p] = @ + 1]
    BY DEF Send
  <2> QED
    BY <2>1, <2>3, <2>4, <1>0
<1>2. air' = kept \cup {f0} /\ Cardinality(air') <= MaxAir
  BY DEF Send
<1>3. f0 \in Frame
  BY <1>0, <1>1 DEF Frame
<1>4. air' \subseteq Frame /\ IsFiniteSet(air')
  BY <1>0, <1>2, <1>3, FS_Subset, FS_AddElement
<1>5. Typed'
  BY <1>1, <1>2, <1>4, <1>0, ConstantsAreNats DEF Inv, Typed, TypeOK
<1>6. InAir'
  <2> SUFFICES ASSUME NEW f \in air' PROVE Fresh(f)'
    BY DEF InAir
  <2>1. CASE f = f0
    <3>1. f.from = p /\ f.c = ctr[p] + 1 /\ f.boot = boots[p] /\ f.t = t /\ f.late = FALSE
          /\ f.mine = (t = "held" /\ Held)
      BY <2>1
    <3>2. f.boot = boots'[f.from] /\ f.c <= ctr'[f.from] /\ ctr'[f.from] - f.c <= Window
      BY <3>1, <1>0, <1>1, ConstantsAreNats
    <3>3. f.t = "claim" => offFor' <= IF f.late THEN 1 ELSE 0
      BY <3>1
    <3>4. f.t = "held" /\ f.mine => unheldFor' <= IF f.late THEN 1 ELSE 0
      <4>1. Held => unheldFor' = 0
        BY DEF Inv, Leased
      <4>2. f.mine => Held
        BY <3>1
      <4>3. f.late = FALSE
        BY <3>1
      <4> QED
        BY <4>1, <4>2, <4>3
    <3> QED
      BY <3>2, <3>3, <3>4 DEF Fresh
  <2>2. CASE f \in kept
    <3>1. f \in Frame /\ Fresh(f) /\ (f.from = p => ctr'[p] - f.c <= Window)
      BY <2>2, <1>0 DEF Inv, InAir
    <3>2. f.from \in Ctl /\ f.c \in Nat
      BY <3>1, CountersAreNats DEF Frame
    <3>3. f.boot = boots'[f.from] /\ f.c <= ctr'[f.from] /\ ctr'[f.from] - f.c <= Window
      BY <3>1, <3>2, <1>0, <1>1, CountersAreNats, ConstantsAreNats DEF Fresh
    <3>4. offFor' <= offFor /\ unheldFor' = unheldFor
      BY <1>0
    <3> QED
      BY <3>1, <3>3, <3>4, <1>0 DEF Fresh
  <2> QED
    BY <1>2, <2>1, <2>2
<1>7. Leased' /\ Lit'
  <2>1. Held' = Held /\ light' = light /\ confirmed' = confirmed
        /\ unheldFor' = unheldFor /\ lease' = lease
    BY DEF Held
  <2>2. Held => offFor' + lease <= Lease + 1
    <3>1. Held => offFor + lease <= Lease + 1
      BY DEF Inv, Leased
    <3>2. CASE offFor' = offFor
      BY <3>1, <3>2
    <3>3. CASE offFor' = 0
      <4>1. lease <= Lease /\ lease \in Nat /\ Lease \in Nat
        BY <1>0, ConstantsAreNats
      <4>2. 0 + lease <= Lease + 1
        BY ONLY <4>1
      <4> QED
        BY <4>2, <3>3, Zenon
    <3> QED
      BY <3>2, <3>3
  <2> QED
    BY <2>1, <2>2 DEF Inv, Leased, Lit
<1>8. Heard'
  <2> SUFFICES ASSUME NEW r \in Ctl PROVE Known(r)' /\ Deaf(r)'
    BY DEF Heard
  <2>1. Known(r) /\ Deaf(r)
    BY DEF Inv, Heard
  <2>2. taken[r] # Never => taken[r].c \in Nat
    BY CountersAreNats DEF Inv, Typed, TypeOK
  <2>3. Peer(r) \in Ctl /\ ctr[Peer(r)] \in Nat /\ ctr'[Peer(r)] \in Nat
        /\ ctr[Peer(r)] <= ctr'[Peer(r)]
    <3>1. Peer(r) \in Ctl
      BY PeersAreMutual
    <3>2. ctr[Peer(r)] \in Nat
      <4>1. ctr[Peer(r)] \in Counter \cup {0}
        BY <1>0, <3>1
      <4> QED
        BY <4>1, CountersAreNats
    <3>3. ctr'[Peer(r)] = IF Peer(r) = p THEN ctr[Peer(r)] + 1 ELSE ctr[Peer(r)]
      BY <1>0, <1>1, <3>1
    <3> QED
      BY <3>1, <3>2, <3>3
  <2> QED
    BY <2>1, <2>2, <2>3 DEF Known, Deaf
<1> QED
  BY <1>5, <1>6, <1>7, <1>8 DEF Inv

\* The importer's commands keep the invariant.
LEMMA ImporterInv == Inv /\ Importer => Inv'
<1> SUFFICES ASSUME Inv, Importer PROVE Inv'
  OBVIOUS
<1>0. on \in BOOLEAN /\ due \subseteq Ctl /\ (on => offFor = 0) /\ "importer" \in Ctl
  BY DEF Inv, Typed, TypeOK, Leased, Ctl
<1>1. CASE TurnOn
  BY <1>0, <1>1, SendInv DEF TurnOn
<1>2. CASE TurnOff
  BY <1>0, <1>2, SendInv DEF TurnOff
<1>3. CASE StopCover
  BY <1>0, <1>3, SendInv DEF StopCover
<1> QED
  BY <1>1, <1>2, <1>3 DEF Importer

\* So do the two intervals and the readings.
LEMMA HeartbeatInv == ASSUME Inv, NEW p \in Ctl, Heartbeat(p) \/ SendReading(p) PROVE Inv'
<1>0. on \in BOOLEAN /\ due \subseteq Ctl /\ (on => offFor = 0)
  BY DEF Inv, Typed, TypeOK, Leased
<1>1. CASE Heartbeat(p) /\ p = "importer" /\ ~Claiming
  BY <1>1, <1>0 DEF Heartbeat, Inv, Typed, TypeOK, InAir, Fresh, Leased, Lit, Held,
                    Heard, Known, Deaf
<1>2. CASE Heartbeat(p) /\ p = "importer" /\ Claiming
  BY <1>2, <1>0, SendInv DEF Heartbeat, Claiming
<1>3. CASE Heartbeat(p) /\ p # "importer"
  BY <1>3, <1>0, SendInv DEF Heartbeat
<1>4. CASE SendReading(p)
  BY <1>4, <1>0, SendInv DEF SendReading
<1> QED
  BY <1>1, <1>2, <1>3, <1>4

-----------------------------------------------------------------------------
(* The network.                                                            *)

\* Fewer datagrams on the way are still few, typed and fresh.
LEMMA FewerInAir ==
  ASSUME Typed, NEW S, S \subseteq air
  PROVE  S \subseteq Frame /\ IsFiniteSet(S) /\ Cardinality(S) <= MaxAir
<1>1. IsFiniteSet(air) /\ air \subseteq Frame /\ Cardinality(air) <= MaxAir
  BY DEF Typed, TypeOK
<1>2. IsFiniteSet(S) /\ Cardinality(S) <= Cardinality(air)
  BY <1>1, FS_Subset
<1>3. Cardinality(S) \in Nat /\ Cardinality(air) \in Nat
  BY <1>1, <1>2, FS_CardinalityType
<1> QED
  BY <1>1, <1>2, <1>3, ConstantsAreNats

\* Losing a datagram keeps the invariant.
LEMMA LoseInv == ASSUME Inv, NEW f \in air, Lose(f) PROVE Inv'
<1>1. air' \subseteq air
  BY DEF Lose
<1>2. air' \subseteq Frame /\ IsFiniteSet(air') /\ Cardinality(air') <= MaxAir
  BY <1>1, FewerInAir DEF Inv
<1>3. Typed'
  BY <1>2 DEF Lose, Inv, Typed, TypeOK
<1>4. InAir' /\ Leased' /\ Lit' /\ Heard'
  BY <1>1 DEF Lose, Inv, InAir, Fresh, Leased, Lit, Held, Heard, Known, Deaf
<1> QED
  BY <1>3, <1>4 DEF Inv

\* So does delivering one, once or twice: what a claim or a receipt says is as
\* old as its datagram.
LEMMA DeliverInv ==
  ASSUME Inv, NEW f \in air, NEW again \in BOOLEAN, Deliver(f, again) PROVE Inv'
<1> DEFINE r == Peer(f.from)
<1>0. /\ ctr \in [Ctl -> Counter \cup {0}] /\ seen \in [Ctl -> Counter \cup {Never}]
      /\ boots \in [Ctl -> 0 .. MaxBoots]
      /\ taken \in [Ctl -> [boot : 0 .. MaxBoots, c : Counter] \cup {Never}]
      /\ deaf \in [Ctl -> SUBSET Counter] /\ f \in Frame
      /\ offFor \in 0 .. Lease + 2 /\ unheldFor \in 0 .. ConfirmTimeout + 2
      /\ lease \in 0 .. Lease /\ confirmed \in 0 .. ConfirmTimeout
  BY DEF Inv, Typed, TypeOK
<1>1. /\ f.from \in Ctl /\ f.c \in Counter /\ f.c \in Nat /\ f.boot \in 0 .. MaxBoots
      /\ f.late \in BOOLEAN /\ f.mine \in BOOLEAN
      /\ r \in Ctl /\ Peer(r) = f.from
  BY <1>0, PeersAreMutual, CountersAreNats DEF Frame
<1>2. Fresh(f)
  BY DEF Inv, InAir
<1>3. air' \subseteq air
  BY DEF Deliver
<1>4. air' \subseteq Frame /\ IsFiniteSet(air') /\ Cardinality(air') <= MaxAir
  BY <1>3, FewerInAir DEF Inv
<1>5. UNCHANGED <<ctr, due, on, boots, offFor>>
  BY DEF Deliver
<1>6. \A q \in Ctl : seen[q] \in Nat \/ seen[q] = Never
  BY <1>0, CountersAreNats
<1>7. CASE Verify(seen[r], f.c)
  <2>1. /\ seen' = [seen EXCEPT ![r] = f.c]
        /\ taken' = [taken EXCEPT ![r] = [boot |-> f.boot, c |-> f.c]]
        /\ deaf' = [deaf EXCEPT ![r] = {}]
        /\ Apply(f) /\ unheldFor' = IF f.t = "claim" THEN 0 ELSE unheldFor
    BY <1>7 DEF Deliver
  <2>2. lease' = CASE f.t = "claim" -> Lease [] f.t = "release" -> 0 [] OTHER -> lease
    BY <2>1 DEF Apply
  <2>3. /\ f.t = "claim" => lease' = Lease /\ unheldFor' = 0
        /\ f.t = "release" => lease' = 0 /\ unheldFor' = unheldFor
        /\ f.t \notin {"claim", "release"} => lease' = lease /\ unheldFor' = unheldFor
    BY <2>1, <2>2
  <2>4. /\ f.t = "held" => light' = f.mine /\ confirmed' = IF f.mine THEN 0 ELSE confirmed
        /\ f.t # "held" => light' = light /\ confirmed' = confirmed
    BY <2>1 DEF Apply
  <2>5. Typed'
    <3>1. light' \in BOOLEAN
      BY <2>4, <1>1 DEF Inv, Typed, TypeOK
    <3>2. lease' \in 0 .. Lease
      BY <2>3, <1>0, ConstantsAreNats
    <3>3. confirmed' \in 0 .. ConfirmTimeout
      BY <2>4, <1>0, ConstantsAreNats
    <3>4. unheldFor' \in 0 .. ConfirmTimeout + 2
      BY <2>3, <1>0, ConstantsAreNats
    <3>5. /\ seen' \in [Ctl -> Counter \cup {Never}] /\ deaf' \in [Ctl -> SUBSET Counter]
          /\ taken' \in [Ctl -> [boot : 0 .. MaxBoots, c : Counter] \cup {Never}]
      BY <2>1, <1>0, <1>1
    <3> QED
      BY <3>1, <3>2, <3>3, <3>4, <3>5, <1>4, <1>5 DEF Inv, Typed, TypeOK
  <2>6. InAir'
    <3> SUFFICES ASSUME NEW g \in air' PROVE Fresh(g)'
      BY DEF InAir
    <3>1. Fresh(g)
      BY <1>3 DEF Inv, InAir
    <3>2. CASE unheldFor' = unheldFor
      BY <3>1, <3>2, <1>5 DEF Fresh
    <3>3. CASE unheldFor' = 0
      BY <3>1, <3>3, <1>5 DEF Fresh
    <3> QED
      BY <3>2, <3>3, <2>3
  <2>7. Leased'
    <3>1. CASE f.t = "claim"
      <4>1. offFor \in Nat /\ offFor <= 1
        BY <3>1, <1>0, <1>2, ConstantsAreNats DEF Fresh
      <4>2. lease' = Lease /\ unheldFor' = 0
        BY <3>1, <2>3
      <4>3. offFor + Lease <= Lease + 1
        BY <4>1, ConstantsAreNats
      <4> QED
        BY <4>2, <4>3, <1>5 DEF Inv, Leased, Held
    <3>2. CASE f.t = "release"
      BY <3>2, <2>3, <1>5 DEF Inv, Leased, Held
    <3>3. CASE f.t \notin {"claim", "release"}
      BY <3>3, <2>3, <1>5 DEF Inv, Leased, Held
    <3> QED
      BY <3>1, <3>2, <3>3
  <2>8. Lit'
    <3>1. CASE f.t = "held"
      <4>1. unheldFor' = unheldFor
        BY <3>1, <2>3
      <4>2. f.mine => unheldFor <= 1
        BY <3>1, <1>2, <1>0 DEF Fresh
      <4>3. light' = f.mine /\ (f.mine => confirmed' = 0)
        BY <3>1, <2>4
      <4> QED
        BY <4>1, <4>2, <4>3, ConstantsAreNats DEF Lit
    <3>2. CASE f.t # "held"
      <4>1. light' = light /\ confirmed' = confirmed
        BY <3>2, <2>4
      <4>2. unheldFor' = unheldFor \/ unheldFor' = 0
        BY <2>3
      <4> QED
        BY <4>1, <4>2, <1>0, ConstantsAreNats DEF Inv, Lit
    <3> QED
      BY <3>1, <3>2
  <2>9. Heard'
    <3> SUFFICES ASSUME NEW q \in Ctl PROVE Known(q)' /\ Deaf(q)'
      BY DEF Heard
    <3>1. CASE q = r
      <4>1. seen'[q] = f.c /\ taken'[q] = [boot |-> f.boot, c |-> f.c] /\ deaf'[q] = {}
        BY <3>1, <2>1, <1>0, <1>1
      <4> QED
        BY <4>1, <3>1, <1>0, <1>1, <1>2, <1>5, ConstantsAreNats DEF Known, Deaf, Fresh
    <3>2. CASE q # r
      <4>1. seen'[q] = seen[q] /\ taken'[q] = taken[q] /\ deaf'[q] = deaf[q]
        BY <3>2, <2>1, <1>0
      <4> QED
        BY <4>1, <1>5 DEF Inv, Heard, Known, Deaf
    <3> QED
      BY <3>1, <3>2
  <2> QED
    BY <2>5, <2>6, <2>7, <2>8, <2>9 DEF Inv
<1>8. CASE ~Verify(seen[r], f.c)
  <2>1. /\ deaf' = [deaf EXCEPT ![r] = Refused(r, f)]
        /\ UNCHANGED <<seen, taken, lease, light, confirmed, unheldFor>>
    BY <1>8 DEF Deliver
  <2>2. Refused(r, f) \subseteq deaf[r] \cup {f.c}
    BY DEF Refused
  <2>3. Typed'
    <3>1. deaf' \in [Ctl -> SUBSET Counter]
      BY <2>1, <2>2, <1>0, <1>1
    <3> QED
      BY <3>1, <2>1, <1>4, <1>5 DEF Inv, Typed, TypeOK
  <2>4. InAir' /\ Leased' /\ Lit'
    BY <2>1, <1>3, <1>5 DEF Inv, InAir, Fresh, Leased, Lit, Held
  <2>5. Heard'
    <3> SUFFICES ASSUME NEW q \in Ctl PROVE Known(q)' /\ Deaf(q)'
      BY DEF Heard
    <3>1. Known(q) /\ Deaf(q)
      BY DEF Inv, Heard
    <3>2. Known(q)'
      BY <3>1, <2>1, <1>5 DEF Known
    <3>3. CASE q # r
      BY <3>1, <3>2, <3>3, <2>1, <1>0 DEF Deaf
    <3>4. CASE q = r
      <4>1. seen[q] # Never /\ ~(f.c > seen[q]) /\ ~(seen[q] - f.c > Window)
        BY <1>8, <3>4 DEF Verify
      <4>2. seen[q] \in Nat /\ f.c <= seen[q] /\ seen[q] - f.c <= Window
        BY <4>1, <1>1, <1>6, ConstantsAreNats
      <4>3. deaf'[q] \subseteq deaf[q] \cup {f.c}
        BY <3>4, <2>1, <2>2, <1>0
      <4> QED
        BY <3>1, <3>2, <4>1, <4>2, <4>3, <2>1 DEF Deaf
    <3> QED
      BY <3>2, <3>3, <3>4
  <2> QED
    BY <2>3, <2>4, <2>5 DEF Inv
<1> QED
  BY <1>7, <1>8

-----------------------------------------------------------------------------
(* Time and reboots.                                                       *)

\* A unit of time ages what is on the way, the lease and the light alike.
LEMMA TickInv == ASSUME Inv, Tick PROVE Inv'
<1> DEFINE young == {g \in air : ~g.late}
           aged == [f \in young |-> [f EXCEPT !.late = TRUE]]
<1>0. /\ air \subseteq Frame
      /\ offFor \in 0 .. Lease + 2 /\ unheldFor \in 0 .. ConfirmTimeout + 2
      /\ lease \in 0 .. Lease /\ confirmed \in 0 .. ConfirmTimeout
      /\ on \in BOOLEAN /\ light \in BOOLEAN
  BY DEF Inv, Typed, TypeOK
<1>1. /\ UNCHANGED <<ctr, seen, on, boots, taken, deaf>> /\ due' = Ctl
      /\ lease' = Down(lease) /\ confirmed' = Up(confirmed, ConfirmTimeout)
      /\ light' = (light /\ ~ConfirmStale(confirmed'))
      /\ air' = {[f EXCEPT !.late = TRUE] : f \in young}
      /\ offFor' = IF on THEN 0 ELSE Up(offFor, Lease + 2)
      /\ unheldFor' = IF Held THEN 0 ELSE Up(unheldFor, ConfirmTimeout + 2)
  BY DEF Tick
<1>2. air' \subseteq Frame /\ IsFiniteSet(air') /\ Cardinality(air') <= MaxAir
  <2>1. IsFiniteSet(young) /\ Cardinality(young) <= MaxAir
    BY FewerInAir DEF Inv
  <2>2. aged \in Surjection(young, air')
    BY <1>1 DEF Surjection
  <2>3. IsFiniteSet(air') /\ Cardinality(air') <= Cardinality(young)
    BY <2>1, <2>2, FS_Surjection
  <2>4. Cardinality(air') \in Nat /\ Cardinality(young) \in Nat
    BY <2>1, <2>3, FS_CardinalityType
  <2>5. air' \subseteq Frame
    BY <1>0, <1>1 DEF Frame
  <2> QED
    BY <2>1, <2>3, <2>4, <2>5, ConstantsAreNats
<1>3. /\ offFor' \in 0 .. Lease + 2 /\ offFor' <= offFor + 1 /\ (on => offFor' = 0)
      /\ unheldFor' \in 0 .. ConfirmTimeout + 2 /\ unheldFor' <= unheldFor + 1
      /\ (Held => unheldFor' = 0)
  BY <1>0, <1>1, ConstantsAreNats DEF Up
<1>4. lease' \in 0 .. Lease /\ (lease' > 0 => Held /\ lease' = lease - 1)
  BY <1>0, <1>1, ConstantsAreNats DEF Down, Held
<1>5. /\ confirmed' \in 0 .. ConfirmTimeout
      /\ confirmed' < ConfirmTimeout => confirmed' = confirmed + 1
  BY <1>0, <1>1, ConstantsAreNats DEF Up
<1>6. light' => light /\ ~(confirmed' >= ConfirmTimeout)
  BY <1>1 DEF ConfirmStale
<1>7. Typed'
  <2>1. light' \in BOOLEAN
    BY <1>1
  <2> QED
    BY <2>1, <1>1, <1>2, <1>3, <1>4, <1>5 DEF Inv, Typed, TypeOK
<1>8. InAir'
  <2> SUFFICES ASSUME NEW f \in young PROVE Fresh([f EXCEPT !.late = TRUE])'
    BY <1>1 DEF InAir
  <2>0. f \in Frame /\ Fresh(f) /\ ~f.late
    BY <1>0 DEF Inv, InAir
  <2> DEFINE g == [f EXCEPT !.late = TRUE]
  <2>1. g.from = f.from /\ g.t = f.t /\ g.c = f.c /\ g.boot = f.boot /\ g.mine = f.mine
        /\ g.late = TRUE
    BY <2>0 DEF Frame
  <2>2. f.t = "claim" => offFor' <= 1
    <3>1. f.t = "claim" => offFor <= 0
      BY <2>0 DEF Fresh
    <3> QED
      BY <3>1, <1>0, <1>3, ConstantsAreNats
  <2>3. f.t = "held" /\ f.mine => unheldFor' <= 1
    <3>1. f.t = "held" /\ f.mine => unheldFor <= 0
      BY <2>0 DEF Fresh
    <3> QED
      BY <3>1, <1>0, <1>3, ConstantsAreNats
  <2> QED
    BY <2>0, <2>1, <2>2, <2>3, <1>1 DEF Fresh
<1>9. Leased'
  <2>1. on' => offFor' = 0
    BY <1>1, <1>3
  <2>2. lease' > 0 => unheldFor' = 0
    BY <1>3, <1>4
  <2>3. ASSUME lease' > 0 PROVE offFor' + lease' <= Lease + 1
    <3>1. Held /\ lease' = lease - 1
      BY <1>4, <2>3
    <3>2. offFor + lease <= Lease + 1
      BY <3>1 DEF Inv, Leased
    <3>3. /\ offFor \in Nat /\ offFor' \in Nat /\ lease \in Nat /\ Lease \in Nat
          /\ offFor' <= offFor + 1
      BY <1>0, <1>3, ConstantsAreNats
    <3>4. offFor' + (lease - 1) <= Lease + 1
      <4> DEFINE Sum(a, b, n, m) == a <= b + 1 /\ b + n <= m + 1 => a + (n - 1) <= m + 1
      <4>1. \A a, b, n, m \in Nat : Sum(a, b, n, m)
        BY ONLY TRUE
      <4>2. Sum(offFor', offFor, lease, Lease)
        BY <3>3, <4>1, Zenon
      <4> QED
        BY <3>2, <3>3, <4>2, Zenon
    <3> QED
      BY <3>1, <3>4, Zenon
  <2> QED
    BY <2>1, <2>2, <2>3 DEF Leased, Held
<1>10. Lit'
  <2> SUFFICES ASSUME light' PROVE (confirmed < ConfirmTimeout /\ unheldFor <= confirmed + 1)'
    BY DEF Lit
  <2>1. light /\ confirmed' < ConfirmTimeout
    BY <1>5, <1>6, ConstantsAreNats
  <2>2. unheldFor <= confirmed + 1
    BY <2>1 DEF Inv, Lit
  <2> QED
    BY <2>1, <2>2, <1>0, <1>3, <1>5, ConstantsAreNats
<1>11. Heard'
  BY <1>1 DEF Inv, Heard, Known, Deaf
<1> QED
  BY <1>7, <1>8, <1>9, <1>10, <1>11 DEF Inv

\* A reboot forgets on one side and silences the network.
LEMMA RebootInv == ASSUME Inv, NEW p \in Ctl, Reboot(p) PROVE Inv'
<1>0. /\ ctr \in [Ctl -> Counter \cup {0}] /\ seen \in [Ctl -> Counter \cup {Never}]
      /\ boots \in [Ctl -> 0 .. MaxBoots]
      /\ taken \in [Ctl -> [boot : 0 .. MaxBoots, c : Counter] \cup {Never}]
      /\ deaf \in [Ctl -> SUBSET Counter]
      /\ on \in BOOLEAN /\ light \in BOOLEAN
      /\ lease \in 0 .. Lease /\ confirmed \in 0 .. ConfirmTimeout
  BY DEF Inv, Typed, TypeOK
<1>1. /\ boots' = [boots EXCEPT ![p] = @ + 1] /\ ctr' = [ctr EXCEPT ![p] = 0]
      /\ seen' = [seen EXCEPT ![p] = Never] /\ taken' = [taken EXCEPT ![p] = Never]
      /\ deaf' = [q \in Ctl |-> {}] /\ air' = {}
      /\ UNCHANGED <<due, offFor, unheldFor>>
  BY DEF Reboot
<1>2. /\ p = "importer" => /\ on' = FALSE /\ light' = FALSE
                          /\ confirmed' = ConfirmTimeout /\ lease' = lease
      /\ p # "importer" => lease' = 0 /\ UNCHANGED <<on, light, confirmed>>
  BY DEF Reboot
<1>3. boots[p] + 1 <= MaxBoots
  <2>1. boots["importer"] \in Nat /\ boots["owner"] \in Nat
    BY <1>0, ConstantsAreNats DEF Ctl
  <2>2. boots["importer"] + boots["owner"] < MaxBoots
    BY DEF Reboot
  <2> QED
    BY <2>1, <2>2, ConstantsAreNats DEF Ctl
<1>4. boots' \in [Ctl -> 0 .. MaxBoots]
  <2>1. boots[p] + 1 \in 0 .. MaxBoots
    BY <1>0, <1>3, ConstantsAreNats
  <2> QED
    BY <2>1, <1>0, <1>1
<1>5. Typed'
  <2>1. air' \subseteq Frame /\ IsFiniteSet(air') /\ Cardinality(air') <= MaxAir
    BY <1>1, FS_EmptySet, ConstantsAreNats
  <2>2. /\ ctr' \in [Ctl -> Counter \cup {0}] /\ seen' \in [Ctl -> Counter \cup {Never}]
        /\ taken' \in [Ctl -> [boot : 0 .. MaxBoots, c : Counter] \cup {Never}]
        /\ deaf' \in [Ctl -> SUBSET Counter]
    BY <1>0, <1>1
  <2>3. lease' \in 0 .. Lease /\ confirmed' \in 0 .. ConfirmTimeout
    BY <1>0, <1>2, ConstantsAreNats
  <2>4. on' \in BOOLEAN /\ light' \in BOOLEAN
    BY <1>0, <1>2
  <2> QED
    BY <2>1, <2>2, <2>3, <2>4, <1>1, <1>4 DEF Inv, Typed, TypeOK
<1>6. InAir' /\ Leased' /\ Lit'
  BY <1>1, <1>2 DEF Inv, InAir, Leased, Lit, Held
<1>7. Heard'
  <2> SUFFICES ASSUME NEW q \in Ctl PROVE Known(q)' /\ Deaf(q)'
    BY DEF Heard
  <2>1. Deaf(q)'
    BY <1>1 DEF Deaf
  <2>2. CASE q = p
    BY <2>1, <2>2, <1>0, <1>1 DEF Known
  <2>3. CASE q # p
    <3>1. Peer(q) = p /\ seen'[q] = seen[q] /\ taken'[q] = taken[q]
      BY <2>3, <1>0, <1>1, PeersAreMutual DEF Ctl
    <3>2. Known(q) /\ boots'[p] = boots[p] + 1 /\ boots[p] \in Nat
      BY <1>0, <1>1, ConstantsAreNats DEF Inv, Heard
    <3>3. taken[q] # Never => taken[q].boot \in Nat
      BY <1>0, ConstantsAreNats
    <3> QED
      BY <2>1, <3>1, <3>2, <3>3 DEF Known
  <2> QED
    BY <2>2, <2>3
<1> QED
  BY <1>5, <1>6, <1>7 DEF Inv

-----------------------------------------------------------------------------
(* The results.                                                            *)

\* The invariant is inductive.
LEMMA NextInv == Inv /\ [Next]_vars => Inv'
<1> SUFFICES ASSUME Inv, [Next]_vars PROVE Inv'
  OBVIOUS
<1>1. CASE Importer
  BY <1>1, ImporterInv
<1>2. CASE Network
  BY <1>2, LoseInv, DeliverInv DEF Network
<1>3. CASE Tick
  BY <1>3, TickInv
<1>4. CASE \E p \in Ctl : Heartbeat(p) \/ SendReading(p) \/ Reboot(p)
  BY <1>4, HeartbeatInv, RebootInv
<1>5. CASE UNCHANGED vars
  BY <1>5 DEF vars, Inv, Typed, TypeOK, InAir, Fresh, Leased, Lit, Held, Heard,
              Known, Deaf
<1> QED
  BY <1>1, <1>2, <1>3, <1>4, <1>5 DEF Next

LEMMA SpecInv == Spec => []Inv
BY InitInv, NextInv, PTL DEF Spec

\* The state is what its types say, for all constants.
THEOREM CoordinationTyped == Spec => []TypeOK
<1>1. Inv => TypeOK
  BY DEF Inv, Typed
<1> QED
  BY <1>1, SpecInv, PTL

\* Losing the proxy, by hand or by a crash, ends the owner's claim within a lease,
\* for all leases and whatever the network does: a claim is as old as its way.
THEOREM ClaimEndsInSilence == Spec => []SilenceStops
<1>1. Inv => SilenceStops
  <2> SUFFICES ASSUME Inv, Held PROVE offFor <= Lease
    BY DEF SilenceStops
  <2>1. offFor \in Nat /\ lease \in Nat /\ Lease \in Nat
    BY ConstantsAreNats DEF Inv, Typed, TypeOK
  <2>2. lease > 0 /\ offFor + lease <= Lease + 1
    BY DEF Inv, Leased, Held
  <2> QED
    BY ONLY <2>1, <2>2
<1> QED
  BY <1>1, SpecInv, PTL

\* The importer's light is never shown longer than the timeout after the owner's
\* claim has ended, for all timeouts.
THEOREM LightFollowsClaim == Spec => []LightIsHonest
<1>1. Inv => LightIsHonest
  <2> SUFFICES ASSUME Inv, light PROVE unheldFor <= ConfirmTimeout
    BY DEF LightIsHonest
  <2>1. unheldFor \in Nat /\ confirmed \in Nat /\ ConfirmTimeout \in Nat
    BY ConstantsAreNats DEF Inv, Typed, TypeOK
  <2>2. confirmed < ConfirmTimeout /\ unheldFor <= confirmed + 1
    BY DEF Inv, Lit
  <2> QED
    BY ONLY <2>1, <2>2
<1> QED
  BY <1>1, SpecInv, PTL

\* The frames refused since a boot of their sender lie in one window below the
\* counter last accepted, so there are no more than Window + 1 of them.
THEOREM DeafnessIsBounded == Spec => []HeardAfterBoot
<1>1. Inv => HeardAfterBoot
  <2> SUFFICES ASSUME Inv, NEW r \in Ctl PROVE Cardinality(deaf[r]) <= Window + 1
    BY DEF HeardAfterBoot
  <2>1. /\ deaf[r] \subseteq Counter /\ (seen[r] = Never \/ seen[r] \in Nat) /\ Deaf(r)
        /\ \A c \in deaf[r] : c \in Nat
    BY CountersAreNats DEF Inv, Typed, TypeOK, Heard
  <2>2. CASE seen[r] = Never
    <3>1. deaf[r] = {} /\ Cardinality({}) = 0
      BY <2>1, <2>2, FS_EmptySet DEF Deaf
    <3>2. 0 <= Window + 1
      BY ConstantsAreNats
    <3> QED
      BY <3>1, <3>2
  <2>3. CASE seen[r] \in Nat
    <3> DEFINE low == seen[r] - Window
    <3>1. deaf[r] \subseteq low .. seen[r]
      BY <2>1, <2>3, ConstantsAreNats DEF Deaf
    <3>2. low \in Int /\ seen[r] \in Int /\ low <= seen[r] /\ seen[r] - low + 1 = Window + 1
      BY <2>3, ConstantsAreNats
    <3>3. IsFiniteSet(low .. seen[r]) /\ Cardinality(low .. seen[r]) = Window + 1
      BY SMTT(20), <3>2, FS_Interval
    <3> QED
      BY ZenonT(30), <3>1, <3>3, FS_Subset
  <2> QED
    BY <2>1, <2>2, <2>3
<1> QED
  BY <1>1, SpecInv, PTL

\* Whatever is doubled, overtaken or lost, and whoever reboots, a controller
\* accepts the frames of its peer in the order in which they were sent.
THEOREM FramesTakenInOrder == Spec => TakenInOrder
<1> DEFINE Later == \A r \in Ctl :
      taken'[r] # taken[r] /\ Never \notin {taken[r], taken'[r]} =>
        \/ taken'[r].boot > taken[r].boot
        \/ taken'[r].boot = taken[r].boot /\ taken'[r].c > taken[r].c
<1>1. Inv /\ [Next]_vars => [Later]_vars
  <2> SUFFICES ASSUME Inv, [Next]_vars, NEW r \in Ctl, taken'[r] # taken[r],
                      taken[r] # Never, taken'[r] # Never
               PROVE  \/ taken'[r].boot > taken[r].boot
                      \/ taken'[r].boot = taken[r].boot /\ taken'[r].c > taken[r].c
    OBVIOUS
  <2>0. taken \in [Ctl -> [boot : 0 .. MaxBoots, c : Counter] \cup {Never}]
    BY DEF Inv, Typed, TypeOK
  <2>1. ~\E p \in Ctl : Reboot(p)
    BY <2>0 DEF Reboot
  <2>2. PICK f \in air : \E again \in BOOLEAN : Deliver(f, again)
    BY <2>1 DEF Next, vars, Importer, TurnOn, TurnOff, StopCover, Network, Lose, Tick,
                Heartbeat, SendReading
  <2>3. /\ Verify(seen[Peer(f.from)], f.c)
        /\ taken' = [taken EXCEPT ![Peer(f.from)] = [boot |-> f.boot, c |-> f.c]]
    BY <2>2 DEF Deliver
  <2>4. f \in Frame /\ Fresh(f) /\ f.from \in Ctl /\ f.c \in Nat
    BY CountersAreNats DEF Inv, Typed, TypeOK, InAir, Frame
  <2>5. r = Peer(f.from) /\ Peer(r) = f.from /\ taken'[r] = [boot |-> f.boot, c |-> f.c]
    BY <2>0, <2>3, <2>4, PeersAreMutual
  <2>6. /\ seen[r] = taken[r].c /\ taken[r].boot <= f.boot
        /\ taken[r].boot = f.boot => taken[r].c <= ctr[f.from]
    BY <2>4, <2>5 DEF Inv, Heard, Known, Fresh
  <2>7. taken[r].c \in Nat /\ taken[r].boot \in Nat /\ f.boot \in Nat
        /\ ctr[f.from] \in Nat /\ seen[r] # Never
    BY <2>0, <2>4, <2>6, CountersAreNats, ConstantsAreNats DEF Frame, Inv, Typed, TypeOK
  <2>8. f.c > taken[r].c \/ taken[r].c - f.c > Window
    BY <2>3, <2>5, <2>6, <2>7 DEF Verify
  <2>9. taken[r].boot = f.boot => f.c > taken[r].c
    BY <2>4, <2>6, <2>7, <2>8, ConstantsAreNats DEF Fresh
  <2> QED
    BY <2>5, <2>6, <2>7, <2>9
<1> QED
  BY <1>1, SpecInv, PTL DEF Spec, TakenInOrder
=============================================================================
