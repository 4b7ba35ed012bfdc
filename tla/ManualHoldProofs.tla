---------------------------- MODULE ManualHoldProofs ----------------------------
(***************************************************************************)
(* Proofs about ManualHold for any lease, TTL, cadence and grace, and any  *)
(* number of commands and messages.  That an orphaned claim ends rests on  *)
(* how old the claims are that the broker still keeps: while nobody holds  *)
(* or asks for anything none joins them (Published), so they age as fast   *)
(* as the claim is orphaned (Aged), and what such a message can still give *)
(* to the lease is what the claim has left to live (Ending).  A claim past *)
(* the TTL adds to that only while the clock is not trusted (overdue).     *)
(*                                                                         *)
(* That a hold stays while all is well rests on where its next             *)
(* re-assertion is and how long it may still take (RenewalInTime); that it *)
(* is not given up, on how soon a snapshot shows its outcome (Judged).     *)
(***************************************************************************)
EXTENDS ManualHold, SequenceTheorems, TLAPS

\* Only a tracked request is a command's own.
Ours == \A p \in posts : p.tracked => p.cmd \in Cmd

Published == orphaned > 0 => \A p \in posts : p.on => p.published

Aged ==
  orphaned > 0 =>
    \A i \in DOMAIN topic :
      topic[i].on => topic[i].age >= orphaned \/ topic[i].age > TTL

Ending ==
  orphaned > 0 => lease > 0 /\ (overdue \/ orphaned + lease <= TTL + LEASE)

Inv == TypeOK /\ Ours /\ Published /\ Aged /\ Ending

-----------------------------------------------------------------------------

\* The constants are natural numbers, and a request's way fits into the grace.
LEMMA ConstantsAreNats ==
  /\ RECLAIM \in Nat /\ LEASE \in Nat /\ TTL \in Nat /\ INTERVAL \in Nat /\ RTT \in Nat
  /\ MaxCmds \in Nat /\ MaxTopic \in Nat /\ LEASE > 0 /\ TTL > 0
  /\ RTT > 0 /\ RECLAIM > 0 /\ RECLAIM + 3 * RTT < LEASE
  /\ Grace \in Nat /\ RTT <= Grace /\ INTERVAL + RTT <= Grace
<1>1. /\ RECLAIM \in Nat \ {0} /\ LEASE \in Nat \ {0} /\ TTL \in Nat \ {0}
      /\ INTERVAL \in Nat /\ RTT \in Nat \ {0} /\ MaxCmds \in Nat /\ MaxTopic \in Nat
      /\ RECLAIM + 3 * RTT < LEASE
  BY LeaseAssumption
<1>2. GRACE_FLOOR \in Nat /\ GRACE_MARGIN \in Nat /\ RTT <= GRACE_MARGIN
  BY GraceAssumption
<1> QED
  BY <1>1, <1>2 DEF Grace

\* The initial state satisfies the invariant.
LEMMA InitInv == Init => Inv
<1> SUFFICES ASSUME Init PROVE Inv
  OBVIOUS
<1>1. TypeOK
  <2>1. /\ issued \in 0 .. MaxCmds /\ lease \in 0 .. LEASE /\ sinceSnap \in 0 .. INTERVAL
        /\ orphaned \in 0 .. TTL + LEASE + 1
    BY ConstantsAreNats DEF Init
  <2>2. topic \in Seq(Message)
    BY EmptySeq DEF Init
  <2>3. /\ outcome \in [Cmd -> Outcomes]
        /\ screen \in [running : BOOLEAN, outcome : [Cmd -> Outcomes]]
    BY DEF Init, Outcomes
  <2> QED
    BY <2>1, <2>2, <2>3 DEF Init, TypeOK
<1>2. Ours /\ Published /\ Aged /\ Ending
  BY DEF Init, Ours, Published, Aged, Ending
<1> QED
  BY <1>1, <1>2 DEF Inv

-----------------------------------------------------------------------------
(* The operator.                                                           *)

LEMMA DispatchInv ==
  ASSUME Inv, NEW on \in BOOLEAN, Dispatch(on)
  PROVE  Inv'
<1> USE ConstantsAreNats DEF Inv
<1> DEFINE new == NewPost(issued', on, TRUE)
<1>1. /\ posts' = posts \cup {new} /\ issued' \in Cmd
      /\ issued' \in 0 .. MaxCmds /\ orphaned' = (IF on THEN 0 ELSE orphaned)
      /\ topic' = topic /\ lease' = lease
  BY DEF Dispatch, TypeOK, Cmd, device
<1>2. new \in Post /\ new.on = on /\ new.cmd = issued'
  BY <1>1 DEF NewPost, Post
<1>3. TypeOK'
  <2>1. entry' \in Entry
    BY <1>1 DEF Dispatch, NewEntry, Entry
  <2>2. posts' \subseteq Post /\ hold' \in Hold \cup {NoHold}
    <3> HIDE DEF new
    <3> QED
      BY <1>1, <1>2 DEF Dispatch, TypeOK
  <2>3. calm' \in BOOLEAN
    BY DEF Dispatch
  <2>4. orphaned' \in 0 .. TTL + LEASE + 1 /\ overdue' \in BOOLEAN
    BY <1>1 DEF TypeOK, Dispatch
  <2> QED
    BY <1>1, <2>1, <2>2, <2>3, <2>4 DEF Dispatch, TypeOK, device
<1>4. Ours' /\ Published' /\ Aged' /\ Ending'
  <2> HIDE DEF new
  <2>1. orphaned' > 0 => orphaned > 0 /\ ~on /\ orphaned' = orphaned
    BY <1>1
  <2>4. ~on => (overdue' <=> overdue)
    BY DEF Dispatch
  <2>2. Ours'
    BY <1>1, <1>2 DEF Ours
  <2>3. Published'
    BY <1>1, <1>2, <2>1 DEF Published
  <2> QED
    BY <1>1, <2>1, <2>2, <2>3, <2>4 DEF Aged, Ending
<1> QED
  BY <1>3, <1>4

LEMMA SwitchSiteInv == Inv /\ SwitchSite => Inv'
<1> SUFFICES ASSUME Inv, SwitchSite PROVE Inv'
  OBVIOUS
<1> USE DEF Inv
<1>1. TypeOK'
  BY DEF SwitchSite, TypeOK, device, wire
<1>2. Ours' /\ Published' /\ Aged' /\ Ending'
  BY DEF SwitchSite, Ours, Published, Aged, Ending, device, wire
<1> QED
  BY <1>1, <1>2

-----------------------------------------------------------------------------
(* The server.                                                             *)

\* Only a claim that somebody is waiting for can be published.
LEMMA PublishInv ==
  ASSUME Inv, NEW p \in posts, Publish(p)
  PROVE  Inv'
<1> USE DEF Inv
<1> DEFINE msg == [cmd |-> p.cmd, on |-> p.on, age |-> 0]
           sent == [p EXCEPT !.published = TRUE]
<1>1. /\ p \in Post /\ topic \in Seq(Message) /\ topic' = Append(topic, msg)
      /\ \A q \in posts' : q \in posts \/ q = sent
      /\ lease' = lease /\ orphaned' = orphaned /\ overdue' = overdue
  BY DEF Publish, TypeOK, device
<1>2. msg \in Message /\ sent \in Post /\ sent.on = p.on /\ sent.published = TRUE
      /\ sent.tracked = p.tracked /\ sent.cmd = p.cmd
  <2>1. /\ p.cmd \in Cmd \cup {NoCmd} /\ p.on \in BOOLEAN /\ p.tracked \in BOOLEAN
        /\ p.age \in 0 .. RTT
    BY <1>1 DEF Post
  <2>2. msg \in Message
    BY <2>1, ConstantsAreNats DEF Message
  <2>3. p \in Post
    BY <1>1
  <2>4. sent \in Post
    BY <2>3 DEF Post
  <2>5. sent.on = p.on /\ sent.published = TRUE /\ sent.tracked = p.tracked /\ sent.cmd = p.cmd
    BY <2>3 DEF Post
  <2> QED
    BY <2>2, <2>4, <2>5
<1>3. topic' \in Seq(Message) /\ posts' \subseteq Post
  <2> HIDE DEF msg, sent
  <2>1. topic' \in Seq(Message)
    BY <1>1, <1>2, AppendProperties
  <2> QED
    BY <1>1, <1>2, <2>1 DEF TypeOK
<1>4. TypeOK'
  BY <1>3 DEF Publish, TypeOK, browser, device
<1>5. Ours' /\ Published' /\ Ending'
  BY <1>1, <1>2 DEF Ours, Published, Ending
<1>6. Aged'
  <2> SUFFICES ASSUME orphaned > 0, NEW i \in DOMAIN topic', topic'[i].on
               PROVE  topic'[i].age >= orphaned \/ topic'[i].age > TTL
    BY <1>1 DEF Aged
  <2>1. ~p.on
    BY DEF Published, Publish
  <2>2. CASE i = Len(topic) + 1
    BY <1>1, <2>1, <2>2
  <2>3. CASE i # Len(topic) + 1
    BY <1>1, <2>3 DEF Aged
  <2> QED
    BY <2>2, <2>3
<1> QED
  BY <1>4, <1>5, <1>6

LEMMA AnswerInv ==
  ASSUME Inv, NEW p \in posts, Answer(p)
  PROVE  Inv'
<1> USE DEF Inv
<1>1. /\ p \in Post /\ p.cmd \in Cmd /\ p.on \in BOOLEAN /\ p.age \in 0 .. RTT
      /\ posts' \subseteq posts
  BY DEF Answer, TypeOK, Ours, Post
<1>2. entry' \in Entry \cup {NoEntry} /\ hold' \in Hold \cup {NoHold} /\ calm' \in BOOLEAN
  <2>1. [NewEntry(p.cmd, p.on) EXCEPT !.posted = TRUE, !.age = p.age] \in Entry
    <3>1. p.age \in 0 .. TTL + Grace + 1
      BY <1>1, ConstantsAreNats
    <3>2. NewEntry(p.cmd, p.on) \in Entry
      BY <1>1, ConstantsAreNats DEF NewEntry, Entry
    <3> QED
      BY <3>1, <3>2 DEF Entry
  <2>2. [cmd |-> p.cmd, age |-> 0, sinceReclaim |-> 0] \in Hold
    BY <1>1, ConstantsAreNats DEF Hold
  <2> QED
    BY <2>1, <2>2 DEF Answer, TypeOK
<1>3. TypeOK'
  BY <1>1, <1>2 DEF Answer, TypeOK, device
<1>4. Ours' /\ Published' /\ Aged' /\ Ending'
  BY <1>1 DEF Answer, Ours, Published, Aged, Ending, device
<1> QED
  BY <1>3, <1>4

LEMMA FailInv ==
  ASSUME Inv, NEW p \in posts, Fail(p)
  PROVE  Inv'
<1> USE DEF Inv
<1>1. TypeOK'
  BY DEF Fail, TypeOK, device
<1>2. Ours' /\ Published' /\ Aged' /\ Ending'
  BY DEF Fail, Ours, Published, Aged, Ending, device
<1> QED
  BY <1>1, <1>2

-----------------------------------------------------------------------------
(* The controller.                                                         *)

\* A message that still counts is no younger than the claim is orphaned.
LEMMA ReceiveInv ==
  ASSUME Inv, NEW sourceLow \in BOOLEAN, Receive(sourceLow)
  PROVE  Inv'
<1> USE ConstantsAreNats DEF Inv
<1> DEFINE msg == Head(topic)
<1>1. /\ topic \in Seq(Message) /\ topic # <<>> /\ topic' = Tail(topic)
      /\ posts' = posts /\ orphaned' = (IF lease' = 0 THEN 0 ELSE orphaned)
  BY DEF Receive, TypeOK
<1>2. /\ msg \in Message /\ topic' \in Seq(Message)
      /\ Len(topic') = Len(topic) - 1
      /\ \A i \in 1 .. Len(topic') : topic'[i] = topic[i + 1]
      /\ msg = topic[1] /\ 1 \in DOMAIN topic /\ Len(topic) \in Nat
      /\ DOMAIN topic = 1 .. Len(topic) /\ DOMAIN topic' = 1 .. Len(topic')
  BY <1>1, HeadTailProperties, LenProperties, EmptySeq
<1>3. /\ msg.on \in BOOLEAN /\ msg.age \in Nat
      /\ overdue => overdue'
      /\ \/ lease' = LEASE /\ msg.on /\ (msg.age <= TTL \/ overdue')
         \/ lease' = 0
         \/ lease' = lease
  <2>1. msg.on \in BOOLEAN /\ msg.age \in Nat
    BY <1>2 DEF Message
  <2>2. overdue => overdue'
    BY DEF Receive
  <2>3. CASE msg.on /\ ~Stale(msg) /\ ~sourceLow
    <3>1. lease' = LEASE
      BY <2>3 DEF Receive, Extended
    <3>2. msg.age > TTL => overdue'
      BY <2>3 DEF Receive, Stale
    <3> QED
      BY <2>1, <2>2, <2>3, <3>1, <3>2
  <2>4. CASE ~(msg.on /\ ~Stale(msg) /\ ~sourceLow)
    <3>1. lease' = 0 \/ lease' = lease
      BY <2>4 DEF Receive
    <3> QED
      BY <2>1, <2>2, <3>1
  <2> QED
    BY <2>3, <2>4
<1>4. TypeOK'
  <2>1. lease' \in 0 .. LEASE /\ orphaned' \in 0 .. TTL + LEASE + 1
    BY <1>1, <1>3 DEF TypeOK
  <2>2. latch' \in BOOLEAN /\ calm' \in BOOLEAN /\ overdue' \in BOOLEAN
    BY DEF Receive, TypeOK
  <2>3. outcome' \in [Cmd -> Outcomes]
    BY DEF Receive, TypeOK, Outcomes
  <2> QED
    BY <1>2, <2>1, <2>2, <2>3 DEF Receive, TypeOK, browser
<1>5. Ours' /\ Published'
  BY <1>1 DEF Ours, Published
<1>6. Aged'
  BY <1>1, <1>2 DEF Aged
<1>7. Ending'
  <2> SUFFICES ASSUME orphaned > 0, lease' # 0
               PROVE  lease' > 0 /\ (overdue' \/ orphaned + lease' <= TTL + LEASE)
    BY <1>1 DEF Ending
  <2>1. CASE lease' = lease
    BY <1>3, <2>1 DEF Ending
  <2>3. CASE lease' = LEASE /\ overdue'
    BY <2>3
  <2>2. CASE lease' = LEASE /\ msg.on /\ msg.age <= TTL
    <3>1. topic[1].age >= orphaned \/ topic[1].age > TTL
      BY <1>2, <2>2 DEF Aged
    <3>2. orphaned <= TTL
      BY <1>2, <1>3, <2>2, <3>1 DEF TypeOK
    <3> QED
      BY <2>2, <3>2 DEF TypeOK
  <2> QED
    BY <1>3, <2>1, <2>2, <2>3
<1> QED
  BY <1>4, <1>5, <1>6, <1>7

\* The rest of the controller and the link touch neither claims nor messages.
LEMMA LinkInv ==
  ASSUME Inv,
         SyncTime \/ GuardTrips \/ Snapshot \/ LoseSnapshot \/ Disconnect \/ Reconnect
  PROVE  Inv'
<1> USE DEF Inv
<1>1. /\ topic' = topic /\ posts' = posts /\ lease' = lease /\ orphaned' = orphaned
      /\ view' = view /\ issued' = issued /\ entry' = entry /\ hold' = hold
      /\ outcome' = outcome /\ overdue' = overdue
  BY DEF SyncTime, GuardTrips, Snapshot, LoseSnapshot, Disconnect, Reconnect, browser, device, wire
<1>2. /\ link' \in BOOLEAN /\ latch' \in BOOLEAN /\ calm' \in BOOLEAN
      /\ sinceSnap' \in 0 .. INTERVAL /\ trusted' \in BOOLEAN
  <2>1. sinceSnap' \in {0, sinceSnap} /\ link' \in {TRUE, FALSE, link}
    BY DEF SyncTime, GuardTrips, Snapshot, LoseSnapshot, Disconnect, Reconnect, wire
  <2>2. latch' \in {TRUE, latch} /\ calm' \in {FALSE, calm} /\ trusted' \in {TRUE, trusted}
    BY DEF SyncTime, GuardTrips, Snapshot, LoseSnapshot, Disconnect, Reconnect, device
  <2>3. sinceSnap' \in 0 .. INTERVAL
    BY <2>1, ConstantsAreNats DEF TypeOK
  <2> QED
    BY <2>1, <2>2, <2>3 DEF TypeOK
<1>3. screen' \in [running : BOOLEAN, outcome : [Cmd -> Outcomes]]
  <2>1. CASE Snapshot
    <3>1. Running \in BOOLEAN
      BY DEF Running, TypeOK
    <3>2. [c \in Cmd |-> IF outcome[c] = "none" THEN screen.outcome[c] ELSE outcome[c]]
            \in [Cmd -> Outcomes]
      BY DEF TypeOK
    <3> QED
      BY <2>1, <3>1, <3>2 DEF Snapshot
  <2>2. CASE ~Snapshot
    BY <2>2 DEF TypeOK, SyncTime, GuardTrips, LoseSnapshot, Disconnect, Reconnect
  <2> QED
    BY <2>1, <2>2
<1>4. TypeOK'
  BY <1>1, <1>2, <1>3 DEF TypeOK
<1>5. Ours' /\ Published' /\ Aged' /\ Ending'
  BY <1>1 DEF Ours, Published, Aged, Ending
<1> QED
  BY <1>4, <1>5

-----------------------------------------------------------------------------
(* Time.                                                                   *)

LEMMA LaterBounds ==
  ASSUME NEW n \in Nat, NEW bound \in Nat
  PROVE  /\ Later(n, bound) \in Nat /\ Later(n, bound) <= n + 1
         /\ n <= bound => Later(n, bound) <= bound
         /\ n < bound => Later(n, bound) = n + 1
         /\ n >= bound => Later(n, bound) = n
BY DEF Later

\* The browser's entries and holds keep their types, and it claims only while
\* it holds.
LEMMA ReconcileTypes ==
  ASSUME TypeOK, Ours, Reconcile, \A p \in posts : p.age < RTT
  PROVE  /\ entry' \in Entry \cup {NoEntry} /\ hold' \in Hold \cup {NoHold}
         /\ posts' \subseteq Post /\ Ours'
         /\ \A q \in posts' : q.on /\ ~q.published =>
              hold # NoHold \/ \E p \in posts : p.on /\ ~p.published
<1> USE ConstantsAreNats
<1>1. /\ OlderPosts \subseteq Post
      /\ \A q \in OlderPosts : \E p \in posts :
           /\ q.on = p.on /\ q.published = p.published
           /\ q.tracked = p.tracked /\ q.cmd = p.cmd
  <2> SUFFICES ASSUME NEW p \in posts
               PROVE  LET q == [p EXCEPT !.age = @ + 1]
                      IN /\ q \in Post
                         /\ q.on = p.on /\ q.published = p.published
                         /\ q.tracked = p.tracked /\ q.cmd = p.cmd
    BY DEF OlderPosts
  <2>1. p \in Post
    BY DEF TypeOK
  <2>2. /\ p.cmd \in Cmd \cup {NoCmd} /\ p.on \in BOOLEAN /\ p.tracked \in BOOLEAN
        /\ p.published \in BOOLEAN /\ p.age + 1 \in 0 .. RTT
    BY <2>1 DEF Post
  <2>3. [p EXCEPT !.age = @ + 1]
          = [cmd |-> p.cmd, on |-> p.on, tracked |-> p.tracked,
             published |-> p.published, age |-> p.age + 1]
    BY <2>1 DEF Post
  <2> QED
    BY <2>2, <2>3 DEF Post
<1>2. OlderEntry \in Entry \cup {NoEntry}
  <2>1. CASE entry = NoEntry \/ ~entry.posted
    BY <2>1 DEF OlderEntry, TypeOK
  <2>2. CASE ~(entry = NoEntry \/ ~entry.posted)
    <3> DEFINE top == 1 + IF entry.on THEN Grace ELSE TTL
    <3>1. /\ entry \in Entry /\ top \in Nat /\ top <= TTL + Grace + 1
          /\ entry.age \in 0 .. TTL + Grace + 1
      BY <2>2 DEF TypeOK, Entry
    <3>2. Later(entry.age, top) \in 0 .. TTL + Grace + 1
      BY <3>1 DEF Later
    <3>3. [entry EXCEPT !.age = Later(@, top)] \in Entry
      BY <3>1, <3>2 DEF Entry
    <3> QED
      BY <2>2, <3>3 DEF OlderEntry
  <2> QED
    BY <2>1, <2>2
<1>3. CASE hold = NoHold
  BY <1>1, <1>2, <1>3 DEF Reconcile, Ours
<1>4. CASE hold # NoHold
  <2>1. hold \in Hold /\ hold.cmd \in Cmd
    BY <1>4 DEF TypeOK, Hold
  <2>2. /\ OlderHold \in Hold /\ OlderHold.cmd \in Cmd
        /\ [OlderHold EXCEPT !.sinceReclaim = 0] \in Hold
    <3>1. Later(hold.age, Grace + 1) \in 0 .. Grace + 1
      BY <2>1 DEF Hold, Later
    <3>2. Later(hold.sinceReclaim, RECLAIM) \in 0 .. RECLAIM
      BY <2>1 DEF Hold, Later
    <3>3. OlderHold \in Hold
      BY <2>1, <3>1, <3>2 DEF OlderHold, Hold
    <3>4. [OlderHold EXCEPT !.sinceReclaim = 0] \in Hold
      BY <3>3 DEF Hold
    <3> QED
      BY <3>3, <3>4 DEF Hold
  <2>3. /\ NewPost(NoCmd, FALSE, FALSE) \in Post
        /\ ~NewPost(NoCmd, FALSE, FALSE).tracked
        /\ NewPost(OlderHold.cmd, TRUE, FALSE) \in Post
        /\ ~NewPost(OlderHold.cmd, TRUE, FALSE).tracked
    BY <2>2 DEF NewPost, Post
  <2>4. /\ hold' \in {NoHold, OlderHold, [OlderHold EXCEPT !.sinceReclaim = 0]}
        /\ entry' \in {NoEntry, OlderEntry}
        /\ posts' \subseteq OlderPosts \cup
             {NewPost(NoCmd, FALSE, FALSE), NewPost(OlderHold.cmd, TRUE, FALSE)}
    BY <1>4 DEF Reconcile
  <2>5. Ours'
    BY <1>1, <2>3, <2>4 DEF Ours
  <2> QED
    BY <1>1, <1>2, <1>4, <2>2, <2>3, <2>4, <2>5
<1> QED
  BY <1>3, <1>4

LEMMA TickInv == Inv /\ Tick => Inv'
<1> SUFFICES ASSUME Inv, Tick PROVE Inv'
  OBVIOUS
<1> USE ConstantsAreNats DEF Inv
<1>1. /\ entry' \in Entry \cup {NoEntry} /\ hold' \in Hold \cup {NoHold}
      /\ posts' \subseteq Post /\ Ours'
      /\ \A q \in posts' : q.on /\ ~q.published => Holding
  BY ReconcileTypes DEF Tick, Holding
<1>2. /\ lease' = (IF lease = 0 THEN 0 ELSE lease - 1) /\ lease \in 0 .. LEASE
      /\ orphaned' = (IF lease' = 0 \/ Holding THEN 0
                      ELSE Later(orphaned, TTL + LEASE + 1))
      /\ orphaned \in 0 .. TTL + LEASE + 1
      /\ overdue' = (overdue /\ orphaned' > 0)
  BY DEF Tick, TypeOK
<1>3. /\ topic \in Seq(Message) /\ Len(topic) \in Nat /\ DOMAIN topic = 1 .. Len(topic)
      /\ topic' = [i \in 1 .. Len(topic) |->
                     [topic[i] EXCEPT !.age = Later(@, TTL + RTT)]]
  BY LenProperties DEF Tick, TypeOK
<1>4. \A i \in 1 .. Len(topic) :
        /\ topic[i] \in Message /\ topic'[i] \in Message
        /\ topic'[i].on = topic[i].on
        /\ topic'[i].age = Later(topic[i].age, TTL + RTT)
  <2> SUFFICES ASSUME NEW i \in 1 .. Len(topic)
               PROVE  /\ topic[i] \in Message /\ topic'[i] \in Message
                      /\ topic'[i].on = topic[i].on
                      /\ topic'[i].age = Later(topic[i].age, TTL + RTT)
    OBVIOUS
  <2>1. topic[i] \in Message
    BY <1>3, ElementOfSeq
  <2>2. Later(topic[i].age, TTL + RTT) \in 0 .. TTL + RTT
    BY <2>1 DEF Message, Later
  <2> QED
    BY <1>3, <2>1, <2>2 DEF Message
<1>5. topic' \in Seq(Message) /\ DOMAIN topic' = 1 .. Len(topic)
  <2>1. topic' \in [1 .. Len(topic) -> Message] /\ Len(topic) \in Nat
    BY <1>3, <1>4
  <2>2. topic' \in Seq(Message)
    BY ONLY <2>1, SeqDef
  <2>3. DOMAIN topic' = 1 .. Len(topic)
    BY ONLY <1>3
  <2> QED
    BY <2>2, <2>3
<1>6. TypeOK'
  <2>1. /\ lease' \in 0 .. LEASE /\ orphaned' \in 0 .. TTL + LEASE + 1
        /\ overdue' \in BOOLEAN
    BY <1>2 DEF Later
  <2>2. latch' \in BOOLEAN /\ calm' \in BOOLEAN
    BY DEF Tick, TypeOK
  <2>3. sinceSnap' \in 0 .. INTERVAL
    <3>1. sinceSnap \in 0 .. INTERVAL /\ sinceSnap' = Later(sinceSnap, INTERVAL)
      BY DEF Tick, TypeOK
    <3> QED
      BY <3>1 DEF Later
  <2> QED
    BY <1>1, <1>5, <2>1, <2>2, <2>3 DEF Tick, TypeOK
<1>7. ASSUME orphaned' > 0
      PROVE  /\ \A p \in posts' : p.on => p.published
             /\ \A i \in DOMAIN topic' :
                  topic'[i].on => topic'[i].age >= orphaned' \/ topic'[i].age > TTL
             /\ lease' > 0 /\ (overdue' \/ orphaned' + lease' <= TTL + LEASE)
  <2>1. ~Holding /\ lease' > 0 /\ lease' = lease - 1
    BY <1>2, <1>7
  <2>2. orphaned' \in Nat /\ orphaned' <= orphaned + 1
    BY <1>2, <2>1 DEF Later
  <2>3. \A p \in posts' : p.on => p.published
    BY <1>1, <2>1
  <2>7. overdue \/ orphaned + lease <= TTL + LEASE
    <3>1. CASE orphaned > 0
      BY <3>1 DEF Ending
    <3>2. CASE orphaned = 0
      BY <1>2, <3>2
    <3> QED
      BY <1>2, <3>1, <3>2
  <2>8. orphaned + lease <= TTL + LEASE => orphaned' + lease' <= TTL + LEASE
    BY <1>2, <2>1, <2>2
  <2>4. ~overdue' => orphaned' + lease' <= TTL + LEASE
    BY <1>2, <1>7, <2>7, <2>8
  <2>5. ASSUME NEW i \in 1 .. Len(topic), topic'[i].on, topic'[i].age <= TTL
        PROVE  topic'[i].age >= orphaned'
    <3>1. topic[i].age \in 0 .. TTL + RTT /\ topic[i].on
      BY <1>4, <2>5 DEF Message
    <3>2. topic'[i].age = topic[i].age + 1 /\ topic[i].age <= TTL
      BY <1>4, <2>5, <3>1 DEF Later
    <3>3. orphaned > 0 => topic[i].age >= orphaned \/ topic[i].age > TTL
      BY <1>3, <3>1 DEF Aged
    <3> HIDE DEF Inv
    <3> QED
      BY <1>2, <2>2, <3>1, <3>2, <3>3
  <2>6. \A i \in 1 .. Len(topic) : topic'[i].age \in Nat
    BY <1>4 DEF Message
  <2> QED
    BY <1>5, <2>1, <2>3, <2>4, <2>5, <2>6
<1> QED
  BY <1>1, <1>6, <1>7 DEF Published, Aged, Ending

-----------------------------------------------------------------------------

\* Every step keeps the invariant.
LEMMA NextInv == Inv /\ [Next]_vars => Inv'
<1> SUFFICES ASSUME Inv, [Next]_vars PROVE Inv'
  OBVIOUS
<1>1. CASE Operator
  <2>1. CASE ToggleClaim \/ StopAll
    <3>1. PICK on \in BOOLEAN : Dispatch(on)
      BY <2>1 DEF ToggleClaim, StopAll
    <3> QED
      BY <3>1, DispatchInv
  <2>2. CASE SwitchSite
    BY <2>2, SwitchSiteInv
  <2> QED
    BY <1>1, <2>1, <2>2 DEF Operator
<1>2. CASE Server
  BY <1>2, PublishInv, AnswerInv, FailInv DEF Server
<1>3. CASE Controller
  BY <1>3, ReceiveInv, LinkInv DEF Controller
<1>4. CASE Tick
  BY <1>4, TickInv
<1>5. CASE UNCHANGED vars
  <2>1. TypeOK'
    BY <1>5 DEF Inv, TypeOK, vars, browser, device, wire
  <2> QED
    BY <1>5, <2>1 DEF Inv, Ours, Published, Aged, Ending, vars, browser, device, wire
<1> QED
  BY <1>1, <1>2, <1>3, <1>4, <1>5 DEF Next

LEMMA Invariant == Spec => []Inv
<1> QED
  BY InitInv, NextInv, PTL DEF Spec

\* Every variable of the browser, the link and the controller keeps its type, and
\* the requests and messages under way are commands that were given.
THEOREM HoldTyped == Spec => []TypeOK
<1>1. Inv => TypeOK
  BY DEF Inv
<1> QED
  BY <1>1, Invariant, PTL

\* Once the browser has stopped to re-assert a claim it ends within TTL and lease,
\* whatever the broker kept, in whatever order POSTs were answered, and whenever
\* the clock was synchronised: only a claim past its TTL that the controller took
\* meanwhile because it did not trust its clock yet can make it longer.
THEOREM StoppingIsFailSafe == Spec => []OrphanedClaimEnds
<1>1. Inv => OrphanedClaimEnds
  BY ConstantsAreNats DEF Inv, TypeOK, Ending, OrphanedClaimEnds
<1> QED
  BY <1>1, Invariant, PTL

-----------------------------------------------------------------------------
(* While all is well.  What follows says where the next re-assertion is and *)
(* how long it may still take, and what is known of the hold's command.     *)

\* Nothing is known yet of this command.
Fresh(c) == outcome[c] = "none" /\ screen.outcome[c] = "none"

\* Nothing bears the number of a command that is yet to be given.
Minted ==
  /\ \A p \in posts : p.cmd <= issued
  /\ \A i \in DOMAIN topic : topic[i].cmd <= issued
  /\ hold # NoHold => hold.cmd <= issued
  /\ \A c \in Cmd : c > issued => Fresh(c)

\* A command that is still to be answered has one request, and no hold.
OneRequest ==
  \A p \in posts : p.tracked =>
    /\ \A q \in posts : q.cmd = p.cmd => q = p
    /\ hold # NoHold => hold.cmd # p.cmd

\* Its message is sent once, and its outcome is settled once.
SentOnce ==
  \A p \in posts : p.tracked =>
    /\ \A i, j \in DOMAIN topic : topic[i].cmd = p.cmd /\ topic[j].cmd = p.cmd => i = j
    /\ \/ Fresh(p.cmd) /\ (p.published <=> \E i \in DOMAIN topic : topic[i].cmd = p.cmd)
       \/ /\ p.published /\ \A i \in DOMAIN topic : topic[i].cmd # p.cmd
          /\ outcome[p.cmd] # "none"
          /\ screen.outcome[p.cmd] \in {"none", outcome[p.cmd]}

\* A claim that the controller took was taken after it was asked for.
TakenSince ==
  \A p \in posts : p.tracked /\ outcome[p.cmd] = "APPLIED" =>
    lease = 0 \/ lease + p.age >= LEASE

Hooked ==
  calm => /\ link /\ hold # NoHold /\ hold.sinceReclaim < RECLAIM
          /\ outcome[hold.cmd] # "REFUSED" /\ screen.outcome[hold.cmd] # "REFUSED"

\* The next re-assertion comes before the lease is over, wherever it is.
RenewalInTime ==
  \/ hold.sinceReclaim + lease > RECLAIM + 2 * RTT
  \/ \E p \in posts : p.on /\ ~p.published /\ p.age + lease > 2 * RTT
  \/ \E i \in DOMAIN topic : topic[i].on /\ topic[i].age + lease > RTT

Renewed ==
  calm /\ outcome[hold.cmd] = "APPLIED" /\ lease > 0 => RenewalInTime

\* The claim's message is on its way, no younger than the hold.
Coming ==
  /\ outcome[hold.cmd] = "none" /\ hold.age <= RTT
  /\ \E i \in DOMAIN topic : topic[i].cmd = hold.cmd /\ topic[i].age >= hold.age

\* As long as no snapshot has shown the outcome, the hold is young.
Judged ==
  calm /\ screen.outcome[hold.cmd] = "none" =>
    \/ Coming
    \/ outcome[hold.cmd] = "APPLIED" /\ hold.age <= sinceSnap + RTT

HoldInv == Minted /\ OneRequest /\ SentOnce /\ TakenSince /\ Hooked /\ Renewed /\ Judged

LEMMA InitHold == Init => HoldInv
<1> SUFFICES ASSUME Init PROVE HoldInv
  OBVIOUS
<1>1. /\ posts = {} /\ topic = <<>> /\ ~calm /\ hold = NoHold
      /\ \A c \in Cmd : Fresh(c)
  BY DEF Init, Fresh
<1> QED
  BY <1>1 DEF HoldInv, Minted, OneRequest, SentOnce, TakenSince, Hooked, Renewed, Judged

\* The numbers of requests, messages and holds.
LEMMA Numbers ==
  ASSUME Inv
  PROVE  /\ issued \in 0 .. MaxCmds /\ lease \in 0 .. LEASE /\ sinceSnap \in 0 .. INTERVAL
         /\ \A p \in posts : /\ p \in Post /\ p.cmd \in 0 .. MaxCmds /\ p.age \in 0 .. RTT
                             /\ p.tracked => p.cmd \in Cmd
         /\ topic \in Seq(Message) /\ Len(topic) \in Nat /\ DOMAIN topic = 1 .. Len(topic)
         /\ \A i \in DOMAIN topic :
              /\ topic[i] \in Message /\ topic[i].cmd \in 0 .. MaxCmds
              /\ topic[i].age \in 0 .. TTL + RTT
         /\ hold # NoHold => /\ hold \in Hold /\ hold.cmd \in Cmd /\ hold.age \in 0 .. Grace + 1
                             /\ hold.sinceReclaim \in 0 .. RECLAIM
<1> USE ConstantsAreNats DEF Inv
<1>1. \A p \in posts : /\ p \in Post /\ p.cmd \in 0 .. MaxCmds /\ p.age \in 0 .. RTT
                       /\ p.tracked => p.cmd \in Cmd
  BY DEF TypeOK, Post, Ours, Cmd, NoCmd
<1>2. topic \in Seq(Message) /\ Len(topic) \in Nat /\ DOMAIN topic = 1 .. Len(topic)
  BY LenProperties DEF TypeOK
<1>3. \A i \in DOMAIN topic : topic[i] \in Message
  BY <1>2, ElementOfSeq
<1>4. \A m \in Message : m.cmd \in 0 .. MaxCmds /\ m.age \in 0 .. TTL + RTT
  BY DEF Message, Cmd, NoCmd
<1>5. \A h \in Hold : h.cmd \in Cmd /\ h.age \in 0 .. Grace + 1 /\ h.sinceReclaim \in 0 .. RECLAIM
  BY DEF Hold
<1> QED
  BY <1>1, <1>2, <1>3, <1>4, <1>5 DEF TypeOK

\* A new command has a number that nothing bears.
LEMMA DispatchHold ==
  ASSUME Inv, HoldInv, NEW on \in BOOLEAN, Dispatch(on)
  PROVE  HoldInv'
<1> DEFINE new == NewPost(issued', on, TRUE)
<1>1. /\ posts' = posts \cup {new} /\ issued' = issued + 1
      /\ topic' = topic /\ lease' = lease /\ link' = link /\ outcome' = outcome
      /\ screen' = screen /\ sinceSnap' = sinceSnap
      /\ hold' = hold \/ hold' = NoHold
      /\ calm' => calm /\ hold' = hold
      /\ issued' \in 0 .. MaxCmds
  <2>1. issued < MaxCmds /\ issued' = issued + 1 /\ issued \in 0 .. MaxCmds
    BY Numbers DEF Dispatch
  <2>2. issued' \in 0 .. MaxCmds
    BY <2>1, ConstantsAreNats
  <2> QED
    BY <2>1, <2>2 DEF Dispatch, device
<1>2. /\ new.cmd = issued + 1 /\ new.tracked /\ ~new.published /\ new.age = 0
      /\ issued + 1 \in Cmd
  BY <1>1, Numbers, ConstantsAreNats DEF NewPost, Cmd
<1> HIDE DEF new
<1>3. /\ \A p \in posts : p.cmd < issued + 1
      /\ \A i \in DOMAIN topic : topic[i].cmd < issued + 1
      /\ hold # NoHold => hold.cmd < issued + 1
      /\ Fresh(issued + 1)
  <2>1. issued \in Nat /\ issued + 1 > issued
    BY Numbers, ConstantsAreNats
  <2>2. Fresh(issued + 1)
    BY <1>2, <2>1 DEF HoldInv, Minted
  <2>3. \A n \in 0 .. MaxCmds : n <= issued => n < issued + 1
    BY <2>1
  <2>4. \A p \in posts : p.cmd < issued + 1
    BY <2>3, Numbers DEF HoldInv, Minted
  <2>5. \A i \in DOMAIN topic : topic[i].cmd < issued + 1
    BY <2>3, Numbers DEF HoldInv, Minted
  <2>6. hold # NoHold => hold.cmd < issued + 1
    BY <2>1, Numbers DEF HoldInv, Minted, Cmd
  <2> QED
    BY <2>2, <2>4, <2>5, <2>6
<1>4. \A c : Fresh(c)' <=> Fresh(c)
  BY <1>1 DEF Fresh
<1>5. Minted'
  <2>1. issued \in Nat /\ issued' = issued + 1
    BY <1>1, Numbers, ConstantsAreNats
  <2>2. \A n \in 0 .. MaxCmds : n < issued + 1 => n <= issued'
    BY <2>1
  <2>3. \A p \in posts' : p.cmd <= issued'
    BY <1>1, <1>2, <1>3, <2>1, <2>2, Numbers
  <2>4. \A i \in DOMAIN topic' : topic'[i].cmd <= issued'
    BY <1>1, <1>3, <2>2, Numbers
  <2>5. hold' # NoHold => hold'.cmd <= issued'
    BY <1>1, <1>3, <2>1, Numbers DEF Cmd
  <2>6. \A c \in Cmd : c > issued' => Fresh(c)'
    <3>1. \A c \in Cmd : c > issued + 1 => c > issued
      BY <2>1 DEF Cmd
    <3> QED
      BY <1>4, <2>1, <3>1 DEF HoldInv, Minted
  <2> QED
    BY <2>3, <2>4, <2>5, <2>6 DEF Minted
<1>6. OneRequest'
  BY <1>1, <1>2, <1>3, Numbers, ConstantsAreNats DEF HoldInv, OneRequest
<1>7. SentOnce'
  <2> SUFFICES ASSUME NEW p \in posts', p.tracked
               PROVE  /\ \A i, j \in DOMAIN topic :
                           topic[i].cmd = p.cmd /\ topic[j].cmd = p.cmd => i = j
                      /\ \/ /\ Fresh(p.cmd)
                            /\ p.published <=> \E i \in DOMAIN topic : topic[i].cmd = p.cmd
                         \/ /\ p.published /\ \A i \in DOMAIN topic : topic[i].cmd # p.cmd
                            /\ outcome[p.cmd] # "none"
                            /\ screen.outcome[p.cmd] \in {"none", outcome[p.cmd]}
    BY <1>1, <1>4 DEF SentOnce
  <2>1. CASE p = new
    BY <1>2, <1>3, <2>1, Numbers
  <2>2. CASE p # new
    BY <1>1, <2>2 DEF HoldInv, SentOnce
  <2> QED
    BY <2>1, <2>2
<1>8. TakenSince'
  BY <1>1, <1>2, <1>3 DEF HoldInv, TakenSince, Fresh
<1>9. Hooked' /\ Renewed' /\ Judged'
  <2>1. Hooked'
    BY <1>1 DEF HoldInv, Hooked
  <2>2. Renewed'
    BY <1>1 DEF HoldInv, Renewed, RenewalInTime
  <2>3. Judged'
    BY <1>1 DEF HoldInv, Judged, Coming
  <2> QED
    BY <2>1, <2>2, <2>3
<1> QED
  BY <1>5, <1>6, <1>7, <1>8, <1>9 DEF HoldInv

LEMMA SwitchSiteHold == Inv /\ HoldInv /\ SwitchSite => HoldInv'
<1> SUFFICES ASSUME Inv, HoldInv, SwitchSite PROVE HoldInv'
  OBVIOUS
<1>1. /\ posts' = posts /\ topic' = topic /\ lease' = lease /\ outcome' = outcome
      /\ screen' = screen /\ issued' = issued /\ hold' = NoHold /\ ~calm'
  BY DEF SwitchSite, device, wire
<1>2. Minted' /\ OneRequest' /\ SentOnce' /\ TakenSince'
  BY <1>1 DEF HoldInv, Minted, OneRequest, SentOnce, TakenSince, Fresh
<1> QED
  BY <1>1, <1>2 DEF HoldInv, Hooked, Renewed, Judged

\* A request that arrives becomes a message; what re-asserts a hold stays in time.
LEMMA PublishHold ==
  ASSUME Inv, HoldInv, NEW p \in posts, Publish(p)
  PROVE  HoldInv'
<1> DEFINE msg == [cmd |-> p.cmd, on |-> p.on, age |-> 0]
           sent == [p EXCEPT !.published = TRUE]
<1>1. /\ p \in Post /\ topic \in Seq(Message) /\ ~p.published
      /\ topic' = Append(topic, msg)
      /\ posts' = (posts \ {p}) \cup {[q EXCEPT !.published = TRUE] : q \in {r \in {p} : r.tracked}}
      /\ lease' = lease /\ link' = link /\ outcome' = outcome /\ screen' = screen
      /\ issued' = issued /\ hold' = hold /\ calm' = calm /\ sinceSnap' = sinceSnap
  BY Numbers DEF Publish, browser, device
<1>2. /\ sent.on = p.on /\ sent.published = TRUE /\ sent.tracked = p.tracked
      /\ sent.cmd = p.cmd /\ sent.age = p.age
      /\ p.cmd \in 0 .. MaxCmds /\ p.age \in 0 .. RTT
  <2>1. p \in [cmd : Cmd \cup {NoCmd}, on : BOOLEAN, tracked : BOOLEAN,
               published : BOOLEAN, age : 0 .. RTT]
    BY <1>1 DEF Post
  <2> QED
    BY <2>1, Numbers
<1>3. /\ \A q \in posts : q # p => q \in posts'
      /\ p.tracked => sent \in posts'
      /\ \A q \in posts' : (q \in posts /\ q # p) \/ (q = sent /\ p.tracked)
  BY <1>1
<1>4. /\ DOMAIN topic' = 1 .. Len(topic) + 1 /\ Len(topic) + 1 \in DOMAIN topic'
      /\ DOMAIN topic = 1 .. Len(topic) /\ Len(topic) \in Nat
      /\ topic'[Len(topic) + 1] = msg
      /\ \A i \in DOMAIN topic : i \in DOMAIN topic' /\ topic'[i] = topic[i]
      /\ \A i \in DOMAIN topic' : i \in DOMAIN topic \/ i = Len(topic) + 1
  BY <1>1, Numbers
<1>5. msg.cmd = p.cmd /\ msg.on = p.on /\ msg.age = 0
  OBVIOUS
<1> HIDE DEF msg, sent
<1>6. \A c : Fresh(c)' <=> Fresh(c)
  BY <1>1 DEF Fresh
<1>7. Minted'
  BY <1>1, <1>2, <1>3, <1>4, <1>5, <1>6 DEF HoldInv, Minted
<1>8. OneRequest'
  BY <1>1, <1>2, <1>3 DEF HoldInv, OneRequest
<1>9. SentOnce'
  <2> SUFFICES ASSUME NEW q \in posts', q.tracked
               PROVE  /\ \A i, j \in DOMAIN topic' :
                           topic'[i].cmd = q.cmd /\ topic'[j].cmd = q.cmd => i = j
                      /\ \/ /\ Fresh(q.cmd)
                            /\ q.published <=> \E i \in DOMAIN topic' : topic'[i].cmd = q.cmd
                         \/ /\ q.published /\ \A i \in DOMAIN topic' : topic'[i].cmd # q.cmd
                            /\ outcome[q.cmd] # "none"
                            /\ screen.outcome[q.cmd] \in {"none", outcome[q.cmd]}
    BY <1>1, <1>6 DEF SentOnce
  <2>1. CASE q \in posts /\ q # p
    <3>1. q.cmd # p.cmd
      BY <2>1 DEF HoldInv, OneRequest
    <3>2. \A i \in DOMAIN topic' : topic'[i].cmd = q.cmd => i \in DOMAIN topic /\ topic[i].cmd = q.cmd
      BY <1>4, <1>5, <3>1
    <3> QED
      BY <1>4, <2>1, <3>2 DEF HoldInv, SentOnce
  <2>2. CASE q = sent /\ p.tracked
    <3>1. Fresh(p.cmd) /\ \A i \in DOMAIN topic : topic[i].cmd # p.cmd
      BY <1>1, <2>2 DEF HoldInv, SentOnce
    <3> QED
      BY <1>2, <1>4, <1>5, <2>2, <3>1
  <2> QED
    BY <1>3, <2>1, <2>2
<1>10. TakenSince'
  BY <1>1, <1>2, <1>3 DEF HoldInv, TakenSince
<1>11. Hooked'
  BY <1>1 DEF HoldInv, Hooked
<1>12. Renewed'
  <2> SUFFICES ASSUME calm, outcome[hold.cmd] = "APPLIED", lease > 0
               PROVE  RenewalInTime'
    BY <1>1 DEF Renewed
  <2>1. RenewalInTime
    BY DEF HoldInv, Renewed
  <2>2. CASE \E q \in posts : q.on /\ ~q.published /\ q.age + lease > 2 * RTT
    <3> PICK q \in posts : q.on /\ ~q.published /\ q.age + lease > 2 * RTT
      BY <2>2
    <3>1. CASE q = p
      <4>1. 0 + lease > RTT
        <5>1. p.age + lease > 2 * RTT /\ p.age \in 0 .. RTT /\ lease \in 0 .. LEASE
          BY <1>2, <3>1, Numbers
        <5> QED
          BY <5>1, ConstantsAreNats
      <4> QED
        BY <1>1, <1>4, <1>5, <3>1, <4>1 DEF RenewalInTime
    <3>2. CASE q # p
      BY <1>1, <1>3, <3>2 DEF RenewalInTime
    <3> QED
      BY <3>1, <3>2
  <2>3. CASE \E i \in DOMAIN topic : topic[i].on /\ topic[i].age + lease > RTT
    BY <1>1, <1>4, <2>3 DEF RenewalInTime
  <2>4. CASE hold.sinceReclaim + lease > RECLAIM + 2 * RTT
    BY <1>1, <2>4 DEF RenewalInTime
  <2> QED
    BY <2>1, <2>2, <2>3, <2>4 DEF RenewalInTime
<1>13. Judged'
  BY <1>1, <1>4 DEF HoldInv, Judged, Coming
<1> QED
  BY <1>7, <1>8, <1>9, <1>10, <1>11, <1>12, <1>13 DEF HoldInv

\* The answer to a claim's own request registers the hold.
LEMMA AnswerHold ==
  ASSUME Inv, HoldInv, NEW p \in posts, Answer(p)
  PROVE  HoldInv'
<1> DEFINE new == [cmd |-> p.cmd, age |-> 0, sinceReclaim |-> 0]
<1>1. /\ p.tracked /\ p.published /\ p.cmd \in Cmd /\ p.age \in 0 .. RTT
      /\ posts' = posts \ {p}
      /\ topic' = topic /\ lease' = lease /\ link' = link /\ outcome' = outcome
      /\ screen' = screen /\ issued' = issued /\ sinceSnap' = sinceSnap
      /\ \/ hold' = hold /\ calm' = calm
         \/ hold' = new /\ calm' = (link /\ outcome[p.cmd] # "REFUSED")
  BY Numbers DEF Answer, device
<1>2. /\ new.cmd = p.cmd /\ new.age = 0 /\ new.sinceReclaim = 0
      /\ new # NoHold
  <2>1. new \in Hold
    BY <1>1, ConstantsAreNats DEF Hold
  <2> QED
    BY <2>1, NoHoldAssumption
<1> HIDE DEF new
<1>3. \A c : Fresh(c)' <=> Fresh(c)
  BY <1>1 DEF Fresh
<1>4. Minted' /\ SentOnce' /\ TakenSince'
  BY <1>1, <1>2, <1>3 DEF HoldInv, Minted, SentOnce, TakenSince
<1>5. OneRequest'
  BY <1>1, <1>2 DEF HoldInv, OneRequest
<1>6. CASE hold' = hold /\ calm' = calm
  <2>1. Hooked'
    BY <1>1, <1>6 DEF HoldInv, Hooked
  <2>2. Renewed'
    BY <1>1, <1>6 DEF HoldInv, Renewed, RenewalInTime
  <2>3. Judged'
    BY <1>1, <1>6 DEF HoldInv, Judged, Coming
  <2> QED
    BY <1>4, <1>5, <2>1, <2>2, <2>3 DEF HoldInv
<1>7. CASE hold' = new /\ calm' = (link /\ outcome[p.cmd] # "REFUSED")
  <2> SUFFICES Hooked' /\ Renewed' /\ Judged'
    BY <1>4, <1>5 DEF HoldInv
  <2>1. \/ Fresh(p.cmd) /\ \E i \in DOMAIN topic : topic[i].cmd = p.cmd
        \/ outcome[p.cmd] # "none" /\ screen.outcome[p.cmd] \in {"none", outcome[p.cmd]}
    BY <1>1 DEF HoldInv, SentOnce
  <2>2. Hooked'
    BY <1>1, <1>2, <1>7, <2>1, ConstantsAreNats DEF Hooked, Fresh
  <2>3. Renewed'
    <3> SUFFICES ASSUME outcome[p.cmd] = "APPLIED", lease > 0
                 PROVE  0 + lease > RECLAIM + 2 * RTT
      BY <1>1, <1>2, <1>7 DEF Renewed, RenewalInTime
    <3>1. lease + p.age >= LEASE /\ lease \in 0 .. LEASE
      BY <1>1, Numbers DEF HoldInv, TakenSince
    <3> QED
      BY <1>1, <3>1, ConstantsAreNats
  <2>4. Judged'
    <3> SUFFICES ASSUME outcome[p.cmd] # "REFUSED", screen.outcome[p.cmd] = "none"
                 PROVE  \/ /\ outcome[p.cmd] = "none" /\ 0 <= RTT
                           /\ \E i \in DOMAIN topic : topic[i].cmd = p.cmd /\ topic[i].age >= 0
                        \/ outcome[p.cmd] = "APPLIED" /\ 0 <= sinceSnap + RTT
      BY <1>1, <1>2, <1>7 DEF Judged, Coming
    <3>1. outcome[p.cmd] \in Outcomes /\ 0 <= RTT /\ 0 <= sinceSnap + RTT
      <4>1. outcome[p.cmd] \in Outcomes
        BY <1>1 DEF Inv, TypeOK
      <4>2. sinceSnap \in 0 .. INTERVAL
        BY Numbers
      <4> QED
        BY <4>1, <4>2, ConstantsAreNats
    <3>2. \A i \in DOMAIN topic : topic[i].age >= 0
      <4>1. \A i \in DOMAIN topic : topic[i].age \in 0 .. TTL + RTT
        BY Numbers
      <4> QED
        BY <4>1, ConstantsAreNats
    <3> QED
      BY <2>1, <3>1, <3>2 DEF Fresh, Outcomes
  <2> QED
    BY <2>2, <2>3, <2>4
<1> QED
  BY <1>1, <1>6, <1>7

LEMMA FailHold ==
  ASSUME Inv, HoldInv, NEW p \in posts, Fail(p)
  PROVE  HoldInv'
<1>1. /\ posts' \subseteq posts /\ topic' = topic /\ lease' = lease /\ outcome' = outcome
      /\ screen' = screen /\ issued' = issued /\ hold' = hold /\ ~calm'
  BY DEF Fail, device
<1>2. Minted' /\ OneRequest' /\ SentOnce' /\ TakenSince'
  BY <1>1 DEF HoldInv, Minted, OneRequest, SentOnce, TakenSince, Fresh
<1> QED
  BY <1>1, <1>2 DEF HoldInv, Hooked, Renewed, Judged

-----------------------------------------------------------------------------

\* What the controller takes while all is well sets the lease anew or ends it.
LEMMA ReceiveHold ==
  ASSUME Inv, HoldInv, NEW sourceLow \in BOOLEAN, Receive(sourceLow)
  PROVE  HoldInv'
<1> DEFINE msg == Head(topic)
           result == IF Stale(msg) \/ (msg.on /\ sourceLow) THEN "REFUSED" ELSE "APPLIED"
<1>1. /\ topic # <<>> /\ topic' = Tail(topic)
      /\ posts' = posts /\ issued' = issued /\ hold' = hold /\ link' = link
      /\ screen' = screen /\ sinceSnap' = sinceSnap
      /\ outcome' = [c \in Cmd |-> IF c = msg.cmd THEN result ELSE outcome[c]]
      /\ calm' = (calm /\ result = "APPLIED")
  BY DEF Receive, browser
<1>2. /\ lease' \in {LEASE, 0, lease} /\ result \in {"REFUSED", "APPLIED"}
      /\ result = "APPLIED" => lease' \in {LEASE, 0}
  BY DEF Receive, Extended
<1>3. /\ Len(topic') = Len(topic) - 1 /\ Len(topic) \in Nat /\ 1 \in DOMAIN topic
      /\ \A i \in 1 .. Len(topic') : topic'[i] = topic[i + 1]
      /\ msg = topic[1]
      /\ DOMAIN topic = 1 .. Len(topic) /\ DOMAIN topic' = 1 .. Len(topic')
  BY <1>1, Numbers, HeadTailProperties, LenProperties, EmptySeq
<1>4. /\ \A i \in DOMAIN topic' : i + 1 \in DOMAIN topic /\ topic'[i] = topic[i + 1] /\ i + 1 # 1
      /\ \A i \in DOMAIN topic : i # 1 =>
           \E j \in DOMAIN topic' : topic'[j] = topic[i]
  <2>1. \A i \in DOMAIN topic' : i + 1 \in DOMAIN topic /\ topic'[i] = topic[i + 1] /\ i + 1 # 1
    BY <1>3
  <2>2. ASSUME NEW i \in DOMAIN topic, i # 1
        PROVE  i - 1 \in DOMAIN topic' /\ topic'[i - 1] = topic[i]
    BY <1>3, <2>2
  <2> QED
    BY <2>1, <2>2
<1>5. msg.cmd <= issued /\ msg.cmd \in 0 .. MaxCmds
  BY <1>3, Numbers DEF HoldInv, Minted
<1> HIDE DEF msg, result
<1>6. \A c \in Cmd : outcome'[c] = IF c = msg.cmd THEN result ELSE outcome[c]
  BY <1>1
<1>7. Minted'
  <2>1. \A c \in Cmd : c > issued => c # msg.cmd
    BY <1>5, Numbers, ConstantsAreNats DEF Cmd
  <2>2. \A c \in Cmd : c > issued => Fresh(c)'
    BY <1>1, <1>6, <2>1 DEF HoldInv, Minted, Fresh
  <2>3. \A i \in DOMAIN topic' : topic'[i].cmd <= issued
    BY <1>4 DEF HoldInv, Minted
  <2> QED
    BY <1>1, <2>2, <2>3 DEF HoldInv, Minted
<1>8. OneRequest'
  BY <1>1 DEF HoldInv, OneRequest
<1>9. SentOnce'
  <2> SUFFICES ASSUME NEW q \in posts, q.tracked
               PROVE  /\ \A i, j \in DOMAIN topic' :
                           topic'[i].cmd = q.cmd /\ topic'[j].cmd = q.cmd => i = j
                      /\ \/ /\ Fresh(q.cmd)'
                            /\ q.published <=> \E i \in DOMAIN topic' : topic'[i].cmd = q.cmd
                         \/ /\ q.published /\ \A i \in DOMAIN topic' : topic'[i].cmd # q.cmd
                            /\ outcome'[q.cmd] # "none"
                            /\ screen'.outcome[q.cmd] \in {"none", outcome'[q.cmd]}
    BY <1>1 DEF SentOnce
  <2>1. q.cmd \in Cmd
    BY Numbers
  <2>2. \A i, j \in DOMAIN topic : topic[i].cmd = q.cmd /\ topic[j].cmd = q.cmd => i = j
    BY DEF HoldInv, SentOnce
  <2>3. ASSUME NEW i \in DOMAIN topic', NEW j \in DOMAIN topic',
               topic'[i].cmd = q.cmd, topic'[j].cmd = q.cmd
        PROVE  i = j
    <3>1. /\ i + 1 \in DOMAIN topic /\ topic[i + 1].cmd = q.cmd
          /\ j + 1 \in DOMAIN topic /\ topic[j + 1].cmd = q.cmd
      BY <1>4, <2>3
    <3>2. i + 1 = j + 1
      BY <2>2, <3>1
    <3>3. i \in Nat /\ j \in Nat
      BY <1>3
    <3> QED
      BY <3>2, <3>3
  <2>4. CASE q.cmd = msg.cmd
    <3>1. Fresh(q.cmd) /\ q.published
      BY <1>3, <2>4 DEF HoldInv, SentOnce
    <3>2. \A i \in DOMAIN topic' : topic'[i].cmd # q.cmd
      BY <1>3, <1>4, <2>2, <2>4
    <3>3. outcome'[q.cmd] # "none" /\ screen'.outcome[q.cmd] = "none"
      BY <1>1, <1>2, <1>6, <2>1, <2>4, <3>1 DEF Fresh
    <3> QED
      BY <2>3, <3>1, <3>2, <3>3
  <2>5. CASE q.cmd # msg.cmd
    <3>1. (\E i \in DOMAIN topic' : topic'[i].cmd = q.cmd)
            <=> \E i \in DOMAIN topic : topic[i].cmd = q.cmd
      <4>1. ASSUME NEW i \in DOMAIN topic', topic'[i].cmd = q.cmd
            PROVE  \E j \in DOMAIN topic : topic[j].cmd = q.cmd
        BY <1>4, <4>1
      <4>2. ASSUME NEW i \in DOMAIN topic, topic[i].cmd = q.cmd
            PROVE  \E j \in DOMAIN topic' : topic'[j].cmd = q.cmd
        <5>1. i # 1
          BY <1>3, <2>5, <4>2
        <5>2. PICK j \in DOMAIN topic' : topic'[j] = topic[i]
          BY <1>4, <5>1
        <5> QED
          BY <4>2, <5>2
      <4> QED
        BY <4>1, <4>2
    <3>2. outcome'[q.cmd] = outcome[q.cmd] /\ screen' = screen
      BY <1>1, <1>6, <2>1, <2>5
    <3>3. Fresh(q.cmd)' <=> Fresh(q.cmd)
      BY <3>2 DEF Fresh
    <3>4. \/ /\ Fresh(q.cmd)
             /\ q.published <=> \E i \in DOMAIN topic : topic[i].cmd = q.cmd
          \/ /\ q.published /\ \A i \in DOMAIN topic : topic[i].cmd # q.cmd
             /\ outcome[q.cmd] # "none"
             /\ screen.outcome[q.cmd] \in {"none", outcome[q.cmd]}
      BY DEF HoldInv, SentOnce
    <3> QED
      BY <2>3, <3>1, <3>2, <3>3, <3>4
  <2> QED
    BY <2>4, <2>5
<1>10. TakenSince'
  <2> SUFFICES ASSUME NEW q \in posts, q.tracked, outcome'[q.cmd] = "APPLIED", lease' # 0
               PROVE  lease' + q.age >= LEASE
    BY <1>1 DEF TakenSince
  <2>1. q.age \in 0 .. RTT /\ q.cmd \in Cmd
    BY Numbers
  <2>2. CASE lease' = LEASE
    BY <2>1, <2>2, ConstantsAreNats
  <2>3. CASE lease' # LEASE
    <3>1. outcome[q.cmd] = "APPLIED" /\ lease' = lease
      BY <1>2, <1>6, <2>1, <2>3
    <3> QED
      BY <3>1 DEF HoldInv, TakenSince
  <2> QED
    BY <2>2, <2>3
<1>11. Hooked'
  BY <1>1, <1>6, Numbers DEF HoldInv, Hooked
<1>12. Renewed'
  <2> SUFFICES ASSUME calm', lease' > 0
               PROVE  hold'.sinceReclaim + lease' > RECLAIM + 2 * RTT
    BY DEF Renewed, RenewalInTime
  <2>1. lease' = LEASE /\ hold' = hold /\ hold # NoHold
    <3>1. calm /\ result = "APPLIED" /\ hold' = hold
      BY <1>1
    <3>2. lease' # 0
      OBVIOUS
    <3> QED
      BY <1>2, <3>1, <3>2 DEF HoldInv, Hooked
  <2>2. hold.sinceReclaim \in 0 .. RECLAIM
    BY <2>1, Numbers
  <2> QED
    BY <2>1, <2>2, ConstantsAreNats
<1>13. Judged'
  <2> SUFFICES ASSUME calm, result = "APPLIED", screen.outcome[hold.cmd] = "none"
               PROVE  \/ /\ outcome'[hold.cmd] = "none" /\ hold.age <= RTT
                         /\ \E i \in DOMAIN topic' :
                              topic'[i].cmd = hold.cmd /\ topic'[i].age >= hold.age
                      \/ outcome'[hold.cmd] = "APPLIED" /\ hold.age <= sinceSnap + RTT
    BY <1>1 DEF Judged, Coming
  <2>1. hold.cmd \in Cmd /\ hold.age \in 0 .. Grace + 1 /\ sinceSnap \in 0 .. INTERVAL
    BY Numbers DEF HoldInv, Hooked
  <2>2. CASE Coming
    <3>1. CASE hold.cmd = msg.cmd
      <4>1. outcome'[hold.cmd] = "APPLIED"
        BY <1>6, <2>1, <3>1
      <4>2. hold.age <= sinceSnap + RTT
        BY <2>1, <2>2, ConstantsAreNats DEF Coming
      <4> QED
        BY <4>1, <4>2
    <3>2. CASE hold.cmd # msg.cmd
      <4>1. \E i \in DOMAIN topic' : topic'[i].cmd = hold.cmd /\ topic'[i].age >= hold.age
        <5>1. PICK i \in DOMAIN topic : topic[i].cmd = hold.cmd /\ topic[i].age >= hold.age
          BY <2>2 DEF Coming
        <5>2. i # 1
          BY <1>3, <3>2, <5>1
        <5>3. PICK j \in DOMAIN topic' : topic'[j] = topic[i]
          BY <1>4, <5>2
        <5> QED
          BY <5>1, <5>3
      <4> QED
        BY <1>6, <2>1, <2>2, <3>2, <4>1 DEF Coming
    <3> QED
      BY <3>1, <3>2
  <2>3. CASE outcome[hold.cmd] = "APPLIED" /\ hold.age <= sinceSnap + RTT
    BY <1>6, <2>1, <2>3
  <2> QED
    BY <2>2, <2>3 DEF HoldInv, Judged
<1> QED
  BY <1>7, <1>8, <1>9, <1>10, <1>11, <1>12, <1>13 DEF HoldInv

\* A snapshot shows what is settled; all else that is lost is no longer calm.
LEMMA LinkHold ==
  ASSUME Inv, HoldInv,
         SyncTime \/ GuardTrips \/ Snapshot \/ LoseSnapshot \/ Disconnect \/ Reconnect
  PROVE  HoldInv'
<1>1. /\ posts' = posts /\ topic' = topic /\ lease' = lease /\ outcome' = outcome
      /\ issued' = issued /\ hold' = hold
      /\ calm' => calm /\ link' = link
  BY DEF SyncTime, GuardTrips, Snapshot, LoseSnapshot, Disconnect, Reconnect, browser,
         device, wire, HoldInv, Hooked
<1>2. \/ screen' = screen /\ (calm' => sinceSnap' = sinceSnap)
      \/ \A c \in Cmd : screen'.outcome[c] =
           IF outcome[c] = "none" THEN screen.outcome[c] ELSE outcome[c]
  BY DEF SyncTime, GuardTrips, Snapshot, LoseSnapshot, Disconnect, Reconnect, wire
<1>3. \A c \in Cmd : Fresh(c)' <=> Fresh(c)
  BY <1>1, <1>2 DEF Fresh
<1>4. Minted' /\ OneRequest' /\ TakenSince'
  BY <1>1, <1>3 DEF HoldInv, Minted, OneRequest, TakenSince
<1>5. SentOnce'
  <2> SUFFICES ASSUME NEW q \in posts, q.tracked
               PROVE  /\ \A i, j \in DOMAIN topic :
                           topic[i].cmd = q.cmd /\ topic[j].cmd = q.cmd => i = j
                      /\ \/ /\ Fresh(q.cmd)'
                            /\ q.published <=> \E i \in DOMAIN topic : topic[i].cmd = q.cmd
                         \/ /\ q.published /\ \A i \in DOMAIN topic : topic[i].cmd # q.cmd
                            /\ outcome[q.cmd] # "none"
                            /\ screen'.outcome[q.cmd] \in {"none", outcome[q.cmd]}
    BY <1>1 DEF SentOnce
  <2>1. q.cmd \in Cmd
    BY Numbers
  <2> QED
    BY <1>2, <1>3, <2>1 DEF HoldInv, SentOnce
<1>6. calm' => hold.cmd \in Cmd
  BY <1>1, Numbers DEF HoldInv, Hooked
<1>7. Hooked'
  BY <1>1, <1>2, <1>6 DEF HoldInv, Hooked
<1>8. Renewed'
  BY <1>1 DEF HoldInv, Renewed, RenewalInTime
<1>9. Judged'
  BY <1>1, <1>2, <1>6 DEF HoldInv, Judged, Coming
<1> QED
  BY <1>4, <1>5, <1>7, <1>8, <1>9 DEF HoldInv

-----------------------------------------------------------------------------

\* Messages age where they are.
LEMMA OlderTopic ==
  ASSUME Inv, Tick
  PROVE  /\ DOMAIN topic' = DOMAIN topic
         /\ \A i \in DOMAIN topic :
              /\ topic'[i].cmd = topic[i].cmd /\ topic'[i].on = topic[i].on
              /\ topic[i].age < RTT => topic'[i].age = topic[i].age + 1
<1>1. /\ topic' = [i \in DOMAIN topic |-> [topic[i] EXCEPT !.age = Later(@, TTL + RTT)]]
      /\ \A i \in DOMAIN topic : topic[i] \in Message /\ topic[i].age \in 0 .. TTL + RTT
  BY Numbers DEF Tick
<1> SUFFICES ASSUME NEW i \in DOMAIN topic
             PROVE  /\ topic'[i].cmd = topic[i].cmd /\ topic'[i].on = topic[i].on
                    /\ topic[i].age < RTT => topic'[i].age = topic[i].age + 1
  BY <1>1
<1>2. topic[i] \in [cmd : Cmd \cup {NoCmd}, on : BOOLEAN, age : 0 .. TTL + RTT]
  BY <1>1 DEF Message
<1>3. /\ topic'[i].cmd = topic[i].cmd /\ topic'[i].on = topic[i].on
      /\ topic'[i].age = Later(topic[i].age, TTL + RTT)
  BY <1>1, <1>2
<1>4. topic[i].age < RTT => topic[i].age < TTL + RTT
  BY <1>2, ConstantsAreNats
<1> QED
  BY <1>3, <1>4 DEF Later

Aging(q, p) ==
  /\ q.cmd = p.cmd /\ q.on = p.on /\ q.tracked = p.tracked
  /\ q.published = p.published /\ q.age = p.age + 1

\* Requests age too, and what the browser adds to them is a re-assertion of the
\* hold or a release of it.
LEMMA OlderRequests ==
  ASSUME Inv, Tick
  PROVE  /\ \A p \in posts : [p EXCEPT !.age = @ + 1] \in posts'
                             /\ Aging([p EXCEPT !.age = @ + 1], p)
         /\ \A q \in posts' :
              \/ \E p \in posts : q = [p EXCEPT !.age = @ + 1] /\ Aging(q, p)
              \/ /\ ~q.tracked
                 /\ q.cmd = NoCmd \/ (hold # NoHold /\ q.cmd = hold.cmd)
<1>1. ASSUME NEW p \in posts PROVE Aging([p EXCEPT !.age = @ + 1], p)
  <2>1. p \in [cmd : Cmd \cup {NoCmd}, on : BOOLEAN, tracked : BOOLEAN,
               published : BOOLEAN, age : 0 .. RTT]
    BY Numbers DEF Post
  <2> QED
    BY <2>1 DEF Aging
<1>2. /\ OlderPosts \subseteq posts'
      /\ \A q \in posts' : \/ q \in OlderPosts
                           \/ q = NewPost(NoCmd, FALSE, FALSE)
                           \/ hold # NoHold /\ q = NewPost(OlderHold.cmd, TRUE, FALSE)
  BY DEF Tick, Reconcile
<1>3. hold # NoHold => OlderHold.cmd = hold.cmd
  <2> SUFFICES ASSUME hold # NoHold PROVE OlderHold.cmd = hold.cmd
    OBVIOUS
  <2>1. hold \in [cmd : Cmd, age : 0 .. Grace + 1, sinceReclaim : 0 .. RECLAIM]
    BY Numbers DEF Hold
  <2> QED
    BY <2>1 DEF OlderHold
<1>4. \A p \in posts : [p EXCEPT !.age = @ + 1] \in posts'
  BY <1>2 DEF OlderPosts
<1>5. \A q \in OlderPosts : \E p \in posts : q = [p EXCEPT !.age = @ + 1]
  BY DEF OlderPosts
<1>6. ASSUME NEW q \in posts'
      PROVE  \/ \E p \in posts : q = [p EXCEPT !.age = @ + 1] /\ Aging(q, p)
             \/ ~q.tracked /\ (q.cmd = NoCmd \/ (hold # NoHold /\ q.cmd = hold.cmd))
  <2>1. CASE q \in OlderPosts
    BY <1>1, <1>5, <2>1
  <2>2. CASE q = NewPost(NoCmd, FALSE, FALSE)
    BY <2>2 DEF NewPost
  <2>3. CASE hold # NoHold /\ q = NewPost(OlderHold.cmd, TRUE, FALSE)
    BY <1>3, <2>3 DEF NewPost
  <2> QED
    BY <1>2, <2>1, <2>2, <2>3
<1> QED
  BY <1>1, <1>4, <1>6

\* The hold grows older, and is re-asserted when the cadence is over.
LEMMA OlderHolds ==
  ASSUME Inv, HoldInv, Tick
  PROVE  /\ hold' # NoHold => hold # NoHold /\ hold'.cmd = hold.cmd
         /\ calm' => /\ calm /\ hold' # NoHold
                     /\ hold'.age \in Nat /\ hold'.age <= hold.age + 1
                     /\ \/ /\ hold'.sinceReclaim = hold.sinceReclaim + 1
                           /\ hold'.sinceReclaim < RECLAIM
                        \/ /\ hold'.sinceReclaim = 0
                           /\ RECLAIM = hold.sinceReclaim + 1
                           /\ NewPost(hold.cmd, TRUE, FALSE) \in posts'
<1>1. /\ hold = NoHold => hold' = NoHold
      /\ calm' => calm /\ hold' # NoHold
  BY DEF Tick, Reconcile
<1> SUFFICES ASSUME hold # NoHold, hold' # NoHold
             PROVE  /\ hold'.cmd = hold.cmd
                    /\ calm' => /\ hold'.age \in Nat /\ hold'.age <= hold.age + 1
                                /\ \/ /\ hold'.sinceReclaim = hold.sinceReclaim + 1
                                      /\ hold'.sinceReclaim < RECLAIM
                                   \/ /\ hold'.sinceReclaim = 0
                                      /\ RECLAIM = hold.sinceReclaim + 1
                                      /\ NewPost(hold.cmd, TRUE, FALSE) \in posts'
  BY <1>1
<1>2. hold \in [cmd : Cmd, age : 0 .. Grace + 1, sinceReclaim : 0 .. RECLAIM]
  BY Numbers DEF Hold
<1> DEFINE h == OlderHold
           restarted == [OlderHold EXCEPT !.sinceReclaim = 0]
<1>3. /\ h.cmd = hold.cmd /\ h.age = Later(hold.age, Grace + 1)
      /\ h.sinceReclaim = Later(hold.sinceReclaim, RECLAIM)
      /\ restarted.cmd = h.cmd /\ restarted.age = h.age /\ restarted.sinceReclaim = 0
  BY <1>2 DEF OlderHold
<1>4. \/ hold' = h /\ h.sinceReclaim # RECLAIM
      \/ /\ hold' = restarted /\ h.sinceReclaim = RECLAIM
         /\ NewPost(h.cmd, TRUE, FALSE) \in posts'
  BY DEF Tick, Reconcile, ReclaimDue
<1> HIDE DEF h, restarted
<1>5. h.age \in Nat /\ h.age <= hold.age + 1
  BY <1>2, <1>3, ConstantsAreNats, LaterBounds
<1>6. calm => hold.sinceReclaim < RECLAIM
  BY DEF HoldInv, Hooked
<1>7. calm' => h.sinceReclaim = hold.sinceReclaim + 1 /\ h.sinceReclaim <= RECLAIM
                 /\ h.sinceReclaim \in Nat
  BY <1>1, <1>2, <1>3, <1>6, ConstantsAreNats, LaterBounds
<1>8. hold'.cmd = hold.cmd /\ hold'.age = h.age
  BY <1>3, <1>4
<1>9. ASSUME calm'
      PROVE  \/ /\ hold'.sinceReclaim = hold.sinceReclaim + 1
                /\ hold'.sinceReclaim < RECLAIM
             \/ /\ hold'.sinceReclaim = 0
                /\ RECLAIM = hold.sinceReclaim + 1
                /\ NewPost(hold.cmd, TRUE, FALSE) \in posts'
  <2>1. CASE hold' = h /\ h.sinceReclaim # RECLAIM
    <3>1. h.sinceReclaim = hold.sinceReclaim + 1 /\ h.sinceReclaim < RECLAIM
      BY <1>7, <1>9, <2>1, ConstantsAreNats
    <3> QED
      BY <2>1, <3>1
  <2>2. CASE /\ hold' = restarted /\ h.sinceReclaim = RECLAIM
             /\ NewPost(h.cmd, TRUE, FALSE) \in posts'
    BY <1>3, <1>7, <1>9, <2>2
  <2> QED
    BY <1>4, <2>1, <2>2
<1> QED
  BY <1>5, <1>8, <1>9

\* The next re-assertion comes a tick nearer, as the lease grows a tick shorter.
LEMMA TickHold == Inv /\ HoldInv /\ Tick => HoldInv'
<1> SUFFICES ASSUME Inv, HoldInv, Tick PROVE HoldInv'
  OBVIOUS
<1>1. /\ \A p \in posts : p.age < RTT
      /\ calm => sinceSnap < INTERVAL /\ \A i \in DOMAIN topic : topic[i].age < RTT
      /\ lease' = (IF lease = 0 THEN 0 ELSE lease - 1)
      /\ sinceSnap' = Later(sinceSnap, INTERVAL)
      /\ issued' = issued /\ link' = link /\ outcome' = outcome /\ screen' = screen
  BY DEF Tick, HoldInv, Hooked
<1>2. \A c : Fresh(c)' <=> Fresh(c)
  BY <1>1 DEF Fresh
<1>3. \A i : \A c : topic'[i].cmd = c /\ i \in DOMAIN topic' <=> topic[i].cmd = c /\ i \in DOMAIN topic
  BY OlderTopic
<1>4. Minted'
  <2>1. \A i \in DOMAIN topic' : topic'[i].cmd <= issued
    BY OlderTopic DEF HoldInv, Minted
  <2>2. hold' # NoHold => hold'.cmd <= issued
    BY OlderHolds DEF HoldInv, Minted
  <2>3. \A q \in posts' : q.cmd <= issued
    <3>1. NoCmd <= issued
      BY Numbers, ConstantsAreNats DEF NoCmd
    <3> QED
      BY <3>1, OlderRequests DEF HoldInv, Minted, Aging
  <2> QED
    BY <1>1, <1>2, <2>1, <2>2, <2>3 DEF HoldInv, Minted
<1>5. ASSUME NEW q \in posts', q.tracked
      PROVE  \E p \in posts : p.tracked /\ q = [p EXCEPT !.age = @ + 1] /\ Aging(q, p)
  <2>1. PICK p \in posts : q = [p EXCEPT !.age = @ + 1] /\ Aging(q, p)
    BY <1>5, OlderRequests
  <2>2. p.tracked
    BY <1>5, <2>1 DEF Aging
  <2> QED
    BY <2>1, <2>2
<1>6. OneRequest'
  <2> SUFFICES ASSUME NEW q \in posts', q.tracked
               PROVE  /\ \A r \in posts' : r.cmd = q.cmd => r = q
                      /\ hold' # NoHold => hold'.cmd # q.cmd
    BY DEF OneRequest
  <2>1. PICK p \in posts : p.tracked /\ q = [p EXCEPT !.age = @ + 1] /\ Aging(q, p)
    BY <1>5
  <2>2. /\ \A s \in posts : s.cmd = p.cmd => s = p
        /\ hold # NoHold => hold.cmd # p.cmd
        /\ p.cmd \in Cmd /\ q.cmd = p.cmd
    BY <2>1, Numbers DEF HoldInv, OneRequest, Aging
  <2>3. ASSUME NEW r \in posts', r.cmd = q.cmd PROVE r = q
    <3>1. r.cmd # NoCmd
      BY <2>2, <2>3 DEF Cmd, NoCmd
    <3>2. PICK s \in posts : r = [s EXCEPT !.age = @ + 1] /\ Aging(r, s)
      BY <2>2, <2>3, <3>1, OlderRequests
    <3>3. s = p
      BY <2>2, <2>3, <3>2 DEF Aging
    <3> QED
      BY <2>1, <3>2, <3>3
  <2> QED
    BY <2>2, <2>3, OlderHolds
<1>7. SentOnce'
  <2> SUFFICES ASSUME NEW q \in posts', q.tracked
               PROVE  /\ \A i, j \in DOMAIN topic' :
                           topic'[i].cmd = q.cmd /\ topic'[j].cmd = q.cmd => i = j
                      /\ \/ /\ Fresh(q.cmd)'
                            /\ q.published <=> \E i \in DOMAIN topic' : topic'[i].cmd = q.cmd
                         \/ /\ q.published /\ \A i \in DOMAIN topic' : topic'[i].cmd # q.cmd
                            /\ outcome'[q.cmd] # "none"
                            /\ screen'.outcome[q.cmd] \in {"none", outcome'[q.cmd]}
    BY DEF SentOnce
  <2>1. PICK p \in posts : p.tracked /\ Aging(q, p)
    BY <1>5
  <2>2. q.cmd = p.cmd /\ q.published = p.published
    BY <2>1 DEF Aging
  <2>3. /\ \A i, j \in DOMAIN topic : topic[i].cmd = p.cmd /\ topic[j].cmd = p.cmd => i = j
        /\ \/ Fresh(p.cmd) /\ (p.published <=> \E i \in DOMAIN topic : topic[i].cmd = p.cmd)
           \/ /\ p.published /\ \A i \in DOMAIN topic : topic[i].cmd # p.cmd
              /\ outcome[p.cmd] # "none"
              /\ screen.outcome[p.cmd] \in {"none", outcome[p.cmd]}
    BY <2>1 DEF HoldInv, SentOnce
  <2>4. DOMAIN topic' = DOMAIN topic /\ \A i \in DOMAIN topic : topic'[i].cmd = topic[i].cmd
    BY OlderTopic
  <2>5. \A i, j \in DOMAIN topic' : topic'[i].cmd = q.cmd /\ topic'[j].cmd = q.cmd => i = j
    BY <2>2, <2>3, <2>4
  <2>6. CASE Fresh(p.cmd) /\ (p.published <=> \E i \in DOMAIN topic : topic[i].cmd = p.cmd)
    BY <1>2, <2>2, <2>4, <2>5, <2>6
  <2>7. CASE /\ p.published /\ \A i \in DOMAIN topic : topic[i].cmd # p.cmd
             /\ outcome[p.cmd] # "none"
             /\ screen.outcome[p.cmd] \in {"none", outcome[p.cmd]}
    BY <1>1, <2>2, <2>4, <2>5, <2>7
  <2> QED
    BY <2>3, <2>6, <2>7
<1>8. TakenSince'
  <2> SUFFICES ASSUME NEW q \in posts', q.tracked, outcome[q.cmd] = "APPLIED", lease' # 0
               PROVE  lease' + q.age >= LEASE
    BY <1>1 DEF TakenSince
  <2>1. PICK p \in posts : p.tracked /\ Aging(q, p)
    BY <1>5
  <2>2. /\ lease + p.age >= LEASE /\ p.age \in 0 .. RTT /\ lease \in 0 .. LEASE
        /\ lease' = lease - 1 /\ q.age = p.age + 1
    BY <1>1, <2>1, Numbers DEF HoldInv, TakenSince, Aging
  <2> QED
    BY <2>2, ConstantsAreNats
<1>9. calm' => /\ calm /\ link /\ hold # NoHold /\ hold'.cmd = hold.cmd
               /\ hold.cmd \in Cmd /\ hold.age \in Nat /\ hold.sinceReclaim \in Nat
               /\ hold.sinceReclaim < RECLAIM
               /\ lease \in Nat /\ sinceSnap \in Nat
  <2> SUFFICES ASSUME calm'
               PROVE  /\ calm /\ link /\ hold # NoHold /\ hold'.cmd = hold.cmd
                      /\ hold.cmd \in Cmd /\ hold.age \in Nat /\ hold.sinceReclaim \in Nat
                      /\ hold.sinceReclaim < RECLAIM
                      /\ lease \in Nat /\ sinceSnap \in Nat
    OBVIOUS
  <2>1. calm /\ hold # NoHold /\ hold'.cmd = hold.cmd
    BY OlderHolds
  <2>2. link /\ hold.sinceReclaim < RECLAIM
    BY <2>1 DEF HoldInv, Hooked
  <2>3. hold.cmd \in Cmd /\ hold.age \in 0 .. Grace + 1 /\ hold.sinceReclaim \in 0 .. RECLAIM
    BY <2>1, Numbers
  <2>4. lease \in 0 .. LEASE /\ sinceSnap \in 0 .. INTERVAL
    BY Numbers
  <2> QED
    BY <2>1, <2>2, <2>3, <2>4, ConstantsAreNats
<1>10. Hooked'
  <2> SUFFICES ASSUME calm' PROVE hold'.sinceReclaim < RECLAIM
    BY <1>1, <1>9, OlderHolds DEF HoldInv, Hooked
  <2> QED
    BY OlderHolds, ConstantsAreNats
<1>11. Renewed'
  <2> SUFFICES ASSUME calm', outcome[hold.cmd] = "APPLIED", lease' > 0
               PROVE  RenewalInTime'
    BY <1>1, <1>9 DEF Renewed
  <2>1. lease > 0 /\ lease' = lease - 1 /\ lease \in Nat
    BY <1>1, <1>9
  <2>2. RenewalInTime
    BY <1>9, <2>1 DEF HoldInv, Renewed
  <2>3. CASE hold.sinceReclaim + lease > RECLAIM + 2 * RTT
    <3>1. CASE hold'.sinceReclaim = hold.sinceReclaim + 1
      <4>1. hold'.sinceReclaim + lease' > RECLAIM + 2 * RTT
        BY <1>9, <2>1, <2>3, <3>1, ConstantsAreNats
      <4> QED
        BY <4>1 DEF RenewalInTime
    <3>2. CASE /\ RECLAIM = hold.sinceReclaim + 1
               /\ NewPost(hold.cmd, TRUE, FALSE) \in posts'
      <4>1. 0 + lease' > 2 * RTT
        BY <1>9, <2>1, <2>3, <3>2, ConstantsAreNats
      <4>2. LET q == NewPost(hold.cmd, TRUE, FALSE)
            IN q.on /\ ~q.published /\ q.age = 0
        BY DEF NewPost
      <4> QED
        BY <3>2, <4>1, <4>2 DEF RenewalInTime
    <3> QED
      BY <3>1, <3>2, OlderHolds
  <2>4. CASE \E p \in posts : p.on /\ ~p.published /\ p.age + lease > 2 * RTT
    <3>1. PICK p \in posts : p.on /\ ~p.published /\ p.age + lease > 2 * RTT
      BY <2>4
    <3> DEFINE q == [p EXCEPT !.age = @ + 1]
    <3>2. q \in posts' /\ q.on /\ ~q.published /\ q.age = p.age + 1
      BY <3>1, OlderRequests DEF Aging
    <3>3. p.age \in Nat
      BY Numbers, ConstantsAreNats
    <3> HIDE DEF q
    <3>4. q.age + lease' > 2 * RTT
      BY <2>1, <3>1, <3>2, <3>3, ConstantsAreNats
    <3> QED
      BY <3>2, <3>4 DEF RenewalInTime
  <2>5. CASE \E i \in DOMAIN topic : topic[i].on /\ topic[i].age + lease > RTT
    <3>1. PICK i \in DOMAIN topic : topic[i].on /\ topic[i].age + lease > RTT
      BY <2>5
    <3>2. /\ i \in DOMAIN topic' /\ topic'[i].on /\ topic'[i].age = topic[i].age + 1
          /\ topic[i].age \in Nat
      <4>1. calm /\ topic[i].age < RTT
        BY <1>1, <1>9
      <4>2. topic[i].age \in 0 .. TTL + RTT
        BY Numbers
      <4>3. topic[i].age \in Nat
        BY <4>2, ConstantsAreNats
      <4> QED
        BY <3>1, <4>1, <4>3, OlderTopic
    <3>3. topic'[i].age + lease' > RTT
      BY <2>1, <3>1, <3>2, ConstantsAreNats
    <3> QED
      BY <3>2, <3>3 DEF RenewalInTime
  <2> QED
    BY <2>2, <2>3, <2>4, <2>5 DEF RenewalInTime
<1>12. Judged'
  <2> SUFFICES ASSUME calm', screen.outcome[hold.cmd] = "none"
               PROVE  \/ Coming'
                      \/ outcome[hold.cmd] = "APPLIED" /\ hold'.age <= sinceSnap' + RTT
    BY <1>1, <1>9 DEF Judged
  <2>1. hold'.age \in Nat /\ hold'.age <= hold.age + 1
    BY OlderHolds
  <2>2. CASE Coming
    <3>1. PICK i \in DOMAIN topic : topic[i].cmd = hold.cmd /\ topic[i].age >= hold.age
      BY <2>2 DEF Coming
    <3>2. /\ i \in DOMAIN topic' /\ topic'[i].cmd = hold'.cmd
          /\ topic'[i].age = topic[i].age + 1 /\ topic[i].age \in Nat /\ topic[i].age < RTT
      <4>1. calm /\ topic[i].age < RTT /\ hold'.cmd = hold.cmd
        BY <1>1, <1>9
      <4>2. topic[i].age \in 0 .. TTL + RTT
        BY Numbers
      <4>3. topic[i].age \in Nat
        BY <4>2, ConstantsAreNats
      <4> QED
        BY <3>1, <4>1, <4>3, OlderTopic
    <3>3. topic'[i].age >= hold'.age /\ hold'.age <= RTT
      BY <1>9, <2>1, <3>1, <3>2, ConstantsAreNats
    <3>4. outcome'[hold'.cmd] = "none"
      BY <1>1, <1>9, <2>2 DEF Coming
    <3> QED
      BY <3>2, <3>3, <3>4 DEF Coming
  <2>3. CASE outcome[hold.cmd] = "APPLIED" /\ hold.age <= sinceSnap + RTT
    <3>1. sinceSnap' = sinceSnap + 1
      BY <1>1, <1>9 DEF Later
    <3> QED
      BY <1>9, <2>1, <2>3, <3>1, ConstantsAreNats
  <2> QED
    BY <1>9, <2>2, <2>3 DEF HoldInv, Judged
<1> QED
  BY <1>4, <1>6, <1>7, <1>8, <1>10, <1>11, <1>12 DEF HoldInv

-----------------------------------------------------------------------------

LEMMA NextHold == Inv /\ HoldInv /\ [Next]_vars => HoldInv'
<1> SUFFICES ASSUME Inv, HoldInv, [Next]_vars PROVE HoldInv'
  OBVIOUS
<1>1. CASE Operator
  <2>1. CASE ToggleClaim \/ StopAll
    <3>1. PICK on \in BOOLEAN : Dispatch(on)
      BY <2>1 DEF ToggleClaim, StopAll
    <3> QED
      BY <3>1, DispatchHold
  <2>2. CASE SwitchSite
    BY <2>2, SwitchSiteHold
  <2> QED
    BY <1>1, <2>1, <2>2 DEF Operator
<1>2. CASE Server
  BY <1>2, PublishHold, AnswerHold, FailHold DEF Server
<1>3. CASE Controller
  BY <1>3, ReceiveHold, LinkHold DEF Controller
<1>4. CASE Tick
  BY <1>4, TickHold
<1>5. CASE UNCHANGED vars
  BY <1>5 DEF HoldInv, Minted, OneRequest, SentOnce, TakenSince, Hooked, Renewed,
     RenewalInTime, Judged, Coming, Fresh, vars, browser, device, wire
<1> QED
  BY <1>1, <1>2, <1>3, <1>4, <1>5 DEF Next

LEMMA HoldInvariance == Spec => [](Inv /\ HoldInv)
<1>1. Init => Inv /\ HoldInv
  BY InitInv, InitHold
<1>2. (Inv /\ HoldInv) /\ [Next]_vars => (Inv /\ HoldInv)'
  BY NextInv, NextHold
<1> QED
  BY <1>1, <1>2, PTL DEF Spec

\* As long as nothing goes wrong a hold that the controller has accepted never
\* lapses, for every lease, cadence and way there and back within
\* LeaseAssumption, and any number of commands.
THEOREM HoldsStay == Spec => HoldNeverLapses
<1>1. ASSUME Inv, HoldInv, [Next]_vars,
             hold # NoHold, calm, outcome[hold.cmd] = "APPLIED",
             lease > 0, Len(topic') = Len(topic)
      PROVE  lease' > 0
  <2>1. CASE Tick
    <3>1. /\ lease' = lease - 1 /\ lease \in Nat /\ hold.sinceReclaim \in Nat
          /\ hold.sinceReclaim < RECLAIM
          /\ \A p \in posts : p.age < RTT /\ p.age \in Nat
          /\ \A i \in DOMAIN topic : topic[i].age < RTT /\ topic[i].age \in Nat
      <4>1. /\ link /\ hold.sinceReclaim < RECLAIM
            /\ \A p \in posts : p.age < RTT
            /\ \A i \in DOMAIN topic : topic[i].age < RTT
            /\ lease' = (IF lease = 0 THEN 0 ELSE lease - 1)
        BY <1>1, <2>1 DEF Tick, HoldInv, Hooked
      <4>2. /\ lease \in 0 .. LEASE /\ hold.sinceReclaim \in 0 .. RECLAIM
            /\ \A p \in posts : p.age \in 0 .. RTT
            /\ \A i \in DOMAIN topic : topic[i].age \in 0 .. TTL + RTT
        BY <1>1, Numbers
      <4>3. lease' = lease - 1 /\ lease \in Nat /\ hold.sinceReclaim \in Nat
        BY <1>1, <4>1, <4>2, ConstantsAreNats
      <4> QED
        BY <4>1, <4>2, <4>3, ConstantsAreNats
    <3>2. RenewalInTime
      BY <1>1 DEF HoldInv, Renewed
    <3>3. CASE hold.sinceReclaim + lease > RECLAIM + 2 * RTT
      BY <3>1, <3>3, ConstantsAreNats
    <3>4. CASE \E p \in posts : p.on /\ ~p.published /\ p.age + lease > 2 * RTT
      <4>1. PICK p \in posts : p.age + lease > 2 * RTT
        BY <3>4
      <4>2. p.age < RTT /\ p.age \in Nat
        BY <3>1
      <4> QED
        BY <3>1, <4>1, <4>2, ConstantsAreNats
    <3>5. CASE \E i \in DOMAIN topic : topic[i].on /\ topic[i].age + lease > RTT
      <4>1. PICK i \in DOMAIN topic : topic[i].age + lease > RTT
        BY <3>5
      <4>2. topic[i].age < RTT /\ topic[i].age \in Nat
        BY <3>1
      <4> QED
        BY <3>1, <4>1, <4>2, ConstantsAreNats
    <3> QED
      BY <3>2, <3>3, <3>4, <3>5 DEF RenewalInTime
  <2>2. CASE \E sourceLow \in BOOLEAN : Receive(sourceLow)
    <3>1. topic # <<>> /\ topic' = Tail(topic)
      BY <2>2 DEF Receive
    <3>2. Len(topic') = Len(topic) - 1 /\ Len(topic) \in Nat
      BY <1>1, <3>1, Numbers, HeadTailProperties, LenProperties, EmptySeq
    <3> QED
      BY <1>1, <3>2
  <2>3. CASE Operator \/ Server \/ UNCHANGED vars
            \/ SyncTime \/ GuardTrips \/ Snapshot \/ LoseSnapshot \/ Disconnect \/ Reconnect
    <3>1. Operator => lease' = lease
      BY DEF Operator, ToggleClaim, StopAll, Dispatch, SwitchSite, device
    <3>2. Server => lease' = lease
      BY DEF Server, Publish, Answer, Fail, device
    <3>3. UNCHANGED vars => lease' = lease
      BY DEF vars, device
    <3>4. SyncTime \/ GuardTrips \/ Snapshot => lease' = lease
      BY DEF SyncTime, GuardTrips, Snapshot, device
    <3>5. LoseSnapshot \/ Disconnect \/ Reconnect => lease' = lease
      BY DEF LoseSnapshot, Disconnect, Reconnect, device
    <3> QED
      BY <1>1, <2>3, <3>1, <3>2, <3>3, <3>4, <3>5
  <2> QED
    BY <1>1, <2>1, <2>2, <2>3 DEF Next, Controller
<1>2. Inv /\ HoldInv /\ [Next]_vars =>
        [(hold # NoHold /\ calm /\ outcome[hold.cmd] = "APPLIED"
          /\ lease > 0 /\ Len(topic') = Len(topic)) => lease' > 0]_vars
  BY <1>1
<1> QED
  BY <1>2, HoldInvariance, PTL DEF Spec, HoldNeverLapses

\* As long as nothing goes wrong the browser never gives up by itself a hold that
\* the controller has accepted: the grace covers the snapshot interval and the
\* way there, for every interval and margin within GraceAssumption.
THEOREM AcceptedHoldIsKept == Spec => NoFalseBlock
<1>1. ASSUME Inv, HoldInv, [Next]_vars,
             hold # NoHold, hold' = NoHold, view' = view, issued' = issued, calm
      PROVE  outcome[hold.cmd] # "APPLIED"
  <2>1. CASE Tick
    <3> SUFFICES ASSUME outcome[hold.cmd] = "APPLIED" PROVE FALSE
      OBVIOUS
    <3>1. /\ hold \in Hold /\ hold.age \in Nat /\ sinceSnap \in Nat /\ sinceSnap < INTERVAL
          /\ screen.outcome[hold.cmd] # "REFUSED"
      BY <1>1, <2>1, Numbers, ConstantsAreNats DEF Tick, HoldInv, Hooked
    <3>2. hold \in [cmd : Cmd, age : 0 .. Grace + 1, sinceReclaim : 0 .. RECLAIM]
      BY <3>1 DEF Hold
    <3>3. OlderHold.cmd = hold.cmd /\ OlderHold.age = Later(hold.age, Grace + 1)
      BY <3>2 DEF OlderHold
    <3>4. OlderHold \in Hold /\ [OlderHold EXCEPT !.sinceReclaim = 0] \in Hold
      <4>1. /\ Later(hold.age, Grace + 1) \in 0 .. Grace + 1
            /\ Later(hold.sinceReclaim, RECLAIM) \in 0 .. RECLAIM
        BY <3>2, ConstantsAreNats DEF Later
      <4>2. OlderHold \in Hold
        BY <3>2, <4>1 DEF OlderHold, Hold
      <4> QED
        BY <4>2, ConstantsAreNats DEF Hold
    <3>5. ClaimRefused(OlderHold.cmd, OlderHold.age)
      BY <1>1, <2>1, <3>4, NoHoldAssumption DEF Tick, Reconcile
    <3>6. screen.outcome[hold.cmd] = "none" /\ Later(hold.age, Grace + 1) > Grace
      BY <3>1, <3>3, <3>5 DEF ClaimRefused
    <3>7. hold.age <= sinceSnap + RTT
      BY <1>1, <3>6 DEF HoldInv, Judged, Coming
    <3>8. Later(hold.age, Grace + 1) <= hold.age + 1
      BY <3>1, ConstantsAreNats, LaterBounds
    <3> QED
      <4>1. hold.age + 1 <= Grace
        BY <3>1, <3>7, ConstantsAreNats
      <4>2. Later(hold.age, Grace + 1) \in Nat
        BY <3>1, ConstantsAreNats DEF Later
      <4> QED
        BY <3>1, <3>6, <3>8, <4>1, <4>2, ConstantsAreNats
  <2>2. CASE ToggleClaim \/ StopAll
    <3>1. issued' = issued + 1
      BY <2>2 DEF ToggleClaim, StopAll, Dispatch
    <3>2. issued \in 0 .. MaxCmds
      BY <1>1, Numbers
    <3> QED
      BY <1>1, <3>1, <3>2, ConstantsAreNats
  <2>3. CASE SwitchSite
    BY <1>1, <2>3 DEF SwitchSite, Inv, TypeOK
  <2>4. CASE \E p \in posts : Answer(p)
    <3>1. PICK p \in posts : Answer(p)
      BY <2>4
    <3>2. [cmd |-> p.cmd, age |-> 0, sinceReclaim |-> 0] \in Hold
      <4>1. p.tracked /\ p.cmd \in Cmd
        BY <1>1, <3>1, Numbers DEF Answer
      <4> QED
        BY <4>1, ConstantsAreNats DEF Hold
    <3>3. hold' \in {hold, [cmd |-> p.cmd, age |-> 0, sinceReclaim |-> 0]}
      BY <3>1 DEF Answer
    <3> QED
      BY <1>1, <3>2, <3>3, NoHoldAssumption
  <2>5. CASE \/ \E p \in posts : Publish(p) \/ Fail(p)
             \/ Controller \/ UNCHANGED vars
    <3>1. hold' = hold
      BY <2>5 DEF Publish, Fail, Controller, Receive, SyncTime, GuardTrips, Snapshot,
         LoseSnapshot, Disconnect, Reconnect, vars, browser
    <3> QED
      BY <1>1, <3>1
  <2> QED
    BY <1>1, <2>1, <2>2, <2>3, <2>4, <2>5 DEF Next, Operator, Server
<1>2. Inv /\ HoldInv /\ [Next]_vars =>
        [(hold # NoHold /\ hold' = NoHold /\ view' = view /\ issued' = issued /\ calm)
           => outcome[hold.cmd] # "APPLIED"]_vars
  BY <1>1
<1> QED
  BY <1>2, HoldInvariance, PTL DEF Spec, NoFalseBlock
=============================================================================
