------------------------------ MODULE LedgerSync ------------------------------
(***************************************************************************)
(* How a closed run gets from the controller's meter into the server's     *)
(* billing ledger.  The device numbers a run when it opens it, puts the    *)
(* record into a bounded outbox when it closes it, and repeats the outbox  *)
(* in every snapshot (QoS 0, may be lost).  The server inserts the records *)
(* it does not have, in order, and publishes the highest number it holds   *)
(* as a retained acknowledgement; the device forgets everything up to it.  *)
(* The meter's state is saved as one blob that reaches flash only when the *)
(* preferences are flushed; a crash goes back to that blob.  The lineage   *)
(* epoch is stamped and stays: a run's number seq stands for its run_id.   *)
(***************************************************************************)
EXTENDS Integers, Sequences, FiniteSets

CONSTANTS
  NumSlots,
  OUTBOX_CAP,
  SnapshotRoom,      \* how many short records fit into the snapshot's buffer
  MaxRuns,           \* bound: runs begun
  LongRuns,          \* runs whose record takes the room of two (long actor, fault)
  MaxCrashes         \* bound: crashes

ASSUME LedgerAssumption ==
  /\ NumSlots \in Nat \ {0} /\ OUTBOX_CAP \in Nat \ {0}
  /\ SnapshotRoom \in Nat /\ MaxRuns \in Nat /\ MaxCrashes \in Nat
  /\ LongRuns \subseteq 1 .. MaxRuns

Slot == 0 .. NumSlots - 1
Run == 1 .. MaxRuns      \* the runs that truly happen, in the order they begin

VARIABLES
  dev,            \* the meter in RAM: what the blob saves
  staged, flash,  \* the blob handed to the preferences, the blob in flash
  uplink,         \* snapshots under way, each the records it carries
  ledger,         \* the server's runs collection
  acks,           \* acknowledgements whose goroutine has yet to publish
  retained,       \* the retained runs_ack, 0 before the first
  born, crashes,  \* runs begun and crashes so far
  over,           \* the runs that have been closed
  before          \* the pairs of runs of which the first was closed first

device == <<dev, staged, flash>>
server == <<ledger, acks, retained>>
count == <<born, crashes, over, before>>
vars == <<device, uplink, server, count>>

Ends == {"CLEAN", "INTERRUPTED"}
RunRecord == [seq: Run, run: Run, end: Ends]
NoRun == [seq |-> 0, run |-> 0, end |-> "CLEAN"]
Meter == [seq: 0 .. MaxRuns, open: [Slot -> RunRecord \cup {NoRun}],
          outbox: Seq(RunRecord), acked: 0 .. MaxRuns, dropped: Nat]

Members(s) == {s[i] : i \in DOMAIN s}

-----------------------------------------------------------------------------
\* The device.

\* open_run mints the number; nothing is saved yet.  A record still open in the
\* slot is overwritten and gone.
OpenRun(s) ==
  /\ born < MaxRuns /\ dev.seq < MaxRuns
  /\ born' = born + 1
  /\ dev' = [dev EXCEPT !.seq = @ + 1,
                        !.open[s] = [seq |-> dev.seq + 1, run |-> born + 1,
                                     end |-> "CLEAN"]]
  /\ UNCHANGED <<staged, flash, uplink, server, crashes, over, before>>

\* Mutant of Closed: the outbox grows without bound.
ClosedUnbounded(m, s, end) ==
  IF m.open[s] = NoRun THEN m
  ELSE [m EXCEPT !.open[s] = NoRun,
                 !.outbox = Append(@, [m.open[s] EXCEPT !.end = end])]

\* close_run: into the outbox, the oldest record goes when it is full.
Closed(m, s, end) ==
  IF m.open[s] = NoRun THEN m
  ELSE LET full == Len(m.outbox) >= OUTBOX_CAP
       IN [m EXCEPT !.open[s] = NoRun,
                    !.outbox = Append(IF full THEN Tail(@) ELSE @,
                                      [m.open[s] EXCEPT !.end = end]),
                    !.dropped = IF full THEN @ + 1 ELSE @]

\* Closing a run saves the blob.
CloseRun(s) ==
  /\ dev.open[s] # NoRun
  /\ dev' = Closed(dev, s, "CLEAN")
  /\ staged' = dev'
  /\ over' = over \cup {dev.open[s].run}
  /\ before' = before \cup (over \X {dev.open[s].run})
  /\ UNCHANGED <<flash, uplink, server, born, crashes>>

\* The save every 30 s.
Save ==
  /\ staged' = dev
  /\ UNCHANGED <<dev, flash, uplink, server, count>>

Flush ==
  /\ flash' = staged
  /\ UNCHANGED <<dev, staged, uplink, server, count>>

\* meter_load_ after a crash closes what the blob holds open, slot by slot.
Restored ==
  LET closing[n \in 0 .. NumSlots] ==
        IF n = 0 THEN flash ELSE Closed(closing[n - 1], n - 1, "INTERRUPTED")
  IN closing[NumSlots]

Crash ==
  /\ crashes < MaxCrashes
  /\ crashes' = crashes + 1
  /\ dev' = Restored
  /\ staged' = flash
  /\ over' = over \cup {flash.open[s].run : s \in {t \in Slot : flash.open[t] # NoRun}}
  /\ UNCHANGED <<flash, uplink, server, born, before>>

\* The snapshot repeats the outbox; one snapshot is under way at a time.
Publish ==
  /\ uplink = <<>> /\ dev.outbox # <<>>
  /\ uplink' = <<dev.outbox>>
  /\ UNCHANGED <<device, server, count>>

\* What remove_if leaves of the outbox, in its order.
Unacked(box, acked) ==
  LET rest[i \in 0 .. Len(box)] ==
        IF i = 0 THEN <<>>
        ELSE IF box[i].seq > acked THEN Append(rest[i - 1], box[i]) ELSE rest[i - 1]
  IN rest[Len(box)]

\* on_ack forgets every record up to the highest number acknowledged, and
\* saves.  The retained message comes when it is published and again whenever
\* the device reconnects.
OnAck ==
  /\ retained # 0
  /\ LET acked == IF retained > dev.acked THEN retained ELSE dev.acked
     IN dev' = [dev EXCEPT !.acked = acked,
                           !.outbox = Unacked(@, acked)]
  /\ staged' = dev'
  /\ UNCHANGED <<flash, uplink, server, count>>

-----------------------------------------------------------------------------
\* The network and the server.

Lose ==
  /\ uplink # <<>>
  /\ uplink' = <<>>
  /\ UNCHANGED <<device, server, count>>

Size(records) ==
  Len(records) + Cardinality({i \in DOMAIN records : records[i].run \in LongRuns})

\* Mutant of Readable: the buffer is one record short.
ReadableShort(records) == Size(records) < SnapshotRoom

\* A truncated snapshot is no JSON any more and is ignored as a whole.
Readable(records) == Size(records) <= SnapshotRoom

\* Mutants of Inserted: one goes on behind a failing insert, the other does not
\* look whether the run is there.
InsertedPastFailure(records, stop) ==
  {r \in Members(records) : /\ r.seq # stop
                            /\ \A b \in ledger : b.seq # r.seq}

InsertedAgain(records, stop) == {r \in Members(records) : r.seq < stop}

\* The records inserted when the first failing insert is that of number stop:
\* they are taken in the order of their numbers, those already there are
\* skipped, and the batch ends at the failure.
Inserted(records, stop) ==
  {r \in Members(records) : /\ r.seq < stop
                            /\ \A b \in ledger : b.seq # r.seq}

HighWaterRun(l) == CHOOSE n \in 0 .. MaxRuns :
                     /\ \A r \in l : r.seq <= n
                     /\ n = 0 \/ \E r \in l : r.seq = n

Ingest(stop) ==
  /\ uplink # <<>>
  /\ uplink' = <<>>
  /\ IF Readable(uplink[1])
     THEN /\ ledger' = ledger \cup Inserted(uplink[1], stop)
          /\ acks' = IF ledger' = {} THEN acks
                     ELSE acks \cup {HighWaterRun(ledger')}
     ELSE UNCHANGED <<ledger, acks>>
  /\ UNCHANGED <<device, retained, count>>

\* The goroutines publish in any order.
PublishAck(n) ==
  /\ n \in acks
  /\ acks' = acks \ {n}
  /\ retained' = n
  /\ UNCHANGED <<device, uplink, ledger, count>>

-----------------------------------------------------------------------------
Blank == [seq |-> 0, open |-> [s \in Slot |-> NoRun], outbox |-> <<>>,
          acked |-> 0, dropped |-> 0]

Init ==
  /\ dev = Blank /\ staged = Blank /\ flash = Blank
  /\ uplink = <<>>
  /\ ledger = {} /\ acks = {} /\ retained = 0
  /\ born = 0 /\ crashes = 0 /\ over = {} /\ before = {}

Next ==
  \/ \E s \in Slot : OpenRun(s) \/ CloseRun(s)
  \/ Save \/ Flush \/ Crash
  \/ Publish \/ Lose \/ OnAck
  \/ \E stop \in 1 .. MaxRuns + 1 : Ingest(stop)
  \/ \E n \in 1 .. MaxRuns : PublishAck(n)

Spec == Init /\ [][Next]_vars

\* The device goes on sending, and neither the network loses nor the database
\* refuses every snapshot.
FairSpec ==
  /\ Spec
  /\ WF_vars(Publish)
  /\ SF_vars(Ingest(MaxRuns + 1))

-----------------------------------------------------------------------------
Billed == {r.run : r \in ledger}
Kept == {r.run : r \in Members(dev.outbox)}

Phase(r) ==
  IF r \in Billed THEN "billed"
  ELSE IF r \in over THEN IF r \in Kept THEN "owed" ELSE "dropped"
  ELSE IF \E s \in Slot : dev.open[s].run = r THEN "open"
  ELSE IF r <= born THEN "overwritten" ELSE "none"

Ledger == INSTANCE RunLedger
            WITH Cap <- OUTBOX_CAP, phase <- [r \in Run |-> Phase(r)],
                 restarted <- crashes > 0

TypeOK ==
  /\ dev \in Meter /\ Len(dev.outbox) <= OUTBOX_CAP
  /\ staged \in Meter /\ flash \in Meter
  /\ Len(uplink) <= 1 /\ \A i \in DOMAIN uplink : uplink[i] \in Seq(RunRecord)
  /\ ledger \subseteq RunRecord
  /\ acks \subseteq Run /\ retained \in 0 .. MaxRuns
  /\ born \in 0 .. MaxRuns /\ crashes \in 0 .. MaxCrashes
  /\ over \subseteq Run /\ before \subseteq Run \X Run

\* The device, the lossy link and the server together keep what RunLedger
\* promises: a closed run is owed until it is billed, whatever is lost, repeated,
\* refused by the database or acknowledged out of order, but for the two ways out
\* RunLedger names; and what is billed stays so, also when the device comes back
\* from an old blob.
KeepsLedger == Ledger!LedgerSpec

\* A run that began before another, outlasted it, and is no longer kept: the
\* acknowledgement of the other has taken it along.
Overtaken(r) ==
  /\ r \notin Kept
  /\ \E q \in Billed : q > r /\ <<q, r>> \in before

\* Every closed run is billed in the end, unless a run that began later and ended
\* sooner overtook it, the outbox overflowed or has grown beyond what fits into a
\* snapshot, or a crash took the record with it.
EveryRunIsBilled ==
  \A r \in Run :
    r \in over ~> \/ r \in Billed \/ Overtaken(r)
                  \/ dev.dropped > 0 \/ Size(dev.outbox) > SnapshotRoom
                  \/ crashes > 0

\* A run is billed at most once, also when a crash brings an open run back that
\* had been closed and sent, so that it is closed a second time.
NoRunBilledTwice == \A a, b \in ledger : a.run = b.run => a = b
=============================================================================
