\* Two slots, a lossy link, an outbox that can be full and too large to send,
\* and crashes back to the flushed blob.
SPECIFICATION FairSpec
CONSTANTS
  NumSlots = 2
  OUTBOX_CAP = 2
  SnapshotRoom = 2
  MaxRuns = 3
  LongRuns = {3}
  MaxCrashes = 1
INVARIANTS TypeOK NoRunBilledTwice
PROPERTIES KeepsLedger EveryRunIsBilled
