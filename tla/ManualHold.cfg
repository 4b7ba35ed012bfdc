\* One held pump: every order of POSTs, answers, messages, snapshots and ticks.
SPECIFICATION Spec
CONSTANTS
  RECLAIM = 1
  LEASE = 5
  TTL = 1
  GRACE_FLOOR = 1
  GRACE_MARGIN = 1
  INTERVAL = 1
  RTT = 1
  MaxCmds = 2
  MaxTopic = 2
  NoHold = NoHold
  NoEntry = NoEntry
INVARIANT OrphanedClaimEnds
PROPERTIES HoldNeverLapses NoFalseBlock
