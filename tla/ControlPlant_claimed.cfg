\* One pump that a claim and a route may both drive.
SPECIFICATION PlantSpec
CONSTANTS
  r1 = r1  r2 = r2  v1 = v1  v2 = v2  p1 = p1  m1 = m1  user = user
  Route = {r1}
  Valve = {v1}
  ValvesOf <- OneValve
  PumpOf <- OnePump
  SensorOf <- OneSensor
  Travel <- OneTravel
  ValveTravel <- OneValveTravel
  LongestTravel = 1
  MaxRenewals = 2
  Claimable = {p1}
  FlowPump = {p1}
  MAX_CONCURRENT_ROUTES = 1
  Wrap = 16
  MayOverride = TRUE
  Pump = {p1}
  NoRoute = NoRoute
  NoPump = NoPump
  NoSensor = NoSensor
  StallEnabled = {}
  SourceChecked = {}
  DestChecked = {}
  OpenEnded = {}
  StopSpec <- PlainSpec
  Actor = {user}
  System = user
  PumpMaxRuntime <- PumpLimit
  MAX_QUEUE_SIZE = 1
  DEPRESSURIZE = 2
  SETTLE = 1
  FlowWatchdog = 1
  FlowConfirm = 1
  Lag1 = 1
  Lag2 = 2
INVARIANTS ClaimRunBounded
