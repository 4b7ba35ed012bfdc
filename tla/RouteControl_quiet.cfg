\* The shared plant, with an operator who leaves.
SPECIFICATION QuietSpec
CONSTANTS
  r1 = r1  r2 = r2  r3 = r3  v1 = v1  v2 = v2  v3 = v3  p1 = p1  m1 = m1
  user = user
  Route = {r1, r2}
  Valve = {v1, v2}
  Pump = {p1}
  NoRoute = NoRoute
  NoPump = NoPump
  NoSensor = NoSensor
  ValvesOf <- TwoValves
  PumpOf <- TwoPumps
  SensorOf <- TwoSensors
  Travel <- TwoTravel
  StallEnabled = {r1}
  SourceChecked = {r1}
  DestChecked = {r1}
  OpenEnded = {}
  StopSpec <- AllSpecs
  Actor = {user}
  System = user
  Claimable = {}
  FlowPump = {}
  PumpMaxRuntime <- PumpLimit
  MAX_CONCURRENT_ROUTES = 1
  MAX_QUEUE_SIZE = 2
  DEPRESSURIZE = 2
  SETTLE = 1
  FlowWatchdog = 2
  FlowConfirm = 2
  Wrap = 16
  Lag1 = 2
  Lag2 = 2
  MayOverride = FALSE
INVARIANTS WatchedRunBounded
PROPERTIES QueueDrains RunsFinish
