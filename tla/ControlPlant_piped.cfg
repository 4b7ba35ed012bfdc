\* Two routes, a shared pump and a shared valve, in units of half a second.
SPECIFICATION PlantSpec
CONSTANTS
  r1 = r1  r2 = r2  v1 = v1  v2 = v2  p1 = p1  m1 = m1  user = user
  Route = {r1, r2}
  Valve = {v1, v2}
  ValvesOf <- PipedValves
  PumpOf <- PipedPumps
  SensorOf <- PipedSensors
  Travel <- PipedTravel
  ValveTravel <- PipedValveTravel
  LongestTravel = 2
  MaxRenewals = 0
  Claimable = {}
  FlowPump = {}
  MAX_CONCURRENT_ROUTES = 2
  Wrap = 16
  MayOverride = FALSE
  Pump = {p1}
  NoRoute = NoRoute
  NoPump = NoPump
  NoSensor = NoSensor
  StallEnabled = {}
  SourceChecked = {}
  DestChecked = {}
  OpenEnded = {}
  StopSpec <- PlainSpec
  Actor = {user}
  System = user
  PumpMaxRuntime <- PumpLimit
  MAX_QUEUE_SIZE = 1
  DEPRESSURIZE = 4
  SETTLE = 2
  FlowWatchdog = 1
  FlowConfirm = 1
  Lag1 = 2
  Lag2 = 4
INVARIANTS PumpOnlyThroughOpenPath
PROPERTIES IdleMeansClosed
