\* Two routes behind one meter and one pump, and a single slot.
SPECIFICATION MeteredSpec
CONSTANTS
  r1 = r1  r2 = r2  r3 = r3  v1 = v1  v2 = v2  v3 = v3  p1 = p1  m1 = m1
  user = user
  Route = {r1, r2}
  Valve = {v1, v2}
  Pump = {p1}
  NoRoute = NoRoute
  NoPump = NoPump
  NoSensor = NoSensor
  ValvesOf <- TwoValves
  PumpOf <- TwoPumps
  SensorOf <- TwoSensors
  Travel <- TwoTravel
  StallEnabled = {}
  SourceChecked = {}
  DestChecked = {}
  OpenEnded = {}
  StopSpec <- PlainSpec
  Actor = {user}
  System = user
  Claimable = {}
  FlowPump = {}
  PumpMaxRuntime <- PumpLimit
  MAX_CONCURRENT_ROUTES = 1
  MAX_QUEUE_SIZE = 2
  DEPRESSURIZE = 1
  SETTLE = 0
  FlowWatchdog = 1
  FlowConfirm = 1
  Wrap = 4
  Lag1 = 1
  Lag2 = 2
  MayOverride = TRUE
PROPERTY EndsAreClosed
