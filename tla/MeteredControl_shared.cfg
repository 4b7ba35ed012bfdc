\* Two routes behind one meter and one pump, one beside them.
SPECIFICATION MeteredSpec
CONSTANTS
  r1 = r1  r2 = r2  r3 = r3  v1 = v1  v2 = v2  v3 = v3  p1 = p1  m1 = m1
  user = user
  Route = {r1, r2, r3}
  Valve = {v1, v2, v3}
  Pump = {p1}
  NoRoute = NoRoute
  NoPump = NoPump
  NoSensor = NoSensor
  ValvesOf <- SharedValves
  PumpOf <- SharedPumps
  SensorOf <- SharedSensors
  Travel <- SharedTravel
  StallEnabled = {r1, r2}
  SourceChecked = {}
  DestChecked = {}
  OpenEnded = {r1, r2}
  StopSpec <- PlainSpec
  Actor = {user}
  System = user
  Claimable = {}
  FlowPump = {}
  PumpMaxRuntime <- PumpLimit
  MAX_CONCURRENT_ROUTES = 2
  MAX_QUEUE_SIZE = 2
  DEPRESSURIZE = 1
  SETTLE = 0
  FlowWatchdog = 1
  FlowConfirm = 1
  Wrap = 4
  Lag1 = 1
  Lag2 = 2
  MayOverride = FALSE
SYMMETRY Alike
INVARIANTS TypeOK OneSlotPerRoute NoConflictingRuns LedgerInStep
PROPERTIES DrainIsComplete FaultLatches RunsAreRecorded
