SPECIFICATION MCSpec
CONSTANTS
  Keys = {k1, k2}
  Window = 2
  Minute = 1
  RateLimit = 2
  HookRate = 1
  MaxTime = 3
  MaxEvents = 4
  Threads = {t1, t2}
  MaxRecent = 2
  MaxAlerts = 3
  MaxJobs = 2
  MaxRestarts = 1
  Rows <- TheRows
  Starts = {0, 1, 2}
  Arps <- TheArps
  NewDomains = {"new"}
  Malicious <- TheMalicious
  DMin <- TheDMin
  DMax = 1500
  MaxScored = 2
  Threshold = 500
  Replays <- TheReplays
  AlertLimit = 2
  Broken = {"PORTSCAN-001", "ARPSPOOFING-002"}
  ScanWindow = 1
  MinPorts = 2
  MinHosts = 2
  MinConnections = 3
  MinInterval = 1
  MaxInterval = 3
  SlowConnections = 2
  SlowInterval = 2
  SlowMaxInterval = 2
  MaxJitter = 20
  QueryBytes = 4
  QueryRate = 2
  StormReplies = 2
  StormWindow = 2
  Multiplier = 2
  MinTargets = 2
  LongMs = 8
  MaxStored = 3
  Packets <- ThePackets
  IdleSeconds = 1
  MaxRows = 2
  MaxPackets = 3
  MaxInstant = 2
  MaxTargets = 6
  MaxLookups = 3
INVARIANTS MutesAreLifted PatchesStick NoneLeftRunning WindowsAreTrue SeverityCovers FlowsAreExact
PROPERTIES RatesAreExact FindsExactly
SYMMETRY Symmetry
CHECK_DEADLOCK FALSE
