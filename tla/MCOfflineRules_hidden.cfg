SPECIFICATION Spec
CONSTANTS
  Rows <- Probes
  Times = {0, 1, 2}
  Arps = {}
  NewDomains = {}
  Malicious = {}
  DMin <- TheDMin
  DMax = 1500
  MaxScored = 2
  Threshold = 500
  Replays = {}
  AlertLimit = 2
  Broken = {}
  ScanWindow = 1
  MinPorts = 2
  MinHosts = 2
  MinConnections = 3
  MinInterval = 1
  MaxInterval = 3
  SlowConnections = 2
  SlowInterval = 2
  SlowMaxInterval = 2
  MaxJitter = 20
  QueryBytes = 4
  QueryRate = 2
  Minute = 1
  StormReplies = 2
  StormWindow = 2
  Multiplier = 2
  MinTargets = 2
  LongMs = 8
  MaxRows = 3
INVARIANT ScansAreFound
CHECK_DEADLOCK FALSE
