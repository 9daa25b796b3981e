SPECIFICATION MCSpec
CONSTANTS
  h1 = h1
  browser = browser
  eveA = eveA
  eveB = eveB
  Callers <- OneCaller
  Pollers <- Clients
  Paths <- OnePath
  Modes <- BothModes
  MaxRows = 2
  PollTail = 1
  BatchLines = 1
  MaxThreads = 2
  MaxLines = 1
  MaxFiles = 1
  KindsWritten <- AllKinds
  MaxSeq = 3
  MaxEvents = 4
  PollLines = 2
  MaxLogs = 3
  MaxBinds = 1
  JoinTimesOut = TRUE
INVARIANTS NoGap ReadExactly
PROPERTIES ImplementsFeedLog QuietAfterStop CatchesUp
