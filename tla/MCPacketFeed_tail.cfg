SPECIFICATION FairSpec
CONSTANTS
  h1 = h1
  browser = browser
  eveA = eveA
  eveB = eveB
  Callers <- OneCaller
  Pollers = {}
  Paths <- TwoPaths
  Modes <- BothModes
  MaxRows = 1
  PollTail = 1
  BatchLines = 1
  MaxThreads = 2
  MaxLines = 2
  MaxFiles = 2
  KindsWritten <- Contrary
  MaxSeq = 2
  JoinTimesOut = FALSE
INVARIANTS Fed ExactlyOnce
PROPERTY LinesArrive
