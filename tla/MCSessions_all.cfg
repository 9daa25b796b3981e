SPECIFICATION MCSpec
CONSTANTS
  Handlers = {h1, h2}
  Requests = {"attach", "session", "stop", "halt", "rebind"}
  Eves = {e1}
  StartAt = 98
  MaxSessions = 1
  JoinTimesOut = TRUE
  SetupMayFail = TRUE
  MayRestart = TRUE
  Pollers = {p1}
  MaxRuns = 2
INVARIANTS NoOrphan OneLoop
PROPERTIES StoppedIsComplete StopTakes StopEnds
CHECK_DEADLOCK FALSE
