SPECIFICATION MCSpec
CONSTANTS
  Keep = 1
  SaveCap = 1
  MaxChunks = 2
  MaxRuns = 2
  Controllers = {analyst}
  Dashboards = {poller}
  Modes = {"suricata", "tcpdump"}
  PanelUsed = TRUE
  MayReusePid = TRUE
  MayFail = TRUE
  MayOutlive = TRUE
  MaxProcs = 2
  MaxRestarts = 1
INVARIANTS NothingStrays OneCapture NoneDroppedUnseen AnalysedOnce LostOnlyBehindKeep
PROPERTY StopIsComplete
CHECK_DEADLOCK FALSE
