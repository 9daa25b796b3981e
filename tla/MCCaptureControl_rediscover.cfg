SPECIFICATION Spec
CONSTANTS
  analyst = analyst
  poller = poller
  Controllers <- OneAnalyst
  Dashboards <- NoPoller
  Modes <- SuricataOnly
  PanelUsed = FALSE
  MayReusePid = FALSE
  MayFail = FALSE
  MayOutlive = FALSE
  MaxProcs = 1
  MaxRestarts = 1
INVARIANT RestartRediscovers
