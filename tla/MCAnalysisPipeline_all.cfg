SPECIFICATION MCSpec
CONSTANTS
 f1 = f1
 c1 = c1
 c2 = c2
 Finds = {f1}
 Threads = {c1, c2}
 Configs <- TheConfigs
 MaxModels = 3
 MaxConcurrent = 1
 MinInterval = 1
 MaxSleep = 1
 LimitDelay = 2
 CreditDelay = 5
 OtherDelay = 1
 AffordDelay = 1
 Pause = 1
 MaxJobs = 3
 MaxFindings = 5
 MaxCalls = 4
 MaxFailures = 2
 MaxOthers = 1
INVARIANTS Settled ReportCounts CostBounded
PROPERTIES StageForward GateHolds NoAnswerLost WorkEnds
CHECK_DEADLOCK FALSE
