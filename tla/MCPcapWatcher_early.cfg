SPECIFICATION Spec
CONSTANTS
  Keep = 1
  SaveCap = 2
  MaxChunks = 2
  MaxRuns = 2
CHECK_DEADLOCK FALSE
PROPERTY AnalysedOnceClosed
