SPECIFICATION Spec
CONSTANTS
  Stacks <- TheStacks
  Answers <- TheAnswers
  Hits = {3}
  Floor = 2
  Strong = 3
  BatchSize = 1
  Connections = {c1}
  Earlier = {}
  MaxPackets = 1
INVARIANT AlertsNeedTheFloor
CHECK_DEADLOCK FALSE
