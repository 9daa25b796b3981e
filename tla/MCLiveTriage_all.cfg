SPECIFICATION MCSpec
CONSTANTS
  Reporters = {m1, m2}
  Analysts = {a1}
  Keys = {k1, k2, k3}
  Reports <- MCReports
  Dispositions <- MCDispositions
  MaxRows = 2
  MaxIds = 3
  FileMayFail = TRUE
  Stacks <- TheStacks
  Answers <- TheAnswers
  Hits = {3}
  Floor = 2
  Strong = 3
  BatchSize = 2
  Connections = {c1, c2}
  Earlier = {"benign"}
  MaxPackets = 3
  Kinds <- TheKinds
  AuthPorts = {21, 22}
  Window = 2
  SshBurst = 2
  AuthBurst = 3
  ScanPorts = 2
  MaxSeen = 4
INVARIANTS RowsAreTrue VerdictStands HitsAreRaised OnceEach BurstsAreExact
PROPERTY OnlyOldestLeaves
SYMMETRY MCSymmetry
CHECK_DEADLOCK FALSE
