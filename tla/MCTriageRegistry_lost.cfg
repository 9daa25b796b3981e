SPECIFICATION Spec
CONSTANTS
  Reporters = {m1, m2}
  Analysts = {a1}
  Keys = {k1, k2}
  Reports <- MCReports
  Dispositions <- MCDispositions
  MaxRows = 2
  MaxIds = 2
  FileMayFail = FALSE
INVARIANTS AllOutcomesLogged
