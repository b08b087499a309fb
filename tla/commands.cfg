SPECIFICATION Spec
CONSTANTS
  Commands = {c1, c2}
  Comments = {t1, t2}
  MaxTime = 1
  MaxRuns = 3
SYMMETRY CommandSymmetry
INVARIANTS TypeOK RegisteredIsWritten BuildKeepsItsDirectory NothingLeftBehind RegistryIsTheReports
