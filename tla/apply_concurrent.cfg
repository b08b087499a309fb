SPECIFICATION Spec
CONSTANTS
  Runners = {r1, r2, r3}
  N = 3
  Stmts <- MCStmts
  Strict <- MCStrict
  Requests <- UpRequests
  Exclusive = FALSE
  MaxRuns = 3
SYMMETRY RunnerSymmetry
INVARIANTS VersionNeverOverclaims AtMostOneHalfDone 
PROPERTIES VersionNeverRegresses OkMeansReached
