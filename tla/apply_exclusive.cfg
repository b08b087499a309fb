SPECIFICATION Spec
CONSTANTS
  Runners = {r1, r2}
  N = 3
  Stmts <- MCStmts
  Strict <- MCStrict
  Requests <- TxRequests
  Exclusive = TRUE
  MaxRuns = 3
SYMMETRY RunnerSymmetry
INVARIANTS TypeOK SchemaMatchesVersion
PROPERTIES OkMeansAtTarget MovesAlongLine
