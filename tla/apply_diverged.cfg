SPECIFICATION Spec
CONSTANTS
  Runners = {r1, r2}
  N = 3
  Stmts <- MCStmts
  Strict <- MCStrict
  Requests <- DivergedRequests
  Exclusive = TRUE
  MaxRuns = 4
SYMMETRY RunnerSymmetry
PROPERTIES MovesInOrder
