SPECIFICATION Spec
CONSTANTS
  Runners = {r1}
  N = 3
  Stmts <- MCStmts
  Strict <- MCStrict
  Requests <- DivergedRequests
  Exclusive = TRUE
  MaxRuns = 3
PROPERTIES HeadAppliesAll
