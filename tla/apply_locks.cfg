SPECIFICATION FairSpec
CONSTANTS
  Runners = {r1, r2}
  N = 3
  Stmts <- MCStmts
  Strict <- MCStrict
  Requests <- BothWays
  Exclusive = FALSE
  MaxRuns = 4
PROPERTIES EveryCallEnds
