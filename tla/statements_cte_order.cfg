SPECIFICATION Spec
CONSTANTS
  Tables <- MCTables
  Programs <- CTEPrograms
  MaxRefs = 2
INVARIANTS CTEsInOrder
CHECK_DEADLOCK FALSE
