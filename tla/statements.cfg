SPECIFICATION Spec
CONSTANTS
  Tables <- MCTables
  Programs <- MCPrograms
  MaxRefs = 2
INVARIANTS NothingLost PlaceholdersBound ReadAsBuilt TablesInScope PageIsKept CTEsDeclared AltersAsAsked CreatesAsAsked IndexesAsAsked
PROPERTIES OthersUntouched
CHECK_DEADLOCK FALSE
