SPECIFICATION Spec
CONSTANTS
  N = 3
  Entries <- MCEntries
  MaxEntries = 3
  Currents <- MCCurrents
  Targets <- MCTargets
  Directions <- MCDirections
INVARIANTS TypeOK PlanIsTheWalk PlanLandsOnTarget DownRevertsUp
