SPECIFICATION Spec
CONSTANTS
  Casts <- MCCasts
  Takes <- MCTakes
  Comparable <- MCComparable
  Declared <- Careless
  Careful = FALSE
  MaxRevisions = 3
INVARIANTS SnapshotExact
PROPERTIES AcceptedCanBeTakenBack RevisionRepairs
