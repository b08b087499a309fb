SPECIFICATION Spec
CONSTANTS
  Casts <- MCCasts
  Takes <- MCTakes
  Comparable <- MCComparable
  Declared <- Schemas
  Careful = TRUE
  MaxRevisions = 3
INVARIANTS TypeOK NeverRefused UpReachesGoal DownLeadsBack Settles
PROPERTIES VersionTableStays
