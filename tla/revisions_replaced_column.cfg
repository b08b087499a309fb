SPECIFICATION Spec
CONSTANTS
  Casts <- MCCasts
  Takes <- MCTakes
  Comparable <- MCComparable
  Declared <- Replacing
  Careful = FALSE
  MaxRevisions = 2
PROPERTY RevertsToBase
