SPECIFICATION Spec
CONSTANTS
  h1 = h1  h2 = h2  h3 = h3  h4 = h4  h5 = h5  h6 = h6
  Handles = {h1, h2, h3, h4, h5, h6}
  First = h1
  NumCounts = 8
SYMMETRY Symmetry
CONSTRAINT Unspoiled
INVARIANTS
  WeakMeansAlive
  RefLivesAsLong
PROPERTIES
  ImplementsOwnership
CHECK_DEADLOCK FALSE
