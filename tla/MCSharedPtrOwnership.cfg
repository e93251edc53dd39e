\* When the last pointer is gone there is nothing left to do.
CHECK_DEADLOCK FALSE
SPECIFICATION Spec
CONSTANTS
  Pointers = {h1, h2, h3, h4, h5, h6}
  None = None
SYMMETRY Symmetry
INVARIANTS
  CountsExact
  PointeeOutlivesOwners
  BlockOutlivesUsers
