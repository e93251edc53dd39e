SPECIFICATION SemSpec
CONSTANTS
  Threads = {p1, p2, p3}
  W = 16
  V = 0
  MaxLag = 2
INVARIANTS
  UnitsConserved
PROPERTIES
  NoBarging
  EventuallyAdmitted
  ImplementsCounting
