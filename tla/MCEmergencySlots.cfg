SPECIFICATION Spec
CONSTANTS
  Threads = {p1, p2, p3, p4}
  NSlots = 4
  Limit = 2
  V = 1
  Nobody = Nobody
SYMMETRY Symmetry
INVARIANTS
  CounterExact
  UnitsExact
  NoHoldAndWait
