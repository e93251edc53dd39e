\* Failed assertions stop their thread, in the end all of them.
CHECK_DEADLOCK FALSE
SPECIFICATION RecSpec
CONSTANTS
  NoOwner = NoOwner
  Threads = {p1, p2, p3}
  W = 16
  V = 1
  R = 4
  MaxLag = 2
SYMMETRY Symmetry
INVARIANTS
  RecTypeOK
  MutualExclusion
  TagIsExact
  StopIsContention
  CountIsDepth
