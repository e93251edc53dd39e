SPECIFICATION Spec
CONSTANTS
  Threads = {p1, p2}
  Dsos = {d1, d2}
  TableLen = 2
  RtdtUnits = 1
  MaxDtors = 2
  FnCount = 2
  FnLockUnits = 1
  Highlanders = 1
  MaxHandlers = 2
  MaxRegistered = 3
CONSTRAINT Bounded
INVARIANTS
  CalledOnce
  AllCalled
  DtorsAccounted
PROPERTIES
  LatestFirst
  DtorsReversed
  ExitEnds
\* Threads that have called exit() spin; the others may have nothing to do.
CHECK_DEADLOCK FALSE
