\* When the object is built and all callers have returned, call_once() does
\* nothing any more.
CHECK_DEADLOCK FALSE
SPECIFICATION Spec
CONSTANT
  Threads = {p1, p2, p3, p4}
INVARIANTS
  OneInside
  MarkMeansBuilt
PROPERTIES
  BuiltForGood
  EverybodyReturns
