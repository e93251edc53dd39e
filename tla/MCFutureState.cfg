\* The program may be done with the object, or wait for a promise that was
\* dropped.
CHECK_DEADLOCK FALSE
SPECIFICATION Spec
CONSTANT
  Threads = {p1, p2, p3}
INVARIANTS
  RefcntExact
  NoUseAfterDestroy
  StorageMatches
  DeferredOnce
PROPERTIES
  SetOnce
  DeferredWaitEnds
