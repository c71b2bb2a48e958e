\* Two threads; cleanup functions that reach their own group and destroy others.
SPECIFICATION Spec
CONSTANTS
  Threads = {t1, t2}
  NIDs = 4
  MaxObjects = 4
  MaxValues = 3
  CleanupCalls = {"set", "destroy"}
  QuitCalls = {}
  ReachesAny = FALSE
SYMMETRY Symmetry
CHECK_DEADLOCK FALSE
INVARIANTS
  FoundUntilFreed
  CleanedOnce
  
PROPERTIES
  LockProtects
