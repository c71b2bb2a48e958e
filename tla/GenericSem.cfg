\* Two sleepers, one that posts or takes what they were woken for, and one
\* that destroys; posts beyond one per sleeper.
SPECIFICATION SemSpec
CONSTANTS
  Users = {t1, t2, t3, t4}
  Initial = {0, 1}
  Full = 5
  MaxValue = 3
  Consumes = FALSE
\* Everyone may sleep with nobody left to post, and a destroyed semaphore is
\* not used any more.
CHECK_DEADLOCK FALSE

  
PROPERTIES
  DestroyReturns
  ImplementsAbstractSem
