\* One application thread and the callbacks of the timer thread use the API at
\* the same time.
SPECIFICATION Spec
CONSTANTS
  t1 = t1
  t2 = t2
  NoTimer = NoTimer
  Callers = {c1}
  Main = c1
  Worker = worker
  Timers = {t1, t2}
  Intervals = {0, 1, 2}
  MaxID = 2
  MaxTime = 3
  Sizes <- BothSizes
INVARIANTS
  ListsInOrder
  NoLostWakeup
PROPERTIES
  RemovedNeverDispatched
  EventuallyHandled
  
