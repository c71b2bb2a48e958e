\* Threads that wait, signal and broadcast in any order, with or without the
\* mutex held: enough for two waiters, a signaler and a late waiter.
SPECIFICATION Spec
CONSTANTS
  Threads = {w1, w2, w3, w4}
  None = None
  Uses <- SafeUses
  Solo = w1
\* Every thread may be waiting, with nobody left to signal.
CHECK_DEADLOCK FALSE
PROPERTIES
  BroadcastRestartsAll
  SignalerReturns
  ImplementsAbstract
