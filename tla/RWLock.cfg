\* Three threads, each with up to two read holds or two write holds.
SPECIFICATION Spec
CONSTANTS
  Threads = {t1, t2, t3}
  None = None
  Slots = {1, 2}
  MaxWrites = 2
INVARIANTS
  Exclusion
PROPERTIES
  WaitingWriterWakes
  ImplementsAbstract
