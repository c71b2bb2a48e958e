\* One or two pushers against the main thread, two types, room for three events.
SPECIFICATION Spec
CONSTANTS
  Pushers = {p1, p2}
  Types = {a, b}
  Sentinel = Sentinel
  None = None
  MaxQueued = 3
INVARIANTS
  NothingOverlooked
PROPERTIES
  PollLoopDrains
  EventsAreDelivered
  PollLoopEnds
  WaitReturns
