\* Three watchers, so that one can be removed before, at and after the one that
\* is being called; an event pushed from a callback, and one from that.
SPECIFICATION WatchSpec
CONSTANTS
  Watchers = {w1, w2, w3}
  MaxDepth = 3
  Uses <- SafeUses
INVARIANTS
  ArrayHoldsLive
PROPERTIES
  CallsCurrentWatchers
  CallsEveryWatcher
