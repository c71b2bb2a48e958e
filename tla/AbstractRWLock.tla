--------------------------- MODULE AbstractRWLock ---------------------------
(***************************************************************************)
(* What a read/write lock promises (SDL_mutex.h, "Read/write lock          *)
(* functions"): any number of read holds, or the write holds of one        *)
(* thread.  A hold is a pair of its owner and a slot, so that a thread may *)
(* own several.                                                            *)
(***************************************************************************)
EXTENDS Naturals

CONSTANTS Threads, Slots, None

VARIABLES
  readers,   \* read holds
  writer,    \* the thread that owns the write holds, or None
  depth      \* how many it owns

vars == <<readers, writer, depth>>

Init == readers = {} /\ writer = None /\ depth = 0

LockForReading(t) ==
  /\ writer = None
  /\ \E k \in Slots : <<t, k>> \notin readers /\ readers' = readers \cup {<<t, k>>}
  /\ UNCHANGED <<writer, depth>>

LockForWriting(t) ==
  /\ readers = {} /\ writer \in {None, t}
  /\ writer' = t /\ depth' = depth + 1
  /\ UNCHANGED readers

UnlockRead(t) ==
  /\ \E k \in Slots : <<t, k>> \in readers /\ readers' = readers \ {<<t, k>>}
  /\ UNCHANGED <<writer, depth>>

UnlockWrite(t) ==
  /\ writer = t
  /\ depth' = depth - 1
  /\ writer' = IF depth = 1 THEN None ELSE t
  /\ UNCHANGED readers

Next == \E t \in Threads :
  LockForReading(t) \/ LockForWriting(t) \/ UnlockRead(t) \/ UnlockWrite(t)

Spec == Init /\ [][Next]_vars

=============================================================================
