--------------------------- MODULE MCGenericCond ---------------------------
(* Instances of GenericCond for model checking. *)
EXTENDS GenericCond

CONSTANT Solo   \* the thread that waits with a timeout, alone

(* Any threads wait without a timeout, or one waits with a timeout.        *)
SafeUses ==
  {[timed |-> FALSE, waiters |-> Threads], [timed |-> TRUE, waiters |-> {Solo}]}

(* Several threads wait with a timeout.                                    *)
TimedUses == {[timed |-> TRUE, waiters |-> Threads]}

=============================================================================
