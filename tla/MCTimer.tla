------------------------------ MODULE MCTimer ------------------------------
(* Sizes for Timer. *)
EXTENDS Timer

CONSTANTS t1, t2

(* Two structures, so that they are recycled, and two instants; or longer  *)
(* times with one structure: a callback, or the scheduler, can take longer *)
(* than the delay until the next timer.                                    *)
Manifold == [timers |-> {t1, t2}, time |-> 1]
Lasting  == [timers |-> {t1}, time |-> 3]

BothSizes == {Manifold, Lasting}
OneSize   == {Manifold}
=============================================================================
