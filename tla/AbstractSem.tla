---------------------------- MODULE AbstractSem ----------------------------
(***************************************************************************)
(* What a counting semaphore promises: a wait succeeds only by taking one  *)
(* from a positive value, a wait that gives up takes nothing, a post adds  *)
(* one.  Destroying it grants every wait that is left.                     *)
(***************************************************************************)
EXTENDS Naturals

VARIABLES
  value,
  waiting,    \* waits that have begun and not returned
  closed      \* it is being destroyed

vars == <<value, waiting, closed>>

Init == value \in Nat /\ waiting = 0 /\ closed = FALSE

Begin  == ~closed /\ waiting' = waiting + 1 /\ UNCHANGED <<value, closed>>
Try    == ~closed /\ value > 0 /\ value' = value - 1 /\ UNCHANGED <<waiting, closed>>
Take   == /\ value > 0 /\ waiting > 0 /\ waiting' = waiting - 1
          /\ value' = IF closed THEN value ELSE value - 1
          /\ UNCHANGED closed
GiveUp == waiting > 0 /\ waiting' = waiting - 1 /\ UNCHANGED <<value, closed>>
Post   == ~closed /\ value' = value + 1 /\ UNCHANGED <<waiting, closed>>
Close  == ~closed /\ closed' = TRUE /\ value' = 1 /\ UNCHANGED waiting

Next == Begin \/ Try \/ Take \/ GiveUp \/ Post \/ Close

Spec == Init /\ [][Next]_vars

=============================================================================
