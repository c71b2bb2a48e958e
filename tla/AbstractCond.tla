---------------------------- MODULE AbstractCond ----------------------------
(***************************************************************************)
(* What a condition variable promises, as counts: a wait returns only      *)
(* against a signal given while it waited, or because its time has elapsed *)
(* and no signal is owed to the waiters that are left; a signal releases   *)
(* one waiter that no earlier signal released, a broadcast all of them.    *)
(***************************************************************************)
EXTENDS Naturals

VARIABLES
  timed,     \* whether waits have a timeout
  waiting,   \* threads that have begun to wait and have not returned
  signals    \* of those, how many are released

vars == <<timed, waiting, signals>>

Init == timed \in BOOLEAN /\ waiting = 0 /\ signals = 0

Wait      == waiting' = waiting + 1 /\ UNCHANGED signals
Signal    == signals < waiting /\ signals' = signals + 1 /\ UNCHANGED waiting
Broadcast == signals < waiting /\ signals' = waiting /\ UNCHANGED waiting
Return    == signals > 0 /\ signals' = signals - 1 /\ waiting' = waiting - 1
GiveUp    == timed /\ signals = 0 /\ waiting > 0 /\ waiting' = waiting - 1 /\ UNCHANGED signals

Next == (Wait \/ Signal \/ Broadcast \/ Return \/ GiveUp) /\ UNCHANGED timed

Spec == Init /\ [][Next]_vars

=============================================================================
