-------------------------- MODULE GenericCondProofs --------------------------
(***************************************************************************)
(* Proofs about the generic condition variable, for any finite set of      *)
(* threads, with and without timeouts.                                     *)
(***************************************************************************)
EXTENDS GenericCond, FiniteSetTheorems, TLAPS

WaiterStates == {"unlock", "wait", "relock", "eat"}

(* The threads inside a wait are finitely many.                            *)
LEMMA FiniteCounts ==
  /\ IsFiniteSet(Waiters) /\ Cardinality(Waiters) \in Nat
  /\ IsFiniteSet(Released) /\ Cardinality(Released) \in Nat
  /\ \A t \in Released : Cardinality(Released) > 0
<1>1. Waiters \in SUBSET Threads /\ Released \in SUBSET Threads
  BY DEF Waiters, Released
<1>2. IsFiniteSet(Waiters) /\ IsFiniteSet(Released)
  BY <1>1, FS_Subset, CondAssumption
<1>3. Cardinality(Waiters) \in Nat /\ Cardinality(Released) \in Nat
  BY <1>2, FS_CardinalityType
<1>4. Released # {} => Cardinality(Released) # 0
  BY <1>2, FS_EmptySet
<1>5. QED
  BY <1>2, <1>3, <1>4

LEMMA InitIInv == Init => IInv
<1> SUFFICES ASSUME Init PROVE IInv
  OBVIOUS
<1>1. Waiters = {} /\ Released = {}
  BY DEF Init, Waiters, Released
<1>2. CountsAgree
  BY <1>1, FS_EmptySet DEF Init, CountsAgree
<1>3. TypeOK
  BY DEF Init, TypeOK, States
<1>4. QED
  BY <1>2, <1>3 DEF Init, IInv, EaterHasLock, OwedWhileCollecting, TimeoutsOnlyIfTimed

(* A step that moves no thread into or out of a wait changes no count.     *)
LEMMA SameCounts ==
  ASSUME CountsAgree, Waiters' = Waiters, Released' = Released,
         UNCHANGED <<waiting, signals, wait_sem>>
  PROVE  CountsAgree'
BY DEF CountsAgree

LEMMA MutexStep ==
  ASSUME IInv, NEW t \in Threads,
         LockMutex(t) \/ UnlockMutex(t) \/ ReleaseMutex(t) \/ RegainMutex(t)
  PROVE  IInv' /\ UNCHANGED <<use, waiting, signals>>
<1> USE DEF IInv
<1>1. /\ UNCHANGED <<use, lock, waiting, signals, wait_sem, wait_done, retval, owed, targets>>
      /\ mutex' \in Threads \cup {None}
      /\ \/ UNCHANGED pc
         \/ pc[t] = "unlock" /\ pc' = [pc EXCEPT ![t] = "wait"]
         \/ pc[t] = "regain" /\ pc' = [pc EXCEPT ![t] = "free"]
  BY DEF LockMutex, UnlockMutex, ReleaseMutex, RegainMutex, Goto
<1>2. TypeOK'
  BY <1>1 DEF TypeOK, States
<1>3. Waiters' = Waiters /\ Released' = Released
  BY <1>1 DEF Waiters, Released, TypeOK
<1>4. CountsAgree'
  BY <1>1, <1>3, SameCounts
<1>5. EaterHasLock' /\ OwedWhileCollecting' /\ TimeoutsOnlyIfTimed'
  BY <1>1 DEF EaterHasLock, OwedWhileCollecting, TimeoutsOnlyIfTimed, TypeOK
<1>6. QED
  BY <1>1, <1>2, <1>4, <1>5

LEMMA BeginWaitStep ==
  ASSUME IInv, NEW t \in Threads, BeginWait(t)
  PROVE  IInv'
<1> USE DEF IInv
<1>1. /\ pc[t] = "free" /\ pc' = [pc EXCEPT ![t] = "unlock"] /\ waiting' = waiting + 1
      /\ UNCHANGED <<use, mutex, lock, signals, wait_sem, wait_done, retval, owed, targets>>
  BY DEF BeginWait, Goto
<1>2. TypeOK'
  BY <1>1 DEF TypeOK, States
<1>3. Waiters' = Waiters \cup {t} /\ t \notin Waiters /\ Released' = Released
  BY <1>1 DEF Waiters, Released, TypeOK
<1>4. Cardinality(Waiters') = Cardinality(Waiters) + 1
  BY <1>3, FiniteCounts, FS_AddElement
<1>5. CountsAgree'
  BY <1>1, <1>3, <1>4 DEF CountsAgree, TypeOK
<1>6. EaterHasLock' /\ OwedWhileCollecting' /\ TimeoutsOnlyIfTimed'
  BY <1>1 DEF EaterHasLock, OwedWhileCollecting, TimeoutsOnlyIfTimed, TypeOK
<1>7. QED
  BY <1>2, <1>5, <1>6

(* Taking a post turns it into a released waiter; a timeout does not.      *)
LEMMA SemaphoreStep ==
  ASSUME IInv, NEW t \in Threads, WaitSemaphore(t) \/ TimeOut(t)
  PROVE  IInv' /\ UNCHANGED <<use, waiting, signals>>
<1> USE DEF IInv
<1>1. /\ pc[t] = "wait" /\ pc' = [pc EXCEPT ![t] = "relock"]
      /\ UNCHANGED <<use, mutex, lock, waiting, signals, wait_done, owed, targets>>
  BY DEF WaitSemaphore, TimeOut, Goto
<1>2. Waiters' = Waiters
  BY <1>1 DEF Waiters, TypeOK
<1>3. CASE WaitSemaphore(t)
  <2>1. wait_sem > 0 /\ wait_sem' = wait_sem - 1 /\ retval' = [retval EXCEPT ![t] = FALSE]
    BY <1>3 DEF WaitSemaphore
  <2>2. TypeOK'
    BY <1>1, <2>1 DEF TypeOK, States
  <2>3. Released' = Released \cup {t} /\ t \notin Released
    BY <1>1, <2>1 DEF Released, TypeOK
  <2>4. Cardinality(Released') = Cardinality(Released) + 1
    BY <2>3, FiniteCounts, FS_AddElement
  <2>5. CountsAgree'
    BY <1>1, <1>2, <2>1, <2>4, FiniteCounts DEF CountsAgree, TypeOK
  <2>6. EaterHasLock' /\ OwedWhileCollecting' /\ TimeoutsOnlyIfTimed'
    BY <1>1, <2>1 DEF EaterHasLock, OwedWhileCollecting, TimeoutsOnlyIfTimed, TypeOK
  <2>7. QED
    BY <1>1, <2>2, <2>5, <2>6
<1>4. CASE TimeOut(t)
  <2>1. use.timed /\ retval' = [retval EXCEPT ![t] = TRUE] /\ UNCHANGED wait_sem
    BY <1>4 DEF TimeOut
  <2>2. TypeOK'
    BY <1>1, <2>1 DEF TypeOK, States
  <2>3. Released' = Released
    BY <1>1, <2>1 DEF Released, TypeOK
  <2>4. CountsAgree'
    BY <1>1, <1>2, <2>1, <2>3, SameCounts
  <2>5. EaterHasLock' /\ OwedWhileCollecting' /\ TimeoutsOnlyIfTimed'
    BY <1>1, <2>1 DEF EaterHasLock, OwedWhileCollecting, TimeoutsOnlyIfTimed, TypeOK
  <2>6. QED
    BY <1>1, <2>2, <2>4, <2>5
<1>5. QED
  BY <1>3, <1>4

(* A released waiter finds a signal to take back.                          *)
LEMMA ReleasedFindsSignal ==
  ASSUME IInv, NEW t \in Released
  PROVE  signals > 0
BY FiniteCounts DEF IInv, CountsAgree, TypeOK

(* A waiter that leaves takes its signal with it, and gives up only when   *)
(* there is none and its time has elapsed.                                 *)
LEMMA RelockStep ==
  ASSUME IInv, NEW t \in Threads, Relock(t)
  PROVE  /\ IInv'
         /\ use' = use /\ waiting' = waiting - 1 /\ waiting > 0
         /\ IF signals > 0 THEN signals' = signals - 1 ELSE use.timed /\ signals' = signals
<1> USE DEF IInv
<1>1. /\ pc[t] = "relock" /\ lock = None /\ ~(retval[t] /\ signals > 0)
      /\ pc' = [pc EXCEPT ![t] = "regain"] /\ waiting' = waiting - 1
      /\ UNCHANGED <<use, mutex, lock, wait_sem, retval, owed, targets>>
  BY DEF Relock, FinishWait, Goto
<1>2. IF signals > 0 THEN signals' = signals - 1 /\ wait_done' = wait_done + 1
                     ELSE UNCHANGED <<signals, wait_done>>
  BY DEF Relock, FinishWait, Acknowledge
<1>3. t \in Waiters /\ Waiters' = Waiters \ {t} /\ Released' = Released \ {t}
  BY <1>1 DEF Waiters, Released, TypeOK
<1>4. /\ waiting = Cardinality(Waiters) /\ Cardinality(Waiters') = Cardinality(Waiters) - 1
      /\ Cardinality(Waiters) > 0 /\ Cardinality(Waiters') \in Nat
  BY <1>3, FiniteCounts, FS_RemoveElement, FS_CardinalityType, FS_EmptySet DEF CountsAgree
<1>5. Cardinality(Released') = Cardinality(Released) - (IF retval[t] THEN 0 ELSE 1)
  <2>1. t \in Released <=> ~retval[t]
    BY <1>1 DEF Released, TypeOK
  <2>2. Cardinality(Released \ {t}) =
          IF t \in Released THEN Cardinality(Released) - 1 ELSE Cardinality(Released)
    BY FiniteCounts, FS_RemoveElement
  <2>3. QED
    BY <1>3, <2>1, <2>2, FiniteCounts
<1>6. ~retval[t] => signals > 0
  BY <1>1, ReleasedFindsSignal DEF Released
<1>7. TypeOK'
  BY <1>1, <1>2, <1>4 DEF TypeOK, States
<1>8. CountsAgree'
  <2>1. signals' = wait_sem' + Cardinality(Released')
    BY <1>1, <1>2, <1>5, <1>6, FiniteCounts DEF CountsAgree, TypeOK
  <2>2. waiting' = Cardinality(Waiters')
    BY <1>1, <1>4
  <2>3. signals' <= waiting'
    BY <1>1, <1>2, <1>4 DEF CountsAgree, TypeOK
  <2>4. QED
    BY <2>1, <2>2, <2>3 DEF CountsAgree
<1>9. EaterHasLock' /\ OwedWhileCollecting' /\ TimeoutsOnlyIfTimed'
  BY <1>1, <1>2, CondAssumption DEF EaterHasLock, OwedWhileCollecting, TimeoutsOnlyIfTimed, TypeOK
<1>10. use.timed \/ signals > 0
  BY <1>6 DEF TimeoutsOnlyIfTimed
<1>11. QED
  BY <1>1, <1>2, <1>4, <1>7, <1>8, <1>9, <1>10

LEMMA RelockTimedOutStep ==
  ASSUME IInv, NEW t \in Threads, RelockTimedOut(t)
  PROVE  IInv' /\ UNCHANGED <<use, waiting, signals>>
<1> USE DEF IInv
<1>1. /\ pc[t] = "relock" /\ lock = None /\ retval[t] /\ signals > 0
      /\ lock' = t /\ pc' = [pc EXCEPT ![t] = "eat"]
      /\ UNCHANGED <<use, mutex, waiting, signals, wait_sem, wait_done, retval, owed, targets>>
  BY DEF RelockTimedOut, Goto
<1>2. TypeOK'
  BY <1>1 DEF TypeOK, States
<1>3. Waiters' = Waiters /\ Released' = Released
  BY <1>1 DEF Waiters, Released, TypeOK
<1>4. CountsAgree'
  BY <1>1, <1>3, SameCounts
<1>5. EaterHasLock' /\ OwedWhileCollecting' /\ TimeoutsOnlyIfTimed'
  BY <1>1, CondAssumption DEF EaterHasLock, OwedWhileCollecting, TimeoutsOnlyIfTimed, TypeOK
<1>6. QED
  BY <1>1, <1>2, <1>4, <1>5

LEMMA EatStep ==
  ASSUME IInv, NEW t \in Threads, EatSignal(t)
  PROVE  /\ IInv'
         /\ use' = use /\ waiting' = waiting - 1
         /\ signals > 0 /\ signals' = signals - 1
<1> USE DEF IInv
<1>1. /\ pc[t] = "eat" /\ wait_sem > 0 /\ wait_sem' = wait_sem - 1
      /\ lock' = None /\ pc' = [pc EXCEPT ![t] = "regain"] /\ waiting' = waiting - 1
      /\ UNCHANGED <<use, mutex, retval, owed, targets>>
  BY DEF EatSignal, FinishWait, Goto
<1>2. lock = t /\ signals > 0 /\ \A u \in Threads : pc[u] = "eat" => u = t
  BY <1>1 DEF EaterHasLock
<1>3. signals' = signals - 1 /\ wait_done' = wait_done + 1
  BY <1>2 DEF EatSignal, FinishWait, Acknowledge
<1>4. t \in Waiters /\ Waiters' = Waiters \ {t} /\ Released' = Released
  BY <1>1 DEF Waiters, Released, TypeOK
<1>5. Cardinality(Waiters') = Cardinality(Waiters) - 1 /\ Cardinality(Waiters') \in Nat
  BY <1>4, FiniteCounts, FS_RemoveElement, FS_CardinalityType
<1>6. CountsAgree'
  BY <1>1, <1>3, <1>4, <1>5, FiniteCounts DEF CountsAgree, TypeOK
<1>7. TypeOK'
  <2>1. waiting' \in Nat
    BY <1>5, <1>6 DEF CountsAgree
  <2>2. signals' \in Nat /\ wait_sem' \in Nat /\ wait_done' \in Nat
    BY <1>1, <1>2, <1>3 DEF TypeOK
  <2>3. QED
    BY <1>1, <2>1, <2>2 DEF TypeOK, States
<1>8. EaterHasLock' /\ OwedWhileCollecting' /\ TimeoutsOnlyIfTimed'
  BY <1>1, <1>2 DEF EaterHasLock, OwedWhileCollecting, TimeoutsOnlyIfTimed, TypeOK
<1>9. QED
  BY <1>1, <1>2, <1>3, <1>6, <1>7, <1>8

(* A signaler releases n waiters that no earlier signal released.          *)
LEMMA ReleaseStep ==
  ASSUME IInv, NEW t \in Threads, Signal(t) \/ Broadcast(t)
  PROVE  /\ IInv'
         /\ use' = use /\ waiting' = waiting /\ signals < waiting
         /\ signals' = (IF Signal(t) THEN signals + 1 ELSE waiting)
<1> USE DEF IInv
<1>1. signals < waiting /\ lock = None /\ pc[t] = "free"
  BY DEF Signal, Broadcast, NeedsSignal, TypeOK
<1>2. PICK n \in Nat : n > 0 /\ n <= waiting - signals /\ Release(t, n)
                    /\ targets' \in [Threads -> SUBSET Threads]
                    /\ n = (IF Signal(t) THEN 1 ELSE waiting - signals)
  <2>1. CASE Signal(t)
    BY <1>1, <2>1 DEF Signal, TypeOK
  <2>2. CASE ~Signal(t)
    <3>1. Broadcast(t)
      BY <2>2
    <3>2. Release(t, waiting - signals) /\ waiting - signals \in Nat /\ waiting - signals > 0
      BY <1>1, <3>1 DEF Broadcast, Unreleased, TypeOK
    <3>3. Waiters \in SUBSET Threads
      BY DEF Waiters
    <3>4. targets' \in [Threads -> SUBSET Threads]
      BY <3>1, <3>3 DEF Broadcast, TypeOK
    <3>5. QED
      BY <2>2, <3>2, <3>4
  <2>3. QED
    BY <2>1, <2>2
<1>3. /\ signals' = signals + n /\ wait_sem' = wait_sem + n
      /\ owed' = [owed EXCEPT ![t] = n] /\ pc' = [pc EXCEPT ![t] = "collect"]
      /\ UNCHANGED <<use, mutex, lock, waiting, wait_done, retval>>
  BY <1>2 DEF Release, Posts, Goto
<1>4. TypeOK'
  BY <1>2, <1>3 DEF TypeOK, States
<1>5. Waiters' = Waiters /\ Released' = Released
  BY <1>1, <1>3 DEF Waiters, Released, TypeOK
<1>6. CountsAgree'
  BY <1>2, <1>3, <1>5, FiniteCounts DEF CountsAgree, TypeOK
<1>7. EaterHasLock' /\ OwedWhileCollecting' /\ TimeoutsOnlyIfTimed'
  BY <1>2, <1>3 DEF EaterHasLock, OwedWhileCollecting, TimeoutsOnlyIfTimed, TypeOK
<1>8. signals' = (IF Signal(t) THEN signals + 1 ELSE waiting)
  BY <1>2, <1>3 DEF TypeOK
<1>9. QED
  BY <1>1, <1>3, <1>4, <1>6, <1>7, <1>8

LEMMA CollectStep ==
  ASSUME IInv, NEW t \in Threads, Collect(t)
  PROVE  IInv' /\ UNCHANGED <<use, waiting, signals>>
<1> USE DEF IInv
<1>1. /\ pc[t] = "collect" /\ wait_done > 0 /\ wait_done' = wait_done - 1
      /\ owed' = [owed EXCEPT ![t] = @ - 1]
      /\ UNCHANGED <<use, mutex, lock, waiting, signals, wait_sem, retval>>
      /\ \/ owed[t] = 1 /\ pc' = [pc EXCEPT ![t] = "free"]
                        /\ targets' = [targets EXCEPT ![t] = {}]
         \/ owed[t] # 1 /\ UNCHANGED <<pc, targets>>
  BY DEF Collect, Goto
<1>2. owed[t] \in Nat /\ owed[t] > 0
  BY <1>1 DEF OwedWhileCollecting, TypeOK
<1>3. TypeOK'
  BY <1>1, <1>2 DEF TypeOK, States
<1>4. Waiters' = Waiters /\ Released' = Released
  BY <1>1 DEF Waiters, Released, TypeOK
<1>5. CountsAgree'
  BY <1>1, <1>4, SameCounts
<1>6. EaterHasLock' /\ OwedWhileCollecting' /\ TimeoutsOnlyIfTimed'
  BY <1>1, <1>2 DEF EaterHasLock, OwedWhileCollecting, TimeoutsOnlyIfTimed, TypeOK
<1>7. QED
  BY <1>1, <1>3, <1>5, <1>6

LEMMA StutterIInv == IInv /\ UNCHANGED vars => IInv'
BY DEF vars, IInv, TypeOK, CountsAgree, Waiters, Released, EaterHasLock, OwedWhileCollecting,
       TimeoutsOnlyIfTimed

(* Every step preserves the invariant and is a step of the abstract        *)
(* condition variable or leaves it alone.                                  *)
LEMMA StepIInv ==
  ASSUME IInv, NEW t \in Threads, Step(t)
  PROVE  IInv' /\ (Abstract!Next \/ UNCHANGED Abstract!vars)
<1> USE DEF Abstract!Next, Abstract!vars
<1>1. CASE LockMutex(t) \/ UnlockMutex(t) \/ ReleaseMutex(t) \/ RegainMutex(t)
  BY <1>1, MutexStep
<1>2. CASE BeginWait(t)
  BY <1>2, BeginWaitStep DEF Abstract!Wait, BeginWait
<1>3. CASE WaitSemaphore(t) \/ TimeOut(t)
  BY <1>3, SemaphoreStep
<1>4. CASE Relock(t)
  <2>1. IInv' /\ use' = use /\ waiting' = waiting - 1 /\ waiting > 0
    BY <1>4, RelockStep
  <2>2. signals > 0 => Abstract!Return
    BY <1>4, RelockStep DEF Abstract!Return
  <2>3. ~(signals > 0) => signals = 0 /\ use.timed /\ signals' = signals
    BY <1>4, RelockStep DEF IInv, TypeOK
  <2>4. ~(signals > 0) => Abstract!GiveUp
    BY <2>1, <2>3 DEF Abstract!GiveUp
  <2>5. QED
    BY <2>1, <2>2, <2>4
<1>5. CASE RelockTimedOut(t)
  BY <1>5, RelockTimedOutStep
<1>6. CASE EatSignal(t)
  BY <1>6, EatStep DEF Abstract!Return
<1>7. CASE Signal(t) \/ Broadcast(t)
  <2>1. IInv' /\ use' = use /\ waiting' = waiting /\ signals < waiting
    BY <1>7, ReleaseStep
  <2>2. Abstract!Signal \/ Abstract!Broadcast
    BY <1>7, <2>1, ReleaseStep DEF Abstract!Signal, Abstract!Broadcast
  <2>3. QED
    BY <2>1, <2>2
<1>8. CASE Collect(t)
  BY <1>8, CollectStep
<1>9. QED
  BY <1>1, <1>2, <1>3, <1>4, <1>5, <1>6, <1>7, <1>8 DEF Step

THEOREM Invariance == Spec => []IInv
<1>1. IInv /\ [Next]_vars => IInv'
  BY StutterIInv, StepIInv DEF Next
<1>2. QED
  BY <1>1, InitIInv, PTL DEF Spec

(* SDL_syscond.c's counts agree with what its threads do: a signal is a    *)
(* post still there or a waiter that took one and has not said so.         *)
THEOREM CountsCorrect == Spec => []CountsAgree
<1>1. IInv => CountsAgree
  BY DEF IInv
<1>2. QED
  BY <1>1, Invariance, PTL

(* No wait ends without a signal or a timeout.                             *)
THEOREM ReturnsAreSignaled == Spec => []NoSpuriousReturn
<1>1. IInv => NoSpuriousReturn
  BY ReleasedFindsSignal DEF NoSpuriousReturn
<1>2. QED
  BY <1>1, Invariance, PTL

(* The code implements the condition variable that SDL_mutex.h describes.  *)
THEOREM Refinement == Spec => ImplementsAbstract
<1>1. Init => Abstract!Init
  BY CondAssumption DEF Init, Abstract!Init
<1>2. IInv /\ [Next]_vars => [Abstract!Next]_(Abstract!vars)
  BY StepIInv DEF Next, vars, Abstract!vars
<1>3. QED
  BY <1>1, <1>2, Invariance, PTL DEF Spec, ImplementsAbstract, Abstract!Spec

-----------------------------------------------------------------------------
(* The acknowledgements that are owed, one by one: as many as there are    *)
(* signals not acknowledged and acknowledgements not collected.  While a   *)
(* lone broadcaster collects with the mutex held, nobody begins to wait,   *)
(* every waiter is released, and nobody else is owed anything.             *)
Owes == {p \in Threads \X Nat : 1 <= p[2] /\ p[2] <= owed[p[1]]}

OwedAccounted == IsFiniteSet(Owes) /\ Cardinality(Owes) = wait_done + signals

OwedOnlyCollecting == \A t \in Threads : owed[t] > 0 => pc[t] = "collect"

LeaverHoldsMutex == \A t \in Threads : pc[t] = "unlock" => mutex = t

AloneWithTargets ==
  \A t \in Threads :
    targets[t] # {} =>
      /\ pc[t] = "collect" /\ mutex = t /\ signals = waiting
      /\ \A u \in Threads \ {t} : owed[u] = 0

BInv == OwedAccounted /\ OwedOnlyCollecting /\ LeaverHoldsMutex /\ AloneWithTargets

LEMMA InitBInv == Init => BInv
<1> SUFFICES ASSUME Init PROVE BInv
  OBVIOUS
<1>1. Owes = {}
  BY DEF Init, Owes
<1>2. OwedAccounted
  BY <1>1, FS_EmptySet DEF Init, OwedAccounted
<1>3. QED
  BY <1>2 DEF Init, BInv, OwedOnlyCollecting, LeaverHoldsMutex, AloneWithTargets

(* A waiter that takes its signal back acknowledges it.                    *)
LEMMA WaiterStepBInv ==
  ASSUME IInv, BInv, NEW t \in Threads, Relock(t) \/ EatSignal(t)
  PROVE  BInv'
<1>1. /\ pc[t] \in {"relock", "eat"} /\ pc' = [pc EXCEPT ![t] = "regain"]
      /\ UNCHANGED <<mutex, owed, targets>>
  BY DEF Relock, EatSignal, FinishWait, Goto
<1>2. IF signals > 0 THEN signals' = signals - 1 /\ wait_done' = wait_done + 1
                     ELSE UNCHANGED <<signals, wait_done>>
  BY DEF Relock, EatSignal, FinishWait, Acknowledge
<1>3. waiting' = waiting - 1 /\ signals \in Nat /\ waiting \in Nat /\ wait_done \in Nat /\ waiting > 0
      /\ pc \in [Threads -> States]
  <2>1. t \in Waiters
    BY <1>1 DEF Waiters
  <2>2. Cardinality(Waiters) # 0
    BY <2>1, FiniteCounts, FS_EmptySet
  <2>3. QED
    BY <2>2, FiniteCounts DEF IInv, CountsAgree, TypeOK, Relock, EatSignal, FinishWait
<1>4. OwedAccounted'
  BY <1>1, <1>2, <1>3 DEF BInv, OwedAccounted, Owes
<1>5. OwedOnlyCollecting' /\ LeaverHoldsMutex'
  BY <1>1, <1>3 DEF BInv, OwedOnlyCollecting, LeaverHoldsMutex
<1>6. AloneWithTargets'
  BY <1>1, <1>2, <1>3 DEF BInv, AloneWithTargets
<1>7. QED
  BY <1>4, <1>5, <1>6 DEF BInv

(* A signaler is owed as many acknowledgements as it gives signals.        *)
LEMMA ReleaseBInv ==
  ASSUME IInv, BInv, NEW t \in Threads, Signal(t) \/ Broadcast(t)
  PROVE  BInv'
<1>1. /\ pc[t] = "free" /\ signals < waiting /\ signals \in Nat /\ waiting \in Nat /\ wait_done \in Nat
      /\ pc \in [Threads -> States] /\ owed \in [Threads -> Nat] /\ targets \in [Threads -> SUBSET Threads]
  BY DEF Signal, Broadcast, NeedsSignal, IInv, TypeOK
<1> DEFINE n == IF Signal(t) THEN 1 ELSE waiting - signals
<1>2. /\ n \in Nat /\ n > 0
      /\ signals' = signals + n /\ owed' = [owed EXCEPT ![t] = n]
      /\ pc' = [pc EXCEPT ![t] = "collect"] /\ UNCHANGED <<mutex, waiting, wait_done>>
  <2>1. Release(t, n)
    BY DEF Signal, Broadcast, Unreleased
  <2>2. mutex' = mutex
    BY DEF Signal, Broadcast, Release
  <2>3. QED
    BY <1>1, <2>1, <2>2 DEF Release, Posts, Goto
<1> HIDE DEF n
<1>3. owed[t] = 0
  BY <1>1 DEF BInv, OwedOnlyCollecting
<1>4. OwedAccounted'
  <2> DEFINE new == {t} \X (1..n)
  <2>1. IsFiniteSet({t}) /\ Cardinality({t}) = 1
    BY FS_Singleton
  <2>2. IsFiniteSet(1..n) /\ Cardinality(1..n) = n
    BY <1>2, FS_Interval
  <2>3. IsFiniteSet(new) /\ Cardinality(new) = n
    <3>1. /\ IsFiniteSet({t} \X (1..n))
          /\ Cardinality({t} \X (1..n)) = Cardinality({t}) * Cardinality(1..n)
      BY <2>1, <2>2, FS_Product
    <3>2. 1 * n = n
      BY <1>2
    <3>3. QED
      BY <2>1, <2>2, <3>1, <3>2
  <2>4. Owes' = Owes \cup new /\ Owes \cap new = {}
    <3>1. ASSUME NEW u \in Threads, NEW i \in Nat
          PROVE  <<u, i>> \in Owes' <=> <<u, i>> \in Owes \cup new
      BY <1>1, <1>2, <1>3 DEF Owes
    <3>2. Owes' \subseteq Threads \X Nat /\ Owes \cup new \subseteq Threads \X Nat
      BY DEF Owes
    <3>3. Owes \cap new = {}
      BY <1>3 DEF Owes
    <3>4. QED
      BY <3>1, <3>2, <3>3
  <2> HIDE DEF new
  <2>5. IsFiniteSet(Owes) /\ Cardinality(Owes) = wait_done + signals
    BY DEF BInv, OwedAccounted
  <2>6. IsFiniteSet(Owes \cup new) /\ Cardinality(Owes \cup new) = Cardinality(Owes) + Cardinality(new)
    <3>1. Cardinality({}) = 0 /\ Cardinality(Owes) \in Nat /\ Cardinality(new) \in Nat
      BY <2>3, <2>5, FS_EmptySet, FS_CardinalityType
    <3>2. /\ IsFiniteSet(Owes \cup new)
          /\ Cardinality(Owes \cup new) = Cardinality(Owes) + Cardinality(new) - Cardinality(Owes \cap new)
      BY <2>3, <2>5, FS_Union
    <3>3. Cardinality(Owes \cap new) = 0
      BY <2>4, <3>1
    <3>4. QED
      BY <3>1, <3>2, <3>3
  <2>7. QED
    BY <1>1, <1>2, <2>3, <2>4, <2>5, <2>6 DEF OwedAccounted
<1>5. OwedOnlyCollecting' /\ LeaverHoldsMutex'
  BY <1>1, <1>2 DEF BInv, OwedOnlyCollecting, LeaverHoldsMutex
<1>6. AloneWithTargets'
  <2>1. \A u \in Threads : targets[u] = {}
    BY <1>1 DEF BInv, AloneWithTargets
  <2>2. CASE Signal(t)
    BY <2>1, <2>2 DEF Signal, AloneWithTargets
  <2>3. CASE ~Signal(t)
    <3>1. /\ targets' = [targets EXCEPT ![t] =
                          IF mutex = t /\ \A u \in Threads : owed[u] = 0 THEN Waiters ELSE {}]
          /\ signals' = waiting'
      BY <1>1, <1>2, <2>3 DEF Broadcast, n
    <3>2. QED
      BY <1>1, <1>2, <2>1, <3>1 DEF AloneWithTargets
  <2>4. QED
    BY <2>2, <2>3
<1>7. QED
  BY <1>4, <1>5, <1>6 DEF BInv

LEMMA CollectBInv ==
  ASSUME IInv, BInv, NEW t \in Threads, Collect(t)
  PROVE  BInv'
<1>1. /\ pc[t] = "collect" /\ wait_done > 0 /\ wait_done' = wait_done - 1
      /\ owed' = [owed EXCEPT ![t] = owed[t] - 1]
      /\ UNCHANGED <<mutex, waiting, signals>>
      /\ \/ owed[t] = 1 /\ pc' = [pc EXCEPT ![t] = "free"] /\ targets' = [targets EXCEPT ![t] = {}]
         \/ owed[t] # 1 /\ UNCHANGED <<pc, targets>>
  BY DEF Collect, Goto
<1>2. /\ pc \in [Threads -> States] /\ owed \in [Threads -> Nat] /\ targets \in [Threads -> SUBSET Threads]
      /\ owed[t] > 0 /\ wait_done \in Nat /\ signals \in Nat
  BY <1>1 DEF IInv, TypeOK, OwedWhileCollecting
<1>3. OwedAccounted'
  <2>1. Owes' = Owes \ {<<t, owed[t]>>} /\ <<t, owed[t]>> \in Owes
    <3>1. ASSUME NEW u \in Threads, NEW i \in Nat
          PROVE  <<u, i>> \in Owes' <=> <<u, i>> \in Owes \ {<<t, owed[t]>>}
      <4>1. owed'[u] = IF u = t THEN owed[t] - 1 ELSE owed[u]
        BY <1>1, <1>2
      <4>2. QED
        BY <1>2, <4>1 DEF Owes
    <3>2. Owes' \subseteq Threads \X Nat /\ Owes \subseteq Threads \X Nat
      BY DEF Owes
    <3>3. <<t, owed[t]>> \in Owes
      BY <1>2 DEF Owes
    <3>4. QED
      BY <3>1, <3>2, <3>3
  <2>2. IsFiniteSet(Owes) /\ Cardinality(Owes) = wait_done + signals
    BY DEF BInv, OwedAccounted
  <2>3. IsFiniteSet(Owes') /\ Cardinality(Owes') = Cardinality(Owes) - 1
    BY <2>1, <2>2, FS_RemoveElement
  <2>4. QED
    BY <1>1, <1>2, <2>2, <2>3 DEF OwedAccounted
<1>4. OwedOnlyCollecting' /\ LeaverHoldsMutex'
  BY <1>1, <1>2 DEF BInv, OwedOnlyCollecting, LeaverHoldsMutex
<1>5. AloneWithTargets'
  BY <1>1, <1>2 DEF BInv, AloneWithTargets
<1>6. QED
  BY <1>3, <1>4, <1>5 DEF BInv

(* The other steps move no count that is owed.                             *)
LEMMA OtherStepBInv ==
  ASSUME IInv, BInv, NEW t \in Threads,
         \/ LockMutex(t) \/ UnlockMutex(t) \/ BeginWait(t) \/ ReleaseMutex(t) \/ RegainMutex(t)
         \/ WaitSemaphore(t) \/ TimeOut(t) \/ RelockTimedOut(t)
  PROVE  BInv'
<1>1. /\ UNCHANGED <<signals, wait_done, owed, targets>>
      /\ pc[t] # "collect" /\ (pc' = pc \/ \E l : l # "collect" /\ pc' = [pc EXCEPT ![t] = l])
      /\ \/ /\ mutex' = mutex /\ waiting' = waiting /\ pc[t] # "unlock"
            /\ (pc' = pc \/ \E l : l # "unlock" /\ pc' = [pc EXCEPT ![t] = l])
         \/ /\ mutex = None /\ mutex' = t /\ waiting' = waiting
            /\ (pc' = pc \/ pc' = [pc EXCEPT ![t] = "free"])
         \/ /\ mutex = t /\ mutex' = None /\ waiting' = waiting
            /\ ((pc' = pc /\ pc[t] = "free") \/ pc' = [pc EXCEPT ![t] = "wait"])
         \/ mutex = t /\ mutex' = t /\ pc' = [pc EXCEPT ![t] = "unlock"]
  BY DEF LockMutex, UnlockMutex, BeginWait, ReleaseMutex, RegainMutex, WaitSemaphore, TimeOut,
         RelockTimedOut, Goto, BInv, LeaverHoldsMutex
<1>2. /\ pc \in [Threads -> States] /\ owed \in [Threads -> Nat] /\ None \notin Threads
  BY CondAssumption DEF IInv, TypeOK
<1>3. OwedAccounted'
  BY <1>1 DEF BInv, OwedAccounted, Owes
<1>4. OwedOnlyCollecting'
  BY <1>1, <1>2 DEF BInv, OwedOnlyCollecting
<1>5. LeaverHoldsMutex'
  BY <1>1, <1>2 DEF BInv, LeaverHoldsMutex
<1>6. AloneWithTargets'
  BY <1>1, <1>2 DEF BInv, AloneWithTargets
<1>7. QED
  BY <1>3, <1>4, <1>5, <1>6 DEF BInv

LEMMA NextBInv ==
  ASSUME IInv, BInv, [Next]_vars
  PROVE  BInv'
<1>1. CASE UNCHANGED vars
  BY <1>1 DEF vars, BInv, OwedAccounted, Owes, OwedOnlyCollecting, LeaverHoldsMutex, AloneWithTargets
<1>2. ASSUME NEW t \in Threads, Step(t) PROVE BInv'
  BY <1>2, WaiterStepBInv, ReleaseBInv, CollectBInv, OtherStepBInv DEF Step
<1>3. QED
  BY <1>1, <1>2 DEF Next

(* A broadcast that is made with the mutex held, no signal being under way,*)
(* returns only after every thread that was waiting has come back.         *)
THEOREM BroadcastReachesAll == Spec => BroadcastRestartsAll
<1>1. ASSUME IInv, BInv, [Next]_vars, NEW t \in Threads, pc[t] = "collect", pc'[t] = "free", NEW u \in targets[t]
      PROVE  pc'[u] \notin {"unlock", "wait"}
  <2>1. /\ pc \in [Threads -> States] /\ targets \in [Threads -> SUBSET Threads] /\ owed \in [Threads -> Nat]
        /\ wait_done \in Nat /\ signals \in Nat /\ u \in Threads
    BY <1>1 DEF IInv, TypeOK
  <2>2. Collect(t)
    <3>1. PICK s \in Threads : Step(s)
      BY <1>1 DEF Next, vars
    <3>2. \E l : pc' = pc \/ pc' = [pc EXCEPT ![s] = l]
      BY <3>1 DEF Step, LockMutex, UnlockMutex, BeginWait, ReleaseMutex, WaitSemaphore, TimeOut, Relock,
                  RelockTimedOut, EatSignal, RegainMutex, Signal, Broadcast, Collect, FinishWait, Release, Goto
    <3>3. s = t
      BY <1>1, <2>1, <3>2
    <3>4. QED
      BY <1>1, <3>1, <3>3 DEF Step, LockMutex, UnlockMutex, BeginWait, ReleaseMutex, WaitSemaphore, TimeOut, Relock,
                  RelockTimedOut, EatSignal, RegainMutex, Signal, Broadcast
  <2>3. owed[t] = 1 /\ wait_done > 0 /\ pc' = [pc EXCEPT ![t] = "free"]
    BY <1>1, <2>1, <2>2 DEF Collect, Goto
  <2>4. signals = waiting /\ \A v \in Threads \ {t} : owed[v] = 0
    BY <1>1 DEF BInv, AloneWithTargets
  <2>5. Owes = {<<t, 1>>}
    <3>1. ASSUME NEW v \in Threads, NEW i \in Nat
          PROVE  <<v, i>> \in Owes <=> v = t /\ i = 1
      BY <2>1, <2>3, <2>4 DEF Owes
    <3>2. Owes \subseteq Threads \X Nat
      BY DEF Owes
    <3>3. QED
      BY <3>1, <3>2
  <2>6. Cardinality(Owes) = 1
    BY <2>5, FS_Singleton
  <2>7. waiting = 0
    BY <1>1, <2>1, <2>3, <2>4, <2>6 DEF BInv, OwedAccounted
  <2>8. Waiters = {}
    BY <1>1, <2>7, FiniteCounts, FS_EmptySet DEF IInv, CountsAgree
  <2>9. QED
    BY <2>1, <2>3, <2>8 DEF Waiters
<1>2. IInv /\ BInv /\ [Next]_vars =>
        [\A t \in Threads : pc[t] = "collect" /\ pc'[t] = "free" =>
           \A u \in targets[t] : pc'[u] \notin {"unlock", "wait"}]_vars
  BY <1>1
<1>3. IInv /\ BInv /\ [Next]_vars => BInv'
  BY NextBInv
<1>4. Spec => []BInv
  BY <1>3, InitBInv, Invariance, PTL DEF Spec
<1>5. QED
  BY <1>2, <1>4, Invariance, PTL DEF Spec, BroadcastRestartsAll

=============================================================================
