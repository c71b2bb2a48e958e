---------------------------- MODULE GenericCond ----------------------------
(***************************************************************************)
(* The condition variable of src/src/thread/generic/SDL_syscond.c, built   *)
(* on two semaphores and a lock, and used by threads that follow the       *)
(* pattern its comment documents: a waiter holds the caller's mutex, a     *)
(* signaler may or may not.                                                *)
(***************************************************************************)
EXTENDS Naturals, FiniteSets

CONSTANTS
  Threads,
  None,       \* no owner
  Uses        \* how the program uses it: which threads wait, and with timeouts or not

ASSUME CondAssumption ==
  /\ IsFiniteSet(Threads) /\ None \notin Threads
  /\ Uses \subseteq [timed : BOOLEAN, waiters : SUBSET Threads]

VARIABLES
  use,
  mutex,      \* owner of the caller's mutex
  lock,       \* owner of cond->lock, while a thread blocks inside it
  waiting, signals, wait_sem, wait_done,   \* the fields of SDL_cond_generic
  pc,
  retval,     \* of the semaphore wait: TRUE when it timed out
  owed,       \* acknowledgements a signaler has yet to collect
  targets     \* history: the waiters a lone broadcaster that holds the mutex found

vars == <<use, mutex, lock, waiting, signals, wait_sem, wait_done, pc, retval, owed, targets>>

States == {"free", "unlock", "wait", "relock", "eat", "regain", "collect"}

Init ==
  /\ use \in Uses
  /\ mutex = None /\ lock = None
  /\ waiting = 0 /\ signals = 0 /\ wait_sem = 0 /\ wait_done = 0
  /\ pc = [t \in Threads |-> "free"]
  /\ retval = [t \in Threads |-> FALSE]
  /\ owed = [t \in Threads |-> 0]
  /\ targets = [t \in Threads |-> {}]

Waiters == {t \in Threads : pc[t] \in {"unlock", "wait", "relock", "eat"}}

Goto(t, l) == pc' = [pc EXCEPT ![t] = l]

-----------------------------------------------------------------------------
(* The caller's own use of its mutex. *)

LockMutex(t) ==
  /\ pc[t] = "free" /\ mutex = None
  /\ mutex' = t
  /\ UNCHANGED <<use, lock, waiting, signals, wait_sem, wait_done, pc, retval, owed, targets>>

UnlockMutex(t) ==
  /\ pc[t] = "free" /\ mutex = t
  /\ mutex' = None
  /\ UNCHANGED <<use, lock, waiting, signals, wait_sem, wait_done, pc, retval, owed, targets>>

-----------------------------------------------------------------------------
(* SDL_WaitConditionTimeoutNS_generic *)

(* Count the waiter, under cond->lock.                                     *)
BeginWait(t) ==
  /\ t \in use.waiters /\ pc[t] = "free" /\ mutex = t /\ lock = None
  /\ waiting' = waiting + 1
  /\ Goto(t, "unlock")
  /\ UNCHANGED <<use, mutex, lock, signals, wait_sem, wait_done, retval, owed, targets>>

ReleaseMutex(t) ==
  /\ pc[t] = "unlock"
  /\ mutex' = None
  /\ Goto(t, "wait")
  /\ UNCHANGED <<use, lock, waiting, signals, wait_sem, wait_done, retval, owed, targets>>

(* SDL_WaitSemaphoreTimeoutNS(wait_sem): take a post, or time out.         *)
WaitSemaphore(t) ==
  /\ pc[t] = "wait" /\ wait_sem > 0
  /\ wait_sem' = wait_sem - 1
  /\ retval' = [retval EXCEPT ![t] = FALSE]
  /\ Goto(t, "relock")
  /\ UNCHANGED <<use, mutex, lock, waiting, signals, wait_done, owed, targets>>

TimeOut(t) ==
  /\ use.timed /\ pc[t] = "wait" /\ wait_sem = 0
  /\ retval' = [retval EXCEPT ![t] = TRUE]
  /\ Goto(t, "relock")
  /\ UNCHANGED <<use, mutex, lock, waiting, signals, wait_sem, wait_done, owed, targets>>

(* Acknowledge the signal, if there is one, and stop being a waiter.       *)
Acknowledge_Missing == UNCHANGED wait_done
Acknowledge == wait_done' = wait_done + 1

FinishWait(t) ==
  /\ IF signals > 0
     THEN signals' = signals - 1 /\ Acknowledge
     ELSE UNCHANGED <<signals, wait_done>>
  /\ waiting' = waiting - 1
  /\ Goto(t, "regain")

(* Under cond->lock again.                                                 *)
Relock(t) ==
  /\ pc[t] = "relock" /\ lock = None
  /\ ~(retval[t] /\ signals > 0)
  /\ FinishWait(t)
  /\ UNCHANGED <<use, mutex, lock, wait_sem, retval, owed, targets>>

(* A timed-out waiter that finds a signal eats a post, holding cond->lock. *)
RelockTimedOut(t) ==
  /\ pc[t] = "relock" /\ lock = None
  /\ retval[t] /\ signals > 0
  /\ lock' = t
  /\ Goto(t, "eat")
  /\ UNCHANGED <<use, mutex, waiting, signals, wait_sem, wait_done, retval, owed, targets>>

EatSignal(t) ==
  /\ pc[t] = "eat" /\ wait_sem > 0
  /\ wait_sem' = wait_sem - 1
  /\ lock' = None
  /\ FinishWait(t)
  /\ UNCHANGED <<use, mutex, retval, owed, targets>>

RegainMutex(t) ==
  /\ pc[t] = "regain" /\ mutex = None
  /\ mutex' = t
  /\ Goto(t, "free")
  /\ UNCHANGED <<use, lock, waiting, signals, wait_sem, wait_done, retval, owed, targets>>

-----------------------------------------------------------------------------
(* SDL_SignalCondition_generic, SDL_BroadcastCondition_generic: release n  *)
(* waiters and wait for their acknowledgements.                            *)

NeedsSignal_Always == waiting > 0
NeedsSignal == waiting > signals

Posts(n) == n

Release(t, n) ==
  /\ signals' = signals + n
  /\ wait_sem' = wait_sem + Posts(n)
  /\ owed' = [owed EXCEPT ![t] = n]
  /\ Goto(t, "collect")
  /\ UNCHANGED <<use, mutex, lock, waiting, wait_done, retval>>

Signal(t) ==
  /\ pc[t] = "free" /\ lock = None
  /\ NeedsSignal
  /\ Release(t, 1)
  /\ UNCHANGED targets

Unreleased_One == 1
Unreleased == waiting - signals

Broadcast(t) ==
  /\ pc[t] = "free" /\ lock = None
  /\ NeedsSignal
  /\ Release(t, Unreleased)
  /\ targets' = [targets EXCEPT ![t] =
                   IF mutex = t /\ \A u \in Threads : owed[u] = 0 THEN Waiters ELSE {}]

Collect(t) ==
  /\ pc[t] = "collect" /\ wait_done > 0
  /\ wait_done' = wait_done - 1
  /\ owed' = [owed EXCEPT ![t] = @ - 1]
  /\ IF owed[t] = 1
     THEN Goto(t, "free") /\ targets' = [targets EXCEPT ![t] = {}]
     ELSE UNCHANGED <<pc, targets>>
  /\ UNCHANGED <<use, mutex, lock, waiting, signals, wait_sem, retval>>

-----------------------------------------------------------------------------
Step(t) ==
  \/ LockMutex(t) \/ UnlockMutex(t)
  \/ BeginWait(t) \/ ReleaseMutex(t) \/ WaitSemaphore(t) \/ TimeOut(t)
  \/ Relock(t) \/ RelockTimedOut(t) \/ EatSignal(t) \/ RegainMutex(t)
  \/ Signal(t) \/ Broadcast(t) \/ Collect(t)

Next == \E t \in Threads : Step(t)

(* Threads inside the condition variable run on.  A post of wait_done that *)
(* is there again and again reaches each signaler that waits for one.      *)
Inside(t) ==
  ReleaseMutex(t) \/ WaitSemaphore(t) \/ TimeOut(t) \/ Relock(t) \/ RelockTimedOut(t) \/ EatSignal(t)
Fairness ==
  \A t \in Threads : WF_vars(Inside(t)) /\ SF_vars(Collect(t))

Spec == Init /\ [][Next]_vars /\ Fairness

-----------------------------------------------------------------------------
TypeOK ==
  /\ use \in Uses
  /\ mutex \in Threads \cup {None} /\ lock \in Threads \cup {None}
  /\ waiting \in Nat /\ signals \in Nat /\ wait_sem \in Nat /\ wait_done \in Nat
  /\ pc \in [Threads -> States]
  /\ retval \in [Threads -> BOOLEAN]
  /\ owed \in [Threads -> Nat]
  /\ targets \in [Threads -> SUBSET Threads]

Released == {t \in Threads : pc[t] = "relock" /\ ~retval[t]}

(* The counts agree at every instant: a signal is a post not taken yet or  *)
(* a waiter that took it and has not acknowledged it.                      *)
CountsAgree ==
  /\ waiting = Cardinality(Waiters)
  /\ signals = wait_sem + Cardinality(Released)
  /\ signals <= waiting

(* cond->lock stays taken only while a timed-out waiter eats a signal, and *)
(* the signal it saw stays there for it.                                   *)
EaterHasLock ==
  \A t \in Threads : pc[t] = "eat" => lock = t /\ signals > 0

OwedWhileCollecting == \A t \in Threads : pc[t] = "collect" => owed[t] > 0

TimeoutsOnlyIfTimed == \A t \in Threads : retval[t] => use.timed

(* The inductive invariant.                                                *)
IInv == TypeOK /\ CountsAgree /\ EaterHasLock /\ OwedWhileCollecting /\ TimeoutsOnlyIfTimed

(* ... so a waiter that comes back finds the signal it was given: no wait  *)
(* ends without one.                                                       *)
NoSpuriousReturn == Released # {} => signals > 0

(* A broadcast made with the mutex held, no other signal being under way,  *)
(* returns after every thread that was waiting has come back from the wait *)
(* semaphore: no late waiter takes a post meant for one of them.           *)
BroadcastRestartsAll ==
  [][\A t \in Threads : pc[t] = "collect" /\ pc'[t] = "free" =>
       \A u \in targets[t] : pc'[u] \notin {"unlock", "wait"}]_vars

(* SDL_SignalCondition and SDL_BroadcastCondition return.                  *)
SignalerReturns ==
  \A t \in Threads : pc[t] = "collect" ~> pc[t] = "free"

(* The counts implement the abstract condition variable.                   *)
Abstract == INSTANCE AbstractCond WITH timed <- use.timed
ImplementsAbstract == Abstract!Spec

-----------------------------------------------------------------------------
(* SDL_mutex.h on SDL_WaitConditionTimeout: once the time has elapsed the  *)
(* function returns.  A timed-out waiter that finds a signal waits for its *)
(* post without a timeout, holding cond->lock.                             *)
TimedWaitReturns ==
  \A t \in Threads : pc[t] = "eat" ~> pc[t] # "eat"

=============================================================================
