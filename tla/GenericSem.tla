----------------------------- MODULE GenericSem -----------------------------
(***************************************************************************)
(* The semaphore of src/src/thread/generic/SDL_syssem.c, built on a mutex  *)
(* and the condition variable of the system, as on Apple's systems.  What  *)
(* runs between two waits on the condition is under count_lock, and one    *)
(* action.                                                                 *)
(***************************************************************************)
EXTENDS Integers, FiniteSets

CONSTANTS
  Users,
  Initial,      \* values the semaphore is created with
  Full,         \* stands for 0xFFFFFFFF
  MaxValue,     \* bound: no post beyond this value
  Consumes      \* may a wait on the condition that times out take a signal?

ASSUME SemAssumption ==
  /\ IsFiniteSet(Users)
  /\ Initial \subseteq Nat /\ MaxValue \in Nat
  /\ Full \in Nat /\ Full > Cardinality(Users)
  /\ Consumes \in BOOLEAN

VARIABLES
  count, waiters_count,   \* the fields of SDL_Semaphore
  mem,                    \* "live", "closing" or "freed"
  at,
  timed                   \* per thread: its wait has timed out, retval

semVars == <<count, waiters_count, mem, at, timed>>

SemInit ==
  /\ count \in Initial /\ waiters_count = 0 /\ mem = "live"
  /\ at = [t \in Users |-> "free"]
  /\ timed = [t \in Users |-> FALSE]

SemGoto(t, l) == at' = [at EXCEPT ![t] = l]

-----------------------------------------------------------------------------
(* The condition variable of the system.  A signal wakes one sleeper, if   *)
(* there is one; a sleeper may also wake without a signal.  One that is    *)
(* woken as its time elapses may report the time-out.                      *)
Asleep == {t \in Users : at[t] = "asleep"}

Signal(p) ==
  \/ Asleep = {} /\ at' = p
  \/ \E t \in Asleep : at' = [p EXCEPT ![t] = "woken"]

SpuriousWakeup(t) ==
  /\ at[t] = "asleep"
  /\ SemGoto(t, "woken")
  /\ UNCHANGED <<count, waiters_count, mem, timed>>

TimeOut(t) ==
  /\ at[t] = "asleep" \/ (Consumes /\ at[t] = "woken")
  /\ timed' = [timed EXCEPT ![t] = TRUE]
  /\ SemGoto(t, "woken")
  /\ UNCHANGED <<count, waiters_count, mem>>

-----------------------------------------------------------------------------
(* SDL_WaitSemaphoreTimeoutNS with a timeout of 0.  Failing changes        *)
(* nothing.                                                                *)
TryWait(t) ==
  /\ mem = "live" /\ at[t] = "free" /\ count > 0
  /\ count' = count - 1
  /\ UNCHANGED <<waiters_count, mem, at, timed>>

(* ... with a timeout, or none: sleep if there is nothing to take.         *)
BeginWait(t) ==
  /\ mem = "live" /\ at[t] = "free"
  /\ IF count = 0
     THEN waiters_count' = waiters_count + 1 /\ SemGoto(t, "asleep") /\ UNCHANGED count
     ELSE count' = count - 1 /\ UNCHANGED <<waiters_count, at>>
  /\ timed' = [timed EXCEPT ![t] = FALSE]
  /\ UNCHANGED mem

(* Back from the condition: the loop goes on as long as there is nothing   *)
(* to take and time is left.                                               *)
SleepsAgain_Never(t) == FALSE
SleepsAgain(t) == count = 0 /\ ~timed[t]

StopWaiting_Forgotten == UNCHANGED waiters_count
StopWaiting == waiters_count' = waiters_count - 1

Recheck(t) ==
  /\ at[t] = "woken"
  /\ IF SleepsAgain(t)
     THEN SemGoto(t, "asleep") /\ UNCHANGED <<count, waiters_count>>
     ELSE /\ StopWaiting
          /\ count' = IF timed[t] THEN count ELSE count - 1
          /\ SemGoto(t, "free")
  /\ UNCHANGED <<mem, timed>>

WorthSignaling_IfZero == waiters_count > 0 /\ count = 0
WorthSignaling == waiters_count > 0

Post(t) ==
  /\ mem = "live" /\ at[t] = "free"
  /\ count < MaxValue
  /\ IF WorthSignaling THEN Signal(at) ELSE UNCHANGED at
  /\ count' = count + 1
  /\ UNCHANGED <<waiters_count, mem, timed>>

-----------------------------------------------------------------------------
(* SDL_DestroySemaphore, by the last user of the semaphore but for those   *)
(* that sleep in it, whom the API forbids and the code lets go: no wait is *)
(* about to take from count, which is written without the lock.            *)
BeginDestroy(t) ==
  /\ mem = "live" /\ at[t] = "free"
  /\ \A u \in Users : at[u] = "woken" => timed[u]
  /\ mem' = "closing"
  /\ count' = Full
  /\ SemGoto(t, "drain")
  /\ UNCHANGED <<waiters_count, timed>>

(* Signal, and look again after a while.                                   *)
Drain(t) ==
  /\ at[t] = "drain" /\ waiters_count > 0
  /\ Signal(at)
  /\ UNCHANGED <<count, waiters_count, mem, timed>>

Drained_Early == Asleep = {}
Drained == waiters_count = 0

Free(t) ==
  /\ at[t] = "drain" /\ Drained
  /\ mem' = "freed"
  /\ SemGoto(t, "free")
  /\ UNCHANGED <<count, waiters_count, timed>>

-----------------------------------------------------------------------------
InSem(t) == Recheck(t) \/ Drain(t) \/ Free(t)
SemNext ==
  \E t \in Users :
    \/ TryWait(t) \/ BeginWait(t) \/ Post(t) \/ BeginDestroy(t)
    \/ SpuriousWakeup(t) \/ TimeOut(t)
    \/ InSem(t)

(* Threads that are awake run on.                                          *)
SemFairness == \A t \in Users : WF_semVars(InSem(t))

SemSpec == SemInit /\ [][SemNext]_semVars /\ SemFairness

-----------------------------------------------------------------------------
SemTypeOK ==
  /\ count \in Nat /\ waiters_count \in Nat
  /\ mem \in {"live", "closing", "freed"}
  /\ at \in [Users -> {"free", "asleep", "woken", "drain"}]
  /\ timed \in [Users -> BOOLEAN]

Waiting == {t \in Users : at[t] \in {"asleep", "woken"}}
Retrying == {t \in Users : at[t] = "woken" /\ ~timed[t]}

(* SDL_PostSemaphore wakes "waiting threads and allow[s] them to retry":   *)
(* while a thread sleeps, as many are awake and about to retry as there    *)
(* are posts to take, whoever timed out or came in between.                *)
NoPostLost ==
  mem = "live" /\ Asleep # {} => Cardinality(Retrying) >= count

(* The destroyer sees every waiter in waiters_count: nobody is inside when *)
(* the memory goes.                                                        *)
NobodyInside == mem = "freed" => Waiting = {}

(* What the proofs add: the field counts who waits, and who sleeps has     *)
(* time left.                                                              *)
WaitersCounted == waiters_count = Cardinality(Waiting)
SleepersHaveTime == \A t \in Asleep : ~timed[t]
SemInv ==
  /\ SemTypeOK /\ WaitersCounted /\ SleepersHaveTime /\ NobodyInside
  /\ ~Consumes => NoPostLost

(* A destroyed semaphore lets everyone go, and goes itself.                *)
DestroyReturns == \A t \in Users : at[t] = "drain" ~> mem = "freed"

(* It is an abstract semaphore: no wait succeeds with nothing to take.     *)
AbstractOfSem ==
  INSTANCE AbstractSem WITH
    value <- IF mem = "live" THEN count ELSE 1,
    waiting <- Cardinality(Waiting),
    closed <- mem # "live"
ImplementsAbstractSem == AbstractOfSem!Spec

=============================================================================
