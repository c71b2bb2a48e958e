----------------------------- MODULE SyncProofs -----------------------------
(***************************************************************************)
(* Proofs about the generic semaphore and the generic read/write lock, for *)
(* any set of threads, any values and any number of holds.                 *)
(***************************************************************************)
EXTENDS GenericSem, RWLock, FiniteSetTheorems, TLAPS

-----------------------------------------------------------------------------
(* The semaphore.                                                          *)
(* Both sets that are counted are finite.                                  *)
LEMMA Counts ==
  /\ IsFiniteSet(Waiting) /\ IsFiniteSet(Retrying)
  /\ Cardinality(Waiting) \in Nat /\ Cardinality(Retrying) \in Nat
<1>1. Waiting \in SUBSET Users /\ Retrying \in SUBSET Users
  BY DEF Waiting, Retrying
<1>2. IsFiniteSet(Waiting) /\ IsFiniteSet(Retrying)
  BY <1>1, FS_Subset, SemAssumption
<1>3. QED
  BY <1>2, FS_CardinalityType

(* A step of thread t changes the sets by that thread at most.             *)
LEMMA OnlyOne ==
  ASSUME SemTypeOK, SemTypeOK', NEW t \in Users,
         \A u \in Users \ {t} : at'[u] = at[u] /\ timed'[u] = timed[u]
  PROVE  /\ Waiting' = IF at'[t] \in {"asleep", "woken"} THEN Waiting \cup {t} ELSE Waiting \ {t}
         /\ Retrying' = IF at'[t] = "woken" /\ ~timed'[t]
                        THEN Retrying \cup {t} ELSE Retrying \ {t}
         /\ Asleep' = IF at'[t] = "asleep" THEN Asleep \cup {t} ELSE Asleep \ {t}
BY DEF Waiting, Retrying, Asleep

(* A set that differs in one element has one element more, or less.        *)
LEMMA SetChange ==
  ASSUME NEW S, NEW T, NEW x, IsFiniteSet(S),
         T = IF x \in T THEN S \cup {x} ELSE S \ {x}
  PROVE  Cardinality(T) = Cardinality(S) + (IF x \in T THEN 1 ELSE 0)
                                         - (IF x \in S THEN 1 ELSE 0)
<1>1. CASE x \in T
  BY <1>1, FS_AddElement, FS_CardinalityType
<1>2. CASE x \notin T
  BY <1>2, FS_RemoveElement, FS_CardinalityType
<1>3. QED
  BY <1>1, <1>2

(* ... so do the two that are counted.                                     *)
LEMMA CountsChange ==
  ASSUME SemTypeOK, SemTypeOK', NEW t \in Users,
         \A u \in Users \ {t} : at'[u] = at[u] /\ timed'[u] = timed[u]
  PROVE  /\ Cardinality(Waiting') =
              Cardinality(Waiting) + (IF t \in Waiting' THEN 1 ELSE 0)
                                   - (IF t \in Waiting THEN 1 ELSE 0)
         /\ Cardinality(Retrying') =
              Cardinality(Retrying) + (IF t \in Retrying' THEN 1 ELSE 0)
                                    - (IF t \in Retrying THEN 1 ELSE 0)
<1>1. /\ Waiting' = IF t \in Waiting' THEN Waiting \cup {t} ELSE Waiting \ {t}
      /\ Retrying' = IF t \in Retrying' THEN Retrying \cup {t} ELSE Retrying \ {t}
  BY OnlyOne
<1>2. QED
  BY <1>1, Counts, SetChange

(* Nobody waits if the field says so.                                      *)
LEMMA NoWaiters ==
  ASSUME WaitersCounted, waiters_count = 0
  PROVE  Waiting = {} /\ Asleep = {}
BY Counts, FS_EmptySet DEF WaitersCounted, Waiting, Asleep

(* The invariant holds initially.                                          *)
LEMMA SemInitInv == SemInit => SemInv
<1> SUFFICES ASSUME SemInit PROVE SemInv
  OBVIOUS
<1>1. SemTypeOK /\ Waiting = {} /\ Asleep = {}
  BY SemAssumption DEF SemInit, SemTypeOK, Waiting, Asleep
<1>2. QED
  BY <1>1, FS_EmptySet
     DEF SemInit, SemInv, WaitersCounted, SleepersHaveTime, NobodyInside, NoPostLost

(* Types are kept.                                                         *)
LEMMA TypesKept == SemTypeOK /\ WaitersCounted /\ SemNext => SemTypeOK'
<1> SUFFICES ASSUME SemTypeOK, WaitersCounted, NEW t \in Users,
                    \/ TryWait(t) \/ BeginWait(t) \/ Post(t) \/ BeginDestroy(t)
                    \/ SpuriousWakeup(t) \/ TimeOut(t) \/ Recheck(t) \/ Drain(t) \/ Free(t)
             PROVE  SemTypeOK'
  BY DEF SemNext, InSem
<1> USE DEF SemTypeOK
<1>1. CASE TryWait(t)
  BY <1>1 DEF TryWait
<1>2. CASE BeginWait(t)
  BY <1>2 DEF BeginWait, SemGoto
<1>3. CASE Post(t)
  BY <1>3 DEF Post, Signal, Asleep
<1>4. CASE BeginDestroy(t)
  BY <1>4, SemAssumption DEF BeginDestroy, SemGoto
<1>5. CASE SpuriousWakeup(t) \/ TimeOut(t)
  BY <1>5 DEF SpuriousWakeup, TimeOut, SemGoto
<1>6. CASE Recheck(t)
  <2>1. t \in Waiting
    BY <1>6 DEF Recheck, Waiting
  <2>2. waiters_count # 0
    BY <2>1, NoWaiters
  <2>3. QED
    BY <1>6, <2>2 DEF Recheck, SleepsAgain, StopWaiting, SemGoto
<1>7. CASE Drain(t) \/ Free(t)
  BY <1>7 DEF Drain, Free, Signal, Asleep, SemGoto
<1>8. QED
  BY <1>1, <1>2, <1>3, <1>4, <1>5, <1>6, <1>7

(* A signal wakes one sleeper with time left, and changes nothing else.    *)
LEMMA SignalStep ==
  ASSUME SemTypeOK, SemTypeOK', WaitersCounted, SleepersHaveTime, Signal(at), UNCHANGED timed
  PROVE  /\ Waiting' = Waiting
         /\ SleepersHaveTime'
         /\ Cardinality(Retrying') = Cardinality(Retrying) + IF Asleep = {} THEN 0 ELSE 1
         /\ Asleep = {} => Asleep' = {}
<1>1. CASE Asleep = {} /\ at' = at
  BY <1>1, Counts DEF Waiting, Retrying, Asleep, SleepersHaveTime
<1>2. CASE \E t \in Asleep : at' = [at EXCEPT ![t] = "woken"]
  <2>1. PICK t \in Asleep : at' = [at EXCEPT ![t] = "woken"]
    BY <1>2
  <2>2. /\ t \in Users /\ at[t] = "asleep" /\ at'[t] = "woken"
        /\ ~timed[t] /\ timed'[t] = timed[t]
    BY <2>1 DEF Asleep, SemTypeOK, SleepersHaveTime
  <2>3. \A u \in Users \ {t} : at'[u] = at[u] /\ timed'[u] = timed[u]
    BY <2>1 DEF SemTypeOK
  <2>4. t \in Retrying' /\ t \notin Retrying /\ t \in Waiting /\ Waiting' = Waiting
    BY <2>2, <2>3, OnlyOne DEF Retrying, Waiting
  <2>5. Cardinality(Retrying') = Cardinality(Retrying) + 1
    BY <2>2, <2>3, <2>4, CountsChange, Counts
  <2>6. SleepersHaveTime'
    BY <2>2, <2>3 DEF SleepersHaveTime, Asleep
  <2>7. QED
    BY <2>1, <2>4, <2>5, <2>6
<1>3. QED
  BY <1>1, <1>2 DEF Signal

(* Waits: a thread comes in, or wakes, or looks at the count again.        *)
LEMMA WaitSteps ==
  ASSUME SemInv, SemTypeOK', NEW t \in Users,
         \/ TryWait(t) \/ BeginWait(t) \/ SpuriousWakeup(t) \/ TimeOut(t) \/ Recheck(t)
  PROVE  SemInv'
<1> USE DEF SemInv
<1>1. \A u \in Users \ {t} : at'[u] = at[u] /\ timed'[u] = timed[u]
  BY DEF SemTypeOK, TryWait, BeginWait, SpuriousWakeup, TimeOut, Recheck, SemGoto
<1>2. UNCHANGED mem
  BY DEF TryWait, BeginWait, SpuriousWakeup, TimeOut, Recheck
<1>3. /\ Cardinality(Waiting') =
           Cardinality(Waiting) + (IF t \in Waiting' THEN 1 ELSE 0)
                                - (IF t \in Waiting THEN 1 ELSE 0)
      /\ Cardinality(Retrying') =
           Cardinality(Retrying) + (IF t \in Retrying' THEN 1 ELSE 0)
                                 - (IF t \in Retrying THEN 1 ELSE 0)
  BY <1>1, CountsChange
<1>4. Asleep' = IF at'[t] = "asleep" THEN Asleep \cup {t} ELSE Asleep \ {t}
  BY <1>1, OnlyOne
<1>5. WaitersCounted'
  BY <1>3, Counts DEF WaitersCounted, Waiting, SemTypeOK,
     TryWait, BeginWait, SpuriousWakeup, TimeOut, Recheck, SleepsAgain, StopWaiting, SemGoto
<1>6. SleepersHaveTime'
  BY <1>1, <1>4 DEF SleepersHaveTime, Asleep, SemTypeOK,
     TryWait, BeginWait, SpuriousWakeup, TimeOut, Recheck, SleepsAgain, SemGoto
<1>7. NobodyInside'
  <2>1. mem = "freed" => Waiting = {} /\ t \notin Waiting'
    BY DEF NobodyInside, Waiting, SemTypeOK, TryWait, BeginWait, SpuriousWakeup, TimeOut, Recheck
  <2>2. Waiting' \subseteq Waiting \cup {t}
    BY <1>1 DEF Waiting
  <2>3. QED
    BY <1>2, <2>1, <2>2 DEF NobodyInside
<1>8. ~Consumes => NoPostLost'
  <2> SUFFICES ASSUME ~Consumes, mem = "live", Asleep' # {}
               PROVE  Cardinality(Retrying') >= count'
    BY <1>2 DEF NoPostLost
  <2>1. Asleep = {} \/ Cardinality(Retrying) >= count
    BY DEF NoPostLost
  <2>2. CASE TryWait(t)
    <3>1. Retrying' = Retrying /\ Asleep' = Asleep
      BY <2>2 DEF TryWait, Retrying, Asleep
    <3>2. QED
      BY <2>1, <2>2, <3>1, Counts DEF TryWait, SemTypeOK
  <2>3. CASE BeginWait(t)
    <3>1. t \notin Retrying /\ t \notin Retrying'
      BY <2>3 DEF BeginWait, Retrying, SemGoto, SemTypeOK
    <3>2. Cardinality(Retrying') = Cardinality(Retrying)
      BY <1>3, <3>1, Counts
    <3>3. CASE count = 0
      BY <2>3, <3>2, <3>3, Counts DEF BeginWait
    <3>4. CASE count # 0
      <4>1. Asleep' = Asleep
        BY <2>3, <3>4 DEF BeginWait, Asleep
      <4>2. QED
        BY <2>1, <2>3, <3>2, <3>4, <4>1, Counts DEF BeginWait, SemTypeOK
    <3>5. QED
      BY <3>3, <3>4
  <2>4. CASE SpuriousWakeup(t) \/ TimeOut(t)
    <3>1. at[t] = "asleep" /\ at'[t] = "woken" /\ count' = count
      BY <2>4 DEF SpuriousWakeup, TimeOut, SemGoto, SemTypeOK
    <3>2. t \notin Retrying /\ t \in Asleep
      BY <3>1 DEF Retrying, Asleep
    <3>3. QED
      BY <1>3, <2>1, <3>1, <3>2, Counts DEF SemTypeOK
  <2>5. CASE Recheck(t)
    <3>1. at[t] = "woken" /\ timed' = timed
      BY <2>5 DEF Recheck
    <3>2. CASE SleepsAgain(t)
      <4>1. count' = 0
        BY <2>5, <3>2 DEF Recheck, SleepsAgain
      <4>2. t \in Retrying /\ Cardinality(Retrying) >= 1
        BY <2>5, <3>2, Counts, FS_EmptySet DEF Recheck, SleepsAgain, Retrying
      <4>3. QED
        BY <1>3, <4>1, <4>2, Counts
    <3>3. CASE ~SleepsAgain(t)
      <4>1. Asleep' = Asleep /\ t \notin Retrying'
        BY <2>5, <3>1, <3>3 DEF Recheck, SemGoto, Asleep, Retrying, SemTypeOK
      <4>2. t \in Retrying <=> ~timed[t]
        BY <3>1 DEF Retrying
      <4>3. count' = IF timed[t] THEN count ELSE count - 1
        BY <2>5, <3>3 DEF Recheck
      <4>4. QED
        BY <1>3, <2>1, <4>1, <4>2, <4>3, Counts DEF SemTypeOK
    <3>4. QED
      BY <3>2, <3>3
  <2>6. QED
    BY <2>2, <2>3, <2>4, <2>5
<1>9. QED
  BY <1>5, <1>6, <1>7, <1>8

(* Posts, and the steps of destruction.                                    *)
LEMMA OtherSteps ==
  ASSUME SemInv, SemTypeOK', NEW t \in Users,
         Post(t) \/ BeginDestroy(t) \/ Drain(t) \/ Free(t)
  PROVE  SemInv'
<1> USE DEF SemInv
<1>1. CASE Post(t)
  <2>1. timed' = timed /\ mem' = mem /\ mem = "live" /\ waiters_count' = waiters_count
        /\ count' = count + 1
    BY <1>1 DEF Post
  <2>2. CASE WorthSignaling
    <3>1. Signal(at)
      BY <1>1, <2>2 DEF Post
    <3>2. /\ Waiting' = Waiting /\ SleepersHaveTime'
          /\ Cardinality(Retrying') = Cardinality(Retrying) + IF Asleep = {} THEN 0 ELSE 1
          /\ Asleep = {} => Asleep' = {}
      BY <2>1, <3>1, SignalStep
    <3>3. ~Consumes => NoPostLost'
      BY <2>1, <3>2, Counts DEF NoPostLost, SemTypeOK
    <3>4. QED
      BY <2>1, <3>2, <3>3 DEF WaitersCounted, NobodyInside
  <2>3. CASE ~WorthSignaling
    <3>1. at' = at
      BY <1>1, <2>3 DEF Post
    <3>2. waiters_count = 0
      BY <2>3 DEF WorthSignaling, SemTypeOK
    <3>3. Asleep = {} /\ Asleep' = {} /\ Waiting' = Waiting
      BY <2>1, <3>1, <3>2, NoWaiters DEF Asleep, Waiting
    <3>4. QED
      BY <2>1, <3>3 DEF WaitersCounted, NobodyInside, SleepersHaveTime, NoPostLost
  <2>4. QED
    BY <2>2, <2>3
<1>2. CASE Drain(t)
  <2>1. Signal(at) /\ UNCHANGED <<count, waiters_count, mem, timed>>
    BY <1>2 DEF Drain
  <2>2. /\ Waiting' = Waiting /\ SleepersHaveTime'
        /\ Cardinality(Retrying') = Cardinality(Retrying) + IF Asleep = {} THEN 0 ELSE 1
        /\ Asleep = {} => Asleep' = {}
    BY <2>1, SignalStep
  <2>3. ~Consumes => NoPostLost'
    BY <2>1, <2>2, Counts DEF NoPostLost, SemTypeOK
  <2>4. QED
    BY <2>1, <2>2, <2>3 DEF WaitersCounted, NobodyInside
<1>3. CASE BeginDestroy(t) \/ Free(t)
  <2>1. Waiting' = Waiting /\ Asleep' = Asleep /\ timed' = timed /\ mem' # "live"
        /\ waiters_count' = waiters_count
    BY <1>3 DEF BeginDestroy, Free, SemGoto, Waiting, Asleep, SemTypeOK
  <2>2. mem' = "freed" => Waiting = {}
    BY <1>3, NoWaiters DEF BeginDestroy, Free, Drained
  <2>3. QED
    BY <2>1, <2>2 DEF WaitersCounted, NobodyInside, SleepersHaveTime, NoPostLost
<1>4. QED
  BY <1>1, <1>2, <1>3

(* IInv is an inductive invariant: waiters_count counts the waiters, none  *)
(* is inside a freed semaphore, and no wakeup is lost if time-outs take no *)
(* signals.                                                                *)
THEOREM SemInvariance == SemSpec => []SemInv
<1>1. SemInv /\ [SemNext]_semVars => SemInv'
  <2> SUFFICES ASSUME SemInv, [SemNext]_semVars PROVE SemInv'
    OBVIOUS
  <2>1. CASE UNCHANGED semVars
    BY <2>1
       DEF semVars, SemInv, SemTypeOK, WaitersCounted, SleepersHaveTime, NobodyInside, NoPostLost,
                Waiting, Asleep, Retrying
  <2>2. CASE SemNext
    <3>1. SemTypeOK'
      BY <2>2, TypesKept DEF SemInv
    <3>2. QED
      BY <2>2, <3>1, WaitSteps, OtherSteps DEF SemNext, InSem
  <2>3. QED
    BY <2>1, <2>2
<1>2. QED
  BY <1>1, SemInitInv, PTL DEF SemSpec

(* SDL_PostSemaphore wakes enough threads, as long as a wait that times    *)
(* out leaves the signal to others.                                        *)
THEOREM PostNotLost ==
  ASSUME Consumes = FALSE
  PROVE  SemSpec => []NoPostLost
<1>1. SemInv => NoPostLost
  BY DEF SemInv
<1>2. QED
  BY <1>1, SemInvariance, PTL

(* SDL_DestroySemaphore frees nothing under a waiter.                      *)
THEOREM FreedEmpty == SemSpec => []NobodyInside
<1>1. SemInv => NobodyInside
  BY DEF SemInv
<1>2. QED
  BY <1>1, SemInvariance, PTL

(* Every step maps to a step of the abstract semaphore, or to none.        *)
LEMMA SemStepImplements ==
  ASSUME SemInv, SemInv', SemNext
  PROVE  AbstractOfSem!Next \/ UNCHANGED AbstractOfSem!vars
<1> PICK t \in Users :
         \/ TryWait(t) \/ BeginWait(t) \/ Post(t) \/ BeginDestroy(t)
         \/ SpuriousWakeup(t) \/ TimeOut(t) \/ Recheck(t) \/ Drain(t) \/ Free(t)
  BY DEF SemNext, InSem
<1>1. /\ Cardinality(Waiting) = waiters_count /\ Cardinality(Waiting)' = waiters_count'
      /\ SemTypeOK /\ SemTypeOK'
  BY DEF SemInv, WaitersCounted
<1>2. CASE TryWait(t)
  <2>1. AbstractOfSem!Try
    BY <1>1, <1>2 DEF TryWait, AbstractOfSem!Try
  <2>2. QED
    BY <2>1 DEF AbstractOfSem!Next
<1>3. CASE BeginWait(t)
  <2>1. count = 0 => AbstractOfSem!Begin
    BY <1>1, <1>3 DEF BeginWait, AbstractOfSem!Begin
  <2>2. count # 0 => AbstractOfSem!Try
    BY <1>1, <1>3 DEF BeginWait, AbstractOfSem!Try, SemTypeOK
  <2>3. QED
    BY <2>1, <2>2 DEF AbstractOfSem!Next
<1>4. CASE Post(t)
  <2>1. AbstractOfSem!Post
    BY <1>1, <1>4 DEF Post, AbstractOfSem!Post
  <2>2. QED
    BY <2>1 DEF AbstractOfSem!Next
<1>5. CASE BeginDestroy(t)
  <2>1. AbstractOfSem!Close
    BY <1>1, <1>5 DEF BeginDestroy, AbstractOfSem!Close
  <2>2. QED
    BY <2>1 DEF AbstractOfSem!Next
<1>6. CASE SpuriousWakeup(t) \/ TimeOut(t) \/ Drain(t)
  BY <1>1, <1>6 DEF SpuriousWakeup, TimeOut, Drain, AbstractOfSem!vars
<1>7. CASE Free(t)
  <2>1. AbstractOfSem!Close \/ UNCHANGED AbstractOfSem!vars
    BY <1>1, <1>7 DEF Free, AbstractOfSem!Close, AbstractOfSem!vars, SemTypeOK
  <2>2. QED
    BY <2>1 DEF AbstractOfSem!Next
<1>8. CASE Recheck(t)
  <2>1. SleepsAgain(t) => UNCHANGED AbstractOfSem!vars
    BY <1>1, <1>8 DEF Recheck, AbstractOfSem!vars
  <2>2. waiters_count > 0
    <3>1. t \in Waiting
      BY <1>8 DEF Recheck, Waiting
    <3>2. QED
      BY <3>1, NoWaiters DEF SemInv, SemTypeOK
  <2>3. ~SleepsAgain(t) /\ timed[t] => AbstractOfSem!GiveUp
    BY <1>1, <1>8, <2>2 DEF Recheck, StopWaiting, AbstractOfSem!GiveUp
  <2>4. ~SleepsAgain(t) /\ ~timed[t] => AbstractOfSem!Take
    BY <1>1, <1>8, <2>2 DEF Recheck, SleepsAgain, StopWaiting, AbstractOfSem!Take, SemTypeOK
  <2>5. QED
    BY <2>1, <2>3, <2>4 DEF AbstractOfSem!Next
<1>9. QED
  BY <1>2, <1>3, <1>4, <1>5, <1>6, <1>7, <1>8

(* The generic semaphore implements the abstract one, with time-outs that  *)
(* take signals or not.                                                    *)
THEOREM SemRefinement == SemSpec => ImplementsAbstractSem
<1>1. SemInit => AbstractOfSem!Init
  <2> SUFFICES ASSUME SemInit PROVE AbstractOfSem!Init
    OBVIOUS
  <2>1. Waiting = {}
    BY DEF SemInit, Waiting
  <2>2. QED
    BY <2>1, FS_EmptySet, SemAssumption DEF SemInit, AbstractOfSem!Init
<1>2. SemInv /\ SemInv' /\ [SemNext]_semVars => [AbstractOfSem!Next]_(AbstractOfSem!vars)
  <2> SUFFICES ASSUME SemInv, SemInv', [SemNext]_semVars
               PROVE  AbstractOfSem!Next \/ UNCHANGED AbstractOfSem!vars
    OBVIOUS
  <2>1. CASE UNCHANGED semVars
    BY <2>1 DEF semVars, Waiting, AbstractOfSem!vars
  <2>2. QED
    BY <2>1, SemStepImplements
<1>3. QED
  BY <1>1, <1>2, SemInvariance, PTL DEF SemSpec, ImplementsAbstractSem, AbstractOfSem!Spec

-----------------------------------------------------------------------------
(* The read/write lock.                                                    *)
(* The reader count tells whether there are read holds.                    *)
LEMMA ReaderCountZero ==
  ASSUME ReadersCounted
  PROVE  reader_count \in Nat /\ (reader_count = 0 <=> readers = {})
BY FS_EmptySet, FS_CardinalityType DEF ReadersCounted

(* A new read hold counts one more, a dropped one counts one less.         *)
LEMMA CountAdd ==
  ASSUME ReadersCounted, NEW h, h \notin readers
  PROVE  /\ IsFiniteSet(readers \cup {h})
         /\ reader_count + 1 = Cardinality(readers \cup {h})
BY FS_AddElement DEF ReadersCounted

LEMMA CountRemove ==
  ASSUME ReadersCounted, NEW h \in readers
  PROVE  /\ IsFiniteSet(readers \ {h})
         /\ reader_count - 1 = Cardinality(readers \ {h})
BY FS_RemoveElement DEF ReadersCounted

(* The invariant holds initially.                                          *)
LEMMA InitIInv == Init => IInv
<1> SUFFICES ASSUME Init PROVE IInv
  OBVIOUS
<1>1. Cardinality({}) = 0 /\ IsFiniteSet({})
  BY FS_EmptySet
<1>2. TypeOK
  BY DEF Init, TypeOK, States
<1>3. QED
  BY <1>1, <1>2, RWLockAssumption
     DEF Init, IInv, MutexHeld, ReadersCounted, UnlockerHolds, NoWriterWhileReading, Exclusion,
         NoLostWakeup, Holds, InMutex

(* Every function gets the mutex from outside it.                          *)
LEMMA EnterStep ==
  ASSUME IInv, NEW t \in Threads, NEW l \in {"read", "write", "trywrite", "unlock"},
         Enter(t, l),
         l = "read" => owner # t,
         l = "unlock" => Holds(t) # {} \/ owner = t
  PROVE  IInv'
<1> USE DEF IInv, Enter, LockMutex, Goto, InMutex, States
<1>1. pc[t] = "idle" /\ pc' = [pc EXCEPT ![t] = l] /\ owner \in {None, t} /\ owner' = t
      /\ depth' = depth + 1 /\ UNCHANGED <<reader_count, writer_count, readers>>
  OBVIOUS
<1>2. TypeOK'
  BY <1>1 DEF TypeOK
<1>3. depth = writer_count
  BY <1>1, RWLockAssumption DEF MutexHeld, TypeOK
<1>4. MutexHeld'
  <2>1. owner' = t /\ depth' # 0 /\ t # None
    BY <1>1, RWLockAssumption DEF TypeOK
  <2>2. \A u \in Threads : pc[u] \notin InMutex
    BY <1>1, RWLockAssumption DEF MutexHeld, TypeOK
  <2>3. \A u \in Threads : u # t => pc'[u] = pc[u]
    BY <1>1 DEF TypeOK
  <2>4. pc'[t] = l /\ l \in InMutex
    BY <1>1 DEF TypeOK
  <2>5. depth' = writer_count' + 1
    BY <1>1, <1>3
  <2>6. QED
    BY <2>1, <2>2, <2>3, <2>4, <2>5 DEF MutexHeld
<1>5. UnlockerHolds'
  BY <1>1, <1>3, RWLockAssumption DEF UnlockerHolds, Holds, TypeOK, MutexHeld
<1>6. NoWriterWhileReading'
  BY <1>1, RWLockAssumption DEF NoWriterWhileReading, TypeOK, MutexHeld
<1>7. ReadersCounted' /\ Exclusion' /\ NoLostWakeup'
  BY <1>1 DEF ReadersCounted, Exclusion, NoLostWakeup, TypeOK
<1>8. QED
  BY <1>2, <1>4, <1>5, <1>6, <1>7

(* A thread inside a function is alone there, and owns the mutex once more *)
(* than it holds the lock for writing.                                     *)
LEMMA InsideAlone ==
  ASSUME TypeOK, MutexHeld, NEW t \in Threads, pc[t] \in InMutex
  PROVE  /\ owner = t /\ depth = writer_count + 1
         /\ \A u \in Threads : u # t => pc[u] \notin InMutex
BY RWLockAssumption DEF MutexHeld, TypeOK

LEMMA ReadStep ==
  ASSUME IInv, NEW t \in Threads, Read(t)
  PROVE  IInv'
<1> USE DEF IInv
<1>1. pc[t] = "read" /\ owner = t /\ writer_count = 0 /\ depth = 1
      /\ \A u \in Threads : u # t => pc[u] \notin InMutex
  BY InsideAlone DEF Read, InMutex, NoWriterWhileReading, TypeOK
<1>2. owner' = None /\ depth' = 0 /\ writer_count' = 0 /\ reader_count' = reader_count + 1
      /\ pc' = [pc EXCEPT ![t] = "idle"]
  BY <1>1 DEF Read, UnlockMutex, Goto
<1>3. PICK k \in Slots : <<t, k>> \notin readers /\ readers' = readers \cup {<<t, k>>}
  BY DEF Read
<1>4. TypeOK'
  BY <1>2, <1>3 DEF TypeOK, States
<1>5. ReadersCounted'
  BY <1>2, <1>3, CountAdd DEF ReadersCounted
<1>6. MutexHeld'
  BY <1>1, <1>2, RWLockAssumption DEF MutexHeld, TypeOK, InMutex
<1>7. UnlockerHolds' /\ NoWriterWhileReading'
  BY <1>1, <1>2 DEF UnlockerHolds, NoWriterWhileReading, TypeOK, InMutex
<1>8. Exclusion'
  BY <1>2, <1>5 DEF Exclusion, ReadersCounted
<1>9. NoLostWakeup'
  BY <1>3 DEF NoLostWakeup
<1>10. QED
  BY <1>4, <1>5, <1>6, <1>7, <1>8, <1>9

(* SDL_WaitCondition and a failed try release the mutex; nothing else      *)
(* changes.                                                                *)
LEMMA ReleaseStep ==
  ASSUME IInv, NEW t \in Threads, AwaitReaders(t) \/ TryWriteFails(t)
  PROVE  IInv'
<1> USE DEF IInv
<1>1. PICK l \in {"wait", "idle"} :
        /\ pc[t] \in InMutex /\ reader_count > 0
        /\ pc' = [pc EXCEPT ![t] = l] /\ UnlockMutex(1)
        /\ UNCHANGED <<reader_count, writer_count, readers>>
  BY DEF AwaitReaders, TryWriteFails, ReadersActive, InMutex, Goto
<1>2. owner = t /\ depth = writer_count + 1 /\ \A u \in Threads : u # t => pc[u] \notin InMutex
  BY <1>1, InsideAlone
<1>3. readers # {} /\ writer_count = 0
  BY <1>1, ReaderCountZero DEF Exclusion, TypeOK
<1>4. owner' = None /\ depth' = 0
  BY <1>1, <1>2, <1>3 DEF UnlockMutex
<1>5. TypeOK'
  BY <1>1, <1>4 DEF TypeOK, States
<1>6. MutexHeld'
  BY <1>1, <1>2, <1>3, <1>4, RWLockAssumption DEF MutexHeld, TypeOK, InMutex
<1>7. UnlockerHolds' /\ NoWriterWhileReading'
  BY <1>1, <1>2, <1>3 DEF UnlockerHolds, NoWriterWhileReading, Holds, TypeOK, InMutex
<1>8. ReadersCounted' /\ Exclusion' /\ NoLostWakeup'
  BY <1>1, <1>3 DEF ReadersCounted, Exclusion, NoLostWakeup
<1>9. QED
  BY <1>5, <1>6, <1>7, <1>8

LEMMA WakeStep ==
  ASSUME IInv, NEW t \in Threads, WakeSpuriously(t) \/ RegainMutex(t)
  PROVE  IInv'
<1> USE DEF IInv, Goto
<1>1. CASE WakeSpuriously(t)
  BY <1>1 DEF WakeSpuriously, TypeOK, States, MutexHeld, InMutex, ReadersCounted, UnlockerHolds,
              Holds, NoWriterWhileReading, Exclusion, NoLostWakeup
<1>2. CASE RegainMutex(t)
  <2>1. owner = None /\ owner' = t /\ depth = 0 /\ depth' = 1 /\ writer_count = 0
        /\ pc' = [pc EXCEPT ![t] = "write"] /\ UNCHANGED <<reader_count, writer_count, readers>>
    BY <1>2 DEF RegainMutex, LockMutex, MutexHeld
  <2>2. \A u \in Threads : pc[u] \notin InMutex
    BY <2>1, RWLockAssumption DEF MutexHeld
  <2>3. TypeOK'
    BY <2>1 DEF TypeOK, States
  <2>4. MutexHeld'
    BY <2>1, <2>2, RWLockAssumption DEF MutexHeld, TypeOK, InMutex
  <2>5. UnlockerHolds' /\ NoWriterWhileReading'
    BY <2>1, <2>2 DEF UnlockerHolds, NoWriterWhileReading, InMutex, TypeOK
  <2>6. ReadersCounted' /\ Exclusion' /\ NoLostWakeup'
    BY <2>1 DEF ReadersCounted, Exclusion, NoLostWakeup, TypeOK
  <2>7. QED
    BY <2>3, <2>4, <2>5, <2>6
<1>3. QED
  BY <1>1, <1>2

LEMMA WriteStep ==
  ASSUME IInv, NEW t \in Threads, Write(t)
  PROVE  IInv'
<1> USE DEF IInv
<1>1. pc[t] \in InMutex /\ reader_count = 0 /\ writer_count' = writer_count + 1
      /\ pc' = [pc EXCEPT ![t] = "idle"] /\ UNCHANGED <<owner, depth, reader_count, readers>>
  BY DEF Write, ReadersActive, KeepMutex, InMutex, Goto, TypeOK
<1>2. owner = t /\ depth = writer_count + 1 /\ \A u \in Threads : u # t => pc[u] \notin InMutex
  BY <1>1, InsideAlone
<1>3. readers = {}
  BY <1>1, ReaderCountZero
<1>4. TypeOK'
  BY <1>1 DEF TypeOK, States
<1>5. MutexHeld'
  BY <1>1, <1>2, RWLockAssumption DEF MutexHeld, TypeOK, InMutex
<1>6. UnlockerHolds' /\ NoWriterWhileReading'
  BY <1>1, <1>2 DEF UnlockerHolds, NoWriterWhileReading, InMutex, TypeOK
<1>7. ReadersCounted' /\ Exclusion' /\ NoLostWakeup'
  BY <1>1, <1>2, <1>3 DEF ReadersCounted, Exclusion, NoLostWakeup, TypeOK
<1>8. QED
  BY <1>4, <1>5, <1>6, <1>7

(* The unlocker of a reader owns the hold it drops; the writers it wakes   *)
(* need no reader any more.                                                *)
LEMMA UnlockReaderStep ==
  ASSUME IInv, NEW t \in Threads, UnlockReader(t)
  PROVE  /\ IInv'
         /\ writer_count = 0
         /\ \E k \in Slots : <<t, k>> \in readers /\ readers' = readers \ {<<t, k>>}
<1> USE DEF IInv
<1>1. pc[t] = "unlock" /\ owner = t /\ depth = writer_count + 1
      /\ \A u \in Threads : u # t => pc[u] \notin InMutex
  BY InsideAlone DEF UnlockReader, InMutex
<1>2. readers # {} /\ writer_count = 0
  BY ReaderCountZero DEF UnlockReader, Exclusion, TypeOK
<1>3. Holds(t) # {}
  BY <1>1, <1>2 DEF UnlockerHolds, TypeOK
<1>4. PICK k \in Slots : <<t, k>> \in readers /\ readers' = readers \ {<<t, k>>}
  BY <1>3 DEF UnlockReader
<1>5. owner' = None /\ depth' = 0 /\ writer_count' = 0 /\ reader_count' = reader_count - 1
  BY <1>1, <1>2 DEF UnlockReader, UnlockMutex
<1>6. \A u \in Threads :
        pc'[u] = CASE u = t -> "idle" [] pc[u] = "wait" -> "woken" [] OTHER -> pc[u]
  BY DEF UnlockReader, Broadcast
<1>7. \A u \in Threads : pc'[u] \in States \ ({"wait"} \cup InMutex)
  BY <1>1, <1>6 DEF TypeOK, States, InMutex
<1>8. TypeOK'
  <2>1. pc' \in [Threads -> States]
    BY <1>7 DEF UnlockReader, Broadcast
  <2>2. reader_count' \in Nat
    BY <1>5, ReaderCountZero DEF UnlockReader
  <2>3. QED
    BY <1>4, <1>5, <2>1, <2>2 DEF TypeOK
<1>9. ReadersCounted'
  BY <1>4, <1>5, CountRemove DEF ReadersCounted
<1>10. MutexHeld'
  BY <1>5, <1>7, RWLockAssumption DEF MutexHeld
<1>11. UnlockerHolds' /\ NoWriterWhileReading' /\ NoLostWakeup'
  BY <1>7 DEF UnlockerHolds, NoWriterWhileReading, NoLostWakeup, InMutex
<1>12. Exclusion'
  BY <1>5, <1>9 DEF Exclusion, ReadersCounted
<1>13. QED
  BY <1>2, <1>4, <1>8, <1>9, <1>10, <1>11, <1>12

LEMMA UnlockWriterStep ==
  ASSUME IInv, NEW t \in Threads, UnlockWriter(t)
  PROVE  IInv'
<1> USE DEF IInv
<1>1. pc[t] = "unlock" /\ owner = t /\ depth = writer_count + 1 /\ writer_count > 0
      /\ \A u \in Threads : u # t => pc[u] \notin InMutex
  BY InsideAlone DEF UnlockWriter, InMutex
<1>2. readers = {} /\ readers' = {} /\ reader_count' = reader_count
  BY <1>1 DEF UnlockWriter, Exclusion
<1>3. writer_count' = writer_count - 1 /\ depth' = writer_count'
      /\ owner' = (IF writer_count' = 0 THEN None ELSE t) /\ pc' = [pc EXCEPT ![t] = "idle"]
  BY <1>1 DEF UnlockWriter, UnlockMutex, WriterLevels, Goto, TypeOK
<1>4. \A u \in Threads : pc'[u] \notin InMutex
  BY <1>1, <1>3 DEF TypeOK, InMutex
<1>5. TypeOK'
  BY <1>1, <1>2, <1>3 DEF TypeOK, States
<1>6. MutexHeld'
  BY <1>1, <1>3, <1>4, <1>5, RWLockAssumption DEF MutexHeld, TypeOK
<1>7. UnlockerHolds' /\ NoWriterWhileReading'
  BY <1>4 DEF UnlockerHolds, NoWriterWhileReading, InMutex
<1>8. ReadersCounted' /\ NoLostWakeup'
  BY <1>2, <1>3 DEF ReadersCounted, NoLostWakeup, TypeOK
<1>9. Exclusion'
  BY <1>2, <1>3, <1>8 DEF Exclusion, ReadersCounted
<1>10. QED
  BY <1>5, <1>6, <1>7, <1>8, <1>9

(* Every step preserves the invariant.                                     *)
LEMMA NextIInv == IInv /\ [Next]_vars => IInv'
<1> SUFFICES ASSUME IInv, [Next]_vars PROVE IInv'
  OBVIOUS
<1>1. CASE UNCHANGED vars
  BY <1>1 DEF vars, IInv, TypeOK, MutexHeld, ReadersCounted, UnlockerHolds, Holds,
              NoWriterWhileReading, Exclusion, NoLostWakeup
<1>2. ASSUME NEW t \in Threads, Step(t) PROVE IInv'
  <2>1. CASE EnterRead(t)
    BY <2>1, EnterStep DEF EnterRead
  <2>2. CASE EnterWrite(t)
    BY <2>2, EnterStep DEF EnterWrite
  <2>3. CASE EnterUnlock(t)
    BY <2>3, EnterStep DEF EnterUnlock
  <2>4. QED
    BY <1>2, <2>1, <2>2, <2>3, ReadStep, ReleaseStep, WakeStep, WriteStep, UnlockReaderStep,
       UnlockWriterStep DEF Step
<1>3. QED
  BY <1>1, <1>2 DEF Next

THEOREM Invariance == Spec => []IInv
BY InitIInv, NextIInv, PTL DEF Spec

(* SDL_sysrwlock.c keeps its fields in their types.                        *)
THEOREM TypeCorrect == Spec => []TypeOK
<1>1. IInv => TypeOK
  BY DEF IInv
<1>2. QED
  BY <1>1, Invariance, PTL

(* The assertion in both read functions never fails.                       *)
THEOREM ReadAssertion == Spec => []NoWriterWhileReading
<1>1. IInv => NoWriterWhileReading
  BY DEF IInv
<1>2. QED
  BY <1>1, Invariance, PTL

(* Readers exclude the writer, and the counters say who holds the lock.    *)
THEOREM MutualExclusion == Spec => []Exclusion
<1>1. IInv => Exclusion
  BY DEF IInv
<1>2. QED
  BY <1>1, Invariance, PTL

(* A sleeping writer always has a reader left that will wake it.           *)
THEOREM WakeupNotLost == Spec => []NoLostWakeup
<1>1. IInv => NoLostWakeup
  BY DEF IInv
<1>2. QED
  BY <1>1, Invariance, PTL

-----------------------------------------------------------------------------
(* A function that has only got or released the mutex, or sleeps, changes  *)
(* nothing of the abstract lock.                                           *)
LEMMA MutexStepStutters ==
  ASSUME IInv, NEW t \in Threads, UNCHANGED <<readers, writer_count>>,
         writer_count > 0 => owner' = owner
  PROVE  UNCHANGED Abstract!vars
BY DEF Abstract!vars, IInv, TypeOK

LEMMA StepImplements ==
  ASSUME IInv, IInv', NEW t \in Threads, Step(t)
  PROVE  Abstract!Next \/ UNCHANGED Abstract!vars
<1> DEFINE writer == IF writer_count > 0 THEN owner ELSE None
<1> USE DEF IInv
<1>1. CASE EnterRead(t) \/ EnterWrite(t) \/ EnterUnlock(t)
  <2>1. owner \in {None, t} /\ owner' = t /\ UNCHANGED <<readers, writer_count>>
    BY <1>1 DEF EnterRead, EnterWrite, EnterUnlock, Enter, LockMutex
  <2>2. writer_count > 0 => owner' = owner
    BY <2>1, RWLockAssumption DEF MutexHeld, TypeOK
  <2>3. QED
    BY <2>1, <2>2, MutexStepStutters
<1>2. CASE AwaitReaders(t) \/ WakeSpuriously(t) \/ RegainMutex(t) \/ TryWriteFails(t)
  <2>1. UNCHANGED <<readers, writer_count>>
    BY <1>2 DEF AwaitReaders, WakeSpuriously, RegainMutex, TryWriteFails
  <2>2. writer_count > 0 => owner' = owner
    <3>1. CASE WakeSpuriously(t)
      BY <3>1 DEF WakeSpuriously
    <3>2. CASE RegainMutex(t)
      BY <3>2 DEF RegainMutex, MutexHeld, TypeOK
    <3>3. CASE AwaitReaders(t) \/ TryWriteFails(t)
      BY <3>3, ReaderCountZero DEF AwaitReaders, TryWriteFails, ReadersActive, Exclusion
    <3>4. QED
      BY <1>2, <3>1, <3>2, <3>3
  <2>3. QED
    BY <2>1, <2>2, MutexStepStutters
<1>3. CASE Read(t)
  <2>1. writer_count = 0 /\ writer_count' = 0
    BY <1>3 DEF Read, NoWriterWhileReading
  <2>2. Abstract!LockForReading(t)
    BY <1>3, <2>1 DEF Abstract!LockForReading, Read
  <2>3. QED
    BY <2>2 DEF Abstract!Next
<1>4. CASE Write(t)
  <2>1. readers = {} /\ owner = t
    BY <1>4, ReaderCountZero, InsideAlone DEF Write, ReadersActive, InMutex, TypeOK
  <2>2. writer_count \in Nat /\ writer_count' = writer_count + 1 /\ owner' = t /\ readers' = readers
    BY <1>4, <2>1 DEF Write, KeepMutex, TypeOK
  <2>3. Abstract!LockForWriting(t)
    BY <2>1, <2>2 DEF Abstract!LockForWriting
  <2>4. QED
    BY <2>3 DEF Abstract!Next
<1>5. CASE UnlockReader(t)
  <2>1. writer_count = 0 /\ writer_count' = 0
        /\ \E k \in Slots : <<t, k>> \in readers /\ readers' = readers \ {<<t, k>>}
    BY <1>5, UnlockReaderStep DEF UnlockReader
  <2>2. Abstract!UnlockRead(t)
    BY <2>1 DEF Abstract!UnlockRead
  <2>3. QED
    BY <2>2 DEF Abstract!Next
<1>6. CASE UnlockWriter(t)
  <2>1. owner = t /\ depth = writer_count + 1 /\ writer_count \in Nat /\ writer_count > 0
    BY <1>6, InsideAlone DEF UnlockWriter, InMutex, TypeOK
  <2>2. writer_count' = writer_count - 1 /\ readers' = readers
        /\ owner' = IF writer_count = 1 THEN None ELSE t
    BY <1>6, <2>1 DEF UnlockWriter, UnlockMutex, WriterLevels
  <2>3. Abstract!UnlockWrite(t)
    BY <2>1, <2>2 DEF Abstract!UnlockWrite
  <2>4. QED
    BY <2>3 DEF Abstract!Next
<1>7. QED
  BY <1>1, <1>2, <1>3, <1>4, <1>5, <1>6 DEF Step

(* The code implements the read/write lock that SDL_mutex.h describes.     *)
THEOREM Refinement == Spec => ImplementsAbstract
<1>1. Init => Abstract!Init
  BY DEF Init, Abstract!Init
<1>2. IInv /\ IInv' /\ [Next]_vars => [Abstract!Next]_(Abstract!vars)
  <2> SUFFICES ASSUME IInv, IInv', [Next]_vars PROVE Abstract!Next \/ UNCHANGED Abstract!vars
    OBVIOUS
  <2>1. CASE UNCHANGED vars
    BY <2>1 DEF vars, Abstract!vars
  <2>2. CASE Next
    BY <2>2, StepImplements DEF Next
  <2>3. QED
    BY <2>1, <2>2
<1>3. QED
  BY <1>1, <1>2, Invariance, PTL DEF Spec, ImplementsAbstract, Abstract!Spec

=============================================================================
