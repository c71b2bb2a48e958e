------------------------------- MODULE RWLock -------------------------------
(***************************************************************************)
(* The generic read/write lock of src/src/thread/generic/SDL_sysrwlock.c:  *)
(* two counters behind a recursive mutex, which a writer keeps while it    *)
(* holds the lock, and a condition variable on which writers wait for the  *)
(* readers to leave.                                                       *)
(*                                                                         *)
(* Every function is two steps: it gets the mutex, and then runs to the    *)
(* point where it releases or keeps it.  Threads use the lock as           *)
(* SDL_mutex.h allows, with write locks recursive as the code lets them    *)
(* be.                                                                     *)
(***************************************************************************)
EXTENDS Naturals, FiniteSets

CONSTANTS
  Threads,
  None,        \* no owner
  Slots,       \* read holds one thread may own at a time
  MaxWrites    \* bound: write holds one thread may own at a time

ASSUME RWLockAssumption == None \notin Threads /\ MaxWrites \in Nat

VARIABLES
  owner, depth,               \* the recursive mutex rwlock->lock
  reader_count, writer_count,
  readers,                    \* history: the read holds the program owns
  pc

vars == <<owner, depth, reader_count, writer_count, readers, pc>>

States == {"idle", "read", "write", "trywrite", "wait", "woken", "unlock"}
InMutex == {"read", "write", "trywrite", "unlock"}

Init ==
  /\ owner = None /\ depth = 0
  /\ reader_count = 0 /\ writer_count = 0
  /\ readers = {}
  /\ pc = [t \in Threads |-> "idle"]

Holds(t) == {h \in readers : h[1] = t}

-----------------------------------------------------------------------------
(* SDL_LockMutex, SDL_UnlockMutex on rwlock->lock. *)

LockMutex(t) ==
  /\ owner \in {None, t}
  /\ owner' = t /\ depth' = depth + 1

UnlockMutex(levels) ==
  /\ depth' = depth - levels
  /\ owner' = IF depth = levels THEN None ELSE owner

Goto(t, l) == pc' = [pc EXCEPT ![t] = l]

Enter(t, l) ==
  /\ pc[t] = "idle"
  /\ LockMutex(t)
  /\ Goto(t, l)
  /\ UNCHANGED <<reader_count, writer_count, readers>>

-----------------------------------------------------------------------------
(* SDL_LockRWLockForReading and SDL_TryLockRWLockForReading; a try that    *)
(* finds the mutex locked changes nothing.                                 *)

EnterRead(t) ==
  /\ owner # t /\ \E k \in Slots : <<t, k>> \notin readers
  /\ Enter(t, "read")

Read(t) ==
  /\ pc[t] = "read"
  /\ reader_count' = reader_count + 1
  /\ \E k \in Slots : <<t, k>> \notin readers /\ readers' = readers \cup {<<t, k>>}
  /\ UnlockMutex(1)
  /\ Goto(t, "idle")
  /\ UNCHANGED writer_count

-----------------------------------------------------------------------------
(* SDL_LockRWLockForWriting and SDL_TryLockRWLockForWriting *)

EnterWrite(t) ==
  /\ Holds(t) = {} /\ (owner = t => depth < MaxWrites)
  /\ Enter(t, "write") \/ Enter(t, "trywrite")

ReadersActive_Never == FALSE
ReadersActive == reader_count > 0

(* While there are readers, release the mutex and wait to be alerted.      *)
AwaitReaders(t) ==
  /\ pc[t] = "write" /\ ReadersActive
  /\ UnlockMutex(1)
  /\ Goto(t, "wait")
  /\ UNCHANGED <<reader_count, writer_count, readers>>

(* SDL_WaitCondition may return without a signal (Windows, POSIX).         *)
WakeSpuriously(t) ==
  /\ pc[t] = "wait"
  /\ Goto(t, "woken")
  /\ UNCHANGED <<owner, depth, reader_count, writer_count, readers>>

RegainMutex(t) ==
  /\ pc[t] = "woken" /\ owner = None
  /\ LockMutex(t)
  /\ Goto(t, "write")
  /\ UNCHANGED <<reader_count, writer_count, readers>>

KeepMutex_Released == UnlockMutex(1)
KeepMutex == UNCHANGED <<owner, depth>>

Write(t) ==
  /\ pc[t] \in {"write", "trywrite"} /\ ~ReadersActive
  /\ writer_count' = writer_count + 1
  /\ KeepMutex
  /\ Goto(t, "idle")
  /\ UNCHANGED <<reader_count, readers>>

TryWriteFails(t) ==
  /\ pc[t] = "trywrite" /\ ReadersActive
  /\ UnlockMutex(1)
  /\ Goto(t, "idle")
  /\ UNCHANGED <<reader_count, writer_count, readers>>

-----------------------------------------------------------------------------
(* SDL_UnlockRWLock *)

EnterUnlock(t) ==
  /\ Holds(t) # {} \/ owner = t
  /\ Enter(t, "unlock")

(* SDL_BroadcastCondition: all waiting writers try again.                  *)
Broadcast_None(t) == Goto(t, "idle")
Broadcast(t) ==
  pc' = [u \in Threads |-> CASE u = t           -> "idle"
                             [] pc[u] = "wait"  -> "woken"
                             [] OTHER           -> pc[u]]

UnlockReader(t) ==
  /\ pc[t] = "unlock" /\ reader_count > 0
  /\ reader_count' = reader_count - 1
  /\ \E k \in Slots : /\ Holds(t) # {} => <<t, k>> \in readers
                      /\ readers' = readers \ {<<t, k>>}
  /\ Broadcast(t)
  /\ UnlockMutex(1)
  /\ UNCHANGED writer_count

(* A writer's unlock undoes its own lock of the mutex and that of the call *)
(* it is in.                                                               *)
WriterLevels == 2

UnlockWriter(t) ==
  /\ pc[t] = "unlock" /\ reader_count = 0 /\ writer_count > 0
  /\ writer_count' = writer_count - 1
  /\ Goto(t, "idle")
  /\ UnlockMutex(WriterLevels)
  /\ UNCHANGED <<reader_count, readers>>

-----------------------------------------------------------------------------
Step(t) ==
  \/ EnterRead(t) \/ Read(t)
  \/ EnterWrite(t) \/ AwaitReaders(t) \/ WakeSpuriously(t) \/ RegainMutex(t)
  \/ Write(t) \/ TryWriteFails(t)
  \/ EnterUnlock(t) \/ UnlockReader(t) \/ UnlockWriter(t)

Next == \E t \in Threads : Step(t)

(* A thread that has the mutex runs on; what it holds it unlocks in the    *)
(* end, and the mutex is not kept from it for ever.                        *)
Inside(t) == Read(t) \/ AwaitReaders(t) \/ Write(t) \/ TryWriteFails(t) \/ UnlockReader(t) \/ UnlockWriter(t)
Fairness == \A t \in Threads : WF_vars(Inside(t)) /\ SF_vars(EnterUnlock(t))

Spec == Init /\ [][Next]_vars /\ Fairness

-----------------------------------------------------------------------------
TypeOK ==
  /\ owner \in Threads \cup {None} /\ depth \in Nat
  /\ reader_count \in Nat /\ writer_count \in Nat
  /\ readers \subseteq Threads \X Slots
  /\ pc \in [Threads -> States]

(* The assertion of both read functions: whoever gets the mutex to read    *)
(* finds no writer.                                                        *)
NoWriterWhileReading == \A t \in Threads : pc[t] = "read" => writer_count = 0

(* What makes the lock work, as an inductive invariant: the mutex is held  *)
(* by the writer, once for every write hold, and by the one thread that is *)
(* inside a function; the reader count is the number of read holds.        *)
MutexHeld ==
  /\ owner = None <=> depth = 0
  /\ \A t \in Threads : pc[t] \in InMutex => owner = t
  /\ owner # None =>
       depth = writer_count + (IF pc[owner] \in InMutex THEN 1 ELSE 0)
  /\ owner = None => writer_count = 0
  /\ \A t \in Threads : pc[t] \in {"wait", "woken"} => owner # t

ReadersCounted == IsFiniteSet(readers) /\ reader_count = Cardinality(readers)

(* Whoever unlocks holds the lock.                                         *)
UnlockerHolds ==
  \A t \in Threads : pc[t] = "unlock" => Holds(t) # {} \/ writer_count > 0

(* Readers and a writer never hold the lock together, and the counters     *)
(* say who holds it.                                                       *)
Exclusion ==
  /\ reader_count = Cardinality(readers)
  /\ writer_count > 0 => readers = {} /\ owner \in Threads

(* A writer sleeps only while a reader is left to wake it.                 *)
NoLostWakeup ==
  \A t \in Threads : pc[t] = "wait" => readers # {}

(* A sleeping writer is woken, as soon as one reader unlocks.              *)
WaitingWriterWakes ==
  \A t \in Threads : pc[t] = "wait" ~> pc[t] # "wait"

IInv ==
  /\ TypeOK /\ MutexHeld /\ ReadersCounted /\ UnlockerHolds
  /\ NoWriterWhileReading /\ Exclusion /\ NoLostWakeup

(* The write holds of the abstract lock are those of the mutex's owner.    *)
Abstract == INSTANCE AbstractRWLock WITH
  writer <- IF writer_count > 0 THEN owner ELSE None, depth <- writer_count
ImplementsAbstract == Abstract!Spec

=============================================================================
