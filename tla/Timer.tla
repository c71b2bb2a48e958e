------------------------------- MODULE Timer -------------------------------
(***************************************************************************)
(* The threaded timer subsystem of src/src/timer/SDL_timer.c: any thread   *)
(* may add and remove timers, one timer thread dispatches them.            *)
(*                                                                         *)
(* An actor is an application thread or the timer thread itself, which     *)
(* calls the same API from inside a timer callback.  The critical sections *)
(* under data->lock and timermap_lock are one action each; everything else *)
(* an actor does to shared memory is an action of its own.  Map entries    *)
(* are named by their timer ID, timer structures by their address.         *)
(***************************************************************************)
EXTENDS Naturals, Sequences, FiniteSets, SequencesExt

CONSTANTS
  Callers,      \* application threads
  Main,         \* the one that runs SDL_QuitTimers
  Worker,       \* the timer thread, as a caller of the API from a callback
  Timers,       \* addresses malloc can return for an SDL_Timer
  NoTimer,      \* NULL
  Intervals,    \* intervals, in clock units, passed to SDL_AddTimer and returned by callbacks
  MaxID,        \* bound: timer IDs handed out in one run of the subsystem
  MaxTime,      \* bound: the last instant of the clock
  Sizes         \* bounds of a behaviour: the structures malloc has, its last instant

ASSUME TimerAssumption ==
  /\ IsFiniteSet(Callers) /\ Main \in Callers /\ Worker \notin Callers
  /\ IsFiniteSet(Timers) /\ NoTimer \notin Timers
  /\ Intervals \subseteq Nat /\ MaxID \in Nat /\ MaxTime \in Nat
  /\ \A s \in Sizes : s.timers \subseteq Timers /\ s.time \in 0..MaxTime

Actors  == Callers \cup {Worker}
IDs     == 1..MaxID
Forever == MaxTime + 1   \* (Uint64)-1: no timer is due, sleep until posted

VARIABLES
  active, nextID, sem,
  timermap,     \* IDs of the linked map entries
  entries,      \* IDs of the allocated map entries
  entryTimer,   \* entry->timer
  heap,         \* allocated timer structures
  tm,           \* their fields
  pending, freelist, timers,   \* the three lists
  th,           \* the timer thread: program counter and locals
  batch,        \* its local list of finished timers
  pc, hold, ref, \* per actor: program counter, timer being added, entry in hand
  now, size,    \* the clock, and one of Sizes
  fired, removed, issued       \* history: IDs dispatched, removed with SDL_TRUE, returned

control == <<active, nextID, sem>>
map     == <<timermap, entries, entryTimer>>
lists   == <<pending, freelist, timers, batch>>
memory  == <<heap, tm>>
locals  == <<pc, hold, ref>>
clock   == <<now, size>>
history == <<fired, removed, issued>>
vars == <<control, map, lists, memory, th, locals, clock, history>>

NoFields == [timerID |-> 0, scheduled |-> 0, canceled |-> FALSE]
NoThread == [pc |-> "none", tick |-> 0, delay |-> 0, deadline |-> 0, cur |-> NoTimer]

Init ==
  /\ active = FALSE /\ nextID = 1 /\ sem = 0
  /\ timermap = {} /\ entries = {} /\ entryTimer = [i \in IDs |-> NoTimer]
  /\ heap = {}
  /\ tm = [t \in Timers |-> NoFields]
  /\ pending = <<>> /\ freelist = <<>> /\ timers = <<>> /\ batch = <<>>
  /\ th = NoThread
  /\ pc = [a \in Actors |-> "idle"]
  /\ hold = [a \in Actors |-> NoTimer]
  /\ ref = [a \in Actors |-> 0]
  /\ now = 0 /\ size \in Sizes
  /\ fired = {} /\ removed = {} /\ issued = {}

Goto(a, l) == pc' = [pc EXCEPT ![a] = l]

Quitting == pc[Main] \in {"quit_post", "quit_join"}

(* Application threads stay out of the subsystem while it is being shut    *)
(* down; a callback may be in the middle of a call.                        *)
MayCall(a) ==
  /\ pc[a] = "idle"
  /\ IF a = Worker THEN th.pc = "callback" ELSE ~Quitting

-----------------------------------------------------------------------------
(* SDL_AddTimer *)

Free(S) ==
  heap' = heap \ S

(* SDL_InitTimers, under data->lock, on the first call.                    *)
InitTimers ==
  IF active
  THEN UNCHANGED <<control, th>>
  ELSE /\ active' = TRUE /\ nextID' = 1 /\ sem' = 0
       /\ th' = [NoThread EXCEPT !.pc = "maintain"]

(* SDL_InitSubSystem(SDL_INIT_TIMER) *)
InitSubSystem ==
  /\ ~active /\ MayCall(Main)
  /\ InitTimers
  /\ UNCHANGED <<map, lists, memory, locals, clock, history>>

Adding(a) == hold[a] # NoTimer \/ pc[a] \in {"add_fill", "rm_find"}

(* Take a structure from the free list, or from malloc.                    *)
BeginAdd(a) ==
  /\ MayCall(a)
  /\ a = Worker => active
  /\ active => nextID + Cardinality({b \in Actors : Adding(b)}) <= MaxID
  /\ InitTimers
  /\ IF freelist # <<>>
     THEN /\ hold' = [hold EXCEPT ![a] = Head(freelist)]
          /\ freelist' = Tail(freelist)
          /\ ref' = [ref EXCEPT ![a] = tm[Head(freelist)].timerID]
          /\ Goto(a, "rm_find")
          /\ UNCHANGED heap
     ELSE /\ UNCHANGED <<freelist, ref>>
          /\ \/ /\ size.timers \ heap # {}
                /\ LET t == CHOOSE t \in size.timers \ heap : TRUE
                   IN hold' = [hold EXCEPT ![a] = t] /\ heap' = heap \cup {t}
                /\ Goto(a, "add_fill")
             \/ UNCHANGED <<heap, hold, pc>>      \* malloc fails: return 0
  /\ UNCHANGED <<map, pending, timers, batch, tm, clock, history>>

(* Fill the structure in, allocate its map entry and link that under       *)
(* timermap_lock: nobody knows the new ID before.                          *)
AddFill(a) ==
  LET t == hold[a] IN
  /\ pc[a] = "add_fill"
  /\ nextID' = nextID + 1
  /\ \E i \in Intervals :
       /\ now + i <= size.time
       /\ tm' = [tm EXCEPT ![t] =
                   [timerID |-> nextID, scheduled |-> now + i, canceled |-> FALSE]]
  /\ \/ /\ entries' = entries \cup {nextID}
        /\ timermap' = timermap \cup {nextID}
        /\ entryTimer' = [entryTimer EXCEPT ![nextID] = t]
        /\ ref' = [ref EXCEPT ![a] = nextID]
        /\ Goto(a, "add_queue")
        /\ UNCHANGED <<heap, hold>>
     \/ /\ Free({t})                              \* malloc fails: return 0
        /\ hold' = [hold EXCEPT ![a] = NoTimer]
        /\ Goto(a, "idle")
        /\ UNCHANGED <<map, ref>>
  /\ UNCHANGED <<active, sem, lists, th, clock, history>>

AddQueue(a) ==
  /\ pc[a] = "add_queue"
  /\ pending' = <<hold[a]>> \o pending
  /\ hold' = [hold EXCEPT ![a] = NoTimer]
  /\ Goto(a, "add_post")
  /\ UNCHANGED <<control, map, freelist, timers, batch, memory, th, ref, clock, history>>

PostSem_Lost == sem' = sem
PostSem == sem' = sem + 1

AddPost(a) ==
  /\ pc[a] = "add_post"
  /\ PostSem
  /\ Goto(a, "add_return")
  /\ UNCHANGED <<active, nextID, map, lists, memory, th, hold, ref, clock, history>>

AddReturn(a) ==
  /\ pc[a] = "add_return"
  /\ issued' = issued \cup {ref[a]}
  /\ ref' = [ref EXCEPT ![a] = 0]
  /\ Goto(a, "idle")
  /\ UNCHANGED <<control, map, lists, memory, th, hold, clock, fired, removed>>

-----------------------------------------------------------------------------
(* SDL_RemoveTimer, called by the application or by SDL_AddTimer for the   *)
(* previous owner of a recycled structure.                                 *)

AfterRemove(a) == IF hold[a] = NoTimer THEN "idle" ELSE "add_fill"

(* Find and unlink the entry, under timermap_lock.                         *)
RemoveFind(a, id) ==
  /\ \/ MayCall(a) /\ id \in issued
     \/ pc[a] = "rm_find" /\ id = ref[a]
  /\ IF id \in timermap
     THEN /\ timermap' = timermap \ {id}
          /\ ref' = [ref EXCEPT ![a] = id]
          /\ Goto(a, "rm_test")
     ELSE /\ ref' = [ref EXCEPT ![a] = 0]
          /\ Goto(a, AfterRemove(a))
          /\ UNCHANGED timermap
  /\ UNCHANGED <<control, entries, entryTimer, lists, memory, th, hold, clock, history>>

FreeEntry(a) ==
  /\ entries' = entries \ {ref[a]}
  /\ ref' = [ref EXCEPT ![a] = 0]
  /\ Goto(a, AfterRemove(a))

(* Read the canceled flag: already set, the timer is not there any more.   *)
RemoveTest(a) ==
  /\ pc[a] = "rm_test"
  /\ IF tm[entryTimer[ref[a]]].canceled
     THEN FreeEntry(a)
     ELSE /\ Goto(a, "rm_set") /\ UNCHANGED <<entries, ref>>
  /\ UNCHANGED <<control, timermap, entryTimer, lists, memory, th, hold, clock, history>>

(* Set the flag: SDL_TRUE.                                                 *)
RemoveSet(a) ==
  /\ pc[a] = "rm_set"
  /\ tm' = [tm EXCEPT ![entryTimer[ref[a]]].canceled = TRUE]
  /\ removed' = removed \cup {ref[a]}
  /\ FreeEntry(a)
  /\ UNCHANGED <<control, timermap, entryTimer, lists, heap, th, hold, clock, fired, issued>>

-----------------------------------------------------------------------------
(* SDL_TimerThread *)

(* SDL_AddTimerInternal: before the first timer that is due later.         *)
InsertAtTime(list, t, time) ==
  LET k == SelectInSeq(list, LAMBDA u : tm[u].scheduled > time)
  IN InsertAt(list, IF k = 0 THEN Len(list) + 1 ELSE k, t)
InsertTimer_Front(list, t) == <<t>> \o list
InsertTimer(list, t) == InsertAtTime(list, t, tm[t].scheduled)

(* Under data->lock, take the pending timers and give back the finished    *)
(* ones; then sort the former into the thread's own list.                  *)
TakePending ==
  /\ timers' = FoldLeft(InsertTimer, timers, pending)
  /\ pending' = <<>>

RecycleBatch_KeepHead == freelist' = batch \o freelist /\ batch' = batch
RecycleBatch == freelist' = batch \o freelist /\ batch' = <<>>

ThMaintain ==
  /\ th.pc = "maintain"
  /\ TakePending
  /\ RecycleBatch
  /\ th' = [th EXCEPT !.pc = "check"]
  /\ UNCHANGED <<control, map, memory, locals, clock, history>>

ThCheck ==
  /\ th.pc = "check"
  /\ th' = IF active
           THEN [th EXCEPT !.pc = "process", !.tick = now, !.delay = Forever]
           ELSE [th EXCEPT !.pc = "done"]
  /\ UNCHANGED <<control, map, lists, memory, locals, clock, history>>

Live_Always(t) == TRUE
Live(t) == ~tm[t].canceled

(* The timer goes to the local batch, flagged as canceled.                 *)
Finish(t) ==
  /\ batch' = Append(batch, t)
  /\ tm' = [tm EXCEPT ![t].canceled = TRUE]

(* Nothing is due: fall asleep until the head's time, or until posted.     *)
ThNothingDue ==
  /\ th.pc = "process"
  /\ timers # <<>> => th.tick < tm[Head(timers)].scheduled
  /\ th' = [th EXCEPT !.pc = "adjust",
               !.delay = IF timers = <<>> THEN Forever
                         ELSE tm[Head(timers)].scheduled - th.tick]
  /\ UNCHANGED <<control, map, lists, memory, locals, clock, history>>

HeadDue ==
  /\ th.pc = "process" /\ timers # <<>>
  /\ th.tick >= tm[Head(timers)].scheduled

ThDropCanceled ==
  /\ HeadDue /\ ~Live(Head(timers))
  /\ timers' = Tail(timers)
  /\ Finish(Head(timers))
  /\ UNCHANGED <<control, map, pending, freelist, heap, th, locals, clock, history>>

(* The flag was clear: enter the callback.                                 *)
ThDispatch ==
  /\ HeadDue /\ Live(Head(timers))
  /\ timers' = Tail(timers)
  /\ th' = [th EXCEPT !.pc = "callback", !.cur = Head(timers)]
  /\ fired' = fired \cup {tm[Head(timers)].timerID}
  /\ UNCHANGED <<control, map, pending, freelist, batch, memory, locals, clock, removed, issued>>

(* The callback returns the next interval; 0 ends the timer.               *)
ThReturn ==
  /\ th.pc = "callback" /\ pc[Worker] = "idle"
  /\ th' = [th EXCEPT !.pc = "process", !.cur = NoTimer]
  /\ \/ /\ Finish(th.cur)
        /\ UNCHANGED timers
     \/ \E i \in Intervals \ {0} :
          /\ th.tick + i <= size.time
          /\ tm' = [tm EXCEPT ![th.cur].scheduled = th.tick + i]
          /\ timers' = InsertAtTime(timers, th.cur, th.tick + i)
          /\ UNCHANGED batch
  /\ UNCHANGED <<control, map, pending, freelist, heap, locals, clock, history>>

(* What is left of the delay after the time the callbacks took.            *)
Remaining_Wraps(delay, spent) ==
  IF spent > delay THEN Forever ELSE delay - spent
Remaining(delay, spent) ==
  IF delay = Forever THEN Forever ELSE IF spent > delay THEN 0 ELSE delay - spent

ThAdjust ==
  /\ th.pc = "adjust"
  /\ th' = [th EXCEPT !.pc = "sleep", !.delay = Remaining(th.delay, now - th.tick)]
  /\ UNCHANGED <<control, map, lists, memory, locals, clock, history>>

(* SDL_WaitSemaphoreTimeoutNS(sem, delay): enter, then be posted or time   *)
(* out.  The clock stops at its last instant, and every finite wait ends there.     *)
ThSleep ==
  /\ th.pc = "sleep"
  /\ th' = [NoThread EXCEPT !.pc = "waiting",
               !.deadline = IF th.delay = Forever THEN Forever
                            ELSE IF now + th.delay > size.time THEN size.time
                            ELSE now + th.delay]
  /\ UNCHANGED <<control, map, lists, memory, locals, clock, history>>

ThWake ==
  /\ th.pc = "waiting"
  /\ \/ sem > 0 /\ sem' = sem - 1
     \/ sem = 0 /\ now >= th.deadline /\ UNCHANGED sem
  /\ th' = [NoThread EXCEPT !.pc = "maintain"]
  /\ UNCHANGED <<active, nextID, map, lists, memory, locals, clock, history>>

-----------------------------------------------------------------------------
(* SDL_QuitTimers *)

BeginQuit ==
  /\ active /\ MayCall(Main)
  /\ \A c \in Callers : pc[c] = "idle"
  /\ active' = FALSE
  /\ Goto(Main, "quit_post")
  /\ UNCHANGED <<nextID, sem, map, lists, memory, th, hold, ref, clock, history>>

QuitPost ==
  /\ pc[Main] = "quit_post"
  /\ PostSem
  /\ Goto(Main, "quit_join")
  /\ UNCHANGED <<active, nextID, map, lists, memory, th, hold, ref, clock, history>>

(* SDL_WaitThread returned: destroy the semaphore, free the lists and the  *)
(* map.                                                                    *)
QuitJoin ==
  /\ pc[Main] = "quit_join" /\ th.pc = "done"
  /\ th' = NoThread
  /\ Free(ToSet(timers) \cup ToSet(freelist))
  /\ timers' = <<>> /\ freelist' = <<>>
  /\ timermap' = {} /\ entries' = entries \ timermap
  /\ entryTimer' = [i \in IDs |-> NoTimer]
  /\ tm' = [t \in Timers |-> IF t \in heap' THEN tm[t] ELSE NoFields]
  /\ sem' = 0
  /\ Goto(Main, "idle")
  /\ fired' = {} /\ removed' = {} /\ issued' = {}
  /\ UNCHANGED <<active, nextID, pending, batch, hold, ref, clock>>

-----------------------------------------------------------------------------
(* SDL_GetTicksNS moves on. *)
Tick ==
  /\ now < size.time
  /\ now' = now + 1
  /\ UNCHANGED <<size, control, map, lists, memory, th, locals, history>>

Step(a) ==
  \/ BeginAdd(a) \/ AddFill(a) \/ AddQueue(a) \/ AddPost(a) \/ AddReturn(a)
  \/ \E id \in IDs : RemoveFind(a, id)
  \/ RemoveTest(a) \/ RemoveSet(a)

Thread ==
  \/ ThMaintain \/ ThCheck \/ ThNothingDue \/ ThDropCanceled \/ ThDispatch
  \/ ThReturn \/ ThAdjust \/ ThSleep \/ ThWake

Next ==
  \/ \E a \in Actors : Step(a)
  \/ Thread
  \/ InitSubSystem \/ BeginQuit \/ QuitPost \/ QuitJoin
  \/ Tick

(* A call that has begun goes on; the scheduler runs the timer thread; a   *)
(* callback that keeps calling the API returns in the end.                 *)
Running(a) == pc[a] # "idle" /\ Step(a)
Fairness ==
  /\ \A a \in Actors : WF_vars(Running(a))
  /\ WF_vars(Thread) /\ SF_vars(ThReturn)
  /\ WF_vars(QuitPost) /\ WF_vars(QuitJoin) /\ WF_vars(Tick)

Spec == Init /\ [][Next]_vars /\ Fairness

-----------------------------------------------------------------------------
TypeOK ==
  /\ active \in BOOLEAN /\ nextID \in 1..MaxID + 1 /\ sem \in Nat
  /\ timermap \subseteq entries /\ entries \subseteq IDs
  /\ entryTimer \in [IDs -> Timers \cup {NoTimer}]
  /\ heap \subseteq Timers
  /\ tm \in [Timers -> [timerID : 0..MaxID, scheduled : 0..MaxTime, canceled : BOOLEAN]]
  /\ \A l \in {pending, freelist, timers, batch} : l \in Seq(heap)
  /\ th \in [pc : {"none", "maintain", "check", "process", "callback", "adjust", "sleep",
                   "waiting", "done"},
             tick : 0..MaxTime, delay : 0..Forever, deadline : 0..Forever,
             cur : heap \cup {NoTimer}]
  /\ pc \in [Actors -> {"idle", "add_fill", "add_queue", "add_post", "add_return",
                        "rm_find", "rm_test", "rm_set", "quit_post", "quit_join"}]
  /\ hold \in [Actors -> heap \cup {NoTimer}] /\ ref \in [Actors -> 0..MaxID]
  /\ now \in 0..size.time /\ size \in Sizes
  /\ fired \subseteq IDs /\ removed \subseteq IDs /\ issued \subseteq IDs

(* Every allocated structure has exactly one owner: one place in one of    *)
(* the four lists, the actor adding it, or the callback being run.  No     *)
(* path through recycling, rescheduling or shutdown loses or shares one.   *)
OneOwner ==
  \A t \in heap :
    LET places == {p \in {1, 2, 3, 4} \X (1..Cardinality(Timers) + 1) :
                     LET list == <<pending, freelist, timers, batch>>[p[1]]
                     IN p[2] <= Len(list) /\ list[p[2]] = t}
    IN Cardinality(places) + Cardinality({a \in Actors : hold[a] = t})
         + (IF th.cur = t THEN 1 ELSE 0) = 1

(* Posting the semaphore after queueing loses no wakeup: while the thread  *)
(* waits, each queued timer has a post left or its adder about to post.    *)
NoLostWakeup ==
  th.pc = "waiting" =>
    Len(pending) <= sem + Cardinality({a \in Actors : pc[a] = "add_post"})

(* Going to sleep, the thread leaves no timer of its list due at its tick, *)
(* and will be awake by the time of the earliest one unless the clock      *)
(* moved while it entered the wait.                                        *)
DueTimersServed ==
  th.pc \in {"adjust", "sleep"} =>
    \A i \in DOMAIN timers :
      /\ tm[timers[i]].scheduled > th.tick
      /\ th.pc = "adjust" => th.tick + th.delay <= tm[timers[i]].scheduled

(* The lists: no structure is lost or shared, no due timer passed over.    *)
ListsInOrder == OneOwner /\ DueTimersServed

(* SDL_QuitTimers frees every map entry and every structure that is not in *)
(* the pending list, even when a callback was adding or removing a timer   *)
(* as it started.                                                          *)
QuitFreesDispatched ==
  ~active /\ th.pc = "none" => heap = ToSet(pending) /\ entries = {}

(* Once SDL_RemoveTimer has returned SDL_TRUE for an ID, the structure its *)
(* map entry named never passes the thread's canceled test under that ID.  *)
RemovedNeverDispatched ==
  [][ThDispatch => LET t == Head(timers) IN
       ~ (tm[t].timerID \in removed /\ entryTimer[tm[t].timerID] = t)]_vars

(* An added timer is dispatched or found canceled, unless timers quit.     *)
EventuallyHandled ==
  \A id \in IDs :
    (\E t \in ToSet(pending) : tm[t].timerID = id) ~>
      (id \in fired \/ ~active \/ \E t \in Timers : tm[t].timerID = id /\ tm[t].canceled)

(* SDL_QuitTimers returns: the thread sees active = 0 however it sleeps.   *)
QuitTerminates == Quitting ~> ~Quitting

-----------------------------------------------------------------------------
(* "Clean up the timer entries": SDL_QuitTimers leaves no timer behind.    *)
(* The pending list is not among those it frees.                           *)
QuitFreesEverything == ~active /\ th.pc = "none" => heap = {}

(* SDL_timer.h on SDL_RemoveTimer: it removes the timer with that ID.  The *)
(* entry's timer is read and flagged after timermap_lock is released, when *)
(* the structure may have been recycled for another timer.                 *)
RemovesItsOwnTimer ==
  \A a \in Actors :
    pc[a] = "rm_set" =>
      LET t == entryTimer[ref[a]] IN t \in heap /\ tm[t].timerID = ref[a]
=============================================================================
