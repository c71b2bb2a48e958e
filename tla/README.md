# A verification development for SDL

TLA+ models of the concurrent core of SDL 3 (this repository's `src/`, `include/`),
checked with TLC on small instances and, for seven modules, proved with TLAPS for
all instances. Paths below are relative to the repository.

SDL is mostly a thin layer over operating system interfaces. What it decides by
itself, and what a test hardly reaches, is how threads, callbacks and devices
meet: in the timer thread, the synchronization objects it builds where the system
has none, the life of a thread, the event queue, and audio: devices that are opened,
lost and replaced while their threads mix the streams bound to them. Around that are
the order in which subsystems start and stop, tables that callbacks change while they
are walked, and arithmetic on integers. The development has these parts.

## The system

| Part | State it keeps | Operations | Talks to | What makes it correct |
|---|---|---|---|---|
| Timers, `src/timer/SDL_timer.c` | sorted list of the timer thread, pending list, free list, map of IDs, `active`, a semaphore | `SDL_AddTimer`, `SDL_RemoveTimer`, the thread, init, quit | application threads and callbacks, which call back | each timer has one owner, no wakeup is lost, a removed timer does not fire, quit frees all |
| Condition variable, `src/thread/generic/SDL_syscond.c` | `waiting`, `signals`, two semaphores, a lock | wait, timed wait, signal, broadcast | caller's mutex | a signal restarts a waiter of its time; everyone returns |
| Read/write lock, `src/thread/generic/SDL_sysrwlock.c` | two counters, a recursive mutex, a condition | lock, try, unlock | condition variable | exclusion; sleeping writers wake |
| Semaphore (generic), `src/thread/generic/SDL_syssem.c` | `count`, `waiters_count`, a lock | wait, try, timed wait, post, destroy | the system's condition variable | a post wakes whoever can take it; freed with nobody inside |
| Mutex (generic), `src/thread/generic` | owner, depth | lock, unlock | semaphore | ownership |
| Threads, `src/thread/SDL_thread.c` | atomic state, status, local storage | create, run, wait, detach | system threads | freed exactly once; the result arrives |
| Event queue, `src/events/SDL_events.c` | list, `SDL_sentinel_pending`, `wakeup_window`, enabled bits | push, peep, flush, pump, poll, wait | all devices, the video driver, any thread | nothing lost or reordered, loops end, waits wake |
| Filter and watchers, same file | array, count, two flags | push, add, remove, set filter | callbacks, which call back | the right watchers are called, once |
| Event memory, same file | list of blocks with event IDs | allocate, flush | queue | memory outlives its event |
| Signals, `src/events/SDL_quit.c` | pending flags | handler, pump | queue | each signal gives an event |
| Main callbacks, `src/main/SDL_main_callbacks.c` | the result `apprc` | iterate, dispatch, watch | queue, watchers | the first result wins; order |
| Initialization, `src/SDL.c` | 8-bit reference counts, `SDL_bInMainQuit` | init, quit one or several, quit all | every subsystem, some of which initialize others | counts balanced; a failure changes nothing |
| Properties, hash table, `src/SDL_properties.c`, `SDL_hashtable.c` | table of groups, groups, a lock each | create, lock, set, get, enumerate, destroy | cleanup functions, which call back | no access after destruction; each value cleaned up once; no deadlock |
| Hints, `src/SDL_hints.c` | lists of callbacks | get, set, watch | callbacks | callbacks may leave while the list is walked |
| Rectangles, `src/video/SDL_rect*` | none | union, intersection, enclosing, span, clipping of lines | video, renderer | the result is what the points say |
| Audio devices, `src/audio/SDL_audio.c` | table of devices and of logical devices, reference counts, flags, the default device | detect, open, use, close, disconnect, change the default, the device thread | drivers, application, device threads | references balance; nothing is freed or closed in use; what is open is served |
| Audio streams, same file and `SDL_audiocvt.c` | the lists of bound streams, binding, formats, `simple_copy`, locks of devices and streams | create, destroy, bind, unbind, set formats and postmix, mix | device threads | lists and bindings agree; lock order; no stale format |
| Audio conversion and files, `src/audio` | queued data | put, get, convert, load | streams | sequential |
| Keyboard, mouse, touch, pen, windows, `src/events` | state of keys, buttons, focus | `SDL_Send...` | queue, drivers | state agrees with the events sent |
| Video, rendering, surfaces, joysticks, gamepads, HIDAPI, haptic, sensors | device and window lists | many | system interfaces | mostly sequential |
| Streams, log, errors, stdlib, loading, power, locale, paths, dynamic API | little | many | system | sequential |

`PROJECT.json` lists all of these under `components`, and under `hazards` the places
where an order of steps nobody tests could go wrong in what is modelled; the others are
at the end of "What the checks found".

## The modules

Every module has the code's state as variables and one action per step that other
threads can see: what runs under one lock is one action, and what is outside of a
lock is an action of its own. `map` in `PROJECT.json` gives the lines of every
definition. History variables record what a property speaks of and no guard
reads them, but for the guards that say how the program may use the API: a timer
is removed by an ID that was returned (`issued`), a lock unlocked by who holds it
(`readers`).

**Timer.** Actors are the application threads and the timer thread in its role as
a caller of the API from a callback. `SDL_AddTimer` is `BeginAdd` (free list,
under the spin lock), removal of the previous owner's map entry, `AddFill`,
`AddQueue`, `AddPost`, `AddReturn`; `SDL_RemoveTimer` is `RemoveFind` (under
`timermap_lock`), `RemoveTest` and `RemoveSet`. The thread is the `Th...` actions;
`BeginQuit`, `QuitPost`, `QuitJoin` are `SDL_QuitTimers`. `Tick` moves the clock.
Allocation may fail. `InitTimers` is one step, as it runs under the spin lock or at
start-up, and does not fail. While quit is under way the model's application
threads begin no call, and a callback only finishes the one it is in. `Sizes`,
chosen from at the start, is a set of instances: which structures there are, and
how long the clock runs; `MCTimer` names the two that are checked.

**GenericCond** and **AbstractCond**. The two semaphores are counters, `cond->lock`
is a variable only for the one path that blocks while holding it. `use` is chosen
at the start: which threads wait, and whether with timeouts. `AbstractCond` says
what a condition variable promises in terms of two counts.

**RWLock** and **AbstractRWLock**. The mutex is recursive; each function is a step
that takes it and a step up to its release or to the wait. Waits may end without a
signal (`WakeSpuriously`). The abstract lock knows only holds.

**GenericSem** and **AbstractSem**. The condition variable is the system's: a signal
wakes one sleeper, and sleepers may wake without one. `Consumes` says whether a wait
that times out may have taken a signal, as POSIX lets it. The destroyer is the last user but for
the sleepers it lets go. The abstract semaphore knows a value and how many wait.

**Thread.** The new thread (`tpc`), the owner of the `SDL_Thread` (`opc`), the
memory of the structure, the atomic state, and the system's view of the thread.

**EventQueue.** Pushers push at any time. The main thread is a machine over the
functions' lock regions: pump, get and push the sentinel, first peep, the variants
without a place for the event, the loop on the device with `wakeup_window` and the
message in the window system's queue, and the fallback loop. An event is its
type. Filters and watchers are in EventWatch, which is about one thread at a time,
as their lock is held all through a dispatch.

**EventWatch.** The array with its stale slots, the flags, and the stack of
`SDL_PushEvent` calls nested in callbacks.

**AudioDevice.** Application threads, the backend's thread (`driver`) and one thread
per physical device. What `device_hash_lock` or a device's lock guards is one
action; only the driver keeps devices locked from one action to the next (`held`),
in `SDL_DefaultAudioDeviceChanged`: `ChangeDefault`, `LockNew`, `LockOld`,
`NewWoken`, `NewJoined`, `OldJoined`, `Release`, with the move of the followers in
`Migrate`. `UnrefPhysicalAudioDevice` and the destruction it may end in are `Unref`,
`Unhash`, `Destroy`, `FreeJoined`. `ClosePhysicalAudioDevice` is `BeginClose` (up to
the join of the device's thread) and `EndClose` (close at the system level, clear the
flag, wake the sleepers), with one action per caller that joins: `FreeJoined`,
`OpenJoined`, `CloseJoined`, `NewJoined`, `OldJoined`. Opening is `OpenDefault` or
`OpenDevice` or `OpenOnLogical`, `Find`, `Obtain`, `OpenLocked`, `OpenWoken`, `Insert`;
pausing, postmix and queries are `Use`, closing is `Close`; a device is lost by
`Unplug` or `ThreadFails`. A logical device is closed by the last thread that uses
it, as the API demands. *Windows* names two races of the code that are open: a
device found in the table and referenced after the table's lock is released
(`lookup`), and a logical device that migrates between the lookup of its physical
device and the lock (`migration`). With either open, memory is used after it is
freed or the wrong device's reference dropped, so the passing run assumes them
closed (`Windows = {}`). `MaxStimuli` bounds the calls made and the changes of hardware.

**AudioStream.** Streams and logical devices of playback devices that stay open.
Binding (`BindLock`, `BindFail`, `BindChain`) keeps the device's lock, takes the
streams' locks one by one, and unlocks all it has locked if one cannot be bound;
unbinding looks at each stream's device without that device's lock
(`UnbindPeek`), locks device and stream and looks again (`UnbindCheck`), unbinds
all (`UnbindAll`) and unlocks. The locks are recursive: a level of a device's lock
is a pair of its owner and the index in the array it was taken for. The device's
thread locks its device and mixes (`IterateLock`, `IterateMix`), with or without
the direct copy `simple_copy` stands for; `Update` is what
`UpdateAudioStreamFormatsPhysical` does in every call that changes a list. A list is
a set: its order is of no consequence. `Uses` is a set of ways a program uses
streams: where logical devices are (`phys`), its streams, the arrays it passes, and
`odd`, calls the API allows or ignores and the code mishandles: setting a bound
stream's format (`format`), unbinding a stream that is not bound (`unbound`),
unbinding the stream of `SDL_OpenAudioDeviceStream` (`simplified`). A program does
not destroy a stream, or close a logical device, another thread is using.

**Subsystems.** One thread. A call of `SDL_InitSubSystem`, `SDL_QuitSubSystem` or
`SDL_Quit` is a list of things to do (`todo`), and each step may put more in front:
what a subsystem implies is initialized before it, `Takes` is the reference some take to
the events in their own code. When one fails (`OpenFails`), what wanted it fails in its
turn (`Unwind`), up to `quit_and_error`, which quits what the call has initialized. The
application gives back only what it has got (`uses`).

**Properties.** Several threads, each with a stack of calls: a cleanup function calls
back into the API from inside a call. The table's lock and the groups' locks are
recursive. A step is what happens between taking two locks or calling back. The
documentation's rules are guards: a group is not destroyed while another thread uses or
holds it, and who holds one uses only that. A group has one name. `CleanupCalls`,
`QuitCalls` and `ReachesAny` say what cleanup functions do.

**Rects** and **RectLine**. Each behaviour is one call. Rects has the operations done
in one pass as operators, and the reference is the set of points; RectLine extends it
by the clipping of lines, with a step for each end it moves. Floating point versions are
not modelled, and coordinates stay where 32 bits suffice.

`MCTimer`, `MCGenericCond`, `MCEventWatch` and `MCAudioStream` give values to the sets
of instances and uses; `MCAudioDevice` fixes which of two interchangeable devices is
the default at first, `MCProperties` has the symmetry of threads and `MCRects` the
coordinates. The other runs take all constants from their `.cfg`.

## The runs

| Run | Instance | Shows |
|---|---|---|
| `timer` | one application thread and callbacks, 2 IDs per session; 2 structures and 2 instants, or one structure and 4 instants | ownership, wakeups, dispatch, shutdown |
| `generic_cond` | 4 threads; all wait untimed, or one waits with a timeout | broadcast, return of signalers, refinement |
| `generic_sem` | 4 threads, values to 3, `Consumes = FALSE` | no lost wakeup, destruction returns, refinement |
| `rwlock` | 3 threads, 2 read or 2 write holds each | exclusion, wakeups, refinement, no deadlock |
| `thread` | 2 threads, 2 results | freed once and in the end |
| `event_queue` | 2 pushers, 2 types, 3 places | poll loops, waits, sentinels and window, no deadlock |
| `event_watch` | 3 watchers, 3 nested pushes; callbacks remove, or push | array and dispatch, no deadlock |
| `subsystems` | all 8 subsystems, up to 3 in a call and 3 references; those that imply no other may fail | counts, failures |
| `properties` | 2 threads, 3 IDs, 4 groups, 3 values; cleanup functions set in their group and destroy others | lookups, cleanup, locks, no deadlock |
| `rects` | rectangles with sides -1 to 2, lists of 2; rectangles up to 4 by 4 and all lines with ends up to 4 pixels outside | agreement with sets of points; line clipping ends with a good result |
| `audio_device` | 2 devices, 2 logical devices, 2 application threads, 4 stimuli | references, use after free, service, return of calls |
| `audio_stream` | 2 devices, 2 logical devices, 2 application threads; one device with 2 streams bound together, or two devices and a stream that moves, also one unbound without being bound | lists, formats, mixing, return of calls |

Bounds. Two timer structures suffice to recycle one while the other is queued, and
two IDs to tell old from new. Clock values matter only by their order and by whether a delay is shorter
than the time already spent, which the longer clock of the second size reaches. Four
threads at a condition variable are two waiters, a signaler and a late waiter; at a
semaphore two sleepers, one that takes what they were woken for and one that destroys. A
queue of three holds an old event, a sentinel and a new one, and is full often.
Three watchers are one before, one at and one behind the one being called. Two audio
devices are the old and the new default, two logical devices the one that moves and
one that stays, or keeps the device open; with four stimuli two logical devices can
be opened and the default changed and changed back, or a device lost while it is
migrated from (207,630 states; six stimuli were checked once and hold too). Two
streams make an array with a failure in its middle, two threads a binding that
changes between the two looks of an unbinding thread. Three subsystems in a call reach
every pair that shares the events with a third that fails, and `MaxUses = 3` every
overlap of their references. Three IDs and four groups make the IDs wrap while groups
are left, three values let a cleanup function replace a value that is being replaced.
The code of rectangles compares coordinates and adds sizes, so rectangles of all relative
positions, empty, touching and nested, are within -1 to 4; the clipping also divides,
where more extent gives more roundings: 467,761 calls are checked. Symmetry in `properties` is sound: its properties are invariants and one
action property, and no definition names a thread.

Deadlock is checked but in `thread`, `audio_device`, `properties` and `rects`, where
everything may be done (all threads gone, all stimuli used up, SDL quit, the call
over), in `generic_cond` and `generic_sem`, where all threads may wait with nobody left
to signal, and in `audio_stream`, where a stream may stay locked for ever in a careless
program. `properties` states the absence of deadlock as a property, `NoDeadlock`.

Fairness. A thread that is inside a function runs on, as every scheduler lets it
(`WF`, also for a semaphore's destroyer and the loop that clips a line; in AudioStream `SF`, as a lock it waits for is taken and released by others
and every waiter gets it in the end). Strong fairness stands where a thread needs something that comes and goes:
the post of `wait_done`, the read/write lock's mutex, the callback that returns in
the end (`ThReturn`), and the application that goes on polling. Nothing is assumed
of calls the application is free not to make, of timeouts but those of the timer
thread's and the condition variable's own semaphore waits, or of devices.
`PollLoopEnds` names what may keep a poll loop from ending: a queue that is full
whenever the sentinel is to be added, an application that keeps disabling or
flushing the sentinel.

## What is proved

The proof modules hold for every set of threads, devices and streams and all values
of the constants, from the named assumptions in the models' modules (finite sets of
threads; `None` is none of the rest; no thread function returns the initial status
-1; no TLS id is 0). `PROJECT.json` lists the theorems.

* *GenericCondProofs.* `CountsAgree` is not inductive: that the post a timed-out
  waiter wants to eat belongs to a signal that is still counted needs
  `EaterHasLock`, and that a broadcaster collects what it released needs
  `OwedWhileCollecting`. `IInv` conjoins them. One lemma per group of actions; counts of
  sets of threads change through lemmas on the cardinality of a set with one element
  more or less. `Refinement` maps each step to a step of `AbstractCond` or a stutter:
  a waiter that timed out gives up only when no signal is owed. It holds with any
  number of timed waiters, where the deadlock is: that one is a liveness failure. `BroadcastRestartsAll` follows from
  `BInv`: what a broadcast owes is what its targets have yet to give back, a waiter that
  leaves has the mutex, and nobody else signals while targets are out.
* *SyncProofs.* Of the semaphore, `NoPostLost` says that while someone sleeps there are as many
  threads awake and about to retry as there is to take. It is inductive only with the
  time-out not taking a signal (`~Consumes`) and with `SleepersHaveTime` (who sleeps has
  not timed out). `WaitersCounted`, the count of threads inside, gives `NobodyInside` and
  the abstract semaphore's count of waiters; `SemRefinement` needs no assumption on `Consumes`.
  Of the read/write lock, the key is `MutexHeld`: the writer's holds are levels of the
  mutex, one more for the thread inside a function. From it follow the assertion of
  the read functions, exclusion, and that a writer sleeps only while there is a
  reader; `ReadersCounted` ties the counter to the holds. `Refinement` maps the
  write holds to those of the mutex's owner.
* *TimerProofs.* `NoLostWakeup` follows from `PostsCover`: from the moment the thread
  takes the pending list until it has taken the semaphore again, the timers queued
  since are at most as many as the posts done and to be done. Counting the callers
  about to post is why the set of callers must be finite. `LInv` has one clause per
  fact the code relies on: types, what each program counter implies (`Phases`), that a
  structure is in one list, free or in one caller's hand (`Owners`), that the list is
  sorted, that what is due is dispatched before the thread sleeps, and that the timers
  of removed IDs are flagged (`Flagged`). The thread merges the pending list by a fold
  of insertions; what it yields is proved by a least counterexample (`FoldSteps`), and
  finitely many structures make its indices finite. `QInv` adds what holds once
  `SDL_QuitTimers` has begun. The module ends with the proofs about Thread, of which the
  timer thread is one: `ThreadInv` says what each program counter implies for the state,
  the memory and the system's view; one lemma per side shows it kept, as every action
  touches one thread's part only.
* *EventProofs.* Of the queue, `EQInv` is the inductive invariant. The count of sentinels
  is that of the queue (`QueueGood`). The events older than the poll loop are the first
  entries, with no sentinel among them, and without a loop there are none (`OldFirst`);
  that is kept because the places where a sentinel may be pushed are only reached by a
  poll when none is pending (`Fits`). Whoever sleeps has been sent a message, or its
  window is open and, if an event is queued, somebody is about to send one (`Asked`).
  `PollLoopDrains` is then read off `OldFirst`, and `EventsAreDelivered` is shown step by
  step from what taking an entry leaves (`GetTakes`, `GetOldest`). What is left of
  sequences is given by `Only`, a recursive function, whose laws (an entry more, two
  parts one after the other) are proved by a least counterexample.
  Of the watchers, `WInv` says of every dispatch on the stack where it is in the array:
  what it has passed was called or removed, what it has yet to pass is there
  (`Walks`). The compaction is a fold; `Walked` gives its steps, and `Part` says what it
  has moved so far. The three theorems assume `NotBoth`: no callback both removes
  watchers and pushes events. Without it they are false, as shown below.
* *AudioDeviceProofs.* Two invariants, `Places` (where a device is expected there is
  one) and `IInv`: at most one thread is between `BeginClose` and `EndClose` of a
  device, that device is flagged, and an open device nobody closes has its thread.
  Five lemmas (`Harmless`, `Attaches`, `Starts`, `Begins`, `Ends`) say what a step may
  do to devices; every action is shown to be one of the five, and the migration, which
  is several at once, is proved by itself. `ClosedUnused` justifies that the model's
  closing calls never sleep in `SerializePhysicalDeviceClose`. The theorems hold for
  every value of `Windows`.
  For `Windows = {}` there are also: `ReferencesBalanced`, `NothingFreedInUse` and
  `OnlyLostDevicesFreed`, from the invariant `RInv`. It says, beside the balance itself,
  that a logical device is linked to the device that lists it (`Linked`), that each call
  waiting to open a logical device or about to close one has its own (`Targets`), where
  the driver is in a change of the default (`Changing`), and that a device whose count
  is zero is unplugged, or is being destroyed by one thread (`Unreferenced`). Counts are
  compared by differences: `BalancedKept` reduces a step of thread `t` to what the
  device's own references and those of `t` change by, as the others keep theirs
  (`TheirsChange`). `TokensCounted` ends it: the sum is the cardinality of `Tokens`.
* *AudioStreamProofs.* `LocksConsistent` needs no assumption on the program:
  each level of a lock is held by the thread whose program counter and index say so
  (`StreamsHeld`, `LevelsHeld`), and what a call uses is not destroyed. From it, and
  for programs that are not odd but in unbinding unbound streams (`Ordinary`), lists
  and bindings agree, formats and `simple_copy` are those of the lists, and no list
  changes while it is mixed. `MixedListStable` is an action property, from the
  invariant and one lemma per action that writes a list.
* *PropertiesProofs.* Calls are nested to any depth, so the invariant speaks of every
  frame of every stack. Frames are counted from the outermost, where they keep their
  place: a step pushes one, turns the last into another, does both for a callback, or
  pops one (`PushEffect` and the three lemmas after it), and after these no proof looks
  into a sequence. `NextMoves` sums up every action as one of seven moves, and the
  clauses about calls are shown by moves: only callers wait below others (`Nested`),
  locks, unlocks and enumerations are outermost (`Outer`), an ID in destruction has no
  other user (`Destroying`), and after `SDL_Quit` one thread is left (`Quit`). The
  clause `Locks` says that a thread has each lock as often as its frames hold it and
  `SDL_LockProperties` took it; from it one lock has one owner, so that no enumeration
  is under way in a group that changes, which `EnumeratedStay` and `LockProtects` need.
  `Links` and `Table` give `NoUseAfterFree` and `FoundByID`; `ValuesOK` says that the
  values in groups and on their way differ and that a value is cleaned up once it is in
  no group, or in one whose cleanup has run. `NoDeadlock` needs `OwnGroups` besides: who
  has the table's lock takes no group's, and calls on top of each other use one group.
  The theorems assume that the cleanups which `SDL_Quit` runs call nothing
  (`NoQuitCalls`: the sweep leaves freed groups in the table), and `NoDeadlock` that
  cleanups use their own group only (`OwnOnly`); the run has both, and the table of
  what the checks found shows what happens without them.
* *SequentialProofs*, the parts one thread runs. Of rectangles, the calls are all there
  is of state (`CallOK`), and what remains are
  lemmas about operators. `Bounds` says that a box is the least around a set of points;
  it is kept by one more point and by another box, and gives `Around` (`BoundsAround`).
  A pass over a list is a fold of the library, whose value on parts of the indices
  exists by induction (`FoldExists`), so that its steps can be followed
  (`IncludeSteps`, `ExpandSteps`). `ComputedOfPoints` holds for integers anywhere and
  lists of any length; overflow is not modelled. Of lines, `LineOK` says that an end that
  began in the rectangle has not moved; it needs that the divisors are not 0, as an end
  is moved only to a side which the other end is not beyond (`MovedIsInt`).
  Of the subsystems, `SubInv` keeps a ledger. To each item of `todo` belongs a weight, what
  it will change in the counts less what the application and the running subsystems will
  hold by it, and every count is what these hold, with the weights of all items (`Balance`).
  Sums that stay natural numbers on every rest of the list (`Ledger`) say that nothing is
  dropped that has not been taken; they exist because the item after the start of a
  subsystem is what it is started for (`Wants`). Subsystems hold references to those of a
  lower `Rank` only, so that below a start or a stop nothing else happens to the same
  subsystem (`Below`); hence `StartingRight` and `UpRight`, what is counted and runs or is
  about to. A lemma each says what an item in front adds and what taking it leaves
  (`Pushed`, `Popped`), and every action pushes and pops. The accounts have one solution
  (`CountsDetermined`, from the highest rank down): that is why a failed call, at whose
  begin and end they are even, restores every count, and why nothing is left when all has
  been given back. In `SDL_Quit` the counts are not balanced, and `MainRight` says instead
  that what runs is still to be quit. The theorems assume that no subsystem fails that
  implies another (`LeavesFail`, which the run has): with a failing audio TLC refutes
  `Balanced`, `FailureRestores` and `NothingLeft`, as shown below. `UsersStopFirst` is
  proved outside `SDL_Quit`, inside which TLC refutes it.

Also proved, and not among the properties of the runs: `CountsAgree` and
`ReturnsAreSignaled` of the condition variable, `NobodyInside` of the semaphore,
`NoLostWakeup` and `ReadAssertion` of the read/write lock, `FoundIsInside` of lines,
`NothingLeft` and `UsersStopFirst` of the subsystems, `NoLeak` and `JoinSeesResult` of
threads, `ClosedUnused` and `DestroyedOnlyWhenLost` of audio devices,
`SimpleCopyInSync` and `DeviceLockFirst` of audio streams, the order of the timers'
list and `QuitFreesDispatched`, and type correctness of the read/write lock, threads,
the event queue, properties and audio streams.

Left to TLC: all liveness (`SignalerReturns`, `WaitingWriterWakes`,
`ReleaseCompletes`, `DestroyReturns`, `CallsReturn`, and those of timers and queue) and
whatever speaks of `ENABLED`. Induction over numbers is within reach: the library's
rule of induction takes an operator, but the well-foundedness of the naturals
(`NatLessThanWellFounded`, `WFMin`) does not, so a claim is proved by the least number
in the set of its counterexamples. Of lines, `LineClipped` is
liveness, and that what it answers is within two pixels of the line (products of
variables) was left to TLC too, and that no subsystem's count exceeds 255, which rests
on the bound `MaxUses` of the model (`SubTypeOK`).

## What the checks found

Every run passes. The models also have definitions that state what the documentation
or a comment says and the code does not keep; no run lists them, and TLC refutes each
when it is given as the only property with the constants named here.

| Definition | Constants | What happens |
|---|---|---|
| `Timer.RemovesItsOwnTimer` | two `Callers`, `MaxID = 3`, `Sizes <- OneSize` | `SDL_RemoveTimer` flags a structure that was recycled for another timer (`src/timer/SDL_timer.c:357`) |
| `Timer.QuitFreesEverything` | as above, one caller | a timer queued between the thread's last look at the pending list and its look at `active` survives `SDL_QuitTimers` (line 139) |
| `GenericCond.TimedWaitReturns` | `Uses <- TimedUses`, three threads | several waiters with timeouts block each other for ever (`src/thread/generic/SDL_syscond.c:201`) |
| `GenericSem.NoPostLost` | `Consumes = TRUE` | a wait that times out takes the signal of a post, and another thread sleeps on (`src/thread/generic/SDL_syssem.c:135`) |
| `Thread.DetachReadsLiveThread` | those of the run | `SDL_DetachThread` reads `thread->handle` of a structure that may have been freed (`src/thread/SDL_thread.c:460`) |
| `EventWatch.RemovedNotCalled` | `Uses <- AllUses`, `MaxDepth = 2` | a watcher removed in a callback is called when callbacks also push events (`src/events/SDL_events.c:1226`) |
| `Subsystems.NothingLeft`, `Balanced`, `FailureRestores` | `Failing = {"audio"}` | the events stay initialized after a failed initialization of the audio (`src/SDL.c:281`) |
| `Subsystems.UsersStopFirst` | those of the run | `SDL_Quit` with a sensor in use shuts the events down under the audio (`src/SDL.c:154`) |
| `Properties.NoDeadlock` | `CleanupCalls = {"set"}`, `ReachesAny = TRUE` | a cleanup function that sets in another group, and the thread that holds that group, wait for each other (`src/SDL_properties.c:719`) |
| `Properties.NoUseAfterFree` | `QuitCalls = {"get"}`, `ReachesAny = TRUE` | a cleanup function that `SDL_Quit` runs finds a freed group (`src/SDL_hashtable.c:220`) |
| `Rects.SpanIsUsed` | those of the run | two rectangles outside of the screen make a span of all of it (`src/video/SDL_rect.c:60`) |
| `RectLine.PointsFound` | `MaxSize = 2`, `Reach = 5` | the line (-2,-4)-(2,6) is not found in the rectangle (0,0,1,2), although it goes through (0,1) (`src/video/SDL_rect_impl.h:379`) |
| `AudioDevice.LocksItsOwnDevice` | `Windows = {"migration"}`, one caller, one logical device | a call works under the lock of the device its logical device has left (`src/audio/SDL_audio.c:336`) |
| `AudioDevice.NoUseAfterFree` | `Windows = {"lookup"}` | a device found in the table is destroyed before the reference to it is taken (line 360) |
| `AudioStream.LocksReleased` | those of the run | a stream unbound without being bound stays locked (line 1890) |
| `AudioStream.ListsMatchBindings` | `odd = {"simplified"}` | unbinding the stream of `SDL_OpenAudioDeviceStream` leaves it in the list (line 1892) |
| `AudioStream.MixesDeviceFormat` | `odd = {"format"}` | setting the format of a bound stream changes the device's end (`src/audio/SDL_audiocvt.c:563`) |

With arrays that span two devices a thread that unbinds and one that binds deadlock
(`AudioStream`, `src/audio/SDL_audio.c:1853`).

Hazards seen and not modelled: a destructor of thread local storage that sets local
storage, a sentinel of `SDL_WaitEvent` that ends the next poll loop early, the unlocked
look at the queue's count before event memory is freed, the order of immediate events
and of events in a batch of the main callbacks, a second signal between clearing
`send_quit_pending` and its assertion, `SDL_StopEventLoop` destroying locks in use,
`SDL_FilterEvents` calling the filter with the queue locked, a watcher removed and added
again in one dispatch, a try-read that fails because another reader is inside the
function, an enumeration's callback that clears the property it is shown, the first
`SDL_InitProperties` in two threads, the 256th reference to a subsystem, memory that runs
out in the audio device table, and coordinates that overflow.

## Not modelled, and the plan

Device drivers, window systems, rendering, file formats, string and math functions
and queries of the system are input and output or sequential code; the generated
dynamic API and the vendored HIDAPI are not SDL's own logic. They make up all but a
few percent of the repository's lines. Of the audio component, capture devices (the
same with a default of their own), changes of a device's format, pending device
events and `SDL_QuitAudio` are left out. Next, in this order:

1. What an initialization leaves that fails after it took a reference: that counts are
   then too high and never too low, whatever fails.
2. Event memory: blocks, event IDs modulo a power of two, and the flush after an
   unlocked look at the count; and the main callbacks, whose pump it runs in: a thread
   that dispatches events of the queue while the main thread pumps.
3. The locks of queue, watchers and wakeup, and their order.
4. `SDL_QuitTimers` against calls of other threads, and audio capture devices.
5. Hints: a list without locks that callbacks change while it is walked.
