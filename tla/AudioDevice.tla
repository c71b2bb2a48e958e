---------------------------- MODULE AudioDevice ----------------------------
(***************************************************************************)
(* Physical and logical audio devices (src/src/audio/SDL_audio.c): any     *)
(* thread opens, uses and closes devices, the audio driver adds, removes   *)
(* and changes the default device, and each device that is open at the     *)
(* system level has a thread, which may find that its device failed.  They *)
(* share devices by reference counting.                                    *)
(*                                                                         *)
(* Critical sections under device_hash_lock, and under a device's lock,    *)
(* are one action; only the driver keeps a device locked from one action   *)
(* to the next, when the default device changes.  Playback devices only: a *)
(* capture device is the same with a default of its own.                   *)
(***************************************************************************)
EXTENDS Naturals, FiniteSets

CONSTANTS
  Devices,     \* physical devices; each also names its thread
  Logicals,    \* logical devices
  Callers,     \* application threads
  driver,      \* the thread of the audio backend
  None,        \* NULL, or no device ID
  Windows,     \* races of the code that are open: see Lookups, Migrations
  MaxStimuli   \* bound: calls made, devices plugged, lost or made the default

ASSUME AudioDeviceAssumption ==
  /\ IsFiniteSet(Devices) /\ IsFiniteSet(Logicals) /\ IsFiniteSet(Callers)
  /\ driver \notin Callers \cup Devices /\ Callers \cap Devices = {}
  /\ None \notin Devices \cup Logicals /\ Devices \cap Logicals = {}
  /\ MaxStimuli \in Nat

Threads == Callers \cup Devices \cup {driver}

VARIABLES
  mem,         \* an SDL_AudioDevice: "absent", "live" or "freed"
  refs,        \* device->refcount
  table,       \* IDs in current_audio.device_hash
  default,     \* current_audio.default_output_device_id
  zombie, shutdown, opened,   \* flags of devices; opened is currently_opened
  logs,        \* device->logical_devices
  physOf,      \* logdev->physical_device
  asDefault,   \* logdev->opened_as_default
  lstate,      \* a logical device: "unused", "open", "closing" or "closed"
  held,        \* devices the driver keeps locked
  pc, dev, tgt, job,          \* per thread: program counter, device, logical device, errand
  stimuli,      \* counter for MaxStimuli
  new, old     \* SDL_DefaultAudioDeviceChanged: the two default devices

table_vars   == <<table, default>>
flags        == <<zombie, shutdown, opened>>
logical_vars == <<logs, physOf, asDefault, lstate>>
change       == <<held, new, old, stimuli>>
vars == <<mem, refs, table_vars, flags, logical_vars, change, pc, dev, tgt, job>>

(* SDL_InitAudio: the devices detected, one of them the default.           *)
Init ==
  \E plugged \in SUBSET Devices, d \in Devices \cup {None} :
    /\ d = None <=> plugged = {}
    /\ d # None => d \in plugged
    /\ mem = [e \in Devices |-> IF e \in plugged THEN "live" ELSE "absent"]
    /\ refs = [e \in Devices |-> CASE e = d       -> 2
                                   [] e \in plugged /\ e # d -> 1
                                   [] OTHER       -> 0]
    /\ table = plugged /\ default = d
    /\ zombie = {} /\ shutdown = {} /\ opened = {}
    /\ logs = [e \in Devices |-> {}]
    /\ physOf = [l \in Logicals |-> None]
    /\ asDefault = {}
    /\ lstate = [l \in Logicals |-> "unused"]
    /\ held = {} /\ new = None /\ old = None /\ stimuli = 0
    /\ pc = [t \in Threads |-> IF t \in Devices THEN "none" ELSE "idle"]
    /\ dev = [t \in Threads |-> None]
    /\ tgt = [t \in Threads |-> None]
    /\ job = [t \in Threads |-> "none"]

-----------------------------------------------------------------------------
Goto(t, l) == pc' = [pc EXCEPT ![t] = l]

Free(d) == d \notin held

(* Leaving the API, or going on after a reference has been given back.     *)
Next_pc(t) ==
  IF t \in Devices THEN "run" ELSE IF job[t] \in {"again", "insert"} THEN job[t] ELSE "idle"

ForgetCall(t) ==
  /\ dev' = [dev EXCEPT ![t] = None]
  /\ tgt' = [tgt EXCEPT ![t] = IF job[t] = "insert" THEN @ ELSE None]
  /\ job' = [job EXCEPT ![t] = "none"]

Leave(t) ==
  /\ Goto(t, Next_pc(t))
  /\ ForgetCall(t)

Ref(d) == refs' = [refs EXCEPT ![d] = @ + 1]

(* The outside world acts: the application calls, or hardware changes.     *)
Stimulus == stimuli < MaxStimuli /\ stimuli' = stimuli + 1

(* ObtainPhysicalAudioDevice, CreatePhysicalAudioDevice and the drivers'   *)
(* lookups take their reference after they have let go of the table.  In   *)
(* between the device may go away, unless this race is assumed not to      *)
(* happen.                                                                 *)
Lookups == "lookup" \in Windows
Sought(d) == \E t \in Threads : pc[t] \in {"found", "disc"} /\ dev[t] = d

-----------------------------------------------------------------------------
(* UnrefPhysicalAudioDevice and DestroyPhysicalAudioDevice *)

Unref(t) ==
  LET d == dev[t] IN
  /\ pc[t] = "unref"
  /\ refs[d] = 1 => Lookups \/ ~Sought(d)
  /\ refs' = [refs EXCEPT ![d] = @ - 1]
  /\ \/ refs[d] = 1 /\ Goto(t, "unhash") /\ UNCHANGED <<dev, tgt, job>>
     \/ /\ refs[d] # 1 /\ job[t] = "unplug"   \* next, the reference of a connected device
        /\ job' = [job EXCEPT ![t] = "none"] /\ UNCHANGED <<pc, dev, tgt>>
     \/ refs[d] # 1 /\ job[t] # "unplug" /\ Leave(t)
  /\ UNCHANGED <<mem, table_vars, flags, logical_vars, change>>

Unhash(t) ==
  /\ pc[t] = "unhash"
  /\ table' = table \ {dev[t]}
  /\ Goto(t, "destroy")
  /\ UNCHANGED <<mem, refs, default, flags, logical_vars, change, dev, tgt, job>>

(* DestroyLogicalAudioDevice, for a set of them.                           *)
DestroyLogicals(S) ==
  /\ table' = table \ S
  /\ lstate' = [l \in Logicals |-> IF l \in S THEN "closed" ELSE lstate[l]]
  /\ asDefault' = asDefault \ S
  /\ physOf' = [l \in Logicals |-> IF l \in S THEN None ELSE physOf[l]]

(* SerializePhysicalDeviceClose waits as long as this is so.               *)
Closing_Never(d) == FALSE
Closing(d) == d \in shutdown

(* ClosePhysicalAudioDevice up to the join: the shutdown flag is set and   *)
(* the lock released.  SerializePhysicalDeviceClose does not wait here, a  *)
(* device that is being closed has no logical device left (ClosedUnused).  *)
BeginClose(d) ==
  /\ ~Closing(d)
  /\ shutdown' = shutdown \cup {d}

Destroy(t) ==
  LET d == dev[t] IN
  /\ pc[t] = "destroy" /\ Free(d)
  /\ DestroyLogicals(logs[d])
  /\ logs' = [logs EXCEPT ![d] = {}]
  /\ BeginClose(d)
  /\ Goto(t, "free_join")
  /\ UNCHANGED <<mem, refs, default, zombie, opened, change, dev, tgt, job>>

(* The rest of it, once the device's thread is gone: close at the system   *)
(* level, take the lock, clear the flag and wake all who wait for that.    *)
Gone(d) == pc[d] \in {"none", "exited"}

Broadcast_Forgotten(d, t, l) == [pc EXCEPT ![t] = l, ![d] = "none"]
Broadcast(d, t, l) ==
  LET woken == [x \in Threads |->
                  IF pc[x] = "open_wait" /\ dev[x] = d THEN "open_woken"
                  ELSE IF pc[x] = "def_wait" /\ new = d THEN "def_woken" ELSE pc[x]]
  IN  [woken EXCEPT ![d] = "none", ![t] = l]

CloseSystem_Not(d) == opened' = opened
CloseSystem(d) == opened' = opened \ {d}

EndClose(d, t, l) ==
  /\ Gone(d) /\ Free(d)
  /\ CloseSystem(d)
  /\ shutdown' = shutdown \ {d}
  /\ pc' = Broadcast(d, t, l)

FreeJoined(t) ==
  LET d == dev[t] IN
  /\ pc[t] = "free_join"
  /\ EndClose(d, t, Next_pc(t))
  /\ mem' = [mem EXCEPT ![d] = "freed"]
  /\ ForgetCall(t)
  /\ UNCHANGED <<refs, table_vars, zombie, logical_vars, change>>

-----------------------------------------------------------------------------
(* SDL_OpenAudioDevice on a physical device or the default one, and        *)
(* ObtainPhysicalAudioDeviceDefaultAllowed                                 *)

(* Read the ID of the default device, and again if it has changed since.   *)
OpenDefault(t) ==
  /\ t \in Callers /\ pc[t] \in {"idle", "again"}
  /\ default # None
  /\ IF pc[t] = "again" THEN UNCHANGED stimuli ELSE Stimulus
  /\ dev' = [dev EXCEPT ![t] = default]
  /\ job' = [job EXCEPT ![t] = "default"]
  /\ Goto(t, "find")
  /\ UNCHANGED <<mem, refs, table_vars, flags, logical_vars, held, new, old, tgt>>

Find(t) ==
  LET d == dev[t] IN
  /\ pc[t] = "find"
  /\ IF d \in table
     THEN /\ Lookups \/ refs[d] > 0
          /\ Goto(t, "found") /\ UNCHANGED <<dev, tgt, job>>
     ELSE Leave(t)
  /\ UNCHANGED <<mem, refs, table_vars, flags, logical_vars, change>>

(* An explicit open; an ID that is not in the table is refused.            *)
OpenDevice(t, d) ==
  /\ t \in Callers /\ pc[t] = "idle" /\ Stimulus
  /\ d \in table
  /\ Lookups \/ refs[d] > 0
  /\ dev' = [dev EXCEPT ![t] = d]
  /\ job' = [job EXCEPT ![t] = "device"]
  /\ Goto(t, "found")
  /\ UNCHANGED <<mem, refs, table_vars, flags, logical_vars, held, new, old, tgt>>

Obtain(t) ==
  /\ pc[t] = "found"
  /\ Ref(dev[t])
  /\ Goto(t, "open")
  /\ UNCHANGED <<mem, table_vars, flags, logical_vars, change, dev, tgt, job>>

(* ObtainLogicalAudioDevice: find the device and reference it, under the   *)
(* lock of the table.  The driver may migrate the logical device to        *)
(* another physical device before its lock is taken, unless this race is   *)
(* assumed not to happen.                                                  *)
Migrations == "migration" \in Windows

FindLogical(t, l, next) ==
  LET d == physOf[l] IN
  /\ t \in Callers /\ pc[t] = "idle" /\ Stimulus
  /\ l \in table /\ lstate[l] = "open"
  /\ Migrations \/ l \notin asDefault \/ ~(d = old /\ d \in held)
  /\ Ref(d)
  /\ dev' = [dev EXCEPT ![t] = d] /\ tgt' = [tgt EXCEPT ![t] = l]
  /\ Goto(t, next)
  /\ UNCHANGED <<mem, table_vars, flags, logs, physOf, asDefault, held, new, old, job>>

(* SDL_OpenAudioDevice on a logical device opens its physical device.      *)
OpenOnLogical(t, l) ==
  FindLogical(t, l, "open_on") /\ UNCHANGED lstate

(* Link the new logical device l, with a reference of its own; the ID      *)
(* enters the table after the device has been let go.                      *)
Attach(t, d, l, as_default) ==
  /\ lstate' = [lstate EXCEPT ![l] = "open"]
  /\ physOf' = [physOf EXCEPT ![l] = d]
  /\ asDefault' = IF as_default THEN asDefault \cup {l} ELSE asDefault
  /\ logs' = [logs EXCEPT ![d] = @ \cup {l}]
  /\ Ref(d)
  /\ tgt' = [tgt EXCEPT ![t] = l]
  /\ job' = [job EXCEPT ![t] = "insert"]

(* OpenPhysicalAudioDevice, with the device locked: wait until nobody      *)
(* closes it; nothing to do if it is open, or lost; else open it at the    *)
(* system level and start its thread.                                      *)
OpenWait(t, d, l, as_default) ==
  /\ Closing(d)
  /\ job' = [job EXCEPT ![t] = IF as_default THEN "default" ELSE "device"]
  /\ tgt' = [tgt EXCEPT ![t] = l]
  /\ lstate' = [lstate EXCEPT ![l] = "allocated"]
  /\ Goto(t, "open_wait")
  /\ UNCHANGED <<refs, flags, logs, physOf, asDefault>>

OpenShared(t, d, l, as_default) ==
  /\ ~Closing(d) /\ d \in opened \cup zombie
  /\ Attach(t, d, l, as_default)
  /\ Goto(t, "unref")
  /\ UNCHANGED flags

OpenSystem(t, d, l, as_default) ==
  /\ ~Closing(d) /\ d \notin opened \cup zombie
  /\ opened' = opened \cup {d}
  /\ \/ /\ Attach(t, d, l, as_default)
        /\ pc' = [pc EXCEPT ![t] = "unref", ![d] = "run"]
        /\ UNCHANGED <<zombie, shutdown>>
     \/ /\ BeginClose(d)                       \* the backend, or memory, fails
        /\ job' = [job EXCEPT ![t] = "none"]
        /\ lstate' = [lstate EXCEPT ![l] = "unused"]
        /\ Goto(t, "open_join")
        /\ UNCHANGED <<refs, zombie, logs, physOf, asDefault, tgt>>

OpenPhysical(t, d, l, as_default) ==
  \/ OpenWait(t, d, l, as_default)
  \/ OpenShared(t, d, l, as_default)
  \/ OpenSystem(t, d, l, as_default)

(* The device is locked.  Is it still the default one?  Is it lost?        *)
WantsDefault(t) == IF pc[t] = "open_on" THEN tgt[t] \in asDefault ELSE job[t] = "default"
Stale(t) == pc[t] = "open" /\ WantsDefault(t) /\ default # dev[t]
Unused == {l \in Logicals : lstate[l] = "unused"}
Lost(t) == ~WantsDefault(t) /\ dev[t] \in zombie

OpenLocked(t) ==
  LET d == dev[t] IN
  /\ pc[t] \in {"open", "open_on"} /\ Free(d)
  /\ \/ /\ job' = [job EXCEPT ![t] = IF Stale(t) THEN "again" ELSE "none"]
        /\ Goto(t, "unref")                    \* also when calloc fails
        /\ UNCHANGED <<refs, flags, logical_vars, tgt>>
     \/ /\ ~Stale(t) /\ ~Lost(t)
        /\ Unused # {}
        /\ OpenPhysical(t, d, CHOOSE l \in Unused : TRUE, WantsDefault(t))
  /\ UNCHANGED <<mem, table_vars, change, dev>>

OpenWoken(t) ==
  /\ pc[t] = "open_woken" /\ Free(dev[t])
  /\ OpenPhysical(t, dev[t], tgt[t], WantsDefault(t))
  /\ UNCHANGED <<mem, table_vars, change, dev>>

OpenJoined(t) ==
  /\ pc[t] = "open_join"
  /\ EndClose(dev[t], t, "unref")
  /\ UNCHANGED <<mem, refs, table_vars, zombie, logical_vars, change, dev, tgt, job>>

(* The new ID enters the table (which takes memory, assumed available).    *)
Insert(t) ==
  /\ pc[t] = "insert"
  /\ table' = table \cup {tgt[t]}
  /\ Leave(t)
  /\ UNCHANGED <<mem, refs, default, flags, logical_vars, change>>

-----------------------------------------------------------------------------
(* Pause, resume, postmix and queries on a logical device: obtain, release *)

Use(t, l) ==
  FindLogical(t, l, "use") /\ UNCHANGED lstate

UseLocked(t) ==
  /\ pc[t] = "use" /\ Free(dev[t])
  /\ Goto(t, "unref")
  /\ UNCHANGED <<mem, refs, table_vars, flags, logical_vars, change, dev, tgt, job>>

(* SDL_CloseAudioDevice, by the last thread that uses the logical device.  *)
Close(t, l) ==
  /\ \A x \in Threads : tgt[x] # l
  /\ FindLogical(t, l, "close")
  /\ lstate' = [lstate EXCEPT ![l] = "closing"]

DropLogicalRef_Not(d) == UNCHANGED refs
DropLogicalRef(d) == refs' = [refs EXCEPT ![d] = @ - 1]

CloseLocked(t) ==
  LET d == dev[t]
      l == tgt[t] IN
  /\ pc[t] = "close" /\ Free(d)
  /\ DestroyLogicals({l})
  /\ logs' = [logs EXCEPT ![physOf[l]] = @ \ {l}]
  /\ IF logs'[d] = {}
     THEN BeginClose(d) /\ Goto(t, "close_join") /\ UNCHANGED refs
     ELSE DropLogicalRef(d) /\ Goto(t, "unref") /\ UNCHANGED shutdown
  /\ UNCHANGED <<mem, default, zombie, opened, change, dev, tgt, job>>

CloseJoined(t) ==
  LET d == dev[t] IN
  /\ pc[t] = "close_join"
  /\ EndClose(d, t, "unref")
  /\ DropLogicalRef(d)
  /\ UNCHANGED <<mem, table_vars, zombie, logical_vars, change, dev, tgt, job>>

-----------------------------------------------------------------------------
(* The device's thread: WaitDevice, then SDL_OutputAudioThreadIterate or   *)
(* its capture twin.                                                       *)

ThreadEnds(d) ==
  /\ pc[d] = "run" /\ d \in shutdown /\ Free(d)
  /\ Goto(d, "exited")
  /\ UNCHANGED <<mem, refs, table_vars, flags, logical_vars, change, dev, tgt, job>>

(* It fails at the system level.  (Out of memory, it could fail again as a *)
(* zombie, which would change nothing.)                                    *)
ThreadFails(d) ==
  /\ pc[d] = "run" /\ d \notin zombie
  /\ Stimulus
  /\ Ref(d)
  /\ dev' = [dev EXCEPT ![d] = d]
  /\ Goto(d, "disc_lock")
  /\ UNCHANGED <<mem, table_vars, flags, logical_vars, held, new, old, tgt, job>>

(* SDL_AudioDeviceDisconnected *)
Disconnect(t) ==
  /\ pc[t] = "disc"
  /\ Ref(dev[t])
  /\ Goto(t, "disc_lock")
  /\ UNCHANGED <<mem, table_vars, flags, logical_vars, change, dev, tgt, job>>

(* Only the first time the device becomes a zombie, and loses the          *)
(* reference it had as a connected device.                                 *)
FirstDisconnect_Always(d) == TRUE
FirstDisconnect(d) == d \notin zombie

DisconnectLocked(t) ==
  LET d == dev[t] IN
  /\ pc[t] = "disc_lock" /\ Free(d)
  /\ zombie' = zombie \cup {d}
  /\ job' = [job EXCEPT ![t] = IF FirstDisconnect(d) THEN "unplug" ELSE "none"]
  /\ Goto(t, "unref")
  /\ UNCHANGED <<mem, refs, table_vars, shutdown, opened, logical_vars, change, dev, tgt>>

-----------------------------------------------------------------------------
(* The driver: SDL_AddAudioDevice, and a device it finds unplugged.        *)

Plug(d) ==
  /\ pc[driver] = "idle" /\ mem[d] = "absent" /\ Stimulus
  /\ mem' = [mem EXCEPT ![d] = "live"]
  /\ table' = table \cup {d}
  /\ dev' = [dev EXCEPT ![driver] = d]
  /\ Goto(driver, "plug")
  /\ UNCHANGED <<refs, default, flags, logical_vars, held, new, old, tgt, job>>

PlugRef ==
  /\ pc[driver] = "plug"
  /\ Ref(dev[driver])
  /\ Leave(driver)
  /\ UNCHANGED <<mem, table_vars, flags, logical_vars, change>>

Unplug(d) ==
  /\ pc[driver] = "idle" /\ d \in table /\ Stimulus
  /\ Lookups \/ refs[d] > 0
  /\ dev' = [dev EXCEPT ![driver] = d]
  /\ Goto(driver, "disc")
  /\ UNCHANGED <<mem, refs, table_vars, flags, logical_vars, held, new, old, tgt, job>>

-----------------------------------------------------------------------------
(* SDL_DefaultAudioDeviceChanged *)

ChangeDefault(d) ==
  /\ pc[driver] = "idle" /\ d \in table /\ default # d /\ Stimulus
  /\ Lookups \/ refs[d] > 0
  /\ default' = d
  /\ new' = d /\ old' = default
  /\ refs' = [refs EXCEPT ![d] = @ + 2]   \* for being the default, and to obtain it
  /\ Goto(driver, "def_lock")
  /\ UNCHANGED <<mem, table, flags, logical_vars, held, dev, tgt, job>>

(* Lock the new one, obtain the old one if there was one: its reference as *)
(* the default keeps it in the table.                                      *)
LockNew ==
  /\ pc[driver] = "def_lock" /\ Free(new)
  /\ held' = {new}
  /\ IF old = None
     THEN Goto(driver, "def_release") /\ UNCHANGED refs
     ELSE Goto(driver, "def_lock_old") /\ Ref(old)
  /\ UNCHANGED <<mem, table_vars, flags, logical_vars, new, old, stimuli, dev, tgt, job>>

Followers == logs[old] \cap asDefault

LookedAt(l) ==
  \E t \in Callers : tgt[t] = l /\ pc[t] \in {"close", "use", "open_on"}

(* Move every logical device that follows the default, with its reference, *)
(* and close the old device if nothing is left on it.                      *)
MoveRefs(S) ==
  refs' = [refs EXCEPT ![new] = @ + Cardinality(S), ![old] = @ - Cardinality(S)]

Migrate(thread) ==
  LET S == Followers
      started == [d \in Threads |-> IF d \in thread THEN "run" ELSE pc[d]] IN
  /\ logs' = [logs EXCEPT ![old] = @ \ S, ![new] = @ \cup S]
  /\ physOf' = [l \in Logicals |-> IF l \in S THEN new ELSE physOf[l]]
  /\ MoveRefs(S)
  /\ IF logs'[old] = {}
     THEN /\ BeginClose(old)
          /\ held' = {new}
          /\ pc' = [started EXCEPT ![driver] = "old_join"]
     ELSE /\ held' = {new, old}
          /\ pc' = [started EXCEPT ![driver] = "def_release"]
          /\ UNCHANGED shutdown
  /\ UNCHANGED <<asDefault, lstate>>

(* OpenPhysicalAudioDevice(new), with both locked.                         *)
OpenNew ==
  \/ /\ Closing(new)
     /\ held' = {old}
     /\ Goto(driver, "def_wait")
     /\ UNCHANGED <<refs, shutdown, opened, logical_vars>>
  \/ /\ ~Closing(new) /\ new \in opened \cup zombie
     /\ Migrate({})
     /\ UNCHANGED opened
  \/ /\ ~Closing(new) /\ new \notin opened \cup zombie
     /\ opened' = opened \cup {new}
     /\ \/ Migrate({new})
        \/ /\ BeginClose(new)                  \* everything stays on the old device
           /\ held' = {old}
           /\ Goto(driver, "new_join")
           /\ UNCHANGED <<refs, logical_vars>>

LockOld ==
  /\ pc[driver] = "def_lock_old" /\ Free(old)
  /\ IF Followers = {}
     THEN /\ held' = {new, old}
          /\ Goto(driver, "def_release")
          /\ UNCHANGED <<refs, shutdown, opened, logical_vars>>
     ELSE /\ Migrations \/ \A l \in Followers : ~LookedAt(l)
          /\ OpenNew
  /\ UNCHANGED <<mem, table_vars, zombie, new, old, stimuli, dev, tgt, job>>

NewWoken ==
  /\ pc[driver] = "def_woken" /\ Free(new)
  /\ OpenNew
  /\ UNCHANGED <<mem, table_vars, zombie, new, old, stimuli, dev, tgt, job>>

NewJoined ==
  /\ pc[driver] = "new_join"
  /\ EndClose(new, driver, "def_release")
  /\ held' = {new, old}
  /\ UNCHANGED <<mem, refs, table_vars, zombie, logical_vars, new, old, stimuli, dev, tgt, job>>

OldJoined ==
  /\ pc[driver] = "old_join"
  /\ EndClose(old, driver, "def_release")
  /\ held' = {new, old}
  /\ UNCHANGED <<mem, refs, table_vars, zombie, logical_vars, new, old, stimuli, dev, tgt, job>>

(* Release the two devices; the old one loses its reference as default.    *)
Release ==
  /\ pc[driver] = "def_release"
  /\ held' = {} /\ new' = None /\ old' = None
  /\ refs' = [d \in Devices |-> IF d \in {new, old} THEN refs[d] - 1 ELSE refs[d]]
  /\ dev' = [dev EXCEPT ![driver] = old]
  /\ Goto(driver, IF old = None THEN "idle" ELSE "unref")
  /\ UNCHANGED <<mem, table_vars, flags, logical_vars, stimuli, tgt, job>>

-----------------------------------------------------------------------------
Call(t) ==
  \/ pc[t] = "idle" /\ OpenDefault(t)
  \/ \E d \in Devices : OpenDevice(t, d)
  \/ \E l \in Logicals : OpenOnLogical(t, l) \/ Use(t, l) \/ Close(t, l)

CallStep(t) ==
  \/ pc[t] = "again" /\ OpenDefault(t)
  \/ Find(t) \/ Obtain(t) \/ OpenLocked(t) \/ OpenWoken(t) \/ OpenJoined(t) \/ Insert(t)
  \/ UseLocked(t) \/ CloseLocked(t) \/ CloseJoined(t)

SharedStep(t) ==
  \/ Unref(t) \/ Unhash(t) \/ Destroy(t) \/ FreeJoined(t)
  \/ Disconnect(t) \/ DisconnectLocked(t)

ChangeStep ==
  PlugRef \/ LockNew \/ LockOld \/ NewWoken \/ NewJoined \/ OldJoined \/ Release

Event(d) == Plug(d) \/ Unplug(d) \/ ChangeDefault(d) \/ ThreadFails(d)

Next ==
  \/ \E t \in Callers : Call(t) \/ CallStep(t)
  \/ \E t \in Threads : SharedStep(t)
  \/ \E d \in Devices : Event(d) \/ ThreadEnds(d)
  \/ ChangeStep

(* What has begun goes on: a call, a handler of the driver, a thread.      *)
(* Nothing is assumed of when the application calls or hardware changes.   *)
Fairness ==
  /\ \A t \in Callers : WF_vars(CallStep(t) \/ SharedStep(t))
  /\ \A d \in Devices : WF_vars(ThreadEnds(d) \/ SharedStep(d))
  /\ WF_vars(ChangeStep \/ SharedStep(driver))

Spec == Init /\ [][Next]_vars /\ Fairness

-----------------------------------------------------------------------------
TypeOK ==
  /\ mem \in [Devices -> {"absent", "live", "freed"}]
  /\ refs \in [Devices -> Nat]
  /\ table \subseteq Devices \cup Logicals /\ default \in Devices \cup {None}
  /\ zombie \subseteq Devices /\ shutdown \subseteq Devices /\ opened \subseteq Devices
  /\ logs \in [Devices -> SUBSET Logicals]
  /\ physOf \in [Logicals -> Devices \cup {None}]
  /\ asDefault \subseteq Logicals
  /\ lstate \in [Logicals -> {"unused", "allocated", "open", "closing", "closed"}]
  /\ held \subseteq Devices
  /\ new \in Devices \cup {None} /\ old \in Devices \cup {None}
  /\ pc \in [Threads -> {"none", "idle", "again", "find", "found", "open", "open_on",
             "open_wait", "open_woken", "open_join", "insert", "use", "close", "close_join",
             "unref", "unhash", "destroy", "free_join", "run", "exited", "disc", "disc_lock",
             "plug", "def_lock", "def_lock_old", "def_wait", "def_woken",
             "new_join", "old_join", "def_release"}]
  /\ stimuli \in 0..MaxStimuli
  /\ dev \in [Threads -> Devices \cup {None}]
  /\ tgt \in [Threads -> Logicals \cup {None}]
  /\ job \in [Threads -> {"none", "default", "device", "again", "insert", "unplug"}]

(* Who holds the references to a device: its connection, its being the     *)
(* default, its logical devices, and the calls in progress.                *)
Holding == {"open", "open_on", "open_wait", "open_woken", "open_join", "use", "close",
            "close_join", "unref", "disc_lock"}
Tokens(d) ==
  LET of(name, holds) == IF holds THEN {<<name, d>>} ELSE {} IN
  of("connected", d \notin zombie /\ ~(pc[driver] = "plug" /\ dev[driver] = d))
    \cup of("default", default = d)
    \cup of("was default", old = d)
    \cup of("new", new = d)
    \cup of("old", old = d /\ pc[driver] # "def_lock")
    \cup {<<"logical", l>> : l \in logs[d]}
    \cup {<<"closed", t>> : t \in {x \in Callers : pc[x] = "close_join" /\ dev[x] = d}}
    \cup {<<"call", t>> : t \in {x \in Threads : pc[x] \in Holding /\ dev[x] = d}}
    \cup {<<"lost", t>> : t \in {x \in Threads : pc[x] = "unref" /\ dev[x] = d
                                                 /\ job[x] = "unplug"}}

(* The count of a device is the number of those who hold a reference,      *)
(* through failed opens, migrations and a thread that fails as the device  *)
(* is unplugged and closed: nothing is leaked or dropped twice.            *)
RefsAccountFor ==
  \A d \in Devices : mem[d] = "live" => refs[d] = Cardinality(Tokens(d))

(* Nothing is freed while something points to it: a thread at work, a      *)
(* logical device, the default, the table of devices.                      *)
NoUseAfterFree ==
  \A d \in Devices :
    \/ \E t \in Threads : dev[t] = d /\ pc[t] \notin {"find"}
    \/ new = d \/ old = d \/ default = d
    \/ pc[d] # "none"
    \/ d \in table
    \/ \E l \in Logicals : physOf[l] = d
    => mem[d] = "live"

(* A device is closed at the system level only when no logical device is   *)
(* left on it, and none is attached until that is over.                    *)
ClosedUnused ==
  \A d \in Devices : d \in shutdown => logs[d] = {}

(* "They are _not_ destroyed because we are done using them": a physical   *)
(* device goes only after it was lost, and is neither the default nor used *)
(* any more.                                                               *)
DestroyedOnlyWhenLost ==
  [][\A d \in Devices :
       mem[d] = "live" /\ mem'[d] = "freed" =>
         d \in zombie /\ default # d /\ logs[d] = {} /\ d \notin table]_vars

(* A logical device is served: its physical device is open and has a       *)
(* thread, or is lost.                                                     *)
ServedWhileOpen ==
  \A d \in Devices :
    logs[d] # {} => (d \in opened /\ pc[d] \notin {"none", "exited"}) \/ d \in zombie

(* Every call returns: nobody joins a thread that waits for it, nobody     *)
(* sleeps through the end of a close, and looking for the default device   *)
(* ends when that stops changing.                                          *)
CallsReturn == \A t \in Callers \cup {driver} : pc[t] # "idle" ~> pc[t] = "idle"

-----------------------------------------------------------------------------
(* "If found, this locks _the physical device_ this logical device is      *)
(* associated with, before returning": when the lock is granted, the       *)
(* logical device may have migrated to another one.                        *)
LocksItsOwnDevice ==
  \A t \in Callers :
    pc[t] \in {"use", "close", "open_on"} /\ Free(dev[t]) => physOf[tgt[t]] = dev[t]

=============================================================================
