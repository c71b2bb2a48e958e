---------------------------- MODULE AudioStream ----------------------------
(***************************************************************************)
(* Audio streams bound to logical devices (src/src/audio/SDL_audio.c and   *)
(* SDL_audiocvt.c), and the device threads that mix them.  A device's lock *)
(* is taken before the lock of a stream; a stream's lock guards its        *)
(* binding and formats, the device's lock the lists of bound streams.      *)
(*                                                                         *)
(* Playback devices that stay open, with logical devices that come and go  *)
(* and do not migrate (AudioDevice has the rest of their life).  A stream  *)
(* has a format for the device's side only, dst_spec.                      *)
(***************************************************************************)
EXTENDS Naturals, Sequences, FiniteSets, SequencesExt

CONSTANTS
  Devices,    \* physical devices; each also names its thread
  Logicals, Streams, Callers,
  None,
  Uses        \* how the program uses streams: a set of records, see UseOK

Threads == Callers \cup Devices

(* phys: the physical device of each logical device; streams: those that   *)
(* it has; arrays: what it passes to SDL_(Un)bindAudioStreams; odd: calls  *)
(* that are legal, but go wrong ("format", "unbound", "simplified" below). *)
UseOK(u) ==
  /\ u.phys \in [Logicals -> Devices]
  /\ u.streams \subseteq Streams
  /\ u.arrays \subseteq {a \in Seq(u.streams) : a # <<>> /\ IsInjective(a)}
  /\ u.odd \subseteq {"format", "unbound", "simplified"}

ASSUME AudioStreamAssumption ==
  /\ IsFiniteSet(Streams) /\ IsFiniteSet(Logicals) /\ Callers \cap Devices = {}
  /\ None \notin Threads \cup Logicals \cup Streams /\ Logicals \cap Streams = {}
  /\ \A u \in Uses : UseOK(u)

VARIABLES
  use,
  open,        \* logical devices
  postmix,     \* those with a postmix callback
  simplified,  \* logical devices and streams of SDL_OpenAudioDeviceStream
  list,        \* logdev->bound_streams; its order is of no consequence
  alive,       \* streams
  bound,       \* stream->bound_device
  dst,         \* stream->dst_spec: None when the application set it
  simple,      \* devices with simple_copy set
  dlock,       \* of a device's lock, the levels taken: owner, and stream it is for
  slock,       \* owner of a stream's lock
  pc, arg, at, dev, seen    \* per thread: program counter; array, index; locals

binding == <<list, bound, dst, simple>>
locks   == <<dlock, slock>>
locals  == <<arg, at, dev, seen>>
vars == <<use, open, postmix, simplified, alive, binding, locks, pc, locals>>

Init ==
  /\ use \in Uses
  /\ open = {} /\ postmix = {} /\ simplified = {}
  /\ list = [l \in Logicals |-> {}]
  /\ alive = {}
  /\ bound = [s \in Streams |-> None] /\ dst = [s \in Streams |-> None]
  /\ simple = {}
  /\ dlock = [d \in Devices |-> {}] /\ slock = [s \in Streams |-> None]
  /\ pc = [t \in Threads |-> "idle"]
  /\ arg = [t \in Threads |-> <<>>] /\ at = [t \in Threads |-> 1]
  /\ dev = [t \in Threads |-> None] /\ seen = [t \in Threads |-> None]

Goto(t, l) == pc' = [pc EXCEPT ![t] = l]

-----------------------------------------------------------------------------
(* The locks are recursive.  SDL_UnbindAudioStreams takes a level of a     *)
(* device's lock for each stream of its array: name levels by their index. *)

Lockable(d, t)  == \A level \in dlock[d] : level[1] = t
Lock(d, t, i)   == [dlock EXCEPT ![d] = @ \cup {<<t, i>>}]
Unlock(d, t, i) == [dlock EXCEPT ![d] = @ \ {<<t, i>>}]
SLockable(s, t) == slock[s] \in {None, t}

(* UpdateAudioStreamFormatsPhysical, for what is bound where once the      *)
(* calling step is done: can d's only stream be copied as it is?  Set the  *)
(* format of its streams.  The thread locks each stream meanwhile.         *)
OnDevice(op, d) == {l \in op : use.phys[l] = d}
CanUseSimpleCopy(op, pm, lst, d) ==
  \E l \in Logicals : OnDevice(op, d) = {l} /\ l \notin pm /\ \E s \in Streams : lst[l] = {s}
Bound(op, lst, d) == UNION {lst[l] : l \in OnDevice(op, d)}

Update_FlagOnly(t, D) ==
  /\ simple' = {d \in Devices : IF d \in D THEN CanUseSimpleCopy(open', postmix', list', d)
                                            ELSE d \in simple}
  /\ dst' = dst
Update(t, D) ==
  LET sc(d)   == CanUseSimpleCopy(open', postmix', list', d)
      here(s) == {d \in D : s \in Bound(open', list', d)} IN
  /\ simple' = {d \in Devices : IF d \in D THEN sc(d) ELSE d \in simple}
  /\ \A s \in Streams : here(s) # {} => SLockable(s, t)
  /\ dst' = [s \in Streams |->
               IF here(s) = {} THEN dst[s]
               ELSE LET d == CHOOSE d \in here(s) : TRUE
                    IN <<d, IF sc(d) THEN "native" ELSE "float">>]

-----------------------------------------------------------------------------
(* SDL_OpenAudioDevice, as far as bindings go *)
Open(t, l) ==
  LET d == use.phys[l] IN
  /\ pc[t] = "idle" /\ l \notin open /\ Lockable(d, t)
  /\ open' = open \cup {l}
  /\ UNCHANGED <<list, postmix, bound>>
  /\ Update(t, {d})
  /\ UNCHANGED <<use, simplified, alive, locks, pc, locals>>

(* SDL_SetAudioPostmixCallback *)
SetPostmix(t, l) ==
  LET d == use.phys[l] IN
  /\ pc[t] = "idle" /\ l \in open /\ Lockable(d, t)
  /\ postmix' = IF l \in postmix THEN postmix \ {l} ELSE postmix \cup {l}
  /\ UNCHANGED <<open, list, bound>>
  /\ Update(t, {d})
  /\ UNCHANGED <<use, simplified, alive, locks, pc, locals>>

(* DestroyLogicalAudioDevice, with its device locked: unbind its streams.  *)
DestroyLogical(t, l) ==
  /\ \A s \in list[l] : SLockable(s, t)
  /\ open' = open \ {l} /\ postmix' = postmix \ {l}
  /\ bound' = [s \in Streams |-> IF s \in list[l] THEN None ELSE bound[s]]
  /\ list' = [list EXCEPT ![l] = {}]
  /\ Update(t, {use.phys[l]})

(* The calls the application must not make at the same time as another:    *)
(* it does not close a device, or destroy a stream, that is being used.    *)
InUse(x)   == \E t \in Threads : dev[t] = x \/ seen[t] = x
Handled(s) == \E t \in Threads : s \in ToSet(arg[t])

(* SDL_CloseAudioDevice *)
Close(t, l) ==
  /\ pc[t] = "idle" /\ l \in open /\ ~InUse(l) /\ Lockable(use.phys[l], t)
  /\ \A s \in list[l] : ~Handled(s)
  /\ DestroyLogical(t, l)
  /\ simplified' = simplified \ {l}
  /\ UNCHANGED <<use, alive, locks, pc, locals>>

(* SDL_CreateAudioStream *)
Create(t, s) ==
  /\ pc[t] = "idle" /\ s \in use.streams \ alive
  /\ alive' = alive \cup {s}
  /\ dst' = [dst EXCEPT ![s] = None]
  /\ UNCHANGED <<use, open, postmix, simplified, list, bound, simple, locks, pc, locals>>

(* SDL_OpenAudioDeviceStream: nobody knows the new device and stream yet.  *)
OpenStream(t, l, s) ==
  LET d == use.phys[l] IN
  /\ pc[t] = "idle" /\ l \notin open /\ s \in use.streams \ alive /\ Lockable(d, t)
  /\ open' = open \cup {l} /\ alive' = alive \cup {s}
  /\ bound' = [bound EXCEPT ![s] = l]
  /\ list' = [list EXCEPT ![l] = {s}]
  /\ simplified' = simplified \cup {l, s}
  /\ UNCHANGED postmix
  /\ Update(t, {d})
  /\ UNCHANGED <<use, locks, pc, locals>>

(* SDL_SetAudioStreamFormat(stream, NULL, dst_spec): of a stream bound to  *)
(* a playback device it refuses to change src_spec only.                   *)
SetFormat(t, s) ==
  /\ pc[t] = "idle" /\ s \in alive /\ ~InUse(s) /\ SLockable(s, t)
  /\ bound[s] # None => "format" \in use.odd
  /\ dst' = [dst EXCEPT ![s] = None]
  /\ UNCHANGED <<use, open, postmix, simplified, alive, list, bound, simple, locks, pc, locals>>

-----------------------------------------------------------------------------
(* SDL_BindAudioStreams *)

Holding(t) == {s \in Streams : slock[s] = t}

Begin(t, label, array, l) ==
  /\ pc[t] = "idle" /\ array \in use.arrays /\ Holding(t) = {}
  /\ \A s \in ToSet(array) : s \in alive /\ ~InUse(s)
  /\ Goto(t, label)
  /\ arg' = [arg EXCEPT ![t] = array]
  /\ dev' = [dev EXCEPT ![t] = l]
  /\ UNCHANGED <<use, open, postmix, simplified, alive, binding, at, seen>>

Forget(t) ==
  /\ Goto(t, "idle")
  /\ arg' = [arg EXCEPT ![t] = <<>>] /\ at' = [at EXCEPT ![t] = 1]
  /\ dev' = [dev EXCEPT ![t] = None] /\ seen' = [seen EXCEPT ![t] = None]

Bind(t, l, array) ==
  /\ l \in open /\ l \notin simplified /\ Lockable(use.phys[l], t)
  /\ Begin(t, "bind", array, l)
  /\ dlock' = Lock(use.phys[l], t, 0)
  /\ UNCHANGED slock

Bindable_Any(s) == TRUE
Bindable(s) == bound[s] = None /\ s \notin simplified

(* Lock the streams one by one; one that cannot be bound makes the call    *)
(* unlock those, update the device and fail.                               *)
LockedSoFar_NotThis(t) == {arg[t][j] : j \in 1 .. at[t] - 1}
LockedSoFar(t) == {arg[t][j] : j \in 1 .. at[t]}

BindLock(t) ==
  LET s == arg[t][at[t]] IN
  /\ pc[t] = "bind" /\ at[t] <= Len(arg[t]) /\ SLockable(s, t) /\ Bindable(s)
  /\ slock' = [slock EXCEPT ![s] = t]
  /\ at' = [at EXCEPT ![t] = @ + 1]
  /\ UNCHANGED <<use, open, postmix, simplified, alive, binding, dlock, pc, arg, dev, seen>>

BindFail(t) ==
  LET s == arg[t][at[t]]
      d == use.phys[dev[t]] IN
  /\ pc[t] = "bind" /\ at[t] <= Len(arg[t]) /\ SLockable(s, t) /\ ~Bindable(s)
  /\ slock' = [x \in Streams |-> IF x \in LockedSoFar(t) THEN None
                                 ELSE IF x = s THEN t ELSE slock[x]]
  /\ UNCHANGED <<open, postmix, list, bound>>
  /\ Update(t, {d})
  /\ dlock' = Unlock(d, t, 0)
  /\ Forget(t)
  /\ UNCHANGED <<use, simplified, alive>>

(* All are locked: chain them, update, and unlock everything.              *)
BindChain(t) ==
  LET l == dev[t]
      d == use.phys[l]
      S == ToSet(arg[t]) IN
  /\ pc[t] = "bind" /\ at[t] > Len(arg[t])
  /\ bound' = [s \in Streams |-> IF s \in S THEN l ELSE bound[s]]
  /\ list' = [list EXCEPT ![l] = @ \cup S]
  /\ UNCHANGED <<open, postmix>>
  /\ Update(t, {d})
  /\ slock' = [s \in Streams |-> IF s \in S THEN None ELSE slock[s]]
  /\ dlock' = Unlock(d, t, 0)
  /\ Forget(t)
  /\ UNCHANGED <<use, simplified, alive>>

-----------------------------------------------------------------------------
(* SDL_UnbindAudioStreams, and SDL_DestroyAudioStream, which calls it *)

Unbind(t, array) ==
  /\ Begin(t, "peek", array, None)
  /\ \A s \in ToSet(array) :
       /\ (bound[s] # None /\ ~Handled(s)) \/ "unbound" \in use.odd
       /\ s \in simplified => "simplified" \in use.odd
  /\ UNCHANGED locks

Destroy(t, s) ==
  /\ pc[t] = "idle" /\ s \in alive \ simplified /\ ~Handled(s) /\ Holding(t) = {}
  /\ Goto(t, "peek")
  /\ arg' = [arg EXCEPT ![t] = <<s>>]
  /\ dev' = [dev EXCEPT ![t] = s]
  /\ UNCHANGED <<use, open, postmix, simplified, alive, binding, locks, at, seen>>

(* A simplified stream closes its device.                                  *)
DestroySimplified(t, s) ==
  LET l == bound[s] IN
  /\ pc[t] = "idle" /\ s \in alive \cap simplified /\ ~Handled(s) /\ SLockable(s, t)
  /\ alive' = alive \ {s}
  /\ simplified' = simplified \ {l, s}
  /\ IF l = None
     THEN UNCHANGED <<open, postmix, binding>>
     ELSE ~InUse(l) /\ Lockable(use.phys[l], t) /\ DestroyLogical(t, l)
  /\ UNCHANGED <<use, locks, pc, locals>>

(* Look where the stream is bound, under its lock.                         *)
Peek(t, s) == UNCHANGED slock

UnbindPeek(t) ==
  LET s == arg[t][at[t]] IN
  /\ pc[t] = "peek" /\ SLockable(s, t)
  /\ seen' = [seen EXCEPT ![t] = bound[s]]
  /\ Peek(t, s)
  /\ Goto(t, IF bound[s] = None THEN "check" ELSE "device")
  /\ UNCHANGED <<use, open, postmix, simplified, alive, binding, dlock, arg, at, dev>>

(* Lock the device first, then the stream ...                              *)
UnbindDevice(t) ==
  LET d == use.phys[seen[t]] IN
  /\ pc[t] = "device" /\ Lockable(d, t)
  /\ dlock' = Lock(d, t, at[t])
  /\ Goto(t, "check")
  /\ UNCHANGED <<use, open, postmix, simplified, alive, binding, slock, locals>>

(* ... and look again: if it has been bound elsewhere, unlock and retry.   *)
Rebound_Ignored(t, s) == FALSE
Rebound(t, s) == bound[s] # seen[t]

UnbindCheck(t) ==
  LET s == arg[t][at[t]] IN
  /\ pc[t] = "check" /\ SLockable(s, t)
  /\ IF Rebound(t, s)
     THEN /\ dlock' = IF seen[t] = None THEN dlock ELSE Unlock(use.phys[seen[t]], t, at[t])
          /\ Goto(t, "peek")
          /\ UNCHANGED <<slock, at>>
     ELSE /\ slock' = [slock EXCEPT ![s] = t]
          /\ at' = [at EXCEPT ![t] = @ + 1]
          /\ Goto(t, IF at[t] = Len(arg[t]) THEN "unbind" ELSE "peek")
          /\ UNCHANGED dlock
  /\ seen' = [seen EXCEPT ![t] = None]
  /\ UNCHANGED <<use, open, postmix, simplified, alive, binding, arg, dev>>

(* Everything is locked.  Streams of simplified devices stay in the list;  *)
(* bound_device is cleared for all; those that were not bound stay locked. *)
UnbindAll(t) ==
  LET S    == {s \in ToSet(arg[t]) : bound[s] # None}
      gone == {s \in S : bound[s] \notin simplified}
      on   == {use.phys[bound[s]] : s \in S} IN
  /\ pc[t] = "unbind"
  /\ list' = [l \in Logicals |-> list[l] \ gone]
  /\ bound' = [s \in Streams |-> IF s \in S THEN None ELSE bound[s]]
  /\ UNCHANGED <<open, postmix>>
  /\ Update(t, on)
  /\ alive' = alive \ {dev[t]}
  /\ slock' = [s \in Streams |-> IF s \in S \cup {dev[t]} THEN None ELSE slock[s]]
  /\ dlock' = [d \in Devices |->
                 dlock[d] \ {<<t, i>> : i \in {j \in DOMAIN arg[t] : arg[t][j] \in S}}]
  /\ Forget(t)
  /\ UNCHANGED <<use, simplified>>

-----------------------------------------------------------------------------
(* SDL_OutputAudioThreadIterate: the device's thread, there as long as a   *)
(* logical device is open on it, takes the device's lock, mixes every      *)
(* listed stream under the stream's lock, and unlocks.                     *)

IterateLock(d) ==
  /\ pc[d] = "idle" /\ OnDevice(open, d) # {} /\ Lockable(d, d)
  /\ dlock' = Lock(d, d, 0)
  /\ Goto(d, "mix")
  /\ UNCHANGED <<use, open, postmix, simplified, alive, binding, slock, locals>>

IterateMix(d) ==
  /\ pc[d] = "mix"
  /\ \A s \in Bound(open, list, d) : SLockable(s, d)
  /\ dlock' = Unlock(d, d, 0)
  /\ Goto(d, "idle")
  /\ UNCHANGED <<use, open, postmix, simplified, alive, binding, slock, locals>>

-----------------------------------------------------------------------------
Step(t) == \/ BindLock(t) \/ BindFail(t) \/ BindChain(t)
           \/ UnbindPeek(t) \/ UnbindDevice(t) \/ UnbindCheck(t) \/ UnbindAll(t)

Call(t) ==
  \/ \E l \in Logicals :
       \/ Open(t, l) \/ Close(t, l) \/ SetPostmix(t, l)
       \/ \E s \in Streams : OpenStream(t, l, s)
       \/ \E array \in use.arrays : Bind(t, l, array)
  \/ \E s \in Streams :
       Create(t, s) \/ SetFormat(t, s) \/ Destroy(t, s) \/ DestroySimplified(t, s)
  \/ \E array \in use.arrays : Unbind(t, array)

Next ==
  \/ \E t \in Callers : Call(t) \/ Step(t)
  \/ \E d \in Devices : IterateLock(d) \/ IterateMix(d)

(* Mutexes are fair: a thread that asks for a lock that keeps coming free  *)
(* gets it.  A device's thread always comes back from the device.          *)
Fairness ==
  /\ \A t \in Callers : SF_vars(Step(t))
  /\ \A d \in Devices : WF_vars(IterateLock(d)) /\ SF_vars(IterateMix(d))

Spec == Init /\ [][Next]_vars /\ Fairness

-----------------------------------------------------------------------------
Labels == {"idle", "bind", "peek", "device", "check", "unbind", "mix"}

(* Every variable has its type. *)
TypeOK ==
  /\ use \in Uses
  /\ open \subseteq Logicals /\ postmix \subseteq Logicals
  /\ simplified \subseteq Logicals \cup Streams
  /\ list \in [Logicals -> SUBSET Streams]
  /\ alive \subseteq Streams
  /\ bound \in [Streams -> Logicals \cup {None}]
  /\ dst \in [Streams -> (Devices \X {"native", "float"}) \cup {None}]
  /\ simple \subseteq Devices
  /\ dlock \in [Devices -> SUBSET (Threads \X Nat)]
  /\ slock \in [Streams -> Threads \cup {None}]
  /\ pc \in [Threads -> Labels]
  /\ arg \in [Threads -> Seq(Streams)] /\ at \in [Threads -> Nat \ {0}]
  /\ dev \in [Threads -> Logicals \cup Streams \cup {None}]
  /\ seen \in [Threads -> Logicals \cup {None}]

(* Streams that are mixed arrive in the format the device's thread expects *)
(* ("We should have updated this elsewhere if the format changed!"): the   *)
(* device's own when there is one stream to copy, float when there are     *)
(* several or a postmix callback, whatever was bound, unbound, opened,     *)
(* closed or set by whom since.                                            *)
MixesDeviceFormat ==
  \A d \in Devices : pc[d] = "mix" =>
    \A s \in Bound(open, list, d) :
      dst[s] = <<d, IF d \in simple THEN "native" ELSE "float">>

(* When the device's thread mixes, simple_copy says what its lists say     *)
(* ("make sure this hasn't gotten out of sync").                           *)
SimpleCopyInSync ==
  \A d \in Devices : pc[d] = "mix" =>
    (d \in simple <=> CanUseSimpleCopy(open, postmix, list, d))

(* A stream is in the list of the open device it is bound to, and in no    *)
(* other, and it has not been destroyed: however binds, unbinds, closes    *)
(* and destroys interleave, the mixer never walks into a stream that is    *)
(* gone, nor do two devices play it.                                       *)
ListsMatchBindings ==
  \A l \in Logicals :
    /\ list[l] = {s \in alive : bound[s] = l}
    /\ list[l] # {} => l \in open

(* "We _must_ lock the device first, and the stream second": a thread that *)
(* is about to wait for a device's lock holds no lock of a stream bound to *)
(* that device, unless it has the device's lock already.                   *)
DeviceLockFirst ==
  \A t \in Callers : pc[t] = "device" =>
    LET d == use.phys[seen[t]] IN
    (\E level \in dlock[d] : level[1] = t) \/ Holding(t) \cap Bound(open, list, d) = {}

(* "The binding linked list can only change while the device lock is       *)
(* held": no call changes a list the device's thread is walking.           *)
MixedListStable ==
  [][\A d \in Devices : pc[d] = "mix" /\ pc'[d] = "mix" =>
       \A l \in OnDevice(open, d) : list'[l] = list[l] /\ l \in open']_vars

(* Unbinding a stream leaves the lock of no stream behind: a thread that   *)
(* is in no call holds none.  ("Unbinding a stream that isn't bound to a   *)
(* device is a legal no-op.")                                              *)
LocksReleased == \A t \in Callers : pc[t] = "idle" => Holding(t) = {}

(* SDL_BindAudioStreams and SDL_UnbindAudioStreams return, whatever other  *)
(* threads bind, unbind, open and close and while the devices play: the    *)
(* locks are taken in an order that cannot deadlock, and given back.       *)
CallsReturn ==
  "unbound" \notin use.odd => \A t \in Callers : pc[t] # "idle" ~> pc[t] = "idle"
=============================================================================
