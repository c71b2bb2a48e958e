------------------------- MODULE AudioStreamProofs -------------------------
(***************************************************************************)
(* Proofs about bound audio streams, for any devices, streams and threads, *)
(* and any program that does not misuse them.                              *)
(***************************************************************************)
EXTENDS AudioStream, TLAPS

(* The program makes no odd call but unbinding what is not bound.          *)
Ordinary == \A u \in Uses : u.odd \subseteq {"unbound"}

Inside(t)    == pc[t] \notin {"idle", "mix"}
Unbinding(t) == pc[t] \in {"peek", "device", "check", "unbind"}

(* The locals fit the position, and nobody destroys what a call uses.      *)
LocalsFit(t) ==
  /\ t \in Devices => pc[t] \in {"idle", "mix"}
  /\ pc[t] = "mix" => t \in Devices
  /\ ~Inside(t) => arg[t] = <<>> /\ at[t] = 1 /\ dev[t] = None /\ seen[t] = None
  /\ Inside(t) => /\ arg[t] # <<>> /\ IsInjective(arg[t]) /\ at[t] <= Len(arg[t]) + 1
                  /\ \A j \in 1 .. Len(arg[t]) : arg[t][j] \in alive
  /\ pc[t] \in {"peek", "device", "check"} => at[t] <= Len(arg[t])
  /\ pc[t] = "unbind" => at[t] = Len(arg[t]) + 1
  /\ pc[t] = "bind" => dev[t] \in open /\ dev[t] \notin simplified
  /\ Unbinding(t) => dev[t] = None \/ (dev[t] \in Streams /\ arg[t] = <<dev[t]>>)
  /\ pc[t] = "device" => seen[t] # None
  /\ seen[t] # None => pc[t] \in {"device", "check"}

(* Inside a call a thread holds the locks of the streams before its index, *)
(* and no others; a device's thread keeps none.                            *)
StreamsHeld(t) ==
  /\ t \in Devices => \A s \in Streams : slock[s] # t
  /\ Inside(t) => \A s \in Streams :
                    slock[s] = t <=> \E j \in 1 .. at[t] - 1 : arg[t][j] = s
  /\ pc[t] = "bind" => \A j \in 1 .. at[t] - 1 : Bindable(arg[t][j])

(* A thread has the level of the device's lock its position calls for:     *)
(* when unbinding, one for each stream it has locked that is still bound.  *)
LevelsHeld(t) ==
  /\ pc[t] = "mix" => <<t, 0>> \in dlock[t]
  /\ pc[t] = "bind" => <<t, 0>> \in dlock[use.phys[dev[t]]]
  /\ pc[t] = "check" /\ seen[t] # None => <<t, at[t]>> \in dlock[use.phys[seen[t]]]
  /\ Unbinding(t) => \A j \in 1 .. at[t] - 1 :
       bound[arg[t][j]] # None => <<t, j>> \in dlock[use.phys[bound[arg[t][j]]]]

ThreadInv(t) == LocalsFit(t) /\ StreamsHeld(t) /\ LevelsHeld(t)

(* A device's lock has one owner; a stream that is being destroyed is in   *)
(* no other thread's array; a bound stream has not been destroyed, and is  *)
(* in the list of its device, which is open.                               *)
OneOwner == \A d \in Devices : \A x, y \in dlock[d] : x[1] = y[1]
Sole == \A t, u \in Threads :
          dev[t] \in Streams /\ (\E j \in 1 .. Len(arg[u]) : arg[u][j] = dev[t]) => t = u
BoundAlive ==
  /\ \A s \in Streams : bound[s] # None => s \in alive /\ s \in list[bound[s]]
  /\ \A l \in Logicals : list[l] # {} => l \in open

LockInv == /\ TypeOK /\ OneOwner /\ Sole /\ BoundAlive
           /\ \A t \in Threads : ThreadInv(t)

(* The lists say what the bindings say; a simplified device plays only its *)
(* own stream, and nobody unbinds that.                                    *)
ListInv ==
  /\ ListsMatchBindings
  /\ \A s \in Streams : bound[s] \in simplified => s \in simplified
  /\ \A t \in Threads : Unbinding(t) =>
       \A j \in 1 .. Len(arg[t]) : arg[t][j] \notin simplified

(* Flags and formats are right at all times.                               *)
FormatInv ==
  \A d \in Devices :
    /\ d \in simple <=> CanUseSimpleCopy(open, postmix, list, d)
    /\ \A s \in Bound(open, list, d) :
         dst[s] = <<d, IF d \in simple THEN "native" ELSE "float">>

-----------------------------------------------------------------------------
LEMMA InitLockInv == Init => LockInv
BY AudioStreamAssumption
   DEF Init, LockInv, TypeOK, Labels, Threads, OneOwner, Sole, BoundAlive, ThreadInv, LocalsFit,
       StreamsHeld, LevelsHeld, Inside, Unbinding, UseOK

(* An update changes flags and formats only, and keeps their types.        *)
LEMMA UpdateTypes ==
  ASSUME TypeOK, NEW t, NEW D \in SUBSET Devices, Update(t, D)
  PROVE  /\ simple' \subseteq Devices
         /\ dst' \in [Streams -> (Devices \X {"native", "float"}) \cup {None}]
BY DEF TypeOK, Update

(* Locking and unlocking touch one level of one device's lock.             *)
LEMMA LockOther ==
  ASSUME TypeOK, NEW d, NEW t, NEW i, NEW e \in Devices, NEW x, x # <<t, i>>
  PROVE  /\ x \in Lock(d, t, i)[e] <=> x \in dlock[e]
         /\ x \in Unlock(d, t, i)[e] <=> x \in dlock[e]
<1>1. CASE d = e
  BY <1>1 DEF Lock, Unlock, TypeOK
<1>2. CASE d # e
  BY <1>2 DEF Lock, Unlock, TypeOK
<1>3. QED
  BY <1>1, <1>2

LEMMA LockTypes ==
  ASSUME TypeOK, NEW d, NEW t \in Threads, NEW i \in Nat
  PROVE  /\ Lock(d, t, i) \in [Devices -> SUBSET (Threads \X Nat)]
         /\ Unlock(d, t, i) \in [Devices -> SUBSET (Threads \X Nat)]
<1>1. <<t, i>> \in Threads \X Nat
  OBVIOUS
<1>2. \A e \in Devices : /\ dlock[e] \cup {<<t, i>>} \in SUBSET (Threads \X Nat)
                         /\ dlock[e] \ {<<t, i>>} \in SUBSET (Threads \X Nat)
  BY <1>1 DEF TypeOK
<1>3. QED
  BY <1>2 DEF Lock, Unlock, TypeOK

(* What a thread does to the others: their locals, levels and locks stay,  *)
(* and what they use is not destroyed, closed, or bound under their lock.  *)
Spares(t, u) ==
  /\ pc'[u] = pc[u] /\ arg'[u] = arg[u] /\ at'[u] = at[u] /\ dev'[u] = dev[u] /\ seen'[u] = seen[u]
  /\ \A d \in Devices : \A i \in Nat : <<u, i>> \in dlock'[d] <=> <<u, i>> \in dlock[d]
  /\ \A s \in Streams : slock'[s] = u <=> slock[s] = u
  /\ \A j \in 1 .. Len(arg[u]) : arg[u][j] \in alive => arg[u][j] \in alive'
  /\ dev[u] \in open => dev[u] \in open'
  /\ dev[u] \in open \ simplified => dev[u] \notin simplified'

Disturbs(t) ==
  /\ use' = use
  /\ \A u \in Threads \ {t} : Spares(t, u)
  /\ \A s \in Streams : bound'[s] \in {bound[s], None} \/ s \notin alive \/ slock[s] = t
  /\ \A s \in alive \ simplified : s \notin simplified'

LEMMA CallDisturbs ==
  ASSUME LockInv, NEW t \in Callers, Call(t)
  PROVE  Disturbs(t)
<1> USE AudioStreamAssumption
    DEF LockInv, TypeOK, Disturbs, Spares, Threads, locals, locks, binding, Goto
<1>1. ASSUME NEW l \in Logicals, Open(t, l) PROVE Disturbs(t)
  BY <1>1 DEF Open
<1>2. ASSUME NEW l \in Logicals, Close(t, l) PROVE Disturbs(t)
  BY <1>2 DEF Close, DestroyLogical, InUse
<1>3. ASSUME NEW l \in Logicals, SetPostmix(t, l) PROVE Disturbs(t)
  BY <1>3 DEF SetPostmix
<1>4. ASSUME NEW l \in Logicals, NEW s \in Streams, OpenStream(t, l, s) PROVE Disturbs(t)
  BY <1>4 DEF OpenStream
<1>5. ASSUME NEW l \in Logicals, NEW array \in use.arrays, Bind(t, l, array) PROVE Disturbs(t)
  BY <1>5 DEF Bind, Begin, Lock
<1>6. ASSUME NEW s \in Streams, Create(t, s) PROVE Disturbs(t)
  BY <1>6 DEF Create
<1>7. ASSUME NEW s \in Streams, SetFormat(t, s) PROVE Disturbs(t)
  BY <1>7 DEF SetFormat
<1>8. ASSUME NEW s \in Streams, Destroy(t, s) PROVE Disturbs(t)
  BY <1>8 DEF Destroy
<1>9. ASSUME NEW s \in Streams, DestroySimplified(t, s) PROVE Disturbs(t)
  BY <1>9 DEF DestroySimplified, DestroyLogical, InUse, Handled, ToSet
<1>10. ASSUME NEW array \in use.arrays, Unbind(t, array) PROVE Disturbs(t)
  BY <1>10 DEF Unbind, Begin
<1>11. QED
  BY <1>1, <1>2, <1>3, <1>4, <1>5, <1>6, <1>7, <1>8, <1>9, <1>10 DEF Call

(* The streams whose locks a call gives back were locked by it.            *)
LEMMA StepDisturbs ==
  ASSUME LockInv, NEW t \in Callers, Step(t)
  PROVE  Disturbs(t)
<1> USE AudioStreamAssumption
    DEF LockInv, TypeOK, Disturbs, Spares, Threads, locals, locks, binding, Goto
<1>0. t \in Threads /\ ThreadInv(t)
  OBVIOUS
<1>1. CASE BindLock(t)
  BY <1>1 DEF BindLock, SLockable
<1>2. CASE BindFail(t)
  BY <1>0, <1>2 DEF BindFail, Forget, Unlock, LockedSoFar, SLockable, ThreadInv, StreamsHeld, Inside
<1>3. CASE BindChain(t)
  BY <1>0, <1>3 DEF BindChain, Forget, Unlock, ToSet, ThreadInv, StreamsHeld, Inside
<1>4. CASE UnbindPeek(t)
  BY <1>4 DEF UnbindPeek, Peek
<1>5. CASE UnbindDevice(t)
  BY <1>5 DEF UnbindDevice, Lock
<1>6. CASE UnbindCheck(t)
  <2>1. CASE Rebound(t, arg[t][at[t]])
    <3>1. dlock' \in {dlock, Unlock(use.phys[seen[t]], t, at[t])} /\ slock' = slock
      BY <1>6, <2>1 DEF UnbindCheck
    <3>2. \A d \in Devices : \A u \in Threads \ {t} : \A i \in Nat :
            <<u, i>> \in dlock'[d] <=> <<u, i>> \in dlock[d]
      <4> SUFFICES ASSUME NEW d \in Devices, NEW u \in Threads \ {t}, NEW i \in Nat
                   PROVE  <<u, i>> \in dlock'[d] <=> <<u, i>> \in dlock[d]
        OBVIOUS
      <4>1. <<u, i>> # <<t, at[t]>>
        OBVIOUS
      <4>2. QED
        BY <3>1, <4>1, LockOther
    <3>3. QED
      <4>1. /\ use' = use /\ open' = open /\ simplified' = simplified /\ alive' = alive
            /\ bound' = bound /\ arg' = arg /\ at' = at /\ dev' = dev
        BY <1>6, <2>1 DEF UnbindCheck
      <4>2. \A u \in Threads \ {t} : pc'[u] = pc[u] /\ seen'[u] = seen[u]
        BY <1>6, <2>1 DEF UnbindCheck
      <4>3. QED
        BY <3>1, <3>2, <4>1, <4>2
  <2>2. CASE ~Rebound(t, arg[t][at[t]])
    BY <1>6, <2>2 DEF UnbindCheck, SLockable
  <2>3. QED
    BY <2>1, <2>2
<1>7. CASE UnbindAll(t)
  <2>1. /\ use' = use /\ simplified' = simplified /\ open' = open
        /\ \A s \in Streams : bound'[s] \in {bound[s], None}
    BY <1>7 DEF UnbindAll
  <2> SUFFICES ASSUME NEW u \in Threads \ {t} PROVE Spares(t, u)
    BY <2>1
  <2>2. /\ pc'[u] = pc[u] /\ arg'[u] = arg[u] /\ at'[u] = at[u] /\ dev'[u] = dev[u]
        /\ seen'[u] = seen[u]
    BY <1>7 DEF UnbindAll, Forget
  <2>3. \A d \in Devices : \A i \in Nat : <<u, i>> \in dlock'[d] <=> <<u, i>> \in dlock[d]
    BY <1>7 DEF UnbindAll
  <2>4. \A s \in Streams : slock'[s] # slock[s] => slock[s] = t /\ slock'[s] = None
    <3>1. \A s \in Streams : s \in ToSet(arg[t]) \/ s = dev[t] => slock[s] = t
      BY <1>0, <1>7 DEF UnbindAll, ToSet, ThreadInv, StreamsHeld, LocalsFit, Inside, Unbinding
    <3>2. QED
      BY <1>7, <3>1 DEF UnbindAll
  <2>5. \A j \in 1 .. Len(arg[u]) : arg[u][j] \in alive => arg[u][j] \in alive'
    BY <1>7 DEF UnbindAll, Sole
  <2>6. QED
    BY <2>1, <2>2, <2>3, <2>4, <2>5
<1>8. QED
  BY <1>1, <1>2, <1>3, <1>4, <1>5, <1>6, <1>7 DEF Step

LEMMA IterateDisturbs ==
  ASSUME LockInv, NEW t \in Devices, IterateLock(t) \/ IterateMix(t)
  PROVE  Disturbs(t)
<1> USE AudioStreamAssumption
    DEF LockInv, TypeOK, Disturbs, Spares, Threads, locals, locks, binding, Goto
<1>1. CASE IterateLock(t)
  BY <1>1 DEF IterateLock, Lock
<1>2. CASE IterateMix(t)
  BY <1>2 DEF IterateMix, Unlock
<1>3. QED
  BY <1>1, <1>2

-----------------------------------------------------------------------------
(* What a thread's position implies survives the steps of the others.      *)
LEMMA OthersKeepThreadInv ==
  ASSUME LockInv, NEW t \in Threads, Disturbs(t), NEW u \in Threads \ {t}
  PROVE  ThreadInv(u)'
<1>1. ThreadInv(u) /\ Spares(t, u) /\ use' = use
  BY DEF LockInv, Disturbs
<1>2. \A s \in Streams : slock[s] = u => bound'[s] \in {bound[s], None} \/ s \notin alive
  BY DEF Disturbs
<1>3. \A s \in alive \ simplified : s \notin simplified'
  BY DEF Disturbs
<1>4. LocalsFit(u)'
  BY <1>1, AudioStreamAssumption
     DEF ThreadInv, LocalsFit, Spares, Inside, Unbinding, LockInv, TypeOK, Threads
<1>5. \A j \in 1 .. Len(arg[u]) : Inside(u) => arg[u][j] \in Streams /\ arg[u][j] \in alive
  BY <1>1 DEF ThreadInv, LocalsFit, LockInv, TypeOK
<1>6. Inside(u) => at[u] \in Nat \ {0} /\ at[u] <= Len(arg[u]) + 1
  BY <1>1 DEF ThreadInv, LocalsFit, LockInv, TypeOK
<1>7. Len(arg[u]) \in Nat
  BY DEF LockInv, TypeOK
<1>8. StreamsHeld(u)'
  <2>1. u \in Devices => \A s \in Streams : slock'[s] # u
    BY <1>1 DEF ThreadInv, StreamsHeld, Spares
  <2>2. Inside(u)' => \A s \in Streams :
          slock'[s] = u <=> \E j \in 1 .. at'[u] - 1 : arg'[u][j] = s
    BY <1>1 DEF ThreadInv, StreamsHeld, Spares, Inside
  <2>3. ASSUME pc'[u] = "bind", NEW j \in 1 .. at'[u] - 1
        PROVE  Bindable(arg[u][j])'
    <3>1. pc[u] = "bind" /\ Inside(u) /\ j \in 1 .. at[u] - 1 /\ j \in 1 .. Len(arg[u])
      BY <2>3, <1>1, <1>6, <1>7 DEF Spares, Inside
    <3>2. slock[arg[u][j]] = u /\ Bindable(arg[u][j])
          /\ arg[u][j] \in alive /\ arg[u][j] \in Streams
      BY <3>1, <1>1, <1>5 DEF ThreadInv, StreamsHeld
    <3>3. arg'[u] = arg[u]
      BY <1>1 DEF Spares
    <3>4. QED
      BY <3>2, <3>3, <1>2, <1>3 DEF Bindable
  <2>4. QED
    BY <2>1, <2>2, <2>3 DEF StreamsHeld
<1>9. LevelsHeld(u)'
  <2>1. pc'[u] = "mix" => <<u, 0>> \in dlock'[u]
    BY <1>1 DEF ThreadInv, LocalsFit, LevelsHeld, Spares
  <2>2. pc'[u] = "bind" => <<u, 0>> \in dlock'[use'.phys[dev'[u]]]
    <3>1. pc[u] = "bind" => dev[u] \in Logicals
      BY <1>1 DEF ThreadInv, LocalsFit, LockInv, TypeOK
    <3>2. pc[u] = "bind" => use.phys[dev[u]] \in Devices
      BY <3>1, AudioStreamAssumption DEF UseOK, LockInv, TypeOK
    <3>3. QED
      BY <1>1, <3>2 DEF ThreadInv, LevelsHeld, Spares
  <2>3. pc'[u] = "check" /\ seen'[u] # None => <<u, at'[u]>> \in dlock'[use'.phys[seen'[u]]]
    <3>1. seen[u] # None => use.phys[seen[u]] \in Devices
      BY AudioStreamAssumption DEF UseOK, LockInv, TypeOK
    <3>2. at[u] \in Nat
      BY DEF LockInv, TypeOK
    <3>3. QED
      BY <1>1, <3>1, <3>2 DEF ThreadInv, LevelsHeld, Spares
  <2>4. ASSUME Unbinding(u)', NEW j \in 1 .. at'[u] - 1, bound'[arg'[u][j]] # None
        PROVE  <<u, j>> \in dlock'[use'.phys[bound'[arg'[u][j]]]]
    <3>1. Unbinding(u) /\ Inside(u) /\ arg'[u] = arg[u] /\ at'[u] = at[u]
      BY <2>4, <1>1 DEF Spares, Unbinding, Inside
    <3>2. j \in 1 .. at[u] - 1 /\ j \in 1 .. Len(arg[u]) /\ j \in Nat
      BY <3>1, <1>6, <1>7
    <3>3. slock[arg[u][j]] = u /\ arg[u][j] \in alive /\ arg[u][j] \in Streams
      BY <3>1, <3>2, <1>1, <1>5 DEF ThreadInv, StreamsHeld
    <3>4. bound'[arg[u][j]] = bound[arg[u][j]]
      BY <2>4, <3>1, <3>3, <1>2
    <3>5. <<u, j>> \in dlock[use.phys[bound[arg[u][j]]]]
      BY <2>4, <3>1, <3>2, <3>4, <1>1 DEF ThreadInv, LevelsHeld
    <3>6. use.phys[bound[arg[u][j]]] \in Devices
      BY <2>4, <3>1, <3>3, <3>4, AudioStreamAssumption DEF UseOK, LockInv, TypeOK
    <3>7. QED
      BY <3>1, <3>2, <3>4, <3>5, <3>6, <1>1 DEF Spares
  <2>5. QED
    BY <2>1, <2>2, <2>3, <2>4 DEF LevelsHeld
<1>10. QED
  BY <1>4, <1>8, <1>9 DEF ThreadInv

(* An idle thread stays idle when it makes a call that is one step.        *)
LEMMA IdleThreadInv ==
  ASSUME LockInv, NEW t \in Callers, pc[t] = "idle", UNCHANGED <<locals, pc, slock, dlock>>
  PROVE  ThreadInv(t)'
BY AudioStreamAssumption
   DEF LockInv, ThreadInv, LocalsFit, StreamsHeld, LevelsHeld, Inside, Unbinding, locals, Threads

(* A call that is over leaves no duties.                                   *)
LEMMA ForgetThreadInv ==
  ASSUME LockInv, NEW t \in Callers, Forget(t)
  PROVE  ThreadInv(t)'
BY AudioStreamAssumption
   DEF LockInv, TypeOK, ThreadInv, LocalsFit, StreamsHeld, LevelsHeld, Inside, Unbinding, Forget,
       Goto, Threads

LEMMA ArraysAreTyped ==
  ASSUME NEW u \in Uses, NEW array \in u.arrays
  PROVE  /\ array \in Seq(Streams) /\ array # <<>> /\ IsInjective(array)
         /\ Len(array) \in Nat \ {0}
         /\ \A j \in 1 .. Len(array) : array[j] \in Streams
<1>1. array \in Seq(u.streams) /\ array # <<>> /\ IsInjective(array) /\ u.streams \subseteq Streams
  BY AudioStreamAssumption DEF UseOK
<1>2. \A j \in 1 .. Len(array) : array[j] \in Streams
  BY <1>1
<1>3. array \in [1 .. Len(array) -> Streams] /\ Len(array) \in Nat
  BY <1>1, <1>2
<1>4. array \in Seq(Streams)
  BY <1>3
<1>5. QED
  BY <1>1, <1>2, <1>4

LEMMA CallKeepsThreadInv ==
  ASSUME LockInv, NEW t \in Callers, Call(t)
  PROVE  ThreadInv(t)'
<1> USE AudioStreamAssumption DEF locals, locks
<1>1. ASSUME NEW l \in Logicals, Open(t, l) PROVE ThreadInv(t)'
  BY <1>1, IdleThreadInv DEF Open
<1>2. ASSUME NEW l \in Logicals, Close(t, l) PROVE ThreadInv(t)'
  BY <1>2, IdleThreadInv DEF Close
<1>3. ASSUME NEW l \in Logicals, SetPostmix(t, l) PROVE ThreadInv(t)'
  BY <1>3, IdleThreadInv DEF SetPostmix
<1>4. ASSUME NEW l \in Logicals, NEW s \in Streams, OpenStream(t, l, s) PROVE ThreadInv(t)'
  BY <1>4, IdleThreadInv DEF OpenStream
<1>5. ASSUME NEW l \in Logicals, NEW array \in use.arrays, Bind(t, l, array) PROVE ThreadInv(t)'
  <2>1. t \in Threads /\ use \in Uses /\ at[t] = 1 /\ dev[t] = None /\ seen[t] = None
    BY <1>5 DEF Bind, Begin, LockInv, ThreadInv, LocalsFit, Inside, TypeOK, Threads
  <2>2. /\ array \in Seq(Streams) /\ array # <<>> /\ IsInjective(array) /\ Len(array) \in Nat \ {0}
        /\ \A j \in 1 .. Len(array) : array[j] \in alive
    BY <2>1, <1>5, ArraysAreTyped DEF Bind, Begin, ToSet
  <2>3. /\ pc'[t] = "bind" /\ arg'[t] = array /\ at'[t] = 1 /\ dev'[t] = l /\ seen'[t] = None
        /\ alive' = alive /\ open' = open /\ simplified' = simplified /\ slock' = slock
        /\ use' = use /\ l \in open \ simplified
    BY <2>1, <1>5 DEF Bind, Begin, Goto, LockInv, TypeOK
  <2>4. LocalsFit(t)'
    BY <2>2, <2>3 DEF LocalsFit, Inside, Unbinding, Threads
  <2>5. StreamsHeld(t)'
    BY <2>1, <2>3, <1>5 DEF StreamsHeld, Bind, Begin, Holding, Inside
  <2>6. use.phys[l] \in Devices
    BY <2>1 DEF UseOK
  <2>7. <<t, 0>> \in dlock'[use'.phys[l]]
    BY <2>3, <2>6, <1>5 DEF Bind, Lock, LockInv, TypeOK
  <2>8. LevelsHeld(t)'
    BY <2>3, <2>7 DEF LevelsHeld, Unbinding
  <2>9. QED
    BY <2>4, <2>5, <2>8 DEF ThreadInv
<1>6. ASSUME NEW s \in Streams, Create(t, s) PROVE ThreadInv(t)'
  BY <1>6, IdleThreadInv DEF Create
<1>7. ASSUME NEW s \in Streams, SetFormat(t, s) PROVE ThreadInv(t)'
  BY <1>7, IdleThreadInv DEF SetFormat
<1>8. ASSUME NEW s \in Streams, Destroy(t, s) PROVE ThreadInv(t)'
  <2>1. t \in Threads /\ at[t] = 1 /\ dev[t] = None /\ seen[t] = None
    BY <1>8 DEF Destroy, LockInv, ThreadInv, LocalsFit, Inside, TypeOK, Threads
  <2>2. /\ pc'[t] = "peek" /\ arg'[t] = <<s>> /\ at'[t] = 1 /\ dev'[t] = s /\ seen'[t] = None
        /\ alive' = alive /\ open' = open /\ simplified' = simplified /\ slock' = slock
        /\ use' = use /\ s \in alive
    BY <2>1, <1>8 DEF Destroy, Goto, LockInv, TypeOK
  <2>3. IsInjective(<<s>>) /\ Len(<<s>>) = 1 /\ <<s>> # <<>>
    BY DEF IsInjective
  <2>4. LocalsFit(t)'
    BY <2>2, <2>3 DEF LocalsFit, Inside, Unbinding, Threads
  <2>5. StreamsHeld(t)'
    BY <2>1, <2>2, <1>8 DEF StreamsHeld, Destroy, Holding, Inside
  <2>6. LevelsHeld(t)'
    BY <2>2 DEF LevelsHeld, Unbinding
  <2>7. QED
    BY <2>4, <2>5, <2>6 DEF ThreadInv
<1>9. ASSUME NEW s \in Streams, DestroySimplified(t, s) PROVE ThreadInv(t)'
  BY <1>9, IdleThreadInv DEF DestroySimplified
<1>10. ASSUME NEW array \in use.arrays, Unbind(t, array) PROVE ThreadInv(t)'
  <2>1. t \in Threads /\ use \in Uses /\ at[t] = 1 /\ seen[t] = None
    BY <1>10 DEF Unbind, Begin, LockInv, ThreadInv, LocalsFit, Inside, TypeOK, Threads
  <2>2. /\ array \in Seq(Streams) /\ array # <<>> /\ IsInjective(array) /\ Len(array) \in Nat \ {0}
        /\ \A j \in 1 .. Len(array) : array[j] \in alive
    BY <2>1, <1>10, ArraysAreTyped DEF Unbind, Begin, ToSet
  <2>3. /\ pc'[t] = "peek" /\ arg'[t] = array /\ at'[t] = 1 /\ dev'[t] = None /\ seen'[t] = None
        /\ alive' = alive /\ slock' = slock
    BY <2>1, <1>10 DEF Unbind, Begin, Goto, LockInv, TypeOK, locks
  <2>4. LocalsFit(t)'
    BY <2>2, <2>3 DEF LocalsFit, Inside, Unbinding, Threads
  <2>5. StreamsHeld(t)'
    BY <2>1, <2>3, <1>10 DEF StreamsHeld, Unbind, Begin, Holding, Inside
  <2>6. LevelsHeld(t)'
    BY <2>3 DEF LevelsHeld, Unbinding
  <2>7. QED
    BY <2>4, <2>5, <2>6 DEF ThreadInv
<1>11. QED
  BY <1>1, <1>2, <1>3, <1>4, <1>5, <1>6, <1>7, <1>8, <1>9, <1>10 DEF Call

LEMMA StepKeepsThreadInv ==
  ASSUME LockInv, NEW t \in Callers, Step(t)
  PROVE  ThreadInv(t)'
<1> DEFINE s == arg[t][at[t]]
           n == Len(arg[t])
<1> USE AudioStreamAssumption
<1>0. /\ t \in Threads /\ t \notin Devices /\ ThreadInv(t) /\ Inside(t)
      /\ at[t] \in Nat \ {0} /\ arg[t] \in Seq(Streams) /\ n \in Nat /\ at[t] <= n + 1
      /\ \A j \in 1 .. n : arg[t][j] \in alive /\ arg[t][j] \in Streams
      /\ at[t] <= n => s \in Streams
  <2>1. /\ t \in Threads /\ t \notin Devices /\ ThreadInv(t) /\ Inside(t)
        /\ at[t] \in Nat \ {0} /\ arg[t] \in Seq(Streams) /\ n \in Nat
    BY DEF Threads, LockInv, TypeOK, Inside, Step, BindLock, BindFail, BindChain,
           UnbindPeek, UnbindDevice, UnbindCheck, UnbindAll
  <2>2. QED
    BY <2>1 DEF ThreadInv, LocalsFit
<1>1. CASE BindLock(t)
  <2>1. /\ pc[t] = "bind" /\ pc' = pc /\ arg' = arg /\ dev' = dev /\ seen' = seen /\ alive' = alive
        /\ open' = open /\ simplified' = simplified /\ bound' = bound /\ dlock' = dlock
        /\ use' = use /\ at'[t] = at[t] + 1 /\ at[t] <= n /\ Bindable(s) /\ s \in Streams
    BY <1>0, <1>1 DEF BindLock, binding, LockInv, TypeOK
  <2>2. LocalsFit(t)'
    BY <1>0, <2>1 DEF ThreadInv, LocalsFit, Inside, Unbinding
  <2>3. \A x \in Streams : slock'[x] = t <=> x = s \/ slock[x] = t
    BY <1>0, <1>1, <2>1 DEF BindLock, SLockable, LockInv, TypeOK
  <2>4. \A x \in Streams :
          x = s \/ slock[x] = t <=> \E j \in 1 .. (at[t] + 1) - 1 : arg[t][j] = x
    BY <1>0, <2>1 DEF ThreadInv, StreamsHeld
  <2>5. \A j \in 1 .. (at[t] + 1) - 1 : Bindable(arg[t][j])
    BY <1>0, <2>1 DEF ThreadInv, StreamsHeld
  <2>6. StreamsHeld(t)'
    BY <1>0, <2>1, <2>3, <2>4, <2>5 DEF StreamsHeld, Bindable, Inside
  <2>7. LevelsHeld(t)'
    BY <1>0, <2>1 DEF ThreadInv, LevelsHeld, Unbinding
  <2>8. QED
    BY <2>2, <2>6, <2>7 DEF ThreadInv
<1>2. CASE BindFail(t)
  BY <1>2, ForgetThreadInv DEF BindFail
<1>3. CASE BindChain(t)
  BY <1>3, ForgetThreadInv DEF BindChain
<1>4. CASE UnbindPeek(t)
  <2>1. /\ pc[t] = "peek" /\ pc'[t] = (IF bound[s] = None THEN "check" ELSE "device")
        /\ seen'[t] = bound[s] /\ arg' = arg /\ dev' = dev /\ at' = at /\ alive' = alive
        /\ open' = open /\ simplified' = simplified /\ bound' = bound /\ dlock' = dlock
        /\ slock' = slock /\ use' = use
    BY <1>0, <1>4 DEF UnbindPeek, Peek, binding, LockInv, TypeOK, Goto
  <2>2. LocalsFit(t)'
    BY <1>0, <2>1 DEF ThreadInv, LocalsFit, Inside, Unbinding
  <2>3. StreamsHeld(t)'
    BY <1>0, <2>1 DEF ThreadInv, StreamsHeld, Inside
  <2>4. LevelsHeld(t)'
    BY <1>0, <2>1 DEF ThreadInv, LevelsHeld, Unbinding
  <2>5. QED
    BY <2>2, <2>3, <2>4 DEF ThreadInv
<1>5. CASE UnbindDevice(t)
  <2>1. /\ pc[t] = "device" /\ pc'[t] = "check" /\ arg' = arg /\ dev' = dev /\ at' = at
        /\ seen' = seen /\ alive' = alive /\ open' = open /\ simplified' = simplified
        /\ bound' = bound /\ slock' = slock /\ use' = use
        /\ dlock' = Lock(use.phys[seen[t]], t, at[t])
    BY <1>0, <1>5 DEF UnbindDevice, binding, locals, LockInv, TypeOK, Goto
  <2>2. LocalsFit(t)'
    BY <1>0, <2>1 DEF ThreadInv, LocalsFit, Inside, Unbinding
  <2>3. StreamsHeld(t)'
    BY <1>0, <2>1 DEF ThreadInv, StreamsHeld, Inside
  <2>4. use.phys[seen[t]] \in Devices
    BY <1>0, <2>1 DEF ThreadInv, LocalsFit, LockInv, TypeOK, UseOK
  <2>5. <<t, at[t]>> \in dlock'[use.phys[seen[t]]]
    BY <2>1, <2>4 DEF Lock, LockInv, TypeOK
  <2>6. \A d \in Devices : dlock[d] \subseteq dlock'[d]
    BY <2>1 DEF Lock, LockInv, TypeOK
  <2>7. \A l \in Logicals : use.phys[l] \in Devices
    BY DEF UseOK, LockInv, TypeOK
  <2>8. LevelsHeld(t)'
    <3>1. ASSUME NEW j \in 1 .. at[t] - 1, bound[arg[t][j]] # None
          PROVE  <<t, j>> \in dlock'[use.phys[bound[arg[t][j]]]]
      <4>1. bound[arg[t][j]] \in Logicals
        BY <3>1, <1>0 DEF LockInv, TypeOK
      <4>2. QED
        BY <3>1, <4>1, <1>0, <2>1, <2>6, <2>7 DEF ThreadInv, LevelsHeld, Unbinding
    <3>2. QED
      BY <2>1, <2>5, <3>1 DEF LevelsHeld, Unbinding
  <2>9. QED
    BY <2>2, <2>3, <2>8 DEF ThreadInv
<1>6. CASE UnbindCheck(t)
  <2>1. /\ pc[t] = "check" /\ arg' = arg /\ dev' = dev /\ seen'[t] = None /\ alive' = alive
        /\ open' = open /\ simplified' = simplified /\ bound' = bound /\ use' = use
        /\ SLockable(s, t) /\ at[t] <= n /\ s \in Streams
    BY <1>0, <1>6 DEF UnbindCheck, binding, LockInv, TypeOK, ThreadInv, LocalsFit
  <2>2. CASE Rebound(t, s)
    <3>1. /\ pc'[t] = "peek" /\ at' = at /\ slock' = slock
          /\ dlock' \in {dlock, Unlock(use.phys[seen[t]], t, at[t])}
      BY <1>0, <1>6, <2>2 DEF UnbindCheck, LockInv, TypeOK, Goto
    <3>2. LocalsFit(t)'
      BY <1>0, <2>1, <3>1 DEF ThreadInv, LocalsFit, Inside, Unbinding
    <3>3. StreamsHeld(t)'
      BY <1>0, <2>1, <3>1 DEF ThreadInv, StreamsHeld, Inside
    <3>4. \A d \in Devices : \A j \in 1 .. at[t] - 1 :
            <<t, j>> \in dlock[d] => <<t, j>> \in dlock'[d]
      <4> SUFFICES ASSUME NEW d \in Devices, NEW j \in 1 .. at[t] - 1
                   PROVE  <<t, j>> \in dlock[d] => <<t, j>> \in dlock'[d]
        OBVIOUS
      <4>1. <<t, j>> # <<t, at[t]>>
        BY <1>0
      <4>2. QED
        BY <3>1, <4>1, LockOther DEF LockInv
    <3>5. \A j \in 1 .. at[t] - 1 :
            bound[arg[t][j]] # None => use.phys[bound[arg[t][j]]] \in Devices
      BY <1>0 DEF UseOK, LockInv, TypeOK
    <3>6. LevelsHeld(t)'
      BY <1>0, <2>1, <3>1, <3>4, <3>5 DEF ThreadInv, LevelsHeld, Unbinding
    <3>7. QED
      BY <3>2, <3>3, <3>6 DEF ThreadInv
  <2>3. CASE ~Rebound(t, s)
    <3>1. /\ pc'[t] = (IF at[t] = n THEN "unbind" ELSE "peek") /\ at'[t] = at[t] + 1
          /\ slock' = [slock EXCEPT ![s] = t] /\ dlock' = dlock /\ bound[s] = seen[t]
      BY <1>0, <1>6, <2>3 DEF UnbindCheck, LockInv, TypeOK, Goto, Rebound
    <3>2. LocalsFit(t)'
      BY <1>0, <2>1, <3>1 DEF ThreadInv, LocalsFit, Inside, Unbinding
    <3>3. \A x \in Streams : slock'[x] = t <=> x = s \/ slock[x] = t
      BY <1>0, <2>1, <3>1 DEF SLockable, LockInv, TypeOK
    <3>4. \A x \in Streams :
            x = s \/ slock[x] = t <=> \E j \in 1 .. (at[t] + 1) - 1 : arg[t][j] = x
      BY <1>0, <2>1 DEF ThreadInv, StreamsHeld
    <3>5. StreamsHeld(t)'
      BY <1>0, <2>1, <3>1, <3>3, <3>4 DEF StreamsHeld, Inside
    <3>6. \A j \in 1 .. (at[t] + 1) - 1 : bound[arg[t][j]] # None =>
            <<t, j>> \in dlock[use.phys[bound[arg[t][j]]]]
      <4> SUFFICES ASSUME NEW j \in 1 .. (at[t] + 1) - 1, bound[arg[t][j]] # None
                   PROVE  <<t, j>> \in dlock[use.phys[bound[arg[t][j]]]]
        OBVIOUS
      <4>1. CASE j = at[t]
        BY <1>0, <2>1, <3>1, <4>1 DEF ThreadInv, LevelsHeld
      <4>2. CASE j # at[t]
        <5>1. j \in 1 .. at[t] - 1
          BY <1>0, <4>2
        <5>2. QED
          BY <1>0, <2>1, <5>1 DEF ThreadInv, LevelsHeld, Unbinding
      <4>3. QED
        BY <4>1, <4>2
    <3>7. LevelsHeld(t)'
      BY <1>0, <2>1, <3>1, <3>6 DEF LevelsHeld, Unbinding
    <3>8. QED
      BY <3>2, <3>5, <3>7 DEF ThreadInv
  <2>4. QED
    BY <2>2, <2>3
<1>7. CASE UnbindAll(t)
  BY <1>7, ForgetThreadInv DEF UnbindAll
<1>8. QED
  BY <1>1, <1>2, <1>3, <1>4, <1>5, <1>6, <1>7 DEF Step

LEMMA IterateKeepsThreadInv ==
  ASSUME LockInv, NEW t \in Devices, IterateLock(t) \/ IterateMix(t)
  PROVE  ThreadInv(t)'
<1> USE AudioStreamAssumption DEF locals, Threads
<1>1. /\ ThreadInv(t) /\ arg' = arg /\ at' = at /\ dev' = dev /\ seen' = seen /\ slock' = slock
      /\ pc[t] \in {"idle", "mix"} /\ pc'[t] \in {"idle", "mix"}
  BY DEF IterateLock, IterateMix, Goto, LockInv, TypeOK
<1>2. LocalsFit(t)'
  BY <1>1 DEF ThreadInv, LocalsFit, Inside, Unbinding
<1>3. StreamsHeld(t)'
  BY <1>1 DEF ThreadInv, StreamsHeld, Inside
<1>4. pc'[t] = "mix" => <<t, 0>> \in dlock'[t]
  BY DEF IterateLock, IterateMix, Goto, Lock, LockInv, TypeOK
<1>5. QED
  BY <1>1, <1>2, <1>3, <1>4 DEF ThreadInv, LevelsHeld, Unbinding

-----------------------------------------------------------------------------
(* A step is one thread's: a call, a step of a call, or its iteration.     *)
ActsBy(t) ==
  \/ t \in Callers /\ (Call(t) \/ Step(t))
  \/ t \in Devices /\ (IterateLock(t) \/ IterateMix(t))

LEMMA ThreadInvKept ==
  ASSUME LockInv, NEW t \in Threads, ActsBy(t)
  PROVE  Disturbs(t) /\ \A u \in Threads : ThreadInv(u)'
<1>1. Disturbs(t) /\ ThreadInv(t)'
  BY CallDisturbs, StepDisturbs, IterateDisturbs, CallKeepsThreadInv, StepKeepsThreadInv,
     IterateKeepsThreadInv DEF ActsBy
<1>2. QED
  BY <1>1, OthersKeepThreadInv

(* Types.                                                                  *)
LEMMA TypesKept ==
  ASSUME LockInv, NEW t \in Threads, ActsBy(t)
  PROVE  TypeOK'
<1> USE AudioStreamAssumption
    DEF LockInv, TypeOK, Threads, locals, locks, binding, Goto, Labels
<1>0. \A D \in SUBSET Devices : Update(t, D) =>
        /\ simple' \subseteq Devices
        /\ dst' \in [Streams -> (Devices \X {"native", "float"}) \cup {None}]
  BY UpdateTypes
<1>1. \A l \in Logicals : use.phys[l] \in Devices
  BY DEF UseOK
<1>2. CASE t \in Callers /\ Call(t)
  <2>0. t \in Callers
    BY <1>2
  <2>1. ASSUME NEW l \in Logicals, Open(t, l) PROVE TypeOK'
    BY <1>0, <1>1, <2>1 DEF Open
  <2>2. ASSUME NEW l \in Logicals, Close(t, l) PROVE TypeOK'
    BY <1>0, <1>1, <2>2 DEF Close, DestroyLogical
  <2>3. ASSUME NEW l \in Logicals, SetPostmix(t, l) PROVE TypeOK'
    BY <1>0, <1>1, <2>3 DEF SetPostmix
  <2>4. ASSUME NEW l \in Logicals, NEW s \in Streams, OpenStream(t, l, s) PROVE TypeOK'
    BY <1>0, <1>1, <2>4 DEF OpenStream
  <2>5. ASSUME NEW l \in Logicals, NEW array \in use.arrays, Bind(t, l, array) PROVE TypeOK'
    <3>1. array \in Seq(Streams)
      BY ArraysAreTyped
    <3>2. Lock(use.phys[l], t, 0) \in [Devices -> SUBSET (Threads \X Nat)]
      BY LockTypes
    <3>3. QED
      BY <2>5, <3>1, <3>2 DEF Bind, Begin
  <2>6. ASSUME NEW s \in Streams, Create(t, s) PROVE TypeOK'
    BY <2>6 DEF Create
  <2>7. ASSUME NEW s \in Streams, SetFormat(t, s) PROVE TypeOK'
    BY <2>7 DEF SetFormat
  <2>8. ASSUME NEW s \in Streams, Destroy(t, s) PROVE TypeOK'
    <3>1. <<s>> \in Seq(Streams)
      OBVIOUS
    <3>2. QED
      BY <2>8, <3>1 DEF Destroy
  <2>9. ASSUME NEW s \in Streams, DestroySimplified(t, s) PROVE TypeOK'
    <3>1. CASE bound[s] = None
      BY <2>9, <3>1 DEF DestroySimplified
    <3>2. CASE bound[s] \in Logicals
      <4>1. DestroyLogical(t, bound[s])
        BY <2>9, <3>2 DEF DestroySimplified
      <4>2. /\ simple' \subseteq Devices
            /\ dst' \in [Streams -> (Devices \X {"native", "float"}) \cup {None}]
        <5>1. Update(t, {use.phys[bound[s]]}) /\ {use.phys[bound[s]]} \in SUBSET Devices
          BY <1>1, <3>2, <4>1 DEF DestroyLogical
        <5>2. QED
          BY <1>0, <5>1
      <4>3. QED
        BY <2>9, <4>1, <4>2 DEF DestroySimplified, DestroyLogical
    <3>3. QED
      BY <3>1, <3>2
  <2>10. ASSUME NEW array \in use.arrays, Unbind(t, array) PROVE TypeOK'
    BY <2>10, ArraysAreTyped DEF Unbind, Begin
  <2>11. QED
    BY <1>2, <2>1, <2>2, <2>3, <2>4, <2>5, <2>6, <2>7, <2>8, <2>9, <2>10 DEF Call
<1>3. CASE t \in Callers /\ Step(t)
  <2>0. ThreadInv(t)
    OBVIOUS
  <2>1. CASE BindLock(t)
    BY <2>1 DEF BindLock
  <2>2. CASE BindFail(t)
    <3>1. dev[t] \in Logicals
      BY <2>0, <2>2 DEF BindFail, ThreadInv, LocalsFit
    <3>2. QED
      BY <1>0, <1>1, <2>2, <3>1 DEF BindFail, Forget, Unlock
  <2>3. CASE BindChain(t)
    <3>1. dev[t] \in Logicals /\ ToSet(arg[t]) \subseteq Streams
      BY <2>0, <2>3 DEF BindChain, ThreadInv, LocalsFit, ToSet
    <3>2. QED
      BY <1>0, <1>1, <2>3, <3>1 DEF BindChain, Forget, Unlock
  <2>4. CASE UnbindPeek(t)
    <3>1. arg[t][at[t]] \in Streams
      BY <2>0, <2>4 DEF UnbindPeek, ThreadInv, LocalsFit
    <3>2. QED
      BY <2>4, <3>1 DEF UnbindPeek, Peek
  <2>5. CASE UnbindDevice(t)
    <3>1. Lock(use.phys[seen[t]], t, at[t]) \in [Devices -> SUBSET (Threads \X Nat)]
      BY LockTypes
    <3>2. QED
      BY <2>5, <3>1 DEF UnbindDevice
  <2>6. CASE UnbindCheck(t)
    <3>1. Unlock(use.phys[seen[t]], t, at[t]) \in [Devices -> SUBSET (Threads \X Nat)]
      BY LockTypes
    <3>2. CASE Rebound(t, arg[t][at[t]])
      BY <2>6, <3>1, <3>2 DEF UnbindCheck
    <3>3. CASE ~Rebound(t, arg[t][at[t]])
      <4>1. /\ at' \in [Threads -> Nat \ {0}] /\ slock' \in [Streams -> Threads \cup {None}]
            /\ pc' \in [Threads -> Labels] /\ seen' \in [Threads -> Logicals \cup {None}]
        <5>1. at' = [at EXCEPT ![t] = @ + 1] /\ at[t] \in Nat
          BY <2>6, <3>3 DEF UnbindCheck
        <5>2. slock' = [slock EXCEPT ![arg[t][at[t]]] = t] /\ seen' = [seen EXCEPT ![t] = None]
          BY <2>6, <3>3 DEF UnbindCheck
        <5>3. pc' = [pc EXCEPT ![t] = "unbind"] \/ pc' = [pc EXCEPT ![t] = "peek"]
          BY <2>6, <3>3 DEF UnbindCheck
        <5>4. QED
          <6>1. at' \in [Threads -> Nat \ {0}]
            BY <5>1
          <6>2. slock' \in [Streams -> Threads \cup {None}] /\ seen' \in [Threads -> Logicals \cup {None}]
            BY <5>2
          <6>3. pc' \in [Threads -> Labels]
            BY <5>3
          <6>4. QED
            BY <6>1, <6>2, <6>3
      <4>2. QED
        BY <2>6, <3>3, <4>1 DEF UnbindCheck
    <3>4. QED
      BY <3>2, <3>3
  <2>7. CASE UnbindAll(t)
    <3>1. {use.phys[bound[s]] : s \in {s \in ToSet(arg[t]) : bound[s] # None}} \subseteq Devices
      BY <1>1, <2>0, <2>7 DEF UnbindAll, ThreadInv, LocalsFit, ToSet
    <3>2. /\ simple' \subseteq Devices
          /\ dst' \in [Streams -> (Devices \X {"native", "float"}) \cup {None}]
      BY <1>0, <2>7, <3>1 DEF UnbindAll
    <3>3. dlock' \in [Devices -> SUBSET (Threads \X Nat)]
      BY <2>7 DEF UnbindAll
    <3>4. /\ list' \in [Logicals -> SUBSET Streams]
          /\ bound' \in [Streams -> Logicals \cup {None}]
          /\ slock' \in [Streams -> Threads \cup {None}]
      BY <2>7 DEF UnbindAll
    <3>5. QED
      BY <2>7, <3>2, <3>3, <3>4 DEF UnbindAll, Forget
  <2>8. QED
    BY <1>3, <2>1, <2>2, <2>3, <2>4, <2>5, <2>6, <2>7 DEF Step
<1>4. CASE t \in Devices /\ (IterateLock(t) \/ IterateMix(t))
  <2>1. CASE IterateLock(t)
    BY <1>4, <2>1 DEF IterateLock, Lock
  <2>2. CASE IterateMix(t)
    BY <1>4, <2>2 DEF IterateMix, Unlock
  <2>3. QED
    BY <1>4, <2>1, <2>2
<1>5. QED
  BY <1>2, <1>3, <1>4 DEF ActsBy

(* The owner of a device's lock, the stream being destroyed, the bindings. *)
LEMMA OwnerKept ==
  ASSUME LockInv, NEW t \in Threads, ActsBy(t)
  PROVE  OneOwner'
<1> USE DEF LockInv, locks, locals
<1>1. \A d \in Devices : \A x \in dlock'[d] :
        x \in dlock[d] \/ (x[1] = t /\ \A y \in dlock[d] : y[1] = t)
  <2> SUFFICES ASSUME NEW d \in Devices, NEW x \in dlock'[d], x \notin dlock[d]
               PROVE  x[1] = t /\ \A y \in dlock[d] : y[1] = t
    OBVIOUS
  <2>1. \A e, i : Lockable(e, t) /\ dlock' = Lock(e, t, i) => x[1] = t /\ Lockable(d, t)
    <3> SUFFICES ASSUME NEW e, NEW i, Lockable(e, t), dlock' = Lock(e, t, i)
                 PROVE  x[1] = t /\ Lockable(d, t)
      OBVIOUS
    <3>1. x = <<t, i>>
      BY LockOther
    <3>2. e = d
      BY DEF Lock, TypeOK
    <3>3. QED
      BY <3>1, <3>2
  <2>2. \A e, i : dlock' # Unlock(e, t, i)
    BY DEF Unlock, TypeOK
  <2>3. CASE t \in Callers /\ Call(t)
    <3>1. dlock' # dlock
      OBVIOUS
    <3>2. PICK l \in Logicals, array \in use.arrays : Bind(t, l, array)
      BY <2>3, <3>1 DEF Call, Open, Close, SetPostmix, OpenStream, Create, SetFormat, Destroy,
                        DestroySimplified, Unbind
    <3>3. QED
      BY <2>1, <3>2 DEF Bind, Lockable
  <2>4. CASE t \in Callers /\ Step(t)
    <3>1. UnbindDevice(t)
      BY <2>2, <2>4 DEF Step, BindLock, BindFail, BindChain,
         UnbindPeek, UnbindCheck, UnbindAll, TypeOK
    <3>2. QED
      BY <2>1, <3>1 DEF UnbindDevice, Lockable
  <2>5. CASE t \in Devices /\ (IterateLock(t) \/ IterateMix(t))
    BY <2>1, <2>2, <2>5 DEF IterateLock, IterateMix, Lockable
  <2>6. QED
    BY <2>3, <2>4, <2>5 DEF ActsBy
<1>2. QED
  BY <1>1 DEF OneOwner

LEMMA SoleKept ==
  ASSUME LockInv, NEW t \in Threads, ActsBy(t)
  PROVE  Sole'
<1> USE AudioStreamAssumption DEF LockInv, locals
<1>0. \A u \in Threads \ {t} : arg'[u] = arg[u] /\ dev'[u] = dev[u]
  BY ThreadInvKept DEF Disturbs, Spares
<1>1. ASSUME arg'[t] = arg[t], dev'[t] = dev[t] PROVE Sole'
  BY <1>0, <1>1 DEF Sole
<1>2. ASSUME arg'[t] = <<>>, dev'[t] = None PROVE Sole'
  BY <1>0, <1>2 DEF Sole
<1>3. ASSUME NEW array \in use.arrays, NEW l \in Logicals \cup {None}, NEW label, NEW x \in Callers,
             t = x, Begin(t, label, array, l)
      PROVE  Sole'
  <2>1. arg'[t] = array /\ dev'[t] = l
    BY <1>3 DEF Begin, TypeOK
  <2>2. \A u \in Threads : \A j \in 1 .. Len(array) : dev[u] # array[j]
    <3>1. array \in Seq(Streams)
      BY ArraysAreTyped DEF TypeOK
    <3>2. QED
      <4>1. \A j \in 1 .. Len(array) : array[j] \in ToSet(array)
        BY <3>1 DEF ToSet
      <4>2. QED
        BY <1>3, <4>1 DEF Begin, InUse
  <2>3. l \notin Streams
    OBVIOUS
  <2>4. QED
    BY <1>0, <2>1, <2>2, <2>3 DEF Sole
<1>4. ASSUME NEW s \in Streams, t \in Callers, Destroy(t, s) PROVE Sole'
  <2>1. arg'[t] = <<s>> /\ dev'[t] = s
    BY <1>4 DEF Destroy, TypeOK
  <2>2. \A u \in Threads : \A j \in 1 .. Len(arg[u]) : arg[u][j] # s
    BY <1>4 DEF Destroy, Handled, ToSet, TypeOK
  <2>3. \A u \in Threads : dev[u] # s
    <3> SUFFICES ASSUME NEW u \in Threads, dev[u] = s PROVE FALSE
      OBVIOUS
    <3>1. arg[u] = <<s>>
      BY DEF ThreadInv, LocalsFit, Inside, Unbinding, TypeOK, Labels
    <3>2. QED
      BY <2>2, <3>1
  <2>4. QED
    BY <1>0, <2>1, <2>2, <2>3 DEF Sole
<1>5. CASE t \in Callers /\ Call(t)
  BY <1>1, <1>3, <1>4, <1>5 DEF Call, Open, Close, SetPostmix, OpenStream, Create, SetFormat,
        DestroySimplified, Bind, Unbind
<1>6. CASE t \in Callers /\ Step(t)
  BY <1>1, <1>2, <1>6 DEF Step, BindLock, BindFail, BindChain, UnbindPeek, UnbindDevice,
        UnbindCheck, UnbindAll, Forget, TypeOK
<1>7. CASE t \in Devices /\ (IterateLock(t) \/ IterateMix(t))
  BY <1>1, <1>7 DEF IterateLock, IterateMix
<1>8. QED
  BY <1>5, <1>6, <1>7 DEF ActsBy

LEMMA BoundAliveKept ==
  ASSUME LockInv, NEW t \in Threads, ActsBy(t)
  PROVE  BoundAlive'
<1> USE AudioStreamAssumption DEF LockInv, BoundAlive, binding
<1>1. ASSUME bound' = bound, list' = list, alive \subseteq alive', open \subseteq open'
      PROVE  BoundAlive'
  BY <1>1
<1>2. ASSUME NEW l \in Logicals, DestroyLogical(t, l) PROVE
        /\ \A s \in Streams : bound'[s] # None => bound'[s] = bound[s] /\ s \in list'[bound'[s]]
        /\ \A m \in Logicals : list'[m] # {} => m \in open'
  BY <1>2 DEF DestroyLogical, TypeOK
<1>3. CASE t \in Callers /\ Call(t)
  <2>1. ASSUME NEW l \in Logicals, NEW s \in Streams, OpenStream(t, l, s) PROVE BoundAlive'
    BY <2>1 DEF OpenStream, TypeOK
  <2>2. ASSUME NEW s \in Streams, DestroySimplified(t, s) PROVE BoundAlive'
    <3>1. CASE bound[s] = None
      BY <2>2, <3>1 DEF DestroySimplified
    <3>2. CASE bound[s] # None
      <4>1. /\ DestroyLogical(t, bound[s]) /\ bound[s] \in Logicals /\ alive' = alive \ {s}
            /\ bound'[s] = None
        BY <2>2, <3>2 DEF DestroySimplified, DestroyLogical, TypeOK
      <4>2. QED
        BY <1>2, <4>1
    <3>3. QED
      BY <3>1, <3>2
  <2>3. ASSUME NEW l \in Logicals, Close(t, l) PROVE BoundAlive'
    BY <1>2, <2>3 DEF Close
  <2>4. QED
    BY <1>1, <1>3, <2>1, <2>2, <2>3
       DEF Call, Open, SetPostmix, Create, SetFormat, Destroy, Bind, Unbind, Begin
<1>4. CASE t \in Callers /\ Step(t)
  <2>1. CASE BindChain(t)
    <3>1. ToSet(arg[t]) \subseteq alive /\ dev[t] \in open
      BY <2>1 DEF BindChain, ThreadInv, LocalsFit, Inside, ToSet, TypeOK
    <3>2. dev[t] \in Logicals
      BY <3>1 DEF TypeOK
    <3>3. /\ bound' = [s \in Streams |-> IF s \in ToSet(arg[t]) THEN dev[t] ELSE bound[s]]
          /\ list' = [list EXCEPT ![dev[t]] = @ \cup ToSet(arg[t])]
          /\ open' = open /\ alive' = alive
      BY <2>1 DEF BindChain
    <3>4. QED
      BY <3>1, <3>2, <3>3 DEF TypeOK
  <2>2. CASE UnbindAll(t)
    <3>1. /\ dev[t] \in alive => dev[t] \in ToSet(arg[t])
          /\ bound' = [s \in Streams |-> IF s \in ToSet(arg[t]) /\ bound[s] # None THEN None
                                         ELSE bound[s]]
          /\ alive' = alive \ {dev[t]} /\ open' = open
          /\ \A l \in Logicals : \A s \in list[l] :
               s \in list'[l] \/ (s \in ToSet(arg[t]) /\ bound[s] # None)
          /\ \A l \in Logicals : list'[l] \subseteq list[l]
      <4>1. dev[t] \in Streams => arg[t] = <<dev[t]>>
        BY <2>2 DEF UnbindAll, ThreadInv, LocalsFit, Unbinding, TypeOK
      <4>2. dev[t] \in Streams => dev[t] \in ToSet(arg[t])
        BY <4>1 DEF ToSet
      <4>3. QED
        BY <2>2, <4>2 DEF UnbindAll, TypeOK
    <3>2. QED
      BY <3>1 DEF TypeOK
  <2>3. QED
    BY <1>1, <1>4, <2>1, <2>2
       DEF Step, BindLock, BindFail, UnbindPeek, UnbindDevice, UnbindCheck
<1>5. CASE t \in Devices /\ (IterateLock(t) \/ IterateMix(t))
  BY <1>1, <1>5 DEF IterateLock, IterateMix
<1>6. QED
  BY <1>3, <1>4, <1>5 DEF ActsBy

(* The threads' invariant.                                                 *)
LEMMA LockInvKept == LockInv /\ [Next]_vars => LockInv'
<1>1. ASSUME LockInv, NEW t \in Threads, ActsBy(t) PROVE LockInv'
  BY <1>1, ThreadInvKept, TypesKept, OwnerKept, SoleKept, BoundAliveKept DEF LockInv
<1>2. ASSUME LockInv, UNCHANGED vars PROVE LockInv'
  <2>1. TypeOK' /\ OneOwner' /\ Sole' /\ BoundAlive'
    BY <1>2 DEF vars, locals, locks, binding, LockInv, TypeOK, OneOwner, Sole, BoundAlive
  <2>2. ASSUME NEW t \in Threads PROVE ThreadInv(t)'
    <3>1. LocalsFit(t)'
      BY <1>2 DEF vars, locals, locks, LockInv, ThreadInv, LocalsFit, Inside, Unbinding
    <3>2. StreamsHeld(t)'
      BY <1>2 DEF vars, locals, locks, binding, LockInv, ThreadInv, StreamsHeld, Inside, Bindable
    <3>3. LevelsHeld(t)'
      BY <1>2 DEF vars, locals, locks, binding, LockInv, ThreadInv, LevelsHeld, Unbinding
    <3>4. QED
      BY <3>1, <3>2, <3>3 DEF ThreadInv
  <2>3. QED
    BY <2>1, <2>2 DEF LockInv
<1>3. QED
  BY <1>1, <1>2 DEF Next, ActsBy, Threads

-----------------------------------------------------------------------------
(* The lists.  Given the threads' invariant, three facts are left.         *)
OnlyInItsList == \A l \in Logicals : \A s \in list[l] : bound[s] = l
OwnStreamOnly == \A s \in Streams : bound[s] \in simplified => s \in simplified
NotSimplified == \A t \in Threads : Unbinding(t) =>
                   \A j \in 1 .. Len(arg[t]) : arg[t][j] \notin simplified

LEMMA ListInvParts ==
  ASSUME LockInv
  PROVE  ListInv <=> OnlyInItsList /\ OwnStreamOnly /\ NotSimplified
<1>1. ListsMatchBindings <=> OnlyInItsList
  <2>1. ASSUME OnlyInItsList, NEW l \in Logicals
        PROVE  list[l] = {s \in alive : bound[s] = l} /\ (list[l] # {} => l \in open)
    <3>1. \A s \in list[l] : s \in alive /\ bound[s] = l
      BY <2>1, AudioStreamAssumption DEF LockInv, BoundAlive, TypeOK, OnlyInItsList
    <3>2. \A s \in alive : bound[s] = l => s \in list[l]
      BY AudioStreamAssumption DEF LockInv, BoundAlive, TypeOK
    <3>3. QED
      BY <3>1, <3>2 DEF LockInv, BoundAlive
  <2>2. QED
    BY <2>1 DEF OnlyInItsList, ListsMatchBindings
<1>2. QED
  BY <1>1 DEF ListInv, OwnStreamOnly, NotSimplified

LEMMA InitListInv == Init => ListInv
BY AudioStreamAssumption DEF Init, ListInv, ListsMatchBindings, Unbinding

(* Closing a device takes its streams, all of them, off its list.          *)
LEMMA DestroyLogicalLists ==
  ASSUME LockInv, ListInv, NEW t, NEW l \in Logicals, DestroyLogical(t, l)
  PROVE  /\ OnlyInItsList'
         /\ \A s \in Streams : bound'[s] = IF bound[s] = l THEN None ELSE bound[s]
         /\ \A m \in Logicals : m # l => list'[m] = list[m] /\ (m \in open' <=> m \in open)
<1>1. \A s \in Streams : bound[s] = l => s \in list[l]
  BY AudioStreamAssumption DEF LockInv, BoundAlive
<1>2. \A m \in Logicals : \A s \in list[m] : bound[s] = m /\ s \in Streams
  BY ListInvParts DEF OnlyInItsList, LockInv, TypeOK
<1>3. \A s \in Streams : bound'[s] = IF bound[s] = l THEN None ELSE bound[s]
  BY <1>1, <1>2 DEF DestroyLogical
<1>4. \A m \in Logicals : list'[m] = IF m = l THEN {} ELSE list[m]
  BY DEF DestroyLogical, LockInv, TypeOK
<1>5. open' = open \ {l}
  BY DEF DestroyLogical
<1>6. QED
  BY <1>2, <1>3, <1>4, <1>5 DEF OnlyInItsList

(* What the last step of an unbinding call finds is what it unbinds.       *)
LEMMA UnbindAllLists ==
  ASSUME LockInv, ListInv, NEW t \in Callers, UnbindAll(t)
  PROVE  LET S == {s \in ToSet(arg[t]) : bound[s] # None} IN
         /\ S \subseteq Streams
         /\ \A s \in S : bound[s] \notin simplified
         /\ \A l \in Logicals : list'[l] = list[l] \ S
         /\ \A s \in Streams : bound'[s] = IF s \in S THEN None ELSE bound[s]
<1> DEFINE S == {s \in ToSet(arg[t]) : bound[s] # None}
<1>1. t \in Threads /\ arg[t] \in Seq(Streams) /\ Unbinding(t)
  BY DEF LockInv, TypeOK, Threads, UnbindAll, Unbinding
<1>2. \A s \in ToSet(arg[t]) : s \in Streams /\ s \notin simplified
  BY <1>1, ListInvParts DEF ToSet, NotSimplified
<1>3. \A s \in S : bound[s] \notin simplified
  BY <1>2, ListInvParts DEF OwnStreamOnly
<1>4. {s \in S : bound[s] \notin simplified} = S
  BY <1>3
<1>5. QED
  BY <1>2, <1>3, <1>4 DEF UnbindAll

LEMMA OnlyInItsListKept ==
  ASSUME LockInv, ListInv, NEW t \in Threads, ActsBy(t)
  PROVE  OnlyInItsList'
<1> USE AudioStreamAssumption DEF binding
<1>0. OnlyInItsList
  BY ListInvParts
<1>1. ASSUME list' = list, bound' = bound PROVE OnlyInItsList'
  BY <1>0, <1>1 DEF OnlyInItsList
<1>2. CASE t \in Callers /\ Call(t)
  <2>1. ASSUME NEW l \in Logicals, NEW s \in Streams, OpenStream(t, l, s) PROVE OnlyInItsList'
    <3>1. bound[s] = None
      BY <2>1 DEF OpenStream, LockInv, BoundAlive
    <3>2. \A m \in Logicals : s \notin list[m]
      BY <3>1, <1>0 DEF OnlyInItsList
    <3>3. QED
      BY <1>0, <2>1, <3>2 DEF OpenStream, OnlyInItsList, LockInv, TypeOK
  <2>2. ASSUME NEW s \in Streams, DestroySimplified(t, s) PROVE OnlyInItsList'
    <3>1. CASE bound[s] = None
      BY <1>1, <2>2, <3>1 DEF DestroySimplified
    <3>2. CASE bound[s] # None
      <4>1. DestroyLogical(t, bound[s]) /\ bound[s] \in Logicals
        BY <2>2, <3>2 DEF DestroySimplified, LockInv, TypeOK
      <4>2. QED
        BY <4>1, DestroyLogicalLists
    <3>3. QED
      BY <3>1, <3>2
  <2>3. ASSUME NEW l \in Logicals, Close(t, l) PROVE OnlyInItsList'
    BY <2>3, DestroyLogicalLists DEF Close
  <2>4. QED
    BY <1>1, <1>2, <2>1, <2>2, <2>3
       DEF Call, Open, SetPostmix, Create, SetFormat, Destroy, Bind, Unbind, Begin
<1>3. CASE t \in Callers /\ Step(t)
  <2>1. CASE BindChain(t)
    <3>1. dev[t] \in Logicals
      BY <2>1 DEF BindChain, LockInv, ThreadInv, LocalsFit, Threads, TypeOK
    <3>2. \A s \in ToSet(arg[t]) : bound[s] = None /\ s \in Streams
      <4>1. /\ t \in Threads /\ ThreadInv(t) /\ pc[t] = "bind" /\ arg[t] \in Seq(Streams)
            /\ at[t] \in Nat /\ at[t] > Len(arg[t])
        BY <2>1 DEF BindChain, LockInv, Threads, TypeOK
      <4>2. \A j \in 1 .. Len(arg[t]) : j \in 1 .. at[t] - 1 /\ Bindable(arg[t][j])
        BY <4>1 DEF ThreadInv, StreamsHeld
      <4>3. QED
        BY <4>1, <4>2 DEF Bindable, ToSet
    <3>3. \A l \in Logicals : \A s \in list[l] : s \notin ToSet(arg[t]) /\ s \in Streams
      BY <1>0, <3>2 DEF OnlyInItsList, LockInv, TypeOK
    <3>4. /\ \A s \in Streams : bound'[s] = IF s \in ToSet(arg[t]) THEN dev[t] ELSE bound[s]
          /\ \A l \in Logicals : list'[l] = IF l = dev[t] THEN list[l] \cup ToSet(arg[t])
                                                          ELSE list[l]
      BY <2>1, <3>1 DEF BindChain, LockInv, TypeOK
    <3>5. QED
      BY <1>0, <3>2, <3>3, <3>4 DEF OnlyInItsList
  <2>2. CASE UnbindAll(t)
    BY <1>0, <1>3, <2>2, UnbindAllLists DEF OnlyInItsList, LockInv, TypeOK
  <2>3. QED
    BY <1>1, <1>3, <2>1, <2>2
       DEF Step, BindLock, BindFail, UnbindPeek, UnbindDevice, UnbindCheck
<1>4. CASE t \in Devices /\ (IterateLock(t) \/ IterateMix(t))
  BY <1>1, <1>4 DEF IterateLock, IterateMix
<1>5. QED
  BY <1>2, <1>3, <1>4 DEF ActsBy

LEMMA OwnStreamOnlyKept ==
  ASSUME LockInv, ListInv, NEW t \in Threads, ActsBy(t)
  PROVE  OwnStreamOnly'
<1> USE AudioStreamAssumption DEF binding
<1>0. OwnStreamOnly /\ None \notin simplified
  BY ListInvParts DEF LockInv, TypeOK
<1>1. ASSUME simplified' = simplified, \A s \in Streams : bound'[s] \in {bound[s], None}
      PROVE  OwnStreamOnly'
  BY <1>0, <1>1 DEF OwnStreamOnly
<1>2. CASE t \in Callers /\ Call(t)
  <2>1. ASSUME NEW l \in Logicals, NEW s \in Streams, OpenStream(t, l, s) PROVE OwnStreamOnly'
    <3>1. \A x \in Streams : bound[x] # l
      BY <2>1 DEF OpenStream, LockInv, BoundAlive
    <3>2. \A x \in Streams : bound'[x] = IF x = s THEN l ELSE bound[x]
      BY <2>1 DEF OpenStream, LockInv, TypeOK
    <3>3. simplified' = simplified \cup {l, s}
      BY <2>1 DEF OpenStream
    <3>4. \A x \in Streams : bound[x] # s
      BY DEF LockInv, TypeOK
    <3>5. QED
      BY <1>0, <3>1, <3>2, <3>3, <3>4 DEF OwnStreamOnly
  <2>2. ASSUME NEW s \in Streams, DestroySimplified(t, s) PROVE OwnStreamOnly'
    <3>1. simplified' = simplified \ {bound[s], s}
      BY <2>2 DEF DestroySimplified
    <3>2. \A x \in Streams : bound'[x] \in {bound[x], None}
          /\ (bound[s] # None /\ bound[x] = bound[s] => bound'[x] = None)
      <4>1. CASE bound[s] = None
        BY <2>2, <4>1 DEF DestroySimplified
      <4>2. CASE bound[s] # None
        <5>1. DestroyLogical(t, bound[s]) /\ bound[s] \in Logicals
          BY <2>2, <4>2 DEF DestroySimplified, LockInv, TypeOK
        <5>2. QED
          BY <5>1, DestroyLogicalLists
      <4>3. QED
        BY <4>1, <4>2
    <3>3. \A x \in Streams : bound'[x] \in simplified' => x \in simplified /\ x # s /\ x # bound[s]
      BY <1>0, <3>1, <3>2 DEF OwnStreamOnly, LockInv, TypeOK
    <3>4. QED
      BY <3>1, <3>3 DEF OwnStreamOnly
  <2>3. ASSUME NEW l \in Logicals, Close(t, l) PROVE OwnStreamOnly'
    <3>1. /\ simplified' = simplified \ {l}
          /\ \A s \in Streams : bound'[s] = IF bound[s] = l THEN None ELSE bound[s]
      BY <2>3, DestroyLogicalLists DEF Close
    <3>2. QED
      BY <1>0, <3>1 DEF OwnStreamOnly
  <2>4. QED
    BY <1>1, <1>2, <2>1, <2>2, <2>3
       DEF Call, Open, SetPostmix, Create, SetFormat, Destroy, Bind, Unbind, Begin
<1>3. CASE t \in Callers /\ Step(t)
  <2>1. CASE BindChain(t)
    <3>1. dev[t] \notin simplified
      BY <2>1 DEF BindChain, LockInv, ThreadInv, LocalsFit, Threads
    <3>2. /\ simplified' = simplified
          /\ \A s \in Streams : bound'[s] \in {bound[s], dev[t]}
      BY <2>1 DEF BindChain
    <3>3. QED
      BY <1>0, <3>1, <3>2 DEF OwnStreamOnly
  <2>2. CASE UnbindAll(t)
    BY <1>1, <2>2 DEF UnbindAll
  <2>3. QED
    BY <1>1, <1>3, <2>1, <2>2
       DEF Step, BindLock, BindFail, UnbindPeek, UnbindDevice, UnbindCheck
<1>4. CASE t \in Devices /\ (IterateLock(t) \/ IterateMix(t))
  BY <1>1, <1>4 DEF IterateLock, IterateMix
<1>5. QED
  BY <1>2, <1>3, <1>4 DEF ActsBy

LEMMA NotSimplifiedKept ==
  ASSUME Ordinary, LockInv, ListInv, NEW t \in Threads, ActsBy(t)
  PROVE  NotSimplified'
<1> USE AudioStreamAssumption
<1>0. NotSimplified /\ Disturbs(t)
  BY ListInvParts, ThreadInvKept
<1>1. \A s \in alive \ simplified : s \notin simplified'
  BY <1>0 DEF Disturbs
<1>2. ASSUME NEW u \in Threads, arg'[u] = arg[u], Unbinding(u)' => Unbinding(u)
      PROVE  Unbinding(u)' => \A j \in 1 .. Len(arg'[u]) : arg'[u][j] \notin simplified'
  <2>1. Unbinding(u) => \A j \in 1 .. Len(arg[u]) : arg[u][j] \in alive
    BY DEF LockInv, ThreadInv, LocalsFit, Inside, Unbinding
  <2>2. QED
    BY <1>0, <1>1, <1>2, <2>1 DEF NotSimplified
<1>3. ASSUME NEW u \in Threads \ {t}
      PROVE  Unbinding(u)' => \A j \in 1 .. Len(arg'[u]) : arg'[u][j] \notin simplified'
  BY <1>0, <1>2 DEF Disturbs, Spares, Unbinding
<1>4. Unbinding(t)' => \A j \in 1 .. Len(arg'[t]) : arg'[t][j] \notin simplified'
  <2>1. CASE t \in Callers /\ Call(t)
    <3>1. ASSUME NEW array \in use.arrays, Unbind(t, array)
          PROVE  \A j \in 1 .. Len(arg'[t]) : arg'[t][j] \notin simplified'
      <4>1. /\ "simplified" \notin use.odd /\ simplified' = simplified /\ arg'[t] = array
            /\ array \in Seq(Streams)
        BY <3>1, ArraysAreTyped DEF Unbind, Begin, Ordinary, LockInv, TypeOK
      <4>2. QED
        BY <3>1, <4>1 DEF Unbind, ToSet
    <3>2. ASSUME NEW s \in Streams, Destroy(t, s)
          PROVE  \A j \in 1 .. Len(arg'[t]) : arg'[t][j] \notin simplified'
      <4>1. simplified' = simplified /\ arg'[t] = <<s>> /\ s \notin simplified
        BY <3>2 DEF Destroy, LockInv, TypeOK
      <4>2. QED
        BY <4>1
    <3>3. ASSUME pc' = pc, arg' = arg
          PROVE  Unbinding(t)' => \A j \in 1 .. Len(arg'[t]) : arg'[t][j] \notin simplified'
      BY <1>2, <3>3 DEF Unbinding
    <3>4. ASSUME NEW l \in Logicals, NEW array \in use.arrays, Bind(t, l, array)
         PROVE ~Unbinding(t)'
      BY <3>4 DEF Bind, Begin, Goto, Unbinding, LockInv, TypeOK
    <3>5. QED
      BY <2>1, <3>1, <3>2, <3>3, <3>4
         DEF Call, Open, Close, SetPostmix, OpenStream, Create, SetFormat, DestroySimplified, locals
  <2>2. CASE t \in Callers /\ Step(t)
    <3>1. ASSUME Forget(t) PROVE ~Unbinding(t)'
      BY <3>1 DEF Forget, Goto, Unbinding, LockInv, TypeOK
    <3>2. CASE BindLock(t)
      BY <1>2, <3>2 DEF BindLock, Unbinding
    <3>3. ASSUME UnbindPeek(t) \/ UnbindDevice(t) \/ UnbindCheck(t)
          PROVE  arg' = arg /\ Unbinding(t)
      BY <3>3 DEF UnbindPeek, UnbindDevice, UnbindCheck, Unbinding, locals
    <3>4. QED
      BY <1>2, <2>2, <3>1, <3>2, <3>3 DEF Step, BindFail, BindChain, UnbindAll
  <2>3. CASE t \in Devices /\ (IterateLock(t) \/ IterateMix(t))
    BY <2>3 DEF IterateLock, IterateMix, Goto, Unbinding, LockInv, TypeOK
  <2>4. QED
    BY <2>1, <2>2, <2>3 DEF ActsBy
<1>5. QED
  BY <1>3, <1>4 DEF NotSimplified

LEMMA ListInvKept == Ordinary /\ LockInv /\ ListInv /\ [Next]_vars => ListInv'
<1>1. ASSUME Ordinary, LockInv, ListInv, NEW t \in Threads, ActsBy(t) PROVE ListInv'
  <2>1. LockInv'
    BY <1>1, LockInvKept DEF Next, ActsBy
  <2>2. OnlyInItsList' /\ OwnStreamOnly' /\ NotSimplified'
    BY <1>1, OnlyInItsListKept, OwnStreamOnlyKept, NotSimplifiedKept
  <2>3. (LockInv => (ListInv <=> OnlyInItsList /\ OwnStreamOnly /\ NotSimplified))'
    BY ListInvParts, PTL
  <2>4. QED
    BY <2>1, <2>2, <2>3
<1>2. ASSUME ListInv, UNCHANGED vars PROVE ListInv'
  BY <1>2 DEF vars, locals, binding, ListInv, ListsMatchBindings, Unbinding
<1>3. QED
  BY <1>1, <1>2 DEF Next, ActsBy, Threads

-----------------------------------------------------------------------------
(* An update gets flags and formats right where it is done, and does not   *)
(* touch them elsewhere.                                                   *)
LEMMA UpdateFormats ==
  ASSUME LockInv, FormatInv, LockInv', ListInv', use' = use, NEW t, NEW D \in SUBSET Devices,
         Update(t, D),
         \A l \in Logicals : use.phys[l] \notin D =>
           list'[l] = list[l] /\ (l \in open' <=> l \in open) /\ (l \in postmix' <=> l \in postmix)
  PROVE  FormatInv'
<1> DEFINE sc(d)    == CanUseSimpleCopy(open', postmix', list', d)
           plays(d) == Bound(open', list', d)
<1>1. \A d \in D : d \in simple' <=> sc(d)
  BY DEF Update
<1>2. \A d \in Devices \ D : (d \in simple' <=> d \in simple)
  BY DEF Update
<1>3. \A d, e \in Devices : \A s \in Streams : s \in plays(d) /\ s \in plays(e) => d = e
  <2>1. \A l, m \in Logicals : \A s \in Streams : s \in list'[l] /\ s \in list'[m] => l = m
    BY DEF ListInv, ListsMatchBindings
  <2>2. QED
    BY <2>1 DEF Bound, OnDevice, LockInv, TypeOK
<1>4. \A d \in Devices : plays(d) \subseteq Streams
  BY DEF Bound, OnDevice, LockInv, TypeOK
<1>5. ASSUME NEW d \in D, NEW s \in plays(d)
      PROVE  dst'[s] = <<d, IF sc(d) THEN "native" ELSE "float">>
  <2>1. {e \in D : s \in plays(e)} = {d}
    BY <1>3, <1>4, <1>5
  <2>2. s \in Streams
    BY <1>4, <1>5
  <2>3. QED
    BY <2>1, <2>2 DEF Update
<1>6. ASSUME NEW d \in Devices \ D, NEW s \in plays(d) PROVE dst'[s] = dst[s]
  <2>1. s \in Streams /\ {e \in D : s \in plays(e)} = {}
    BY <1>3, <1>4, <1>6
  <2>2. QED
    BY <2>1 DEF Update
<1>7. ASSUME NEW d \in Devices \ D
      PROVE  (sc(d) <=> CanUseSimpleCopy(open, postmix, list, d)) /\ plays(d) = Bound(open, list, d)
  <2>1. OnDevice(open', d) = OnDevice(open, d)
    BY <1>7 DEF OnDevice, LockInv, TypeOK
  <2>2. \A l \in OnDevice(open, d) :
          l \in Logicals /\ list'[l] = list[l] /\ (l \in postmix' <=> l \in postmix)
    BY <1>7 DEF OnDevice, LockInv, TypeOK
  <2>3. QED
    BY <2>1, <2>2 DEF CanUseSimpleCopy, Bound
<1>8. /\ \A d : CanUseSimpleCopy(open, postmix, list, d)' <=> sc(d)
      /\ \A d : Bound(open, list, d)' = plays(d)
  BY DEF CanUseSimpleCopy, Bound, OnDevice
<1>9. ASSUME NEW d \in Devices
      PROVE  /\ d \in simple' <=> sc(d)
             /\ \A s \in plays(d) : dst'[s] = <<d, IF d \in simple' THEN "native" ELSE "float">>
  <2>1. CASE d \in D
    BY <2>1, <1>1, <1>5
  <2>2. CASE d \notin D
    BY <2>2, <1>2, <1>6, <1>7 DEF FormatInv
  <2>3. QED
    BY <2>1, <2>2
<1>10. QED
  BY <1>8, <1>9 DEF FormatInv

(* Where nothing is bound, formats do not matter.                          *)
LEMMA SameFormats ==
  ASSUME LockInv, ListInv, FormatInv, UNCHANGED <<use, open, postmix, list, simple>>,
         \A s \in Streams : bound[s] # None => dst'[s] = dst[s]
  PROVE  FormatInv'
<1>1. \A d \in Devices : \A s \in Bound(open, list, d) : s \in Streams /\ dst'[s] = dst[s]
  BY AudioStreamAssumption DEF Bound, OnDevice, ListInv, ListsMatchBindings, LockInv, TypeOK
<1>2. QED
  BY <1>1 DEF FormatInv, CanUseSimpleCopy, Bound, OnDevice

LEMMA InitFormatInv == Init => FormatInv
BY AudioStreamAssumption DEF Init, FormatInv, CanUseSimpleCopy, Bound, OnDevice

LEMMA FormatInvKept ==
  ASSUME Ordinary, LockInv, ListInv, FormatInv, [Next]_vars
  PROVE  FormatInv'
<1> USE AudioStreamAssumption DEF binding
<1>0. LockInv' /\ ListInv'
  BY LockInvKept, ListInvKept
<1>1. \A l \in Logicals : use.phys[l] \in Devices
  BY DEF UseOK, LockInv, TypeOK
<1>2. ASSUME NEW t, NEW l \in Logicals, Update(t, {use.phys[l]}), use' = use,
             \A m \in Logicals \ {l} :
               /\ list'[m] = list[m]
               /\ (m \in open' <=> m \in open) /\ (m \in postmix' <=> m \in postmix)
      PROVE  FormatInv'
  BY <1>0, <1>1, <1>2, UpdateFormats
<1>3. ASSUME NEW t, NEW l \in Logicals, DestroyLogical(t, l), use' = use PROVE FormatInv'
  BY <1>2, <1>3 DEF DestroyLogical, LockInv, TypeOK
<1>4. ASSUME NEW t \in Callers, Call(t) PROVE FormatInv'
  <2>1. ASSUME NEW l \in Logicals, Open(t, l) PROVE FormatInv'
    BY <1>2, <2>1 DEF Open
  <2>2. ASSUME NEW l \in Logicals, Close(t, l) PROVE FormatInv'
    BY <1>3, <2>2 DEF Close
  <2>3. ASSUME NEW l \in Logicals, SetPostmix(t, l) PROVE FormatInv'
    BY <1>2, <2>3 DEF SetPostmix
  <2>4. ASSUME NEW l \in Logicals, NEW s \in Streams, OpenStream(t, l, s) PROVE FormatInv'
    BY <1>2, <2>4 DEF OpenStream, LockInv, TypeOK
  <2>5. ASSUME NEW s \in Streams, Create(t, s) PROVE FormatInv'
    <3>1. bound[s] = None
      BY <2>5 DEF Create, LockInv, BoundAlive
    <3>2. QED
      BY <2>5, <3>1, SameFormats DEF Create, LockInv, TypeOK
  <2>6. ASSUME NEW s \in Streams, SetFormat(t, s), bound[s] = None PROVE FormatInv'
    BY <2>6, SameFormats DEF SetFormat, LockInv, TypeOK
  <2>7. ASSUME NEW s \in Streams, SetFormat(t, s) PROVE bound[s] = None
    BY <2>7 DEF SetFormat, Ordinary, LockInv, TypeOK
  <2>8. ASSUME NEW s \in Streams, DestroySimplified(t, s) PROVE FormatInv'
    <3>1. CASE bound[s] = None
      BY <2>8, <3>1, SameFormats DEF DestroySimplified
    <3>2. CASE bound[s] \in Logicals
      BY <1>3, <2>8, <3>2 DEF DestroySimplified
    <3>3. QED
      BY <3>1, <3>2 DEF LockInv, TypeOK
  <2>9. QED
    BY <1>4, <2>1, <2>2, <2>3, <2>4, <2>5, <2>6, <2>7, <2>8, SameFormats
       DEF Call, Destroy, Bind, Unbind, Begin
<1>5. ASSUME NEW t \in Callers, Step(t) PROVE FormatInv'
  <2>1. ASSUME pc[t] = "bind" PROVE dev[t] \in Logicals
    BY <2>1 DEF LockInv, ThreadInv, LocalsFit, Threads, TypeOK
  <2>2. CASE BindFail(t)
    BY <1>2, <2>1, <2>2 DEF BindFail
  <2>3. CASE BindChain(t)
    BY <1>2, <2>1, <2>3 DEF BindChain, LockInv, TypeOK
  <2>4. CASE UnbindAll(t)
    <3> DEFINE S  == {s \in ToSet(arg[t]) : bound[s] # None}
               on == {use.phys[bound[s]] : s \in S}
    <3>1. /\ S \subseteq Streams
          /\ \A l \in Logicals : list'[l] = list[l] \ S
          /\ \A s \in S : bound[s] \in Logicals
      BY <1>5, <2>4, UnbindAllLists DEF LockInv, TypeOK
    <3>2. on \in SUBSET Devices
      BY <1>1, <3>1
    <3>3. ASSUME NEW l \in Logicals, use.phys[l] \notin on PROVE list'[l] = list[l]
      <4>1. \A s \in list[l] : bound[s] = l
        BY DEF ListInv, ListsMatchBindings
      <4>2. \A s \in list[l] : s \notin S
        BY <3>3, <4>1
      <4>3. QED
        BY <3>1, <4>2
    <3>4. Update(t, on) /\ use' = use /\ open' = open /\ postmix' = postmix
      BY <2>4 DEF UnbindAll
    <3>5. QED
      BY <1>0, <3>2, <3>3, <3>4, UpdateFormats
  <2>5. QED
    BY <1>5, <2>2, <2>3, <2>4, SameFormats
       DEF Step, BindLock, UnbindPeek, UnbindDevice, UnbindCheck
<1>6. ASSUME NEW d \in Devices, IterateLock(d) \/ IterateMix(d) PROVE FormatInv'
  BY <1>6, SameFormats DEF IterateLock, IterateMix
<1>7. CASE UNCHANGED vars
  BY <1>7, SameFormats DEF vars
<1>8. QED
  BY <1>4, <1>5, <1>6, <1>7 DEF Next

-----------------------------------------------------------------------------
(* The order of locks: streams that are locked and bound have the lock of  *)
(* their device taken already.                                             *)
LEMMA OrderFollows == LockInv /\ ListInv => DeviceLockFirst
<1> SUFFICES ASSUME LockInv, ListInv, NEW t \in Callers, pc[t] = "device",
                    NEW s \in Holding(t) \cap Bound(open, list, use.phys[seen[t]])
             PROVE  \E level \in dlock[use.phys[seen[t]]] : level[1] = t
  BY DEF DeviceLockFirst
<1>1. PICK l \in Logicals : s \in list[l] /\ use.phys[l] = use.phys[seen[t]]
  BY DEF Bound, OnDevice, LockInv, TypeOK
<1>2. bound[s] = l /\ s \in Streams /\ slock[s] = t /\ bound[s] # None
  BY <1>1, AudioStreamAssumption DEF ListInv, ListsMatchBindings, Holding
<1>3. PICK j \in 1 .. at[t] - 1 : arg[t][j] = s
  BY <1>2 DEF LockInv, ThreadInv, StreamsHeld, Inside, Threads
<1>4. <<t, j>> \in dlock[use.phys[l]]
  BY <1>2, <1>3 DEF LockInv, ThreadInv, LevelsHeld, Unbinding, Threads
<1>5. QED
  BY <1>1, <1>4

(* A thread that changes a device's lists has its lock, or could take it:  *)
(* the device's thread does not have it then.                              *)
LEMMA MixedKept ==
  ASSUME Ordinary, LockInv, ListInv, NEW d \in Devices, pc[d] = "mix", pc'[d] = "mix", [Next]_vars
  PROVE  \A l \in OnDevice(open, d) : list'[l] = list[l] /\ l \in open'
<1> SUFFICES ASSUME NEW l \in Logicals, l \in open, use.phys[l] = d
             PROVE  list'[l] = list[l] /\ l \in open'
  BY DEF OnDevice, LockInv, TypeOK
<1> USE AudioStreamAssumption
<1>0. /\ <<d, 0>> \in dlock[d]
      /\ \A t \in Callers : ~Lockable(d, t)
      /\ \A t \in Callers : \A i : <<t, i>> \notin dlock[d]
  <2>1. <<d, 0>> \in dlock[d]
    BY DEF LockInv, ThreadInv, LevelsHeld, Threads
  <2>2. \A x \in dlock[d] : x[1] = d
    BY <2>1 DEF LockInv, OneOwner
  <2>3. QED
    BY <2>1, <2>2 DEF Lockable
<1>1. ASSUME NEW t, NEW m \in Logicals, DestroyLogical(t, m), m # l
         PROVE list'[l] = list[l] /\ l \in open'
  BY <1>1 DEF DestroyLogical, LockInv, TypeOK
<1>2. ASSUME NEW t \in Callers, Call(t) PROVE list'[l] = list[l] /\ l \in open'
  <2>1. ASSUME NEW m \in Logicals, Close(t, m) PROVE list'[l] = list[l] /\ l \in open'
    BY <1>0, <1>1, <2>1 DEF Close
  <2>2. ASSUME NEW m \in Logicals, NEW s \in Streams, OpenStream(t, m, s)
        PROVE  list'[l] = list[l] /\ l \in open'
    BY <1>0, <2>2 DEF OpenStream, LockInv, TypeOK
  <2>3. ASSUME NEW s \in Streams, DestroySimplified(t, s) PROVE list'[l] = list[l] /\ l \in open'
    <3>1. CASE bound[s] = None
      BY <2>3, <3>1 DEF DestroySimplified, binding
    <3>2. CASE bound[s] \in Logicals
      BY <1>0, <1>1, <2>3, <3>2 DEF DestroySimplified
    <3>3. QED
      BY <3>1, <3>2 DEF LockInv, TypeOK
  <2>4. QED
    BY <1>2, <2>1, <2>2, <2>3
       DEF Call, Open, SetPostmix, Create, SetFormat, Destroy, Bind, Unbind, Begin, binding
<1>3. ASSUME NEW t \in Callers, Step(t) PROVE list'[l] = list[l] /\ l \in open'
  <2>1. CASE BindChain(t)
    <3>1. dev[t] \in Logicals /\ <<t, 0>> \in dlock[use.phys[dev[t]]]
      BY <2>1 DEF BindChain, LockInv, ThreadInv, LocalsFit, LevelsHeld, TypeOK, Threads
    <3>2. dev[t] # l
      BY <1>0, <3>1
    <3>3. QED
      BY <2>1, <3>1, <3>2 DEF BindChain, LockInv, TypeOK
  <2>2. CASE UnbindAll(t)
    <3> DEFINE S == {s \in ToSet(arg[t]) : bound[s] # None}
    <3>1. open' = open /\ list'[l] = list[l] \ S
      BY <1>3, <2>2, UnbindAllLists DEF UnbindAll
    <3>2. ASSUME NEW s \in list[l], s \in ToSet(arg[t]) PROVE FALSE
      <4>1. bound[s] = l /\ s \in Streams
        BY <3>2 DEF ListInv, ListsMatchBindings, LockInv, TypeOK
      <4>2. PICK j \in 1 .. Len(arg[t]) : arg[t][j] = s
        BY <3>2 DEF ToSet, LockInv, TypeOK, Threads
      <4>3. t \in Threads /\ ThreadInv(t) /\ pc[t] = "unbind" /\ arg[t] \in Seq(Streams)
        BY <2>2 DEF UnbindAll, LockInv, Threads, TypeOK
      <4>4. j \in 1 .. at[t] - 1
        BY <4>2, <4>3 DEF ThreadInv, LocalsFit
      <4>5. <<t, j>> \in dlock[use.phys[l]]
        BY <4>1, <4>2, <4>3, <4>4 DEF ThreadInv, LevelsHeld, Unbinding
      <4>6. QED
        BY <1>0, <4>5
    <3>3. QED
      BY <3>1, <3>2
  <2>3. QED
    BY <1>3, <2>1, <2>2
       DEF Step, BindLock, BindFail, UnbindPeek, UnbindDevice, UnbindCheck, binding
<1>4. ASSUME NEW e \in Devices, IterateLock(e) \/ IterateMix(e)
         PROVE list'[l] = list[l] /\ l \in open'
  BY <1>4 DEF IterateLock, IterateMix, binding
<1>5. CASE UNCHANGED vars
  BY <1>5 DEF vars, binding
<1>6. QED
  BY <1>2, <1>3, <1>4, <1>5 DEF Next

-----------------------------------------------------------------------------
(* Threads lock what they may: every step of every call and of every       *)
(* device's thread keeps variables typed, locks owned by one thread, and   *)
(* what a call uses alive, even if the program misuses streams.            *)
THEOREM LocksConsistent == Spec => []LockInv
BY InitLockInv, LockInvKept, PTL DEF Spec

(* Every variable of the model has its type, for the same programs.        *)
THEOREM TypeCorrect == Spec => []TypeOK
BY LocksConsistent, PTL DEF LockInv

(* SDL_BindAudioStreams, SDL_UnbindAudioStreams, SDL_DestroyAudioStream    *)
(* and SDL_CloseAudioDevice keep lists and bindings the same, and no list  *)
(* has a stream that is gone, however many threads make these calls.       *)
THEOREM Lists ==
  ASSUME Ordinary
  PROVE  Spec => []ListsMatchBindings
<1>1. Init => LockInv /\ ListInv
  BY InitLockInv, InitListInv
<1>2. LockInv /\ ListInv /\ [Next]_vars => (LockInv /\ ListInv)'
  BY LockInvKept, ListInvKept
<1>3. LockInv /\ ListInv => ListsMatchBindings
  BY DEF ListInv
<1>4. QED
  BY <1>1, <1>2, <1>3, PTL DEF Spec

(* SDL_UnbindAudioStreams waits for no device with the lock of a stream of *)
(* that device, so that it cannot deadlock with that device's thread.      *)
THEOREM DeviceFirst ==
  ASSUME Ordinary
  PROVE  Spec => []DeviceLockFirst
<1>1. Init => LockInv /\ ListInv
  BY InitLockInv, InitListInv
<1>2. LockInv /\ ListInv /\ [Next]_vars => (LockInv /\ ListInv)'
  BY LockInvKept, ListInvKept
<1>3. QED
  BY <1>1, <1>2, OrderFollows, PTL DEF Spec

(* No call changes the list a device's thread walks, nor closes the        *)
(* logical device it is on.                                                *)
THEOREM MixedLists ==
  ASSUME Ordinary
  PROVE  Spec => MixedListStable
<1>1. Init => LockInv /\ ListInv
  BY InitLockInv, InitListInv
<1>2. LockInv /\ ListInv /\ [Next]_vars => (LockInv /\ ListInv)'
  BY LockInvKept, ListInvKept
<1>3. LockInv /\ ListInv /\ [Next]_vars =>
        [\A d \in Devices : pc[d] = "mix" /\ pc'[d] = "mix" =>
           \A l \in OnDevice(open, d) : list'[l] = list[l] /\ l \in open']_vars
  BY MixedKept
<1>4. QED
  BY <1>1, <1>2, <1>3, PTL DEF Spec, MixedListStable

(* Formats and simple_copy follow every binding, device and postmix        *)
(* callback, so that what the device's thread gets is what it expects.     *)
LEMMA FormatsAlways ==
  ASSUME Ordinary
  PROVE  Spec => [](LockInv /\ FormatInv)
<1>1. Init => LockInv /\ ListInv /\ FormatInv
  BY InitLockInv, InitListInv, InitFormatInv
<1>2. LockInv /\ ListInv /\ FormatInv /\ [Next]_vars => (LockInv /\ ListInv /\ FormatInv)'
  BY LockInvKept, ListInvKept, FormatInvKept
<1>3. QED
  BY <1>1, <1>2, PTL DEF Spec

(* The device's thread mixes in the format its streams deliver.            *)
THEOREM Formats ==
  ASSUME Ordinary
  PROVE  Spec => []MixesDeviceFormat
<1>1. LockInv /\ FormatInv => MixesDeviceFormat
  BY DEF MixesDeviceFormat, FormatInv
<1>2. QED
  BY <1>1, FormatsAlways, PTL

(* It copies a stream without mixing only when there is nothing to mix.    *)
THEOREM SimpleCopy ==
  ASSUME Ordinary
  PROVE  Spec => []SimpleCopyInSync
<1>1. LockInv /\ FormatInv => SimpleCopyInSync
  BY DEF SimpleCopyInSync, FormatInv
<1>2. QED
  BY <1>1, FormatsAlways, PTL
=============================================================================
