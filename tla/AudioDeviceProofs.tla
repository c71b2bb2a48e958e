------------------------- MODULE AudioDeviceProofs -------------------------
(***************************************************************************)
(* Proofs about opening and closing audio devices, for any number of       *)
(* devices, logical devices and threads, with or without the races that    *)
(* Windows names; then about the references to devices, where none of      *)
(* these races happens.                                                    *)
(***************************************************************************)
EXTENDS AudioDevice, FiniteSetTheorems, TLAPS

(* Thread t is in ClosePhysicalAudioDevice of d, which it has told to shut *)
(* down and has not closed yet.                                            *)
JoinLabels == {"free_join", "open_join", "close_join", "new_join", "old_join"}
Closes(t, d) ==
  \/ pc[t] \in {"free_join", "open_join", "close_join"} /\ dev[t] = d
  \/ t = driver /\ pc[t] = "new_join" /\ new = d
  \/ t = driver /\ pc[t] = "old_join" /\ old = d

ClosersFlag == \A t \in Threads : \A d \in Devices : Closes(t, d) => d \in shutdown
OneCloser   == \A t, u \in Threads : \A d \in Devices : Closes(t, d) /\ Closes(u, d) => t = u

(* An open device that nobody closes has its thread.                       *)
HasThread(d) == pc[d] \notin {"none", "exited"}
OpenHasThread == \A d \in opened \ shutdown : HasThread(d)

Maps == /\ pc = [t \in Threads |-> pc[t]] /\ dev = [t \in Threads |-> dev[t]]
        /\ logs = [d \in Devices |-> logs[d]]
        /\ opened \subseteq Devices /\ shutdown \subseteq Devices

IInv ==
  /\ Maps /\ ClosersFlag /\ OneCloser /\ OpenHasThread
  /\ ClosedUnused /\ ServedWhileOpen

-----------------------------------------------------------------------------
LEMMA InitIInv == Init => IInv
BY AudioDeviceAssumption
   DEF Init, IInv, Maps, ClosersFlag, OneCloser, OpenHasThread, Closes, ClosedUnused,
       ServedWhileOpen, Threads

(* What a step of t must not do.  Closing: only t begins to, and only what *)
(* is not being closed; when the flag is cleared the device is closed.     *)
(* Logical devices: attached only to what is open, or lost, and stays so.  *)
LEMMA Keep ==
  ASSUME IInv, NEW t \in Threads, Maps',
         \A u \in Threads : \A d \in Devices :
           Closes(u, d)' => Closes(u, d) \/ (u = t /\ d \notin shutdown /\ d \in shutdown'),
         \A d \in shutdown \ shutdown' : d \notin opened' /\ \A u \in Threads : ~Closes(u, d)',
         \A d \in Devices :
           \/ logs'[d] = {}
           \/ logs'[d] \subseteq logs[d] /\ (d \in shutdown' => d \in shutdown)
           \/ d \notin shutdown' /\ d \in opened' \cup zombie',
         zombie \subseteq zombie',
         \A d \in Devices : HasThread(d) => HasThread(d)' \/ d \in shutdown,
         opened \subseteq opened' \cup shutdown,
         \A d \in opened' \ opened : HasThread(d)' \/ d \in shutdown'
  PROVE  IInv'
<1>1. ClosersFlag'
  BY DEF IInv, ClosersFlag
<1>2. OneCloser'
  BY DEF IInv, ClosersFlag, OneCloser
<1>3. OpenHasThread'
  BY DEF IInv, OpenHasThread, Maps
<1>4. ClosedUnused'
  BY DEF IInv, ClosedUnused
<1>5. ServedWhileOpen'
  BY <1>3 DEF IInv, ServedWhileOpen, ClosedUnused, OpenHasThread, HasThread
<1>6. QED
  BY <1>1, <1>2, <1>3, <1>4, <1>5 DEF IInv

(* What a step of t leaves alone that closes nothing.                      *)
Local(t) ==
  /\ dev' = [dev EXCEPT ![t] = dev'[t]]
  /\ t = driver \/ (new' = new /\ old' = old)

(* Its position is not one of a closing call.                              *)
Plain(l) == l \notin JoinLabels \cup {"none", "exited"}

(* A step that closes nothing and attaches no logical device.              *)
Quiet(t) ==
  /\ \E l : Plain(l) /\ pc' = [pc EXCEPT ![t] = l]
  /\ Local(t)
  /\ UNCHANGED <<opened, shutdown>> /\ zombie \subseteq zombie'
  /\ logs' = [d \in Devices |-> logs'[d]] /\ \A d \in Devices : logs'[d] \subseteq logs[d]

LEMMA Harmless ==
  ASSUME IInv, NEW t \in Threads, Quiet(t)
  PROVE  IInv'
<1>1. PICK l : Plain(l) /\ pc' = [pc EXCEPT ![t] = l]
  BY DEF Quiet
<1>2. \A u \in Threads : \A d \in Devices : Closes(u, d)' => Closes(u, d)
  BY <1>1 DEF Quiet, Closes, Local, Plain, JoinLabels, IInv, Maps
<1>3. \A d \in Devices : HasThread(d) => HasThread(d)'
  BY <1>1 DEF HasThread, IInv, Maps, Plain
<1>4. Maps'
  BY <1>1 DEF Quiet, IInv, Maps, Local
<1>5. QED
  BY <1>2, <1>3, <1>4, Keep DEF Quiet

(* Attaching to a device that is open, or lost, and not being closed.      *)
LEMMA Attaches ==
  ASSUME IInv, NEW t \in Threads, NEW l, Plain(l), pc' = [pc EXCEPT ![t] = l], Local(t),
         UNCHANGED <<opened, shutdown, zombie>>,
         NEW d \in Devices, d \in opened \cup zombie, d \notin shutdown,
         logs' = [e \in Devices |-> logs'[e]],
         \A e \in Devices \ {d} : logs'[e] \subseteq logs[e]
  PROVE  IInv'
<1>1. \A u \in Threads : \A e \in Devices : Closes(u, e)' => Closes(u, e)
  BY DEF Closes, Local, Plain, JoinLabels, IInv, Maps
<1>2. \A e \in Devices : HasThread(e) => HasThread(e)'
  BY DEF HasThread, IInv, Maps, Plain
<1>3. Maps'
  BY DEF IInv, Maps, Local
<1>4. QED
  BY <1>1, <1>2, <1>3, Keep

(* Opening a device at the system level, and starting its thread.          *)
LEMMA Starts ==
  ASSUME IInv, NEW t \in Threads \ Devices, NEW l, Plain(l), NEW d \in Devices,
         pc' = [pc EXCEPT ![t] = l, ![d] = "run"], Local(t), d \notin shutdown,
         opened' = opened \cup {d}, UNCHANGED <<shutdown, zombie>>,
         logs' = [e \in Devices |-> logs'[e]],
         \A e \in Devices \ {d} : logs'[e] \subseteq logs[e]
  PROVE  IInv'
<1>1. \A u \in Threads : \A e \in Devices : Closes(u, e)' => Closes(u, e)
  BY DEF Closes, Local, Plain, JoinLabels, IInv, Maps, Threads
<1>2. (\A e \in Devices : HasThread(e) => HasThread(e)') /\ HasThread(d)'
  BY DEF HasThread, IInv, Maps, Plain, Threads
<1>3. Maps'
  BY DEF IInv, Maps, Local
<1>4. QED
  BY <1>1, <1>2, <1>3, Keep

(* Beginning to close a device that has no logical device (any more).      *)
LEMMA Begins ==
  ASSUME IInv, NEW t \in Threads, NEW l \in JoinLabels, NEW d \in Devices,
         pc' = [pc EXCEPT ![t] = l], Local(t), \A e \in Devices : Closes(t, e)' => e = d,
         BeginClose(d), logs'[d] = {},
         opened' = opened \/ opened' = opened \cup {d}, UNCHANGED zombie,
         logs' = [e \in Devices |-> logs'[e]], \A e \in Devices : logs'[e] \subseteq logs[e]
  PROVE  IInv'
<1>1. \A u \in Threads \ {t} : \A e \in Devices : Closes(u, e)' => Closes(u, e)
  BY DEF Closes, Local, IInv, Maps
<1>2. \A e \in Devices : HasThread(e) => HasThread(e)'
  BY DEF HasThread, IInv, Maps, JoinLabels
<1>3. Maps'
  BY DEF IInv, Maps, Local, BeginClose
<1>4. shutdown' = shutdown \cup {d} /\ d \notin shutdown
  BY DEF BeginClose, Closing
<1>5. QED
  BY <1>1, <1>2, <1>3, <1>4, Keep

(* Ending it.                                                              *)
LEMMA Ends ==
  ASSUME IInv, NEW t \in Threads, NEW l, Plain(l), NEW d \in Devices, Closes(t, d),
         EndClose(d, t, l), Local(t), UNCHANGED <<zombie, logs>>
  PROVE  IInv'
<1>1. d \in shutdown /\ shutdown' = shutdown \ {d} /\ opened' = opened \ {d}
  BY DEF IInv, ClosersFlag, EndClose, CloseSystem
<1>2. \A u \in Threads \ {t} : ~Closes(u, d)
  BY DEF IInv, OneCloser
<1>4. pc'[t] = l /\ pc' = [u \in Threads |-> pc'[u]]
  BY AudioDeviceAssumption DEF EndClose, Broadcast, Threads
<1>5. \A u \in Threads \ {t} :
        \/ pc'[u] = pc[u]
        \/ u = d /\ pc'[u] = "none"
        \/ pc'[u] \in {"open_woken", "def_woken"}
  BY AudioDeviceAssumption DEF EndClose, Broadcast, Threads
<1>6. \A u \in Threads : \A e \in Devices : Closes(u, e)' => Closes(u, e)
  <2>1. \A e \in Devices : ~Closes(t, e)'
    BY <1>4 DEF Closes, Plain, JoinLabels
  <2>2. \A u \in Threads \ {t} : \A e \in Devices : Closes(u, e)' => Closes(u, e)
    BY <1>5 DEF Closes, Local, IInv, Maps
  <2>3. QED
    BY <2>1, <2>2
<1>7. \A u \in Threads : ~Closes(u, d)'
  BY <1>2, <1>4, <1>6 DEF Closes, Plain, JoinLabels
<1>8. \A e \in Devices : HasThread(e) => HasThread(e)' \/ e \in shutdown
  <2>1. ASSUME NEW e \in Devices \ {d}, HasThread(e) PROVE HasThread(e)'
    BY <1>4, <1>5, <2>1 DEF HasThread, Plain, Threads
  <2>2. QED
    BY <1>1, <2>1
<1>9. Maps'
  BY <1>1, <1>4 DEF IInv, Maps, Local
<1>10. QED
  BY <1>1, <1>6, <1>7, <1>8, <1>9, Keep DEF IInv, Maps

-----------------------------------------------------------------------------
(* Where a device is expected, there is one.                               *)
WithDevice == {"find", "found", "open", "open_on", "open_wait", "open_woken", "open_join",
               "use", "close", "close_join", "unref", "unhash", "destroy", "free_join",
               "disc", "disc_lock"}
WithBoth   == {"def_lock_old", "def_wait", "def_woken", "new_join", "old_join"}

Places ==
  /\ Maps
  /\ lstate = [l \in Logicals |-> lstate[l]] /\ physOf = [l \in Logicals |-> physOf[l]]
  /\ \A t \in Threads : pc[t] \in WithDevice => dev[t] \in Devices
  /\ default \in Devices \cup {None} /\ old \in Devices \cup {None}
  /\ \A l \in Logicals : lstate[l] = "open" => physOf[l] \in Devices
  /\ pc[driver] \in WithBoth \cup {"def_lock", "def_release"} => new \in Devices
  /\ pc[driver] \in WithBoth => old \in Devices

LEMMA InitPlaces == Init => Places
BY AudioDeviceAssumption DEF Init, Places, Maps, WithDevice, WithBoth, Threads

LEMMA ThreadsDisjoint ==
  /\ driver \in Threads /\ Callers \subseteq Threads /\ Devices \subseteq Threads
  /\ driver \notin Callers /\ driver \notin Devices /\ Callers \cap Devices = {}
  /\ None \notin Devices
BY AudioDeviceAssumption DEF Threads

-----------------------------------------------------------------------------
(* Every step leaves it so.                                                *)
LEMMA UnrefPlaces ==
  ASSUME Places, NEW t \in Threads, Unref(t)
  PROVE  Places'
BY ThreadsDisjoint
   DEF Unref, Places, Maps, WithDevice, WithBoth, Goto, table_vars, flags,
       logical_vars, change, Leave, ForgetCall, Next_pc

LEMMA UnhashPlaces ==
  ASSUME Places, NEW t \in Threads, Unhash(t)
  PROVE  Places'
BY ThreadsDisjoint
   DEF Unhash, Places, Maps, WithDevice, WithBoth, Goto, table_vars, flags,
       logical_vars, change

LEMMA DestroyPlaces ==
  ASSUME Places, NEW t \in Threads, Destroy(t)
  PROVE  Places'
BY ThreadsDisjoint
   DEF Destroy, Places, Maps, WithDevice, WithBoth, Goto, table_vars, flags,
       logical_vars, change, DestroyLogicals, BeginClose

LEMMA FreeJoinedPlaces ==
  ASSUME Places, NEW t \in Threads, FreeJoined(t)
  PROVE  Places'
BY ThreadsDisjoint
   DEF FreeJoined, Places, Maps, WithDevice, WithBoth, Goto, table_vars, flags,
       logical_vars, change, EndClose, Broadcast, CloseSystem, Next_pc,
       ForgetCall

LEMMA DisconnectPlaces ==
  ASSUME Places, NEW t \in Threads, Disconnect(t)
  PROVE  Places'
BY ThreadsDisjoint
   DEF Disconnect, Places, Maps, WithDevice, WithBoth, Goto, table_vars, flags,
       logical_vars, change

LEMMA DisconnectLockedPlaces ==
  ASSUME Places, NEW t \in Threads, DisconnectLocked(t)
  PROVE  Places'
BY ThreadsDisjoint
   DEF DisconnectLocked, Places, Maps, WithDevice, WithBoth, Goto, table_vars, flags,
       logical_vars, change

LEMMA OpenDefaultPlaces ==
  ASSUME Places, NEW t \in Threads, OpenDefault(t)
  PROVE  Places'
BY ThreadsDisjoint
   DEF OpenDefault, Places, Maps, WithDevice, WithBoth, Goto, table_vars, flags,
       logical_vars, change, Stimulus

LEMMA FindPlaces ==
  ASSUME Places, NEW t \in Threads, Find(t)
  PROVE  Places'
BY ThreadsDisjoint
   DEF Find, Places, Maps, WithDevice, WithBoth, Goto, table_vars, flags, logical_vars,
       change, Leave, ForgetCall, Next_pc

LEMMA ObtainPlaces ==
  ASSUME Places, NEW t \in Threads, Obtain(t)
  PROVE  Places'
BY ThreadsDisjoint
   DEF Obtain, Places, Maps, WithDevice, WithBoth, Goto, table_vars, flags,
       logical_vars, change

LEMMA OpenJoinedPlaces ==
  ASSUME Places, NEW t \in Threads, OpenJoined(t)
  PROVE  Places'
BY ThreadsDisjoint
   DEF OpenJoined, Places, Maps, WithDevice, WithBoth, Goto, table_vars, flags,
       logical_vars, change, EndClose, Broadcast, CloseSystem

LEMMA InsertPlaces ==
  ASSUME Places, NEW t \in Threads, Insert(t)
  PROVE  Places'
BY ThreadsDisjoint
   DEF Insert, Places, Maps, WithDevice, WithBoth, Goto, table_vars, flags,
       logical_vars, change, Leave, ForgetCall, Next_pc

LEMMA UseLockedPlaces ==
  ASSUME Places, NEW t \in Threads, UseLocked(t)
  PROVE  Places'
BY ThreadsDisjoint
   DEF UseLocked, Places, Maps, WithDevice, WithBoth, Goto, table_vars, flags,
       logical_vars, change

LEMMA CloseLockedPlaces ==
  ASSUME Places, NEW t \in Threads, CloseLocked(t)
  PROVE  Places'
<1> USE ThreadsDisjoint
<1>1. dev[t] \in Devices /\ pc' \in {[pc EXCEPT ![t] = "close_join"], [pc EXCEPT ![t] = "unref"]}
  BY DEF CloseLocked, Places, WithDevice, Goto
<1>2. Maps'
  <2>1. logs' = [d \in Devices |-> logs'[d]]
    BY DEF CloseLocked, Places, Maps
  <2>2. shutdown' \in {shutdown, shutdown \cup {dev[t]}} /\ UNCHANGED <<opened, dev>>
    BY DEF CloseLocked, BeginClose
  <2>3. QED
    BY <1>1, <2>1, <2>2 DEF Places, Maps
<1>3. UNCHANGED <<default, new, old, dev>>
  BY DEF CloseLocked, change
<1>4. /\ lstate' = [l \in Logicals |-> lstate'[l]] /\ physOf' = [l \in Logicals |-> physOf'[l]]
      /\ \A l \in Logicals : lstate'[l] = "open" => lstate[l] = "open" /\ physOf'[l] = physOf[l]
  BY DEF CloseLocked, DestroyLogicals
<1>5. QED
  BY <1>1, <1>2, <1>3, <1>4 DEF Places, Maps, WithDevice, WithBoth

LEMMA CloseJoinedPlaces ==
  ASSUME Places, NEW t \in Threads, CloseJoined(t)
  PROVE  Places'
BY ThreadsDisjoint
   DEF CloseJoined, Places, Maps, WithDevice, WithBoth, Goto, table_vars, flags,
       logical_vars, change, EndClose, Broadcast, CloseSystem

LEMMA OpenDevicePlaces ==
  ASSUME Places, NEW t \in Callers, NEW d \in Devices, OpenDevice(t, d)
  PROVE  Places'
BY ThreadsDisjoint
   DEF OpenDevice, Places, Maps, WithDevice, WithBoth, Goto, table_vars, flags,
       logical_vars, change

LEMMA FindLogicalPlaces ==
  ASSUME Places, NEW t \in Callers, NEW l \in Logicals, NEW next,
         FindLogical(t, l, next), next \in {"open_on", "use", "close"},
         lstate' = lstate \/ lstate' = [lstate EXCEPT ![l] = "closing"]
  PROVE  Places'
BY ThreadsDisjoint
   DEF FindLogical, Places, Maps, WithDevice, WithBoth, Goto, table_vars, flags,
       logical_vars, change

LEMMA ThreadEndsPlaces ==
  ASSUME Places, NEW d \in Devices, ThreadEnds(d)
  PROVE  Places'
BY ThreadsDisjoint
   DEF ThreadEnds, Places, Maps, WithDevice, WithBoth, Goto, table_vars, flags,
       logical_vars, change

LEMMA ThreadFailsPlaces ==
  ASSUME Places, NEW d \in Devices, ThreadFails(d)
  PROVE  Places'
BY ThreadsDisjoint
   DEF ThreadFails, Places, Maps, WithDevice, WithBoth, Goto, table_vars, flags,
       logical_vars, change

LEMMA PlugPlaces ==
  ASSUME Places, NEW d \in Devices, Plug(d)
  PROVE  Places'
BY ThreadsDisjoint
   DEF Plug, Places, Maps, WithDevice, WithBoth, Goto, table_vars, flags, logical_vars,
       change

LEMMA PlugRefPlaces ==
  ASSUME Places, PlugRef
  PROVE  Places'
BY ThreadsDisjoint
   DEF PlugRef, Places, Maps, WithDevice, WithBoth, Goto, table_vars, flags,
       logical_vars, change, Leave, ForgetCall, Next_pc

LEMMA UnplugPlaces ==
  ASSUME Places, NEW d \in Devices, Unplug(d)
  PROVE  Places'
BY ThreadsDisjoint
   DEF Unplug, Places, Maps, WithDevice, WithBoth, Goto, table_vars, flags,
       logical_vars, change

LEMMA ChangeDefaultPlaces ==
  ASSUME Places, NEW d \in Devices, ChangeDefault(d)
  PROVE  Places'
BY ThreadsDisjoint
   DEF ChangeDefault, Places, Maps, WithDevice, WithBoth, Goto, table_vars, flags,
       logical_vars, change

LEMMA LockNewPlaces ==
  ASSUME Places, LockNew
  PROVE  Places'
BY ThreadsDisjoint
   DEF LockNew, Places, Maps, WithDevice, WithBoth, Goto, table_vars, flags,
       logical_vars, change

LEMMA NewJoinedPlaces ==
  ASSUME Places, NewJoined
  PROVE  Places'
BY ThreadsDisjoint
   DEF NewJoined, Places, Maps, WithDevice, WithBoth, Goto, table_vars, flags,
       logical_vars, change, EndClose, Broadcast, CloseSystem

LEMMA OldJoinedPlaces ==
  ASSUME Places, OldJoined
  PROVE  Places'
BY ThreadsDisjoint
   DEF OldJoined, Places, Maps, WithDevice, WithBoth, Goto, table_vars, flags,
       logical_vars, change, EndClose, Broadcast, CloseSystem

LEMMA ReleasePlaces ==
  ASSUME Places, Release
  PROVE  Places'
BY ThreadsDisjoint
   DEF Release, Places, Maps, WithDevice, WithBoth, Goto, table_vars, flags,
       logical_vars, change

LEMMA OpenPhysicalPlaces ==
  ASSUME Places, NEW t \in Callers, NEW d \in Devices, NEW l, NEW b,
         pc[t] \in WithDevice, OpenPhysical(t, d, l, b), UNCHANGED <<table_vars, change, dev>>
  PROVE  Places'
<1> USE ThreadsDisjoint DEF table_vars, flags, change
<1>1. CASE OpenWait(t, d, l, b)
  BY <1>1 DEF OpenWait, Places, Maps, WithDevice, WithBoth, Goto
<1>2. CASE OpenShared(t, d, l, b)
  BY <1>2 DEF OpenShared, Attach, Places, Maps, WithDevice, WithBoth, Goto
<1>3. CASE OpenSystem(t, d, l, b) /\ Attach(t, d, l, b)
           /\ pc' = [pc EXCEPT ![t] = "unref", ![d] = "run"] /\ UNCHANGED <<zombie, shutdown>>
  BY <1>3 DEF OpenSystem, Attach, Places, Maps, WithDevice, WithBoth
<1>4. CASE OpenSystem(t, d, l, b) /\ BeginClose(d) /\ Goto(t, "open_join")
           /\ lstate' = [lstate EXCEPT ![l] = "unused"]
           /\ UNCHANGED <<refs, zombie, logs, physOf, asDefault, tgt>>
  BY <1>4 DEF OpenSystem, BeginClose, Places, Maps, WithDevice, WithBoth, Goto
<1>5. QED
  BY <1>1, <1>2, <1>3, <1>4 DEF OpenPhysical, OpenSystem

LEMMA OpenNewPlaces ==
  ASSUME Places, OpenNew, pc[driver] \in WithBoth, UNCHANGED <<default, new, old, dev>>
  PROVE  Places'
<1> USE ThreadsDisjoint
<1>1. new \in Devices /\ old \in Devices
  BY DEF Places
<1>2. CASE \E T \in {{}, {new}} : Migrate(T) /\ opened' \in {opened, opened \cup {new}}
  <2>1. PICK T \in {{}, {new}} : Migrate(T)
    BY <1>2
  <2>2. /\ pc' = [x \in Threads |-> pc'[x]]
        /\ \A x \in Threads : pc'[x] \in {pc[x], "run", "old_join", "def_release"}
    BY <2>1 DEF Migrate
  <2>3. shutdown' \subseteq Devices /\ logs' = [e \in Devices |-> logs'[e]]
    BY <1>1, <2>1 DEF Migrate, BeginClose, Places, Maps
  <2>4. /\ UNCHANGED lstate /\ physOf' = [l \in Logicals |-> physOf'[l]]
        /\ \A l \in Logicals : physOf'[l] \in {physOf[l], new}
    BY <2>1 DEF Migrate
  <2>5. QED
    BY <1>1, <1>2, <2>2, <2>3, <2>4 DEF Places, Maps, WithDevice, WithBoth
<1>3. CASE \E x \in {"def_wait", "new_join"} : Goto(driver, x) /\ UNCHANGED <<refs, logical_vars>>
           /\ shutdown' \subseteq shutdown \cup {new} /\ opened' \in {opened, opened \cup {new}}
  BY <1>1, <1>3 DEF Goto, logical_vars, Places, Maps, WithDevice, WithBoth
<1>4. QED
  BY <1>2, <1>3 DEF OpenNew, BeginClose, logical_vars

-----------------------------------------------------------------------------
(* The steps that close nothing and attach nothing.                        *)

LEMMA PlainNext == \A t : Plain(Next_pc(t))
BY DEF Plain, JoinLabels, Next_pc

LEMMA UnrefQuiet ==
  ASSUME IInv, NEW t \in Threads, Unref(t)
  PROVE  Quiet(t)
BY ThreadsDisjoint, PlainNext
   DEF Unref, Quiet, Local, Plain, JoinLabels, IInv, Maps, Goto, flags, logical_vars,
       change, Leave, ForgetCall

LEMMA UnhashQuiet ==
  ASSUME IInv, NEW t \in Threads, Unhash(t)
  PROVE  Quiet(t)
BY ThreadsDisjoint
   DEF Unhash, Quiet, Local, Plain, JoinLabels, IInv, Maps, Goto, flags, logical_vars,
       change

LEMMA DisconnectQuiet ==
  ASSUME IInv, NEW t \in Threads, Disconnect(t)
  PROVE  Quiet(t)
BY ThreadsDisjoint
   DEF Disconnect, Quiet, Local, Plain, JoinLabels, IInv, Maps, Goto, flags,
       logical_vars, change

LEMMA DisconnectLockedQuiet ==
  ASSUME IInv, NEW t \in Threads, DisconnectLocked(t)
  PROVE  Quiet(t)
BY ThreadsDisjoint
   DEF DisconnectLocked, Quiet, Local, Plain, JoinLabels, IInv, Maps, Goto, flags,
       logical_vars, change

LEMMA OpenDefaultQuiet ==
  ASSUME IInv, NEW t \in Threads, OpenDefault(t)
  PROVE  Quiet(t)
BY ThreadsDisjoint
   DEF OpenDefault, Quiet, Local, Plain, JoinLabels, IInv, Maps, Goto, flags,
       logical_vars, change

LEMMA FindQuiet ==
  ASSUME IInv, NEW t \in Threads, Find(t)
  PROVE  Quiet(t)
BY ThreadsDisjoint, PlainNext
   DEF Find, Quiet, Local, Plain, JoinLabels, IInv, Maps, Goto, flags, logical_vars,
       change, Leave, ForgetCall

LEMMA ObtainQuiet ==
  ASSUME IInv, NEW t \in Threads, Obtain(t)
  PROVE  Quiet(t)
BY ThreadsDisjoint
   DEF Obtain, Quiet, Local, Plain, JoinLabels, IInv, Maps, Goto, flags, logical_vars,
       change

LEMMA InsertQuiet ==
  ASSUME IInv, NEW t \in Threads, Insert(t)
  PROVE  Quiet(t)
BY ThreadsDisjoint, PlainNext
   DEF Insert, Quiet, Local, Plain, JoinLabels, IInv, Maps, Goto, flags, logical_vars,
       change, Leave, ForgetCall

LEMMA UseLockedQuiet ==
  ASSUME IInv, NEW t \in Threads, UseLocked(t)
  PROVE  Quiet(t)
BY ThreadsDisjoint
   DEF UseLocked, Quiet, Local, Plain, JoinLabels, IInv, Maps, Goto, flags,
       logical_vars, change

LEMMA OpenDeviceQuiet ==
  ASSUME IInv, NEW t \in Callers, NEW d \in Devices, OpenDevice(t, d)
  PROVE  Quiet(t)
BY ThreadsDisjoint
   DEF OpenDevice, Quiet, Local, Plain, JoinLabels, IInv, Maps, Goto, flags,
       logical_vars, change

LEMMA FindLogicalQuiet ==
  ASSUME IInv, NEW t \in Callers, NEW l \in Logicals, NEW next,
         FindLogical(t, l, next), next \in {"open_on", "use", "close"}
  PROVE  Quiet(t)
BY ThreadsDisjoint
   DEF FindLogical, Quiet, Local, Plain, JoinLabels, IInv, Maps, Goto, flags,
       logical_vars, change

LEMMA OpenWaitQuiet ==
  ASSUME IInv, NEW t \in Callers, NEW d \in Devices, NEW l, NEW b,
         OpenWait(t, d, l, b), UNCHANGED <<change, dev>>
  PROVE  Quiet(t)
BY ThreadsDisjoint
   DEF OpenWait, Quiet, Local, Plain, JoinLabels, IInv, Maps, Goto, flags,
       logical_vars, change

LEMMA ThreadFailsQuiet ==
  ASSUME IInv, NEW d \in Devices, ThreadFails(d)
  PROVE  Quiet(d)
BY ThreadsDisjoint
   DEF ThreadFails, Quiet, Local, Plain, JoinLabels, IInv, Maps, Goto, flags,
       logical_vars, change

LEMMA PlugQuiet ==
  ASSUME IInv, NEW d \in Devices, Plug(d)
  PROVE  Quiet(driver)
BY ThreadsDisjoint
   DEF Plug, Quiet, Local, Plain, JoinLabels, IInv, Maps, Goto, flags, logical_vars,
       change

LEMMA PlugRefQuiet ==
  ASSUME IInv, PlugRef
  PROVE  Quiet(driver)
BY ThreadsDisjoint, PlainNext
   DEF PlugRef, Quiet, Local, Plain, JoinLabels, IInv, Maps, Goto, flags, logical_vars,
       change, Leave, ForgetCall

LEMMA UnplugQuiet ==
  ASSUME IInv, NEW d \in Devices, Unplug(d)
  PROVE  Quiet(driver)
BY ThreadsDisjoint
   DEF Unplug, Quiet, Local, Plain, JoinLabels, IInv, Maps, Goto, flags, logical_vars,
       change

LEMMA ChangeDefaultQuiet ==
  ASSUME IInv, NEW d \in Devices, ChangeDefault(d)
  PROVE  Quiet(driver)
BY ThreadsDisjoint
   DEF ChangeDefault, Quiet, Local, Plain, JoinLabels, IInv, Maps, Goto, flags,
       logical_vars, change

LEMMA LockNewQuiet ==
  ASSUME IInv, LockNew
  PROVE  Quiet(driver)
BY ThreadsDisjoint
   DEF LockNew, Quiet, Local, Plain, JoinLabels, IInv, Maps, Goto, flags, logical_vars,
       change

LEMMA ReleaseQuiet ==
  ASSUME IInv, Release
  PROVE  Quiet(driver)
BY ThreadsDisjoint
   DEF Release, Quiet, Local, Plain, JoinLabels, IInv, Maps, Goto, flags, logical_vars,
       change

-----------------------------------------------------------------------------
(* Opening, closing and migrating.                                         *)

LEMMA DestroyStep ==
  ASSUME Places, IInv, NEW t \in Threads, Destroy(t)
  PROVE  IInv'
<1>1. dev[t] \in Devices /\ dev' = dev /\ pc' = [pc EXCEPT ![t] = "free_join"]
  BY DEF Destroy, Places, WithDevice, Goto
<1>2. Local(t) /\ \A e \in Devices : Closes(t, e)' => e = dev[t]
  BY <1>1, ThreadsDisjoint DEF Destroy, Local, Closes, IInv, Maps, change
<1>3. /\ BeginClose(dev[t]) /\ logs'[dev[t]] = {} /\ UNCHANGED <<opened, zombie>>
      /\ logs' = [e \in Devices |-> logs'[e]] /\ \A e \in Devices : logs'[e] \subseteq logs[e]
  BY <1>1 DEF Destroy, IInv, Maps
<1>4. QED
  BY <1>1, <1>2, <1>3, Begins DEF JoinLabels

LEMMA CloseLockedStep ==
  ASSUME Places, IInv, NEW t \in Threads, CloseLocked(t)
  PROVE  IInv'
<1> DEFINE d == dev[t]
<1>1. d \in Devices /\ dev' = dev /\ Local(t)
  BY DEF CloseLocked, Places, WithDevice, Local, IInv, Maps, change
<1>2. logs' = [e \in Devices |-> logs'[e]] /\ \A e \in Devices : logs'[e] \subseteq logs[e]
  BY DEF CloseLocked, IInv, Maps
<1>3. UNCHANGED <<opened, zombie>>
  BY DEF CloseLocked
<1>4. CASE logs'[d] = {}
  <2>1. pc' = [pc EXCEPT ![t] = "close_join"] /\ BeginClose(d)
    BY <1>4 DEF CloseLocked, Goto
  <2>2. \A e \in Devices : Closes(t, e)' => e = d
    BY <1>1, <2>1, ThreadsDisjoint DEF Closes, IInv, Maps
  <2>3. QED
    BY <1>1, <1>2, <1>3, <1>4, <2>1, <2>2, Begins DEF JoinLabels
<1>5. CASE logs'[d] # {}
  <2>1. pc' = [pc EXCEPT ![t] = "unref"] /\ UNCHANGED shutdown
    BY <1>5 DEF CloseLocked, Goto
  <2>2. QED
    BY <1>1, <1>2, <1>3, <2>1, Harmless DEF Quiet, Plain, JoinLabels
<1>6. QED
  BY <1>4, <1>5

LEMMA FreeJoinedStep ==
  ASSUME Places, IInv, NEW t \in Threads, FreeJoined(t)
  PROVE  IInv'
<1>1. dev[t] \in Devices /\ Closes(t, dev[t]) /\ EndClose(dev[t], t, Next_pc(t))
  BY DEF FreeJoined, Closes, Places, WithDevice
<1>2. Local(t) /\ UNCHANGED <<zombie, logs>>
  BY DEF FreeJoined, ForgetCall, Local, change, logical_vars, IInv, Maps
<1>3. QED
  BY <1>1, <1>2, Ends, PlainNext

LEMMA OpenJoinedStep ==
  ASSUME Places, IInv, NEW t \in Threads, OpenJoined(t)
  PROVE  IInv'
<1>1. dev[t] \in Devices /\ Closes(t, dev[t]) /\ EndClose(dev[t], t, "unref")
  BY DEF OpenJoined, Closes, Places, WithDevice
<1>2. Local(t) /\ UNCHANGED <<zombie, logs>>
  BY DEF OpenJoined, Local, change, logical_vars, IInv, Maps
<1>3. QED
  BY <1>1, <1>2, Ends DEF Plain, JoinLabels

LEMMA CloseJoinedStep ==
  ASSUME Places, IInv, NEW t \in Threads, CloseJoined(t)
  PROVE  IInv'
<1>1. dev[t] \in Devices /\ Closes(t, dev[t]) /\ EndClose(dev[t], t, "unref")
  BY DEF CloseJoined, Closes, Places, WithDevice
<1>2. Local(t) /\ UNCHANGED <<zombie, logs>>
  BY DEF CloseJoined, Local, change, logical_vars, IInv, Maps
<1>3. QED
  BY <1>1, <1>2, Ends DEF Plain, JoinLabels

LEMMA NewJoinedStep ==
  ASSUME Places, IInv, NewJoined
  PROVE  IInv'
<1>1. new \in Devices /\ Closes(driver, new) /\ EndClose(new, driver, "def_release")
  BY DEF NewJoined, Closes, Places, WithBoth
<1>2. Local(driver) /\ UNCHANGED <<zombie, logs>>
  BY DEF NewJoined, Local, logical_vars, IInv, Maps
<1>3. QED
  BY <1>1, <1>2, Ends, ThreadsDisjoint DEF Plain, JoinLabels

LEMMA OldJoinedStep ==
  ASSUME Places, IInv, OldJoined
  PROVE  IInv'
<1>1. old \in Devices /\ Closes(driver, old) /\ EndClose(old, driver, "def_release")
  BY DEF OldJoined, Closes, Places, WithBoth
<1>2. Local(driver) /\ UNCHANGED <<zombie, logs>>
  BY DEF OldJoined, Local, logical_vars, IInv, Maps
<1>3. QED
  BY <1>1, <1>2, Ends, ThreadsDisjoint DEF Plain, JoinLabels

(* The thread of a device leaves its loop only when the device is closed.  *)
LEMMA ThreadEndsStep ==
  ASSUME IInv, NEW d \in Devices, ThreadEnds(d)
  PROVE  IInv'
<1>1. pc' = [pc EXCEPT ![d] = "exited"] /\ d \in shutdown
  BY DEF ThreadEnds, Goto
<1>2. UNCHANGED <<dev, new, old, opened, shutdown, zombie, logs>>
  BY DEF ThreadEnds, flags, logical_vars, change
<1>3. d \in Threads
  BY ThreadsDisjoint
<1>4. \A u \in Threads : \A e \in Devices : Closes(u, e)' => Closes(u, e)
  BY <1>1, <1>2 DEF Closes, IInv, Maps
<1>5. \A e \in Devices : HasThread(e) => HasThread(e)' \/ e \in shutdown
  BY <1>1 DEF HasThread, IInv, Maps
<1>6. Maps'
  BY <1>1, <1>2 DEF IInv, Maps
<1>7. QED
  BY <1>2, <1>3, <1>4, <1>5, <1>6, Keep DEF IInv, Maps

(* SDL_OpenAudioDevice at a device that is locked.                         *)
LEMMA OpenPhysicalStep ==
  ASSUME IInv, NEW t \in Callers, NEW d \in Devices, NEW l, NEW b, dev[t] = d,
         OpenPhysical(t, d, l, b), UNCHANGED <<change, dev>>
  PROVE  IInv'
<1>1. t \in Threads \ Devices /\ t # driver /\ Local(t)
  BY ThreadsDisjoint DEF Local, change, IInv, Maps
<1>2. CASE OpenWait(t, d, l, b)
  BY <1>1, <1>2, OpenWaitQuiet, Harmless
<1>3. CASE OpenShared(t, d, l, b)
  <2>1. /\ d \in opened \cup zombie /\ d \notin shutdown /\ UNCHANGED <<opened, shutdown, zombie>>
        /\ pc' = [pc EXCEPT ![t] = "unref"]
    BY <1>3 DEF OpenShared, Closing, flags, Goto
  <2>2. /\ logs' = [e \in Devices |-> logs'[e]]
        /\ \A e \in Devices \ {d} : logs'[e] \subseteq logs[e]
    BY <1>3 DEF OpenShared, Attach, IInv, Maps
  <2>3. QED
    BY <1>1, <2>1, <2>2, Attaches DEF Plain, JoinLabels
<1>4. CASE OpenSystem(t, d, l, b)
  <2>1. d \notin shutdown /\ d \notin opened \cup zombie /\ opened' = opened \cup {d}
    BY <1>4 DEF OpenSystem, Closing
  <2>2. CASE Attach(t, d, l, b) /\ pc' = [pc EXCEPT ![t] = "unref", ![d] = "run"]
             /\ UNCHANGED <<zombie, shutdown>>
    <3>1. /\ logs' = [e \in Devices |-> logs'[e]]
          /\ \A e \in Devices \ {d} : logs'[e] \subseteq logs[e]
      BY <2>2 DEF Attach, IInv, Maps
    <3>2. QED
      BY <1>1, <2>1, <2>2, <3>1, Starts DEF Plain, JoinLabels
  <2>3. CASE BeginClose(d) /\ Goto(t, "open_join") /\ UNCHANGED <<zombie, logs>>
    <3>1. logs[d] = {}
      BY <2>1 DEF IInv, ServedWhileOpen
    <3>2. \A e \in Devices : Closes(t, e)' => e = d
      BY <1>1, <2>3 DEF Closes, Goto, IInv, Maps, change
    <3>3. logs' = [e \in Devices |-> logs'[e]] /\ \A e \in Devices : logs'[e] \subseteq logs[e]
      BY <2>3 DEF IInv, Maps
    <3>4. QED
      BY <1>1, <2>1, <2>3, <3>1, <3>2, <3>3, Begins DEF Goto, JoinLabels
  <2>4. QED
    BY <1>4, <2>2, <2>3 DEF OpenSystem
<1>5. QED
  BY <1>2, <1>3, <1>4 DEF OpenPhysical

(* Moving the logical devices to the new default device: it is open, or    *)
(* lost, or has just been opened and T names its thread.                   *)
LEMMA MigrateStep ==
  ASSUME Places, IInv, pc[driver] \in WithBoth, NEW T \in {{}, {new}}, Migrate(T),
         new \notin shutdown, new \in opened' \cup zombie, opened' = opened \cup T,
         UNCHANGED <<zombie, new, old, dev>>
  PROVE  IInv'
<1> USE ThreadsDisjoint
<1>1. new \in Devices /\ old \in Devices
  BY DEF Places
<1>2. /\ logs' = [e \in Devices |-> logs'[e]]
      /\ \A e \in Devices \ {new} : logs'[e] \subseteq logs[e]
  BY <1>1 DEF Migrate, IInv, Maps
<1>3. /\ pc' = [x \in Threads |-> pc'[x]]
      /\ \A x \in Threads \ {driver} : pc'[x] = IF x \in T THEN "run" ELSE pc[x]
      /\ pc'[driver] \in {"old_join", "def_release"}
  BY DEF Migrate
<1>4. \/ /\ pc'[driver] = "def_release" /\ UNCHANGED shutdown
      \/ /\ pc'[driver] = "old_join" /\ logs'[old] = {}
         /\ old \notin shutdown /\ shutdown' = shutdown \cup {old}
  BY DEF Migrate, BeginClose, Closing
<1>5. \A u \in Threads : \A d \in Devices :
        Closes(u, d)' => Closes(u, d) \/ (u = driver /\ d \notin shutdown /\ d \in shutdown')
  <2>1. \A u \in Threads \ {driver} : \A d \in Devices : Closes(u, d)' => Closes(u, d)
    BY <1>3 DEF Closes
  <2>2. \A d \in Devices : Closes(driver, d)' => d \notin shutdown /\ d \in shutdown'
    BY <1>4 DEF Closes
  <2>3. QED
    BY <2>1, <2>2
<1>6. \A d \in Devices :
        \/ logs'[d] = {}
        \/ logs'[d] \subseteq logs[d] /\ (d \in shutdown' => d \in shutdown)
        \/ d \notin shutdown' /\ d \in opened' \cup zombie'
  BY <1>2, <1>4
<1>7. \A d \in Devices : HasThread(d) => HasThread(d)'
  BY <1>3 DEF HasThread
<1>8. \A d \in opened' \ opened : HasThread(d)'
  BY <1>1, <1>3 DEF HasThread
<1>9. Maps'
  BY <1>1, <1>2, <1>3, <1>4 DEF IInv, Maps
<1>10. shutdown \subseteq shutdown' /\ opened \subseteq opened'
  BY <1>4
<1>11. QED
  BY <1>5, <1>6, <1>7, <1>8, <1>9, <1>10, Keep

LEMMA OpenNewStep ==
  ASSUME Places, IInv, OpenNew, pc[driver] \in WithBoth, UNCHANGED <<zombie, new, old, dev>>
  PROVE  IInv'
<1>1. driver \in Threads /\ new \in Devices /\ Local(driver)
  BY ThreadsDisjoint DEF Places, Local, IInv, Maps
<1>2. CASE Closing(new) /\ Goto(driver, "def_wait") /\ UNCHANGED <<opened, shutdown, logs>>
  BY <1>1, <1>2, Harmless DEF Quiet, Plain, JoinLabels, Goto, IInv, Maps
<1>3. CASE ~Closing(new) /\ new \in opened \cup zombie /\ Migrate({}) /\ UNCHANGED opened
  BY <1>3, MigrateStep DEF Closing
<1>4. CASE ~Closing(new) /\ opened' = opened \cup {new} /\ Migrate({new})
  BY <1>4, MigrateStep DEF Closing
<1>5. CASE new \notin opened \cup zombie /\ opened' = opened \cup {new} /\ BeginClose(new)
           /\ Goto(driver, "new_join") /\ UNCHANGED logs
  <2>1. logs[new] = {}
    BY <1>1, <1>5 DEF IInv, ServedWhileOpen
  <2>2. \A e \in Devices : Closes(driver, e)' => e = new
    BY <1>1, <1>5 DEF Closes, Goto, IInv, Maps
  <2>3. logs' = [e \in Devices |-> logs'[e]] /\ \A e \in Devices : logs'[e] \subseteq logs[e]
    BY <1>5 DEF IInv, Maps
  <2>4. QED
    BY <1>1, <1>5, <2>1, <2>2, <2>3, Begins DEF Goto, JoinLabels
<1>6. QED
  BY <1>2, <1>3, <1>4, <1>5 DEF OpenNew, logical_vars

-----------------------------------------------------------------------------
(* The steps of a call, of what any thread does, and of the driver.        *)

LEMMA CallInv ==
  ASSUME Places, IInv, NEW t \in Callers, Call(t)
  PROVE  Places' /\ IInv'
<1> USE ThreadsDisjoint
<1>1. CASE OpenDefault(t)
  BY <1>1, OpenDefaultPlaces, OpenDefaultQuiet, Harmless
<1>2. ASSUME NEW d \in Devices, OpenDevice(t, d) PROVE Places' /\ IInv'
  BY <1>2, OpenDevicePlaces, OpenDeviceQuiet, Harmless
<1>3. ASSUME NEW l \in Logicals, NEW next \in {"open_on", "use", "close"},
             FindLogical(t, l, next), lstate' = lstate \/ lstate' = [lstate EXCEPT ![l] = "closing"]
      PROVE  Places' /\ IInv'
  BY <1>3, FindLogicalPlaces, FindLogicalQuiet, Harmless
<1>4. QED
  BY <1>1, <1>2, <1>3 DEF Call, OpenOnLogical, Use, Close

LEMMA OpenLockedInv ==
  ASSUME Places, IInv, NEW t \in Callers, OpenLocked(t)
  PROVE  Places' /\ IInv'
<1>1. t \in Threads /\ dev[t] \in Devices /\ pc[t] \in WithDevice
  BY ThreadsDisjoint DEF OpenLocked, Places, WithDevice
<1>2. UNCHANGED <<table_vars, change, dev>>
  BY DEF OpenLocked
<1>3. CASE Goto(t, "unref") /\ UNCHANGED <<refs, flags, logical_vars, tgt>>
  <2>1. Quiet(t)
    BY <1>1, <1>2, <1>3 DEF Quiet, Local, Plain, JoinLabels, IInv, Maps, Goto, flags,
       logical_vars, change
  <2>2. Places'
    BY <1>1, <1>2, <1>3, ThreadsDisjoint DEF Places, Maps, WithDevice, WithBoth, Goto, flags,
       logical_vars, change, table_vars
  <2>3. QED
    BY <1>1, <2>1, <2>2, Harmless
<1>4. CASE \E l : OpenPhysical(t, dev[t], l, WantsDefault(t))
  BY <1>1, <1>2, <1>4, OpenPhysicalPlaces, OpenPhysicalStep
<1>5. QED
  BY <1>3, <1>4 DEF OpenLocked

LEMMA OpenWokenInv ==
  ASSUME Places, IInv, NEW t \in Callers, OpenWoken(t)
  PROVE  Places' /\ IInv'
<1>1. dev[t] \in Devices /\ pc[t] \in WithDevice
  BY ThreadsDisjoint DEF OpenWoken, Places, WithDevice
<1>2. UNCHANGED <<table_vars, change, dev>> /\ OpenPhysical(t, dev[t], tgt[t], WantsDefault(t))
  BY DEF OpenWoken
<1>3. QED
  BY <1>1, <1>2, OpenPhysicalPlaces, OpenPhysicalStep

LEMMA CallStepInv ==
  ASSUME Places, IInv, NEW t \in Callers, CallStep(t)
  PROVE  Places' /\ IInv'
<1>1. t \in Threads
  BY ThreadsDisjoint
<1>2. CASE OpenDefault(t) \/ Find(t) \/ Obtain(t) \/ Insert(t) \/ UseLocked(t)
  BY <1>1, <1>2, OpenDefaultPlaces, FindPlaces, ObtainPlaces, InsertPlaces, UseLockedPlaces,
     OpenDefaultQuiet, FindQuiet, ObtainQuiet, InsertQuiet, UseLockedQuiet, Harmless
<1>3. CASE OpenJoined(t) \/ CloseLocked(t) \/ CloseJoined(t)
  BY <1>1, <1>3, OpenJoinedPlaces, CloseLockedPlaces, CloseJoinedPlaces,
     OpenJoinedStep, CloseLockedStep, CloseJoinedStep
<1>4. QED
  BY <1>2, <1>3, OpenLockedInv, OpenWokenInv DEF CallStep

LEMMA SharedStepInv ==
  ASSUME Places, IInv, NEW t \in Threads, SharedStep(t)
  PROVE  Places' /\ IInv'
BY UnrefPlaces, UnhashPlaces, DestroyPlaces, FreeJoinedPlaces, DisconnectPlaces,
   DisconnectLockedPlaces, UnrefQuiet, UnhashQuiet, DisconnectQuiet, DisconnectLockedQuiet,
   Harmless, DestroyStep, FreeJoinedStep
   DEF SharedStep

LEMMA EventInv ==
  ASSUME Places, IInv, NEW d \in Devices, Event(d) \/ ThreadEnds(d)
  PROVE  Places' /\ IInv'
BY ThreadsDisjoint, PlugPlaces, UnplugPlaces, ChangeDefaultPlaces, ThreadFailsPlaces,
   ThreadEndsPlaces, PlugQuiet, UnplugQuiet, ChangeDefaultQuiet, ThreadFailsQuiet, Harmless,
   ThreadEndsStep
   DEF Event

LEMMA LockOldInv ==
  ASSUME Places, IInv, LockOld
  PROVE  Places' /\ IInv'
<1>1. /\ pc[driver] \in WithBoth /\ driver \in Threads
      /\ UNCHANGED <<default, zombie, new, old, dev>>
  BY ThreadsDisjoint DEF LockOld, WithBoth, table_vars
<1>2. CASE OpenNew
  BY <1>1, <1>2, OpenNewPlaces, OpenNewStep
<1>3. CASE Goto(driver, "def_release") /\ UNCHANGED <<refs, shutdown, opened, logical_vars>>
  <2>1. Quiet(driver)
    BY <1>1, <1>3 DEF Quiet, Local, Plain, JoinLabels, IInv, Maps, Goto, logical_vars
  <2>2. Places'
    BY <1>1, <1>3, ThreadsDisjoint
       DEF Places, Maps, WithDevice, WithBoth, Goto, logical_vars
  <2>3. QED
    BY <1>1, <2>1, <2>2, Harmless
<1>4. QED
  BY <1>2, <1>3 DEF LockOld

LEMMA NewWokenInv ==
  ASSUME Places, IInv, NewWoken
  PROVE  Places' /\ IInv'
<1>1. /\ pc[driver] \in WithBoth /\ OpenNew
      /\ UNCHANGED <<default, zombie, new, old, dev>>
  BY DEF NewWoken, WithBoth, table_vars
<1>2. QED
  BY <1>1, OpenNewPlaces, OpenNewStep

LEMMA ChangeStepInv ==
  ASSUME Places, IInv, ChangeStep
  PROVE  Places' /\ IInv'
BY ThreadsDisjoint, PlugRefPlaces, LockNewPlaces, NewJoinedPlaces, OldJoinedPlaces,
   ReleasePlaces, PlugRefQuiet, LockNewQuiet, ReleaseQuiet, Harmless, NewJoinedStep,
   OldJoinedStep, LockOldInv, NewWokenInv
   DEF ChangeStep

LEMMA StutterInv ==
  ASSUME Places, IInv, UNCHANGED vars
  PROVE  Places' /\ IInv'
<1>1. UNCHANGED <<pc, dev, logs, opened, shutdown, zombie, new, old, default, lstate, physOf>>
  BY DEF vars, table_vars, flags, logical_vars, change
<1>2. Places'
  BY <1>1 DEF Places, Maps, WithDevice, WithBoth
<1>3. Maps' /\ ClosersFlag' /\ OneCloser'
  BY <1>1 DEF IInv, Maps, ClosersFlag, OneCloser, Closes
<1>4. OpenHasThread' /\ ClosedUnused' /\ ServedWhileOpen'
  BY <1>1 DEF IInv, OpenHasThread, HasThread, ClosedUnused, ServedWhileOpen
<1>5. QED
  BY <1>2, <1>3, <1>4 DEF IInv

(* IInv is inductive, given Places, which is.                              *)
THEOREM Inductive == Spec => [](Places /\ IInv)
<1>1. Init => Places /\ IInv
  BY InitPlaces, InitIInv
<1>2. Places /\ IInv /\ [Next]_vars => (Places /\ IInv)'
  BY CallInv, CallStepInv, SharedStepInv, EventInv, ChangeStepInv, StutterInv DEF Next
<1>3. QED
  BY <1>1, <1>2, PTL DEF Spec

(* ClosePhysicalAudioDevice and OpenPhysicalAudioDevice: a device that is  *)
(* being closed has no logical device, and gets none, by an open or by a   *)
(* migration, before the closing is over.  So SerializePhysicalDeviceClose *)
(* never makes a closing call wait.                                        *)
THEOREM NoDeviceClosedInUse == Spec => []ClosedUnused
<1>1. Places /\ IInv => ClosedUnused
  BY DEF IInv
<1>2. QED
  BY <1>1, Inductive, PTL

(* OpenPhysicalAudioDevice and SDL_DefaultAudioDeviceChanged: a physical   *)
(* device with logical devices on it is open and has its thread, or has    *)
(* been lost, whatever failed on the way.                                  *)
THEOREM OpenDevicesServed == Spec => []ServedWhileOpen
<1>1. Places /\ IInv => ServedWhileOpen
  BY DEF IInv
<1>2. QED
  BY <1>1, Inductive, PTL

-----------------------------------------------------------------------------
(* The references: they are balanced, and nothing is freed while it is     *)
(* used.                                                                   *)
B(p) == IF p THEN 1 ELSE 0   \* a truth value, counted

(* The references of a device, by who holds them.                          *)
Connected(d) == d \notin zombie /\ ~(pc[driver] = "plug" /\ dev[driver] = d)
Uses(t, d)   == pc[t] \in Holding /\ dev[t] = d
Drops(t, d)  == t \in Callers /\ pc[t] = "close_join" /\ dev[t] = d
Loses(t, d)  == pc[t] = "unref" /\ dev[t] = d /\ job[t] = "unplug"

Shared(d) == B(Connected(d)) + B(default = d) + B(new = d) + B(old = d)
             + B(old = d /\ pc[driver] # "def_lock")
Mine(t, d) == B(Uses(t, d)) + B(Drops(t, d)) + B(Loses(t, d))
Theirs(d) == Cardinality({t \in Threads : Uses(t, d)})
             + Cardinality({t \in Threads : Drops(t, d)})
             + Cardinality({t \in Threads : Loses(t, d)})

Balanced ==
  \A d \in Devices : mem[d] = "live" => refs[d] = Shared(d) + Cardinality(logs[d]) + Theirs(d)

Typed ==
  /\ refs \in [Devices -> Int]
  /\ mem \in [Devices -> {"absent", "live", "freed"}]
  /\ tgt \in [Threads -> Logicals \cup {None}]
  /\ job = [t \in Threads |-> job[t]]
  /\ logs \in [Devices -> SUBSET Logicals]
  /\ physOf \in [Logicals -> Devices \cup {None}]

(* A logical device that is open is linked to its physical device.         *)
Linked ==
  /\ \A l \in Logicals : \A d \in Devices : l \in logs[d] <=> physOf[l] = d
  /\ \A l \in Logicals : lstate[l] \in {"open", "closing"} <=> physOf[l] # None

(* Each call that waits to open one, or is to close one, has its own.      *)
Opening(t) == pc[t] \in {"open_wait", "open_woken"}
Targets ==
  /\ \A t \in Threads : Opening(t) => tgt[t] \in Logicals /\ lstate[tgt[t]] = "allocated"
  /\ \A t \in Threads : pc[t] = "close" =>
       t \in Callers /\ tgt[t] \in Logicals /\ lstate[tgt[t]] = "closing" /\ physOf[tgt[t]] = dev[t]
  /\ \A t, u \in Threads :
       tgt[t] = tgt[u] /\ (Opening(t) \/ pc[t] = "close") /\ (Opening(u) \/ pc[u] = "close")
         => t = u

(* The driver, and what it moves.                                          *)
DefLabels == WithBoth \cup {"def_lock", "def_release"}
Changing ==
  /\ pc[driver] \in DefLabels => new \in Devices /\ default = new /\ old # new
  /\ pc[driver] \notin DefLabels => new = None /\ old = None
  /\ pc[driver] \in {"def_wait", "def_woken"} =>
       old \in held /\ \A l \in Followers : ~LookedAt(l)

Idle ==
  /\ \A t \in Threads : pc[t] \notin WithDevice \cup {"plug"} => dev[t] = None
  /\ \A t \in Threads : pc[t] = "plug" => t = driver
  /\ \A t \in Threads : job[t] = "unplug" => pc[t] = "unref"
  /\ \A d \in Devices : pc[d] # "none" => d \in opened

(* No references yet, or no more.                                          *)
Doomed(t, d) == pc[t] \in {"unhash", "destroy", "free_join"} /\ dev[t] = d
Unreferenced ==
  /\ \A d \in Devices : mem[d] = "absent" => refs[d] = 0 /\ d \notin zombie
  /\ pc[driver] = "plug" => dev[driver] \in Devices /\ refs[dev[driver]] = 0
                            /\ dev[driver] \notin zombie /\ pc[dev[driver]] = "none"
  /\ \A t \in Threads : \A d \in Devices : Doomed(t, d) =>
       refs[d] = 0 /\ d \in zombie /\ (pc[t] # "unhash" => d \notin table)
  /\ \A t, u \in Threads : \A d \in Devices : Doomed(t, d) /\ Doomed(u, d) => t = u

(* What was found, and is about to be referenced, has not gone away.       *)
SoughtLater ==
  \A t \in Threads : pc[t] \in {"found", "disc"} => refs[dev[t]] > 0

RInv ==
  /\ Typed /\ Linked /\ Targets /\ Changing /\ Idle /\ Unreferenced /\ SoughtLater
  /\ Balanced /\ NoUseAfterFree

(* The assumption of everything below: see Windows in AudioDevice.         *)
NoRaces == Windows = {}

-----------------------------------------------------------------------------
(* Counting.                                                               *)
LEMMA Finite == IsFiniteSet(Threads) /\ IsFiniteSet(Logicals)
<1>1. IsFiniteSet(Callers \cup Devices) /\ IsFiniteSet(Logicals)
  BY AudioDeviceAssumption, FS_Union
<1>2. IsFiniteSet({driver})
  BY FS_Singleton
<1>3. QED
  BY <1>1, <1>2, FS_Union DEF Threads

LEMMA OneMember ==
  ASSUME NEW X, IsFiniteSet(X), NEW Y, IsFiniteSet(Y), NEW t, X \ {t} = Y \ {t}
  PROVE  /\ Cardinality(X) \in Nat /\ Cardinality(Y) \in Nat
         /\ Cardinality(Y) - B(t \in Y) = Cardinality(X) - B(t \in X)
         /\ Cardinality(X) >= B(t \in X)
<1> DEFINE Rest == X \ {t}
<1>1. IsFiniteSet(Rest) /\ Cardinality(Rest) \in Nat
  BY FS_Subset, FS_CardinalityType
<1>2. ASSUME NEW Z, IsFiniteSet(Z), Z \ {t} = Rest
      PROVE  Cardinality(Z) = Cardinality(Rest) + B(t \in Z)
  <2>1. CASE t \in Z
    <3>1. Z = Rest \cup {t} /\ t \notin Rest
      BY <1>2, <2>1
    <3>2. QED
      BY <1>1, <2>1, <3>1, FS_AddElement DEF B
  <2>2. CASE t \notin Z
    BY <1>1, <1>2, <2>2 DEF B
  <2>3. QED
    BY <2>1, <2>2
<1>3. Cardinality(X) = Cardinality(Rest) + B(t \in X) /\ Cardinality(Y) = Cardinality(Rest) + B(t \in Y)
  BY <1>2
<1>4. QED
  BY <1>1, <1>3 DEF B

(* The references threads hold, when only t gets or gives back some.       *)
LEMMA TheirsChange ==
  ASSUME NEW t \in Threads, NEW d \in Devices,
         \A u \in Threads \ {t} :
           (Uses(u, d)' <=> Uses(u, d)) /\ (Drops(u, d)' <=> Drops(u, d))
           /\ (Loses(u, d)' <=> Loses(u, d))
  PROVE  /\ Theirs(d) \in Nat /\ Theirs(d) >= Mine(t, d)
         /\ Theirs(d)' = Theirs(d) - Mine(t, d) + Mine(t, d)'
<1> DEFINE U == {x \in Threads : Uses(x, d)}
           D == {x \in Threads : Drops(x, d)}
           L == {x \in Threads : Loses(x, d)}
<1>1. /\ IsFiniteSet(U) /\ IsFiniteSet(U') /\ U \ {t} = U' \ {t}
      /\ (t \in U <=> Uses(t, d)) /\ (t \in U' <=> Uses(t, d)')
  <2>1. U \subseteq Threads /\ U' \subseteq Threads
    OBVIOUS
  <2>2. IsFiniteSet(U) /\ IsFiniteSet(U')
    BY <2>1, Finite, FS_Subset
  <2>3. QED
    BY <2>2
<1>2. /\ IsFiniteSet(D) /\ IsFiniteSet(D') /\ D \ {t} = D' \ {t}
      /\ (t \in D <=> Drops(t, d)) /\ (t \in D' <=> Drops(t, d)')
  <2>1. D \subseteq Threads /\ D' \subseteq Threads
    OBVIOUS
  <2>2. IsFiniteSet(D) /\ IsFiniteSet(D')
    BY <2>1, Finite, FS_Subset
  <2>3. QED
    BY <2>2
<1>3. /\ IsFiniteSet(L) /\ IsFiniteSet(L') /\ L \ {t} = L' \ {t}
      /\ (t \in L <=> Loses(t, d)) /\ (t \in L' <=> Loses(t, d)')
  <2>1. L \subseteq Threads /\ L' \subseteq Threads
    OBVIOUS
  <2>2. IsFiniteSet(L) /\ IsFiniteSet(L')
    BY <2>1, Finite, FS_Subset
  <2>3. QED
    BY <2>2
<1> DEFINE CU == Cardinality(U)
           CD == Cardinality(D)
           CL == Cardinality(L)
<1> HIDE DEF U, D, L
<1>4. /\ CU \in Nat /\ CU' \in Nat /\ CU >= B(Uses(t, d))
      /\ CU' - B(Uses(t, d))' = CU - B(Uses(t, d))
  BY <1>1, OneMember DEF B
<1>5. /\ CD \in Nat /\ CD' \in Nat /\ CD >= B(Drops(t, d))
      /\ CD' - B(Drops(t, d))' = CD - B(Drops(t, d))
  BY <1>2, OneMember DEF B
<1>6. /\ CL \in Nat /\ CL' \in Nat /\ CL >= B(Loses(t, d))
      /\ CL' - B(Loses(t, d))' = CL - B(Loses(t, d))
  BY <1>3, OneMember DEF B
<1>7. Theirs(d) = CU + CD + CL /\ Theirs(d)' = CU' + CD' + CL'
  BY DEF Theirs, U, D, L
<1>8. /\ B(Uses(t, d)) \in Nat /\ B(Drops(t, d)) \in Nat /\ B(Loses(t, d)) \in Nat
      /\ B(Uses(t, d))' \in Nat /\ B(Drops(t, d))' \in Nat /\ B(Loses(t, d))' \in Nat
  BY DEF B
<1> HIDE DEF CU, CD, CL
<1>9. QED
  BY <1>4, <1>5, <1>6, <1>7, <1>8 DEF Mine

Alone(t) ==
  \A u \in Threads \ {t} : \A d \in Devices :
    (Uses(u, d)' <=> Uses(u, d)) /\ (Drops(u, d)' <=> Drops(u, d))
    /\ (Loses(u, d)' <=> Loses(u, d))

LEMMA LogsFinite ==
  ASSUME Typed, NEW d \in Devices
  PROVE  IsFiniteSet(logs[d]) /\ Cardinality(logs[d]) \in Nat
<1>1. logs[d] \subseteq Logicals
  BY DEF Typed
<1>2. QED
  BY <1>1, Finite, FS_Subset, FS_CardinalityType

(* A step of t keeps the balance if each device's count changes by what    *)
(* its being connected or the default, its logical devices and t's own     *)
(* references change by.                                                   *)
LEMMA BalancedKept ==
  ASSUME Typed, Typed', Balanced, NEW t \in Threads, Alone(t),
         \A d \in Devices : mem'[d] = "live" =>
           /\ mem[d] = "live"
           /\ refs'[d] - refs[d] = (Shared(d)' - Shared(d)) + (Mine(t, d)' - Mine(t, d))
                                   + (Cardinality(logs'[d]) - Cardinality(logs[d]))
  PROVE  Balanced'
<1> SUFFICES ASSUME NEW d \in Devices, mem'[d] = "live"
             PROVE  refs'[d] = Shared(d)' + Cardinality(logs'[d]) + Theirs(d)'
  BY DEF Balanced
<1>1. refs[d] = Shared(d) + Cardinality(logs[d]) + Theirs(d)
  BY DEF Balanced
<1>2. Theirs(d) \in Nat /\ Theirs(d)' = Theirs(d) - Mine(t, d) + Mine(t, d)'
  BY TheirsChange DEF Alone
<1>3. Cardinality(logs[d]) \in Nat /\ Cardinality(logs'[d]) \in Nat
  <2>1. logs[d] \subseteq Logicals /\ logs'[d] \subseteq Logicals
    BY DEF Typed
  <2>2. QED
    BY <2>1, Finite, FS_Subset, FS_CardinalityType
<1>4. Shared(d) \in Nat /\ Shared(d)' \in Nat /\ Mine(t, d) \in Nat /\ Mine(t, d)' \in Nat
  BY DEF Shared, Mine, B
<1>5. refs[d] \in Int /\ refs'[d] \in Int
  BY DEF Typed
<1>6. QED
  BY <1>1, <1>2, <1>3, <1>4, <1>5

-----------------------------------------------------------------------------
(* Only t moves.                                                           *)
Moves(t) ==
  /\ pc' = [pc EXCEPT ![t] = pc'[t]] /\ dev' = [dev EXCEPT ![t] = dev'[t]]
  /\ tgt' = [tgt EXCEPT ![t] = tgt'[t]] /\ job' = [job EXCEPT ![t] = job'[t]]

LEMMA MovesOthers ==
  ASSUME NEW t \in Threads, Moves(t), Places, Typed
  PROVE  /\ \A u \in Threads \ {t} : pc'[u] = pc[u] /\ dev'[u] = dev[u] /\ tgt'[u] = tgt[u]
                                     /\ job'[u] = job[u]
         /\ Alone(t)
<1>1. \A u \in Threads \ {t} : pc'[u] = pc[u] /\ dev'[u] = dev[u] /\ tgt'[u] = tgt[u]
                               /\ job'[u] = job[u]
  BY DEF Moves, Places, Maps, Typed
<1>2. QED
  BY <1>1 DEF Alone, Uses, Drops, Loses

(* What a step of a call or a device's thread keeps that does not touch    *)
(* logical devices, nor begins to look at one.                             *)
LEMMA SimpleKept ==
  ASSUME Places, Typed, Linked, Targets, Changing, Idle, NoUseAfterFree,
         NEW t \in Threads, Moves(t),
         UNCHANGED <<logical_vars, opened, mem, default, new, old, held>>,
         pc'[t] \notin {"open_wait", "open_woken", "close", "use", "open_on", "plug", "none"},
         pc'[t] \notin DefLabels, t = driver => pc[t] \notin DefLabels,
         t \in Devices => pc[t] # "none",
         pc'[t] \notin WithDevice => dev'[t] = None,
         pc'[t] = "find" \/ \A d \in Devices : dev'[t] = d => mem[d] = "live",
         job'[t] = "unplug" => pc'[t] = "unref",
         \A d \in Devices : d \in table' => d \in table
  PROVE  Linked' /\ Targets' /\ Changing' /\ Idle' /\ NoUseAfterFree'
<1>1. \A u \in Threads \ {t} : pc'[u] = pc[u] /\ dev'[u] = dev[u] /\ tgt'[u] = tgt[u]
                               /\ job'[u] = job[u]
  BY MovesOthers
<1>2. Linked'
  BY DEF Linked, logical_vars
<1>3. Targets'
  BY <1>1 DEF Targets, Opening, logical_vars
<1>4. \A l : LookedAt(l)' => LookedAt(l)
  BY <1>1, ThreadsDisjoint DEF LookedAt
<1>5. Followers' = Followers
  BY DEF Followers, logical_vars
<1>6. Changing'
  <2>1. pc'[driver] \notin DefLabels \/ pc'[driver] = pc[driver]
    BY <1>1, ThreadsDisjoint
  <2>2. pc'[driver] \in DefLabels <=> pc[driver] \in DefLabels
    BY <1>1, ThreadsDisjoint
  <2>3. QED
    BY <1>4, <1>5, <2>1, <2>2 DEF Changing, DefLabels, WithBoth
<1>7. Idle'
  BY <1>1, ThreadsDisjoint DEF Idle, WithDevice
<1>8. NoUseAfterFree'
  <2>1. \A d \in Devices : (\E u \in Threads : dev'[u] = d /\ pc'[u] # "find") => mem'[d] = "live"
    BY <1>1 DEF NoUseAfterFree
  <2>2. \A d \in Devices : pc'[d] # "none" => mem'[d] = "live"
    BY <1>1, ThreadsDisjoint DEF NoUseAfterFree
  <2>3. QED
    BY <2>1, <2>2 DEF NoUseAfterFree, logical_vars
<1>9. QED
  BY <1>2, <1>3, <1>6, <1>7, <1>8

(* What keeps the devices apart that nothing refers to.                    *)
LEMMA UnreferencedKept ==
  ASSUME Places, Typed, Unreferenced, Idle, NEW t \in Threads, Moves(t), UNCHANGED mem,
         pc'[t] # "plug", t \in Devices => pc[t] # "none", \A d \in Devices : ~Doomed(t, d)',
         \A d \in Devices : refs[d] = 0 => refs'[d] = 0,
         zombie \subseteq zombie',
         \A d \in zombie' \ zombie : mem[d] # "absent" /\ refs[d] # 0,
         \A d \in Devices : d \in table' => d \in table
  PROVE  Unreferenced'
<1>1. \A u \in Threads \ {t} : pc'[u] = pc[u] /\ dev'[u] = dev[u]
  BY MovesOthers
<1>2. \A d \in Devices : mem'[d] = "absent" => refs'[d] = 0 /\ d \notin zombie'
  BY DEF Unreferenced
<1>3. pc'[driver] = "plug" => dev'[driver] \in Devices /\ refs'[dev'[driver]] = 0
                              /\ dev'[driver] \notin zombie' /\ pc'[dev'[driver]] = "none"
  BY <1>1, ThreadsDisjoint DEF Unreferenced
<1>4. \A u \in Threads : \A d \in Devices : Doomed(u, d)' => Doomed(u, d) /\ pc'[u] = pc[u] /\ u # t
  BY <1>1 DEF Doomed
<1>5. QED
  BY <1>2, <1>3, <1>4 DEF Unreferenced

LEMMA SoughtKept ==
  ASSUME Places, Typed, SoughtLater, NEW t \in Threads, Moves(t),
         pc'[t] \in {"found", "disc"} => refs'[dev'[t]] > 0,
         \A u \in Threads \ {t} : pc[u] \in {"found", "disc"} => refs'[dev[u]] > 0
  PROVE  SoughtLater'
BY MovesOthers DEF SoughtLater

LEMMA TheirsBound ==
  ASSUME NEW t \in Threads, NEW d \in Devices
  PROVE  Theirs(d) \in Nat /\ Theirs(d) >= Mine(t, d)
<1> DEFINE CU == Cardinality({x \in Threads : Uses(x, d)})
           CD == Cardinality({x \in Threads : Drops(x, d)})
           CL == Cardinality({x \in Threads : Loses(x, d)})
<1>1. CU \in Nat /\ CU >= B(Uses(t, d))
  <2>1. IsFiniteSet({x \in Threads : Uses(x, d)})
    BY Finite, FS_Subset
  <2>2. QED
    BY <2>1, OneMember DEF B
<1>2. CD \in Nat /\ CD >= B(Drops(t, d))
  <2>1. IsFiniteSet({x \in Threads : Drops(x, d)})
    BY Finite, FS_Subset
  <2>2. QED
    BY <2>1, OneMember DEF B
<1>3. CL \in Nat /\ CL >= B(Loses(t, d))
  <2>1. IsFiniteSet({x \in Threads : Loses(x, d)})
    BY Finite, FS_Subset
  <2>2. QED
    BY <2>1, OneMember DEF B
<1>4. Theirs(d) = CU + CD + CL
  BY DEF Theirs
<1>5. B(Uses(t, d)) \in Nat /\ B(Drops(t, d)) \in Nat /\ B(Loses(t, d)) \in Nat
  BY DEF B
<1> HIDE DEF CU, CD, CL
<1>6. QED
  BY <1>1, <1>2, <1>3, <1>4, <1>5 DEF Mine

LEMMA AtLeast ==
  ASSUME Typed, Balanced, NEW d \in Devices, mem[d] = "live", NEW t \in Threads
  PROVE  /\ refs[d] \in Nat /\ Cardinality(logs[d]) \in Nat
         /\ Shared(d) \in Nat /\ Mine(t, d) \in Nat
         /\ refs[d] >= Shared(d) + Cardinality(logs[d]) + Mine(t, d)
<1>1. refs[d] = Shared(d) + Cardinality(logs[d]) + Theirs(d)
  BY DEF Balanced
<1>2. Theirs(d) \in Nat /\ Theirs(d) >= Mine(t, d)
  BY TheirsBound
<1>3. Cardinality(logs[d]) \in Nat
  BY LogsFinite
<1>4. Shared(d) \in Nat /\ Mine(t, d) \in Nat
  BY DEF Shared, Mine, B
<1>5. QED
  BY <1>1, <1>2, <1>3, <1>4

(* A step that changes the count of one device.                            *)
LEMMA BalancedAt ==
  ASSUME Typed, Typed', Balanced, NEW t \in Threads, Alone(t), UNCHANGED <<mem, logs>>,
         NEW d \in Devices, refs' = [refs EXCEPT ![d] = refs'[d]],
         \A e \in Devices \ {d} : Shared(e)' = Shared(e) /\ Mine(t, e)' = Mine(t, e),
         refs'[d] - refs[d] = (Shared(d)' - Shared(d)) + (Mine(t, d)' - Mine(t, d))
  PROVE  Balanced'
<1>1. \A e \in Devices \ {d} : refs'[e] = refs[e] /\ refs[e] \in Int
  BY DEF Typed
<1>2. \A e \in Devices : Shared(e) \in Int /\ Mine(t, e) \in Int /\ Cardinality(logs[e]) \in Int
                         /\ Shared(e)' \in Int /\ Mine(t, e)' \in Int
  BY LogsFinite DEF Shared, Mine, B
<1>3. refs'[d] \in Int /\ refs[d] \in Int
  BY DEF Typed
<1>4. \A e \in Devices : mem'[e] = "live" =>
        /\ mem[e] = "live"
        /\ refs'[e] - refs[e] = (Shared(e)' - Shared(e)) + (Mine(t, e)' - Mine(t, e))
                                + (Cardinality(logs'[e]) - Cardinality(logs[e]))
  BY <1>1, <1>2, <1>3
<1>5. QED
  BY <1>4, BalancedKept

(* A step that changes no count.                                           *)
LEMMA BalancedSame ==
  ASSUME Typed, Typed', Balanced, NEW t \in Threads, Alone(t), UNCHANGED <<mem, logs, refs>>,
         \A e \in Devices : Shared(e)' + Mine(t, e)' = Shared(e) + Mine(t, e)
  PROVE  Balanced'
<1>1. \A e \in Devices : Shared(e) \in Int /\ Mine(t, e) \in Int /\ Cardinality(logs[e]) \in Int
                         /\ Shared(e)' \in Int /\ Mine(t, e)' \in Int /\ refs[e] \in Int
  BY LogsFinite DEF Shared, Mine, B, Typed
<1>2. \A e \in Devices : mem'[e] = "live" =>
        /\ mem[e] = "live"
        /\ refs'[e] - refs[e] = (Shared(e)' - Shared(e)) + (Mine(t, e)' - Mine(t, e))
                                + (Cardinality(logs'[e]) - Cardinality(logs[e]))
  BY <1>1
<1>3. QED
  BY <1>2, BalancedKept

LEMMA TypedKept ==
  ASSUME Typed, NEW t \in Threads, Moves(t), tgt'[t] \in Logicals \cup {None},
         refs' \in [Devices -> Int], UNCHANGED <<mem, logs, physOf>>
  PROVE  Typed'
BY DEF Typed, Moves

LEMMA SharedSame ==
  ASSUME Places, Typed, NEW t \in Threads, Moves(t), UNCHANGED <<zombie, default, new, old>>,
         t = driver => pc[t] \notin {"plug", "def_lock"} /\ pc'[t] \notin {"plug", "def_lock"}
  PROVE  \A d \in Devices : Shared(d)' = Shared(d)
<1>1. \/ pc'[driver] = pc[driver] /\ dev'[driver] = dev[driver]
      \/ pc[driver] \notin {"plug", "def_lock"} /\ pc'[driver] \notin {"plug", "def_lock"}
  BY MovesOthers, ThreadsDisjoint
<1>2. QED
  BY <1>1 DEF Shared, Connected, B

(* Without a reference, with one, and without any change: t's own.         *)
Empty(t) == pc[t] \notin Holding
LEMMA MineEmpty ==
  ASSUME NEW t \in Threads, Empty(t), NEW d \in Devices
  PROVE  Mine(t, d) = 0
BY DEF Empty, Mine, Uses, Drops, Loses, Holding, B

LEMMA MineOne ==
  ASSUME NEW t \in Threads, pc[t] \in Holding \ {"close_join"},
         pc[t] = "unref" => job[t] # "unplug", NEW d \in Devices
  PROVE  Mine(t, d) = B(dev[t] = d)
BY DEF Mine, Uses, Drops, Loses, B

(* A step that takes nothing away, and gives t at most one reference, to a *)
(* device that has others.                                                 *)
LEMMA SimpleStep ==
  ASSUME Places, RInv, NEW t \in Threads, Moves(t), tgt'[t] \in Logicals \cup {None},
         UNCHANGED <<logical_vars, opened, mem, zombie, default, new, old, held>>,
         pc'[t] \notin {"open_wait", "open_woken", "close", "use", "open_on", "plug", "none"},
         pc'[t] \notin DefLabels, t = driver => pc[t] \notin DefLabels \cup {"plug"},
         t \in Devices => pc[t] # "none",
         pc'[t] \notin WithDevice => dev'[t] = None,
         pc'[t] = "find" \/ \A d \in Devices : dev'[t] = d => mem[d] = "live",
         job'[t] = "unplug" => pc'[t] = "unref",
         \A d \in Devices : d \in table' => d \in table,
         \A d \in Devices : ~Doomed(t, d)',
         pc'[t] \in {"found", "disc"} => refs'[dev'[t]] > 0,
         \/ refs' = refs /\ \A d \in Devices : Mine(t, d)' = Mine(t, d)
         \/ /\ Empty(t) /\ pc'[t] \in Holding \ {"close_join"}
            /\ pc'[t] = "unref" => job'[t] # "unplug"
            /\ dev'[t] \in Devices /\ refs[dev'[t]] # 0
            /\ refs' = [refs EXCEPT ![dev'[t]] = refs[dev'[t]] + 1]
  PROVE  RInv'
<1> USE DEF RInv
<1>1. refs' \in [Devices -> Int] /\ (\A d \in Devices : refs[d] = 0 => refs'[d] = 0)
      /\ (\A d \in Devices : refs'[d] >= refs[d])
  BY DEF Typed
<1>2. Typed'
  BY <1>1, TypedKept DEF logical_vars
<1>3. Linked' /\ Targets' /\ Changing' /\ Idle' /\ NoUseAfterFree'
  BY SimpleKept
<1>4. Unreferenced'
  BY <1>1, UnreferencedKept
<1>5. SoughtLater'
  <2>1. ASSUME NEW u \in Threads \ {t}, pc[u] \in {"found", "disc"} PROVE refs'[dev[u]] > 0
    <3>1. refs[dev[u]] > 0 /\ dev[u] \in Devices
      BY <2>1 DEF SoughtLater, Places, WithDevice
    <3>2. refs'[dev[u]] \in Int /\ refs[dev[u]] \in Int
      BY <1>1, <3>1 DEF Typed
    <3>3. QED
      BY <1>1, <3>1, <3>2
  <2>2. QED
    BY <2>1, SoughtKept
<1>6. Alone(t)
  BY MovesOthers
<1>7. \A d \in Devices : Shared(d)' = Shared(d)
  BY SharedSame DEF DefLabels, WithBoth
<1>8. Balanced'
  <2>1. CASE refs' = refs /\ \A d \in Devices : Mine(t, d)' = Mine(t, d)
    BY <1>2, <1>6, <1>7, <2>1, BalancedSame DEF logical_vars
  <2>2. CASE /\ Empty(t) /\ pc'[t] \in Holding \ {"close_join"}
             /\ pc'[t] = "unref" => job'[t] # "unplug"
             /\ dev'[t] \in Devices /\ refs' = [refs EXCEPT ![dev'[t]] = refs[dev'[t]] + 1]
    <3>1. PICK d \in Devices : d = dev'[t]
      BY <2>2
    <3>2. refs'[d] = refs[d] + 1 /\ refs[d] \in Int
      BY <2>2, <3>1 DEF Typed
    <3>3. \A e \in Devices : Mine(t, e) = 0 /\ Mine(t, e)' = B(d = e)
      BY <2>2, <3>1, MineEmpty DEF Mine, Uses, Drops, Loses, B
    <3>4. Shared(d) \in Int
      BY DEF Shared, B
    <3>5. QED
      <4>1. \A e \in Devices \ {d} : Shared(e)' = Shared(e) /\ Mine(t, e)' = Mine(t, e)
        BY <1>7, <3>3 DEF B
      <4>2. refs'[d] - refs[d] = (Shared(d)' - Shared(d)) + (Mine(t, d)' - Mine(t, d))
        BY <1>7, <3>2, <3>3, <3>4 DEF B
      <4>3. refs' = [refs EXCEPT ![d] = refs'[d]]
        BY <2>2, <3>1, <3>2
      <4>4. QED
        BY <1>2, <1>6, <4>1, <4>2, <4>3, BalancedAt DEF logical_vars
  <2>3. QED
    BY <2>1, <2>2
<1>9. QED
  BY <1>2, <1>3, <1>4, <1>5, <1>8

-----------------------------------------------------------------------------
(* The actions.                                                            *)
LEMMA UnrefRefs ==
  ASSUME Places, RInv, NoRaces, NEW t \in Threads, Unref(t)
  PROVE  RInv'
<1> USE DEF RInv
<1>0. PICK d \in Devices : d = dev[t]
  BY DEF Unref, Places, WithDevice
<1>1. /\ d = dev[t] /\ d \in Devices /\ mem[d] = "live" /\ pc[t] = "unref" /\ Moves(t)
      /\ refs' = [refs EXCEPT ![d] = refs[d] - 1]
  <2>1. d \in Devices /\ pc[t] = "unref" /\ refs' = [refs EXCEPT ![d] = refs[d] - 1]
    BY <1>0 DEF Unref
  <2>2. Moves(t)
    BY DEF Unref, Moves, Leave, ForgetCall, Goto, Places, Maps, Typed
  <2>3. QED
    BY <1>0, <2>1, <2>2 DEF NoUseAfterFree
<1>2. UNCHANGED <<mem, table, default, zombie, logical_vars, opened, held, new, old>>
  BY DEF Unref, table_vars, flags, change
<1>3. \/ refs[d] = 1 /\ pc'[t] = "unhash" /\ dev'[t] = d /\ job'[t] = job[t] /\ tgt'[t] = tgt[t]
      \/ /\ refs[d] # 1 /\ job[t] = "unplug" /\ pc'[t] = "unref" /\ dev'[t] = d
         /\ job'[t] = "none" /\ tgt'[t] = tgt[t]
      \/ /\ refs[d] # 1 /\ job[t] # "unplug" /\ pc'[t] = Next_pc(t) /\ dev'[t] = None
         /\ job'[t] = "none" /\ tgt'[t] \in {tgt[t], None}
  BY <1>1 DEF Unref, Leave, ForgetCall, Goto, Places, Maps, Typed
<1>4. Next_pc(t) \in {"run", "again", "insert", "idle"} /\ (t \in Devices => Next_pc(t) = "run")
  BY DEF Next_pc
<1>5. Typed'
  <2>1. refs' \in [Devices -> Int]
    BY <1>1 DEF Typed
  <2>2. tgt' \in [Threads -> Logicals \cup {None}] /\ job' = [u \in Threads |-> job'[u]]
    BY <1>1, <1>3 DEF Typed, Moves
  <2>3. QED
    BY <1>2, <2>1, <2>2 DEF Typed, logical_vars
<1>6. /\ refs[d] \in Nat /\ refs[d] >= 1
      /\ refs[d] = 1 => job[t] # "unplug" /\ ~Connected(d)
  BY <1>1, AtLeast DEF Mine, Uses, Loses, Drops, Holding, Shared, B
<1>7. Linked' /\ Targets' /\ Changing' /\ Idle' /\ NoUseAfterFree'
  BY <1>1, <1>2, <1>3, <1>4, <1>6, SimpleKept, ThreadsDisjoint DEF WithDevice, DefLabels, WithBoth
<1>8. refs[d] = 1 => d \in zombie
  BY <1>1, <1>6 DEF Connected, Unreferenced
<1>9. Unreferenced'
  <2>1. CASE pc'[t] = "unhash"
    <3>1. \A u \in Threads \ {t} : pc'[u] = pc[u] /\ dev'[u] = dev[u]
      BY <1>1, MovesOthers
    <3>2. refs[d] = 1 /\ dev'[t] = d
      BY <1>3, <1>4, <2>1
    <3>3. \A u \in Threads : \A e \in Devices : Doomed(u, e)' => (u = t /\ e = d) \/ Doomed(u, e)
      BY <2>1, <3>1, <3>2 DEF Doomed
    <3>4. \A u \in Threads : ~Doomed(u, d)
      BY <1>1, <3>2 DEF Unreferenced
    <3>5. \A u \in Threads \ {t} : \A e \in Devices : Doomed(u, e)' => e # d /\ pc'[u] = pc[u]
      BY <3>1, <3>3, <3>4
    <3>6. (\A e \in Devices \ {d} : refs'[e] = refs[e]) /\ refs'[d] = 0
      BY <1>1, <3>2 DEF Typed
    <3>7. pc'[driver] = "plug" => /\ pc[driver] = "plug" /\ dev'[driver] = dev[driver]
                                  /\ dev[driver] # d /\ pc'[dev[driver]] = "none"
      BY <1>1, <2>1, <3>1, <3>2, ThreadsDisjoint DEF Unreferenced
    <3>8. QED
      BY <1>1, <1>2, <1>8, <2>1, <3>1, <3>2, <3>3, <3>4, <3>5, <3>6, <3>7 DEF Unreferenced
  <2>2. CASE pc'[t] # "unhash"
    <3>1. \A e \in Devices : ~Doomed(t, e)'
      BY <1>3, <1>4, <2>2 DEF Doomed
    <3>2. \A e \in Devices : refs[e] = 0 => refs'[e] = 0
      BY <1>1, <1>6 DEF Typed
    <3>3. pc'[t] # "plug"
      BY <1>3, <1>4
    <3>4. QED
      BY <1>1, <1>2, <3>1, <3>2, <3>3, UnreferencedKept
  <2>3. QED
    BY <2>1, <2>2
<1>10. SoughtLater'
  <2>1. ASSUME NEW u \in Threads \ {t}, pc[u] \in {"found", "disc"} PROVE refs'[dev[u]] > 0
    <3>1. dev[u] = d => refs[d] # 1
      BY <1>1, <2>1 DEF Unref, NoRaces, Lookups, Sought
    <3>2. refs[dev[u]] > 0 /\ dev[u] \in Devices
      BY <2>1 DEF SoughtLater, Places, WithDevice
    <3>3. QED
      BY <1>1, <1>6, <3>1, <3>2 DEF Typed
  <2>2. pc'[t] \notin {"found", "disc"}
    BY <1>3, <1>4
  <2>3. QED
    BY <1>1, <2>1, <2>2, SoughtKept
<1>11. Balanced'
  <2>1. \/ pc'[driver] = pc[driver] /\ dev'[driver] = dev[driver]
        \/ pc[driver] \notin {"plug", "def_lock"} /\ pc'[driver] \notin {"plug", "def_lock"}
    BY <1>1, <1>3, <1>4, MovesOthers, ThreadsDisjoint
  <2>2. \A e \in Devices : Shared(e)' = Shared(e) /\ Shared(e) \in Int
    BY <1>2, <2>1 DEF Shared, Connected, B
  <2>3. \A e \in Devices \ {d} : Mine(t, e) = 0 /\ Mine(t, e)' = 0
    BY <1>1, <1>3, ThreadsDisjoint DEF Mine, Uses, Drops, Loses, B
  <2>4. Mine(t, d)' - Mine(t, d) = -1 /\ Mine(t, d) \in Int /\ Mine(t, d)' \in Int
    BY <1>1, <1>3, <1>4, <1>6, ThreadsDisjoint DEF Mine, Uses, Drops, Loses, Holding, B
  <2>5. QED
    <3>1. refs'[d] = refs[d] - 1 /\ refs' = [refs EXCEPT ![d] = refs'[d]]
      <4>1. refs'[d] = refs[d] - 1
        BY <1>1 DEF Typed
      <4>2. QED
        BY <1>1, <4>1
    <3>2. Alone(t) /\ UNCHANGED <<mem, logs>>
      BY <1>1, <1>2, MovesOthers DEF logical_vars
    <3>3. refs'[d] - refs[d] = (Shared(d)' - Shared(d)) + (Mine(t, d)' - Mine(t, d))
      BY <1>6, <2>2, <2>4, <3>1
    <3>4. QED
      <4>1. \A e \in Devices \ {d} : Shared(e)' = Shared(e) /\ Mine(t, e)' = Mine(t, e)
        BY <2>2, <2>3
      <4>2. QED
        BY <1>5, <3>1, <3>2, <3>3, <4>1, BalancedAt
<1>12. QED
  BY <1>5, <1>7, <1>9, <1>10, <1>11

LEMMA DisconnectRefs ==
  ASSUME Places, RInv, NoRaces, NEW t \in Threads, Disconnect(t)
  PROVE  RInv'
<1> USE DEF RInv
<1>1. /\ Moves(t) /\ pc[t] = "disc" /\ pc'[t] = "disc_lock" /\ UNCHANGED <<dev, tgt, job, table>>
      /\ refs' = [refs EXCEPT ![dev[t]] = refs[dev[t]] + 1]
  BY DEF Disconnect, Moves, Ref, Goto, Places, Maps, Typed, table_vars
<1>2. /\ dev[t] \in Devices /\ mem[dev[t]] = "live" /\ refs[dev[t]] # 0 /\ job'[t] # "unplug"
      /\ tgt'[t] \in Logicals \cup {None}
  BY <1>1 DEF Places, WithDevice, NoUseAfterFree, SoughtLater, Idle, Typed
<1>3. UNCHANGED <<logical_vars, opened, mem, zombie, default, new, old, held>>
  BY DEF Disconnect, table_vars, flags, change
<1>4. /\ Empty(t) /\ pc'[t] \in Holding \ {"close_join"} /\ dev'[t] = dev[t]
      /\ pc'[t] \notin DefLabels /\ pc[t] \notin DefLabels \cup {"plug"} /\ pc'[t] \in WithDevice
      /\ \A d \in Devices : ~Doomed(t, d)'
  BY <1>1 DEF Empty, Holding, DefLabels, WithBoth, WithDevice, Doomed
<1>5. QED
  BY <1>1, <1>2, <1>3, <1>4, SimpleStep

LEMMA OpenDefaultRefs ==
  ASSUME Places, RInv, NoRaces, NEW t \in Callers, OpenDefault(t)
  PROVE  RInv'
<1> USE DEF RInv
<1>1. /\ t \in Threads /\ Moves(t) /\ pc[t] \in {"idle", "again"} /\ pc'[t] = "find"
      /\ job'[t] = "default" /\ UNCHANGED <<refs, tgt, table>>
  BY ThreadsDisjoint DEF OpenDefault, Moves, Goto, Places, Maps, Typed, table_vars
<1>2. UNCHANGED <<logical_vars, opened, mem, zombie, default, new, old, held>>
  BY DEF OpenDefault, table_vars, flags
<1>3. \A d \in Devices : Mine(t, d)' = 0 /\ Mine(t, d) = 0
  BY <1>1 DEF Mine, Uses, Drops, Loses, Holding, B
<1>4. QED
  BY <1>1, <1>2, <1>3, SimpleStep, ThreadsDisjoint
     DEF Typed, DefLabels, WithBoth, WithDevice, Doomed

LEMMA OpenDeviceRefs ==
  ASSUME Places, RInv, NoRaces, NEW t \in Callers, NEW d \in Devices, OpenDevice(t, d)
  PROVE  RInv'
<1> USE DEF RInv
<1>1. /\ t \in Threads /\ Moves(t) /\ pc[t] = "idle" /\ pc'[t] = "found" /\ dev'[t] = d
      /\ job'[t] = "device" /\ UNCHANGED <<refs, tgt, table>>
  BY ThreadsDisjoint DEF OpenDevice, Moves, Goto, Places, Maps, Typed, table_vars
<1>2. UNCHANGED <<logical_vars, opened, mem, zombie, default, new, old, held>>
  BY DEF OpenDevice, table_vars, flags
<1>3. \A e \in Devices : Mine(t, e)' = 0 /\ Mine(t, e) = 0
  BY <1>1 DEF Mine, Uses, Drops, Loses, Holding, B
<1>4. mem[d] = "live" /\ refs[d] > 0
  BY DEF OpenDevice, NoUseAfterFree, NoRaces, Lookups
<1>5. QED
  BY <1>1, <1>2, <1>3, <1>4, SimpleStep, ThreadsDisjoint
     DEF Typed, DefLabels, WithBoth, WithDevice, Doomed

LEMMA FindRefs ==
  ASSUME Places, RInv, NoRaces, NEW t \in Callers, Find(t)
  PROVE  RInv'
<1> USE DEF RInv
<1>1. /\ t \in Threads /\ Moves(t) /\ pc[t] = "find" /\ UNCHANGED <<refs, table>>
      /\ \/ /\ dev[t] \in table /\ refs[dev[t]] > 0
            /\ pc'[t] = "found" /\ dev'[t] = dev[t] /\ job'[t] = job[t] /\ tgt'[t] = tgt[t]
         \/ /\ pc'[t] \in {"again", "insert", "idle"} /\ dev'[t] = None /\ job'[t] = "none"
            /\ tgt'[t] \in {tgt[t], None}
  BY ThreadsDisjoint DEF Find, Moves, Goto, Places, Maps, Typed, table_vars, Leave, ForgetCall,
     Next_pc, NoRaces, Lookups
<1>2. UNCHANGED <<logical_vars, opened, mem, zombie, default, new, old, held>>
  BY DEF Find, table_vars, flags, change
<1>3. \A e \in Devices : Mine(t, e)' = 0 /\ Mine(t, e) = 0
  BY <1>1 DEF Mine, Uses, Drops, Loses, Holding, B
<1>4. dev[t] \in Devices /\ (dev[t] \in table => mem[dev[t]] = "live") /\ job[t] # "unplug"
  BY <1>1 DEF Places, WithDevice, NoUseAfterFree, Idle
<1>5. QED
  BY <1>1, <1>2, <1>3, <1>4, SimpleStep, ThreadsDisjoint
     DEF Typed, DefLabels, WithBoth, WithDevice, Doomed

LEMMA ObtainRefs ==
  ASSUME Places, RInv, NoRaces, NEW t \in Callers, Obtain(t)
  PROVE  RInv'
<1> USE DEF RInv
<1>1. /\ t \in Threads /\ Moves(t) /\ pc[t] = "found" /\ pc'[t] = "open"
      /\ UNCHANGED <<dev, tgt, job, table>>
      /\ refs' = [refs EXCEPT ![dev[t]] = refs[dev[t]] + 1]
  BY ThreadsDisjoint DEF Obtain, Moves, Ref, Goto, Places, Maps, Typed, table_vars
<1>2. /\ dev[t] \in Devices /\ mem[dev[t]] = "live" /\ refs[dev[t]] # 0 /\ job'[t] # "unplug"
      /\ tgt'[t] \in Logicals \cup {None}
  BY <1>1 DEF Places, WithDevice, NoUseAfterFree, SoughtLater, Idle, Typed
<1>3. UNCHANGED <<logical_vars, opened, mem, zombie, default, new, old, held>>
  BY DEF Obtain, table_vars, flags, change
<1>4. /\ Empty(t) /\ pc'[t] \in Holding \ {"close_join"} /\ dev'[t] = dev[t]
      /\ pc'[t] \notin DefLabels /\ pc[t] \notin DefLabels \cup {"plug"} /\ pc'[t] \in WithDevice
      /\ \A d \in Devices : ~Doomed(t, d)'
  BY <1>1 DEF Empty, Holding, DefLabels, WithBoth, WithDevice, Doomed
<1>5. QED
  BY <1>1, <1>2, <1>3, <1>4, SimpleStep

LEMMA InsertRefs ==
  ASSUME Places, RInv, NoRaces, NEW t \in Callers, Insert(t)
  PROVE  RInv'
<1> USE DEF RInv
<1>1. /\ t \in Threads /\ Moves(t) /\ pc[t] = "insert" /\ UNCHANGED refs
      /\ pc'[t] \in {"again", "insert", "idle"} /\ dev'[t] = None /\ job'[t] = "none"
      /\ tgt'[t] \in {tgt[t], None} /\ table' = table \cup {tgt[t]}
  BY ThreadsDisjoint DEF Insert, Moves, Goto, Places, Maps, Typed, Leave, ForgetCall, Next_pc
<1>2. UNCHANGED <<logical_vars, opened, mem, zombie, default, new, old, held>>
  BY DEF Insert, flags, change
<1>3. \A e \in Devices : Mine(t, e)' = 0 /\ Mine(t, e) = 0
  BY <1>1 DEF Mine, Uses, Drops, Loses, Holding, B
<1>4. \A d \in Devices : d \in table' => d \in table
  BY <1>1, AudioDeviceAssumption DEF Typed
<1>5. QED
  BY <1>1, <1>2, <1>3, <1>4, SimpleStep, ThreadsDisjoint
     DEF Typed, DefLabels, WithBoth, WithDevice, Doomed

LEMMA UseLockedRefs ==
  ASSUME Places, RInv, NoRaces, NEW t \in Callers, UseLocked(t)
  PROVE  RInv'
<1> USE DEF RInv
<1>1. /\ t \in Threads /\ Moves(t) /\ pc[t] = "use" /\ pc'[t] = "unref"
      /\ UNCHANGED <<dev, tgt, job, table, refs>>
  BY ThreadsDisjoint DEF UseLocked, Moves, Goto, Places, Maps, Typed, table_vars
<1>2. dev[t] \in Devices /\ mem[dev[t]] = "live" /\ job[t] # "unplug"
  BY <1>1 DEF Places, WithDevice, NoUseAfterFree, Idle
<1>3. UNCHANGED <<logical_vars, opened, mem, zombie, default, new, old, held>>
  BY DEF UseLocked, table_vars, flags, change
<1>4. \A e \in Devices : Mine(t, e)' = Mine(t, e)
  BY <1>1, <1>2 DEF Mine, Uses, Drops, Loses, Holding, B
<1>5. QED
  BY <1>1, <1>2, <1>3, <1>4, SimpleStep, ThreadsDisjoint
     DEF Typed, DefLabels, WithBoth, WithDevice, Doomed

LEMMA ThreadEndsRefs ==
  ASSUME Places, RInv, NoRaces, NEW d \in Devices, ThreadEnds(d)
  PROVE  RInv'
<1> USE DEF RInv
<1>1. /\ d \in Threads /\ Moves(d) /\ pc[d] = "run" /\ pc'[d] = "exited"
      /\ UNCHANGED <<dev, tgt, job, table, refs>>
  BY ThreadsDisjoint DEF ThreadEnds, Moves, Goto, Places, Maps, Typed, table_vars
<1>2. dev'[d] = None /\ job'[d] # "unplug" /\ tgt'[d] \in Logicals \cup {None} /\ None \notin Devices
  BY <1>1, AudioDeviceAssumption DEF Idle, WithDevice, Typed
<1>3. UNCHANGED <<logical_vars, opened, mem, zombie, default, new, old, held>>
  BY DEF ThreadEnds, table_vars, flags, change
<1>4. /\ pc'[d] \notin DefLabels /\ pc[d] \notin DefLabels \cup {"plug"}
      /\ \A e \in Devices : ~Doomed(d, e)' /\ Mine(d, e)' = Mine(d, e)
  BY <1>1, <1>2 DEF DefLabels, WithBoth, Doomed, Mine, Uses, Drops, Loses, Holding, B
<1>5. QED
  BY <1>1, <1>2, <1>3, <1>4, SimpleStep

LEMMA ThreadFailsRefs ==
  ASSUME Places, RInv, NoRaces, NEW d \in Devices, ThreadFails(d)
  PROVE  RInv'
<1> USE DEF RInv
<1>1. /\ d \in Threads /\ Moves(d) /\ pc[d] = "run" /\ pc'[d] = "disc_lock" /\ dev'[d] = d
      /\ d \notin zombie /\ UNCHANGED <<tgt, job, table>>
      /\ refs' = [refs EXCEPT ![d] = refs[d] + 1]
  BY ThreadsDisjoint DEF ThreadFails, Moves, Ref, Goto, Places, Maps, Typed, table_vars
<1>2. mem[d] = "live" /\ job'[d] # "unplug" /\ tgt'[d] \in Logicals \cup {None}
  BY <1>1 DEF Idle, NoUseAfterFree, Typed
<1>3. refs[d] # 0
  <2>1. Connected(d)
    BY <1>1 DEF Connected, Unreferenced
  <2>2. QED
    BY <1>1, <1>2, <2>1, AtLeast DEF Shared, B
<1>4. UNCHANGED <<logical_vars, opened, mem, zombie, default, new, old, held>>
  BY DEF ThreadFails, flags, table_vars
<1>5. /\ Empty(d) /\ pc'[d] \in Holding \ {"close_join"}
      /\ pc'[d] \notin DefLabels /\ pc[d] \notin DefLabels \cup {"plug"} /\ pc'[d] \in WithDevice
      /\ \A e \in Devices : ~Doomed(d, e)'
  BY <1>1 DEF Empty, Holding, DefLabels, WithBoth, WithDevice, Doomed
<1>6. QED
  BY <1>1, <1>2, <1>3, <1>4, <1>5, SimpleStep

LEMMA UnplugRefs ==
  ASSUME Places, RInv, NoRaces, NEW d \in Devices, Unplug(d)
  PROVE  RInv'
<1> USE DEF RInv
<1>1. /\ driver \in Threads /\ Moves(driver) /\ pc[driver] = "idle" /\ pc'[driver] = "disc"
      /\ dev'[driver] = d /\ UNCHANGED <<tgt, job, table, refs>>
  BY ThreadsDisjoint DEF Unplug, Moves, Goto, Places, Maps, Typed, table_vars
<1>2. mem[d] = "live" /\ job[driver] # "unplug" /\ refs[d] > 0
  BY <1>1 DEF Unplug, Idle, NoUseAfterFree, NoRaces, Lookups
<1>3. UNCHANGED <<logical_vars, opened, mem, zombie, default, new, old, held>>
  BY DEF Unplug, table_vars, flags
<1>4. \A e \in Devices : Mine(driver, e)' = 0 /\ Mine(driver, e) = 0
  BY <1>1 DEF Mine, Uses, Drops, Loses, Holding, B
<1>5. QED
  BY <1>1, <1>2, <1>3, <1>4, SimpleStep, ThreadsDisjoint
     DEF Typed, DefLabels, WithBoth, WithDevice, Doomed

-----------------------------------------------------------------------------
(* Steps of t that also wake others, and start or end a device's thread.   *)
Follows(u) ==
  /\ \/ pc'[u] = pc[u]
     \/ pc[u] = "open_wait" /\ pc'[u] = "open_woken"
     \/ pc[u] = "def_wait" /\ pc'[u] = "def_woken"
     \/ u \in Devices /\ pc[u] \in {"none", "exited"} /\ pc'[u] = "none"
     \/ u \in Devices /\ pc[u] = "none" /\ pc'[u] = "run"
  /\ dev'[u] = dev[u] /\ tgt'[u] = tgt[u] /\ job'[u] = job[u]
Others(t) == \A u \in Threads \ {t} : Follows(u)

LEMMA MovesFollows ==
  ASSUME NEW t \in Threads, Moves(t), Places, Typed
  PROVE  Others(t)
BY MovesOthers DEF Others, Follows

LEMMA OthersAlone ==
  ASSUME NEW t \in Threads, Others(t)
  PROVE  Alone(t)
BY ThreadsDisjoint DEF Others, Follows, Alone, Uses, Drops, Loses, Holding

LEMMA TargetsKept ==
  ASSUME Targets, NEW t \in Threads, Others(t), pc'[t] \notin {"open_wait", "open_woken", "close"},
         \A u \in Threads \ {t} : Opening(u) => lstate'[tgt[u]] = lstate[tgt[u]],
         \A u \in Threads \ {t} : pc[u] = "close" =>
           lstate'[tgt[u]] = lstate[tgt[u]] /\ physOf'[tgt[u]] = physOf[tgt[u]]
  PROVE  Targets'
<1>1. \A u \in Threads : Opening(u)' => u # t /\ Opening(u) /\ tgt'[u] = tgt[u]
  BY DEF Opening, Others, Follows
<1>2. \A u \in Threads : pc'[u] = "close" => u # t /\ pc[u] = "close" /\ tgt'[u] = tgt[u]
                                             /\ dev'[u] = dev[u]
  BY DEF Others, Follows
<1>3. QED
  BY <1>1, <1>2 DEF Targets

LEMMA ChangingKept ==
  ASSUME Changing, NEW t \in Threads, Others(t), UNCHANGED <<new, old, default, held>>,
         t = driver => pc[t] \notin DefLabels /\ pc'[t] \notin DefLabels,
         pc[driver] \in {"def_wait", "def_woken"} /\ old \in held =>
           \A l \in Followers' : LookedAt(l)' => l \in Followers /\ LookedAt(l)
  PROVE  Changing'
<1>1. /\ pc'[driver] \in DefLabels <=> pc[driver] \in DefLabels
      /\ pc'[driver] \in {"def_wait", "def_woken"} => pc[driver] \in {"def_wait", "def_woken"}
  BY ThreadsDisjoint DEF Others, Follows, DefLabels, WithBoth
<1>2. QED
  BY <1>1 DEF Changing

LEMMA IdleKept ==
  ASSUME Idle, NEW t \in Threads, Others(t),
         pc'[t] \notin WithDevice \cup {"plug"} => dev'[t] = None,
         pc'[t] = "plug" => t = driver, job'[t] = "unplug" => pc'[t] = "unref",
         \A d \in Devices : pc'[d] # "none" => d \in opened'
  PROVE  Idle'
BY DEF Idle, Others, Follows, WithDevice

LEMMA DoomedKept ==
  ASSUME Unreferenced, NEW t \in Threads, Others(t), pc'[t] # "plug",
         \A d \in Devices : mem'[d] = "absent" => mem[d] = "absent",
         \A d \in Devices : Doomed(t, d)' => Doomed(t, d) /\ (pc'[t] # "unhash" => d \notin table'),
         \A d \in Devices : refs[d] = 0 => refs'[d] = 0,
         \A d \in Devices : d \in zombie => d \in zombie',
         \A d \in zombie' \ zombie : mem[d] # "absent" /\ refs[d] # 0,
         \A d \in Devices : d \in table' => d \in table,
         \A d \in Devices : pc[d] = "none" => pc'[d] = "none" \/ refs[d] # 0
  PROVE  Unreferenced'
<1>1. \A d \in Devices : mem'[d] = "absent" => refs'[d] = 0 /\ d \notin zombie'
  BY DEF Unreferenced
<1>2. pc'[driver] = "plug" => dev'[driver] \in Devices /\ refs'[dev'[driver]] = 0
                              /\ dev'[driver] \notin zombie' /\ pc'[dev'[driver]] = "none"
  BY ThreadsDisjoint DEF Unreferenced, Others, Follows
<1>3. \A u \in Threads : \A d \in Devices :
        Doomed(u, d)' => Doomed(u, d) /\ (pc'[u] = pc[u] \/ u = t)
  BY DEF Doomed, Others, Follows
<1>4. QED
  BY <1>1, <1>2, <1>3 DEF Unreferenced

LEMMA SoughtStill ==
  ASSUME SoughtLater, NEW t \in Threads, Others(t),
         pc'[t] \in {"found", "disc"} => refs'[dev'[t]] > 0,
         \A u \in Threads \ {t} : pc[u] \in {"found", "disc"} => refs'[dev[u]] > 0
  PROVE  SoughtLater'
BY DEF SoughtLater, Others, Follows

LEMMA NoUseKept ==
  ASSUME NoUseAfterFree, NEW t \in Threads, Others(t),
         \A d \in Devices : mem[d] = "live" => mem'[d] = "live",
         pc'[t] = "find" \/ \A d \in Devices : dev'[t] = d => mem'[d] = "live",
         \A d \in Devices : new' = d \/ old' = d \/ default' = d => mem'[d] = "live",
         \A d \in Devices : pc'[d] # "none" => pc[d] # "none" \/ mem[d] = "live",
         \A d \in Devices : d \in table' => d \in table \/ mem'[d] = "live",
         \A d \in Devices : \A l \in Logicals : physOf'[l] = d => mem'[d] = "live"
  PROVE  NoUseAfterFree'
<1>1. \A d \in Devices : \A u \in Threads : dev'[u] = d /\ pc'[u] # "find" => mem'[d] = "live"
  BY DEF NoUseAfterFree, Others, Follows
<1>2. QED
  BY <1>1 DEF NoUseAfterFree

LEMMA EndCloseFollows ==
  ASSUME Places, Typed, NEW t \in Threads, NEW d \in Devices, NEW l, pc[t] \in JoinLabels,
         EndClose(d, t, l), dev' = [dev EXCEPT ![t] = dev'[t]],
         tgt' = [tgt EXCEPT ![t] = tgt'[t]], job' = [job EXCEPT ![t] = job'[t]]
  PROVE  /\ t # d /\ Others(t) /\ pc'[t] = l /\ pc'[d] = "none"
         /\ \A e \in Devices : pc[e] = "none" => pc'[e] = "none" \/ e = t
         /\ \A e \in Devices \ {d} : e # t => pc'[e] = pc[e] \/ pc'[e] = "open_woken"
                                              \/ pc'[e] = "def_woken"
<1>1. t # d /\ pc[d] \in {"none", "exited"}
  BY DEF EndClose, Gone, JoinLabels
<1>2. d \in Threads
  BY ThreadsDisjoint
<1>3. pc'[t] = l /\ pc'[d] = "none"
  BY <1>1, <1>2 DEF EndClose, Broadcast
<1>4. \A u \in Threads \ {t, d} :
        \/ pc'[u] = pc[u]
        \/ pc[u] = "open_wait" /\ pc'[u] = "open_woken"
        \/ pc[u] = "def_wait" /\ pc'[u] = "def_woken"
  BY DEF EndClose, Broadcast
<1>5. \A u \in Threads \ {t} : dev'[u] = dev[u] /\ tgt'[u] = tgt[u] /\ job'[u] = job[u]
  BY DEF Places, Maps, Typed
<1>6. Others(t)
  BY <1>1, <1>3, <1>4, <1>5 DEF Others, Follows
<1>7. QED
  BY <1>1, <1>3, <1>4, <1>6, ThreadsDisjoint

(* A device nothing refers to.                                             *)
LEMMA NobodyLeft ==
  ASSUME Places, RInv, NEW d \in Devices, mem[d] = "live", refs[d] = 0
  PROVE  /\ logs[d] = {} /\ default # d /\ new # d /\ old # d
         /\ \A u \in Threads : ~Uses(u, d) /\ ~Drops(u, d) /\ ~Loses(u, d)
<1> USE DEF RInv
<1>1. driver \in Threads
  BY ThreadsDisjoint
<1>2. Shared(d) = 0 /\ Cardinality(logs[d]) = 0
  <2>1. \A a, b, c \in Nat : 0 >= a + b + c => a = 0 /\ b = 0
    OBVIOUS
  <2>2. QED
    BY <1>1, <2>1, AtLeast
<1>3. logs[d] = {}
  BY <1>2, LogsFinite, FS_EmptySet
<1>4. default # d /\ new # d /\ old # d
  BY <1>2 DEF Shared, B
<1>5. ASSUME NEW u \in Threads PROVE Mine(u, d) = 0
  <2>1. \A a, b, c \in Nat : 0 >= a + b + c => c = 0
    OBVIOUS
  <2>2. QED
    BY <2>1, AtLeast
<1>6. \A u \in Threads : ~Uses(u, d) /\ ~Drops(u, d) /\ ~Loses(u, d)
  BY <1>5 DEF Mine, B
<1>7. QED
  BY <1>3, <1>4, <1>6

LEMMA SharedKept ==
  ASSUME NEW t \in Threads, Others(t), UNCHANGED <<zombie, default, new, old>>,
         t = driver => pc[t] \notin {"plug", "def_lock"} /\ pc'[t] \notin {"plug", "def_lock"}
  PROVE  \A d \in Devices : Shared(d)' = Shared(d)
<1>1. \/ pc'[driver] = pc[driver] /\ dev'[driver] = dev[driver]
      \/ pc[driver] \notin {"plug", "def_lock"} /\ pc'[driver] \notin {"plug", "def_lock"}
  BY ThreadsDisjoint DEF Others, Follows
<1>2. QED
  BY <1>1 DEF Shared, Connected, B

LEMMA SameThreads ==
  ASSUME NEW t \in Threads, Moves(t), Places, Typed, pc[t] # "none", pc'[t] # "none"
  PROVE  \A d \in Devices : pc'[d] = "none" <=> pc[d] = "none"
BY MovesOthers, ThreadsDisjoint

LEMMA LookedKept ==
  ASSUME NEW t \in Threads, Others(t), pc'[t] \notin {"close", "use", "open_on"}
  PROVE  \A l : LookedAt(l)' => LookedAt(l)
BY ThreadsDisjoint DEF LookedAt, Others, Follows

(* A step of t, at the same device, that leaves logical devices alone.     *)
LEMMA AtDevice ==
  ASSUME Places, RInv, NEW t \in Threads, Others(t), Typed', Balanced',
         UNCHANGED <<logical_vars, mem, default, new, old, held>>,
         pc'[t] \in {"unref", "destroy", "free_join"}, pc[t] \notin DefLabels,
         job'[t] = "unplug" => pc'[t] = "unref",
         NEW d \in Devices, dev'[t] = d, mem[d] = "live",
         \A e \in Devices : pc'[e] # "none" => e \in opened' /\ pc[e] # "none",
         pc'[t] # "unref" => Doomed(t, d) /\ d \notin table',
         \A e \in Devices : refs[e] = 0 => refs'[e] = 0,
         zombie \subseteq zombie', \A e \in zombie' \ zombie : mem[e] # "absent" /\ refs[e] # 0,
         table' \subseteq table,
         \A u \in Threads \ {t} : pc[u] \in {"found", "disc"} => refs'[dev[u]] > 0
  PROVE  RInv'
<1> USE DEF RInv
<1>1. Linked' /\ Followers' = Followers
  BY DEF Linked, Followers, logical_vars
<1>2. Targets'
  BY TargetsKept DEF logical_vars
<1>3. Changing'
  <2>1. pc'[t] \notin DefLabels
    BY DEF DefLabels, WithBoth
  <2>2. QED
    BY <1>1, <2>1, LookedKept, ChangingKept
<1>4. Idle'
  <2>1. pc'[t] \in WithDevice
    BY DEF WithDevice
  <2>2. QED
    BY <2>1, IdleKept
<1>5. Unreferenced'
  <2>1. \A e \in Devices : Doomed(t, e)' => Doomed(t, e) /\ (pc'[t] # "unhash" => e \notin table')
    BY DEF Doomed
  <2>2. QED
    BY <2>1, DoomedKept
<1>6. SoughtLater'
  BY SoughtStill
<1>7. NoUseAfterFree'
  <2>1. /\ \A e \in Devices : new' = e \/ old' = e \/ default' = e => mem'[e] = "live"
        /\ \A e \in Devices : \A l \in Logicals : physOf'[l] = e => mem'[e] = "live"
    BY DEF NoUseAfterFree, logical_vars
  <2>2. QED
    BY <2>1, NoUseKept
<1>8. QED
  BY <1>1, <1>2, <1>3, <1>4, <1>5, <1>6, <1>7

-----------------------------------------------------------------------------
(* The actions that free a device.                                         *)
LEMMA UnhashRefs ==
  ASSUME Places, RInv, NoRaces, NEW t \in Threads, Unhash(t)
  PROVE  RInv'
<1> USE DEF RInv
<1>0. PICK d \in Devices : d = dev[t]
  BY DEF Unhash, Places, WithDevice
<1>1. /\ Moves(t) /\ pc[t] = "unhash" /\ pc'[t] = "destroy" /\ UNCHANGED <<dev, tgt, job, refs>>
      /\ table' = table \ {d}
  BY <1>0 DEF Unhash, Moves, Goto, Places, Maps, Typed
<1>2. UNCHANGED <<logical_vars, opened, mem, zombie, default, new, old, held>>
  BY DEF Unhash, flags, change
<1>3. Others(t) /\ Alone(t)
  BY <1>1, MovesFollows, OthersAlone
<1>4. job[t] # "unplug" /\ mem[d] = "live" /\ Doomed(t, d)
  BY <1>0, <1>1 DEF Idle, NoUseAfterFree, Doomed
<1>5. Typed'
  BY <1>1, <1>2, TypedKept DEF logical_vars, Typed
<1>6. Balanced'
  <2>1. \A e \in Devices : Mine(t, e)' = Mine(t, e)
    BY <1>1, <1>4 DEF Mine, Uses, Drops, Loses, Holding, B
  <2>2. \A e \in Devices : Shared(e)' = Shared(e)
    BY <1>1, <1>2, <1>3, SharedKept
  <2>3. QED
    BY <1>1, <1>2, <1>3, <1>5, <2>1, <2>2, BalancedSame DEF logical_vars
<1>7. \A e \in Devices : pc'[e] # "none" => e \in opened' /\ pc[e] # "none"
  BY <1>1, <1>2, SameThreads DEF Idle
<1>8. pc[t] \notin DefLabels
  BY <1>1 DEF DefLabels, WithBoth
<1>9. QED
  BY <1>0, <1>1, <1>2, <1>3, <1>4, <1>5, <1>6, <1>7, <1>8, AtDevice DEF SoughtLater

(* A device nobody refers to has no logical device left to destroy.        *)
LEMMA DestroyRefs ==
  ASSUME Places, RInv, NoRaces, NEW t \in Threads, Destroy(t)
  PROVE  RInv'
<1> USE DEF RInv
<1>0. PICK d \in Devices : d = dev[t]
  BY DEF Destroy, Places, WithDevice
<1>1. /\ Moves(t) /\ pc[t] = "destroy" /\ pc'[t] = "free_join" /\ UNCHANGED <<dev, tgt, job, refs>>
  BY DEF Destroy, Moves, Goto, Places, Maps, Typed, change
<1>2. job[t] # "unplug" /\ mem[d] = "live" /\ Doomed(t, d) /\ refs[d] = 0 /\ d \notin table
  BY <1>0, <1>1 DEF Idle, NoUseAfterFree, Doomed, Unreferenced
<1>3. logs[d] = {}
  BY <1>2, NobodyLeft
<1>4. table' = table /\ UNCHANGED logical_vars
  <2>1. table' = table /\ asDefault' = asDefault
    BY <1>0, <1>3 DEF Destroy, DestroyLogicals
  <2>2. lstate' = [l \in Logicals |-> lstate[l]] /\ physOf' = [l \in Logicals |-> physOf[l]]
    BY <1>0, <1>3 DEF Destroy, DestroyLogicals
  <2>3. logs' = logs
    BY <1>0, <1>3 DEF Destroy, Places, Maps
  <2>4. QED
    BY <2>1, <2>2, <2>3 DEF Places, logical_vars
<1>5. UNCHANGED <<opened, mem, zombie, default, new, old, held>>
  BY DEF Destroy, change
<1>6. Others(t) /\ Alone(t)
  BY <1>1, MovesFollows, OthersAlone
<1>7. Typed'
  BY <1>1, <1>4, <1>5, TypedKept DEF logical_vars, Typed
<1>8. Balanced'
  <2>1. \A e \in Devices : Mine(t, e)' = Mine(t, e)
    BY <1>1, <1>2 DEF Mine, Uses, Drops, Loses, Holding, B
  <2>2. \A e \in Devices : Shared(e)' = Shared(e)
    BY <1>1, <1>5, <1>6, SharedKept
  <2>3. QED
    BY <1>1, <1>4, <1>5, <1>6, <1>7, <2>1, <2>2, BalancedSame DEF logical_vars
<1>9. \A e \in Devices : pc'[e] # "none" => e \in opened' /\ pc[e] # "none"
  BY <1>1, <1>5, SameThreads DEF Idle
<1>10. pc[t] \notin DefLabels
  BY <1>1 DEF DefLabels, WithBoth
<1>11. QED
  BY <1>0, <1>1, <1>2, <1>4, <1>5, <1>6, <1>7, <1>8, <1>9, <1>10, AtDevice DEF SoughtLater

(* Of two threads that take the device's lock only the first loses the     *)
(* reference of its connection.                                            *)
LEMMA DisconnectLockedRefs ==
  ASSUME Places, RInv, NoRaces, NEW t \in Threads, DisconnectLocked(t)
  PROVE  RInv'
<1> USE DEF RInv
<1>0. PICK d \in Devices : d = dev[t]
  BY DEF DisconnectLocked, Places, WithDevice
<1>1. /\ Moves(t) /\ pc[t] = "disc_lock" /\ pc'[t] = "unref" /\ UNCHANGED <<dev, tgt, refs, table>>
      /\ zombie' = zombie \cup {d} /\ (job'[t] = "unplug" <=> d \notin zombie)
  BY <1>0 DEF DisconnectLocked, FirstDisconnect, Moves, Goto, Places, Maps, Typed, table_vars
<1>2. UNCHANGED <<logical_vars, opened, mem, default, new, old, held>>
  BY DEF DisconnectLocked, change, table_vars
<1>3. Others(t) /\ Alone(t)
  BY <1>1, MovesFollows, OthersAlone
<1>4. job[t] # "unplug" /\ mem[d] = "live"
  BY <1>0, <1>1 DEF Idle, NoUseAfterFree
<1>5. refs[d] # 0
  <2>1. Uses(t, d)
    BY <1>0, <1>1 DEF Uses, Holding
  <2>2. QED
    BY <1>4, <2>1, NobodyLeft
<1>6. Typed'
  BY <1>1, <1>2, TypedKept DEF logical_vars, Typed
<1>7. Balanced'
  <2>1. Connected(d) <=> d \notin zombie
    BY <1>5 DEF Connected, Unreferenced
  <2>2. Uses(t, d) /\ Uses(t, d)' /\ ~Drops(t, d) /\ ~Drops(t, d)' /\ ~Loses(t, d)
        /\ (Loses(t, d)' <=> d \notin zombie)
    BY <1>0, <1>1, <1>4 DEF Uses, Drops, Loses, Holding
  <2>3. \A e \in Devices \ {d} : Mine(t, e) = 0 /\ Mine(t, e)' = 0
    BY <1>0, <1>1 DEF Mine, Uses, Drops, Loses, B
  <2>4. \A e \in Devices \ {d} : Shared(e)' = Shared(e)
    <3>1. \/ pc'[driver] = pc[driver] /\ dev'[driver] = dev[driver]
          \/ pc[driver] \notin {"plug", "def_lock"} /\ pc'[driver] \notin {"plug", "def_lock"}
      BY <1>1, MovesOthers, ThreadsDisjoint
    <3>2. QED
      BY <1>1, <1>2, <3>1 DEF Shared, Connected, B
  <2>5. Shared(d)' + B(Connected(d)) = Shared(d)
    <3>1. ~Connected(d)'
      BY <1>1 DEF Connected
    <3>2. \/ pc'[driver] = pc[driver]
          \/ pc[driver] \notin {"plug", "def_lock"} /\ pc'[driver] \notin {"plug", "def_lock"}
      BY <1>1, MovesOthers, ThreadsDisjoint
    <3>3. QED
      BY <1>2, <3>1, <3>2 DEF Shared, B
  <2>6. Mine(t, d)' = Mine(t, d) + B(Connected(d)) /\ Mine(t, d) \in Nat /\ Shared(d)' \in Nat
    BY <2>1, <2>2 DEF Mine, B, Shared
  <2>7. \A e \in Devices : Shared(e)' + Mine(t, e)' = Shared(e) + Mine(t, e)
    <3>1. Shared(d)' + Mine(t, d)' = Shared(d) + Mine(t, d)
      BY <2>5, <2>6 DEF B
    <3>2. QED
      BY <2>3, <2>4, <3>1
  <2>8. QED
    BY <1>1, <1>2, <1>3, <1>6, <2>7, BalancedSame DEF logical_vars
<1>8. \A e \in Devices : pc'[e] # "none" => e \in opened' /\ pc[e] # "none"
  BY <1>1, <1>2, SameThreads DEF Idle
<1>9. pc[t] \notin DefLabels
  BY <1>1 DEF DefLabels, WithBoth
<1>10. \A u \in Threads \ {t} : pc[u] \in {"found", "disc"} => refs'[dev[u]] > 0
  BY <1>1 DEF SoughtLater
<1>11. QED
  BY <1>0, <1>1, <1>2, <1>3, <1>4, <1>5, <1>6, <1>7, <1>8, <1>9, <1>10, AtDevice

(* Nobody is left who has the device: it is freed.                         *)
LEMMA FreeJoinedRefs ==
  ASSUME Places, RInv, NoRaces, NEW t \in Threads, FreeJoined(t)
  PROVE  RInv'
<1> USE DEF RInv
<1>0. PICK d \in Devices : d = dev[t]
  BY DEF FreeJoined, Places, WithDevice
<1>1. /\ pc[t] = "free_join" /\ EndClose(d, t, Next_pc(t)) /\ mem' = [mem EXCEPT ![d] = "freed"]
      /\ dev' = [dev EXCEPT ![t] = None] /\ tgt'[t] \in {tgt[t], None} /\ job'[t] = "none"
      /\ tgt' = [tgt EXCEPT ![t] = tgt'[t]] /\ job' = [job EXCEPT ![t] = job'[t]]
  BY <1>0 DEF FreeJoined, ForgetCall, Typed
<1>2. UNCHANGED <<refs, table, default, new, old, held, zombie, logical_vars>>
  BY DEF FreeJoined, table_vars, change
<1>3. /\ t # d /\ Others(t) /\ pc'[t] \in {"run", "again", "insert", "idle"} /\ pc'[d] = "none"
      /\ dev'[t] = None /\ \A e \in Devices : pc[e] = "none" => pc'[e] = "none"
  <2>1. dev' = [dev EXCEPT ![t] = dev'[t]] /\ dev'[t] = None
    BY <1>1 DEF Places, Maps
  <2>2. pc[t] \in JoinLabels /\ pc[t] # "none"
    BY <1>1 DEF JoinLabels
  <2>3. QED
    <3>1. PICK l \in {"run", "again", "insert", "idle"} : l = Next_pc(t)
      BY DEF Next_pc
    <3>2. EndClose(d, t, l)
      BY <1>1, <3>1
    <3>3. /\ t # d /\ Others(t) /\ pc'[t] = l /\ pc'[d] = "none"
          /\ \A e \in Devices : pc[e] = "none" => pc'[e] = "none" \/ e = t
      BY <1>1, <2>1, <2>2, <3>2, EndCloseFollows
    <3>4. QED
      BY <2>1, <2>2, <3>3
<1>4. Alone(t)
  BY <1>3, OthersAlone
<1>5. mem[d] = "live" /\ Doomed(t, d)
  BY <1>0, <1>1 DEF NoUseAfterFree, Doomed
<1>6. refs[d] = 0 /\ d \in zombie /\ d \notin table /\ \A u \in Threads \ {t} : ~Doomed(u, d)
  BY <1>1, <1>5 DEF Unreferenced
<1>7. /\ logs[d] = {} /\ default # d /\ new # d /\ old # d
      /\ \A u \in Threads : ~Uses(u, d) /\ ~Drops(u, d) /\ ~Loses(u, d)
  BY <1>5, <1>6, NobodyLeft
<1>8. \A e \in Devices : mem'[e] = IF e = d THEN "freed" ELSE mem[e]
  BY <1>1 DEF Typed
<1>9. Typed'
  <2>1. tgt' \in [Threads -> Logicals \cup {None}] /\ job' = [u \in Threads |-> job'[u]]
    BY <1>1 DEF Typed
  <2>2. mem' \in [Devices -> {"absent", "live", "freed"}]
    BY <1>1 DEF Typed
  <2>3. QED
    BY <1>2, <2>1, <2>2 DEF Typed, logical_vars
<1>10. Linked' /\ Followers' = Followers
  BY <1>2 DEF Linked, Followers, logical_vars
<1>11. Targets'
  BY <1>2, <1>3, TargetsKept DEF logical_vars
<1>12. Changing'
  <2>1. pc[t] \notin DefLabels /\ pc'[t] \notin DefLabels
    BY <1>1, <1>3 DEF DefLabels, WithBoth
  <2>2. QED
    BY <1>2, <1>3, <1>10, <2>1, LookedKept, ChangingKept
<1>13. Idle'
  <2>1. \A e \in Devices : pc'[e] # "none" => e \in opened'
    BY <1>1, <1>3 DEF EndClose, CloseSystem, Idle
  <2>2. QED
    BY <1>1, <1>3, <2>1, IdleKept
<1>14. Unreferenced'
  <2>1. \A e \in Devices : ~Doomed(t, e)' /\ (mem'[e] = "absent" => mem[e] = "absent")
    BY <1>3, <1>8 DEF Doomed
  <2>2. QED
    BY <1>2, <1>3, <2>1, DoomedKept
<1>15. SoughtLater'
  BY <1>2, <1>3, SoughtStill DEF SoughtLater
<1>16. NoUseAfterFree'
  <2>1. ASSUME NEW u \in Threads, dev'[u] = d PROVE pc'[u] = "find"
    <3>1. u # t /\ dev[u] = d
      BY <1>3, <2>1, ThreadsDisjoint DEF Others, Follows
    <3>2. pc[u] \in WithDevice \cup {"plug"}
      BY <3>1, ThreadsDisjoint DEF Idle
    <3>3. pc[u] # "plug"
      BY <1>6, <3>1 DEF Unreferenced, Idle
    <3>4. pc[u] \notin {"found", "disc"}
      BY <1>6, <3>1 DEF SoughtLater
    <3>5. pc[u] \notin Holding /\ pc[u] \notin {"unhash", "destroy", "free_join"}
      BY <1>6, <1>7, <3>1 DEF Uses, Doomed
    <3>6. pc[u] = "find"
      BY <3>2, <3>3, <3>4, <3>5 DEF WithDevice, Holding
    <3>7. QED
      BY <1>3, <3>1, <3>6 DEF Others, Follows
  <2>2. \A l \in Logicals : physOf[l] # d
    BY <1>7 DEF Linked
  <2>3. \A e \in Devices \ {d} : \A u \in Threads : dev'[u] = e /\ pc'[u] # "find" => mem[e] = "live"
    BY <1>3, ThreadsDisjoint DEF NoUseAfterFree, Others, Follows
  <2>4. \A e \in Devices : new' = e \/ old' = e \/ default' = e \/ e \in table'
                           => e # d /\ mem[e] = "live"
    BY <1>2, <1>6, <1>7 DEF NoUseAfterFree
  <2>5. \A e \in Devices : pc'[e] # "none" => e # d /\ mem[e] = "live"
    BY <1>3 DEF NoUseAfterFree
  <2>6. \A e \in Devices : \A l \in Logicals : physOf'[l] = e => e # d /\ mem[e] = "live"
    BY <1>2, <2>2 DEF NoUseAfterFree, logical_vars
  <2>7. QED
    BY <1>8, <2>1, <2>3, <2>4, <2>5, <2>6 DEF NoUseAfterFree
<1>17. Balanced'
  <2>1. \A e \in Devices : Mine(t, e) = 0 /\ Mine(t, e)' = 0
    BY <1>1, <1>3 DEF Mine, Uses, Drops, Loses, Holding, B
  <2>2. \A e \in Devices : Shared(e)' = Shared(e) /\ Shared(e) \in Nat
    BY <1>1, <1>2, <1>3, SharedKept DEF Shared, B
  <2>3. \A e \in Devices : Cardinality(logs[e]) \in Nat /\ refs[e] \in Int
    BY LogsFinite DEF Typed
  <2>4. \A e \in Devices : mem'[e] = "live" =>
          /\ mem[e] = "live"
          /\ refs'[e] - refs[e] = (Shared(e)' - Shared(e)) + (Mine(t, e)' - Mine(t, e))
                                  + (Cardinality(logs'[e]) - Cardinality(logs[e]))
    BY <1>2, <1>8, <2>1, <2>2, <2>3 DEF logical_vars
  <2>5. QED
    BY <1>4, <1>9, <2>4, BalancedKept
<1>18. QED
  BY <1>9, <1>10, <1>11, <1>12, <1>13, <1>14, <1>15, <1>16, <1>17

-----------------------------------------------------------------------------
(* Opening.                                                                *)
LEMMA OpenJoinedRefs ==
  ASSUME Places, RInv, NoRaces, NEW t \in Callers, OpenJoined(t)
  PROVE  RInv'
<1> USE DEF RInv
<1>0. PICK d \in Devices : d = dev[t]
  BY ThreadsDisjoint DEF OpenJoined, Places, WithDevice
<1>1. /\ t \in Threads /\ pc[t] = "open_join" /\ EndClose(d, t, "unref")
      /\ UNCHANGED <<dev, tgt, job, refs, mem, table, default, new, old, held, zombie, logical_vars>>
  BY <1>0, ThreadsDisjoint DEF OpenJoined, table_vars, change
<1>2. /\ Others(t) /\ pc'[t] = "unref" /\ pc'[d] = "none"
      /\ \A e \in Devices : pc[e] = "none" => pc'[e] = "none"
  <2>1. /\ dev' = [dev EXCEPT ![t] = dev'[t]] /\ tgt' = [tgt EXCEPT ![t] = tgt'[t]]
        /\ job' = [job EXCEPT ![t] = job'[t]]
    BY <1>1 DEF Places, Maps, Typed
  <2>2. pc[t] \in JoinLabels /\ pc[t] # "none"
    BY <1>1 DEF JoinLabels
  <2>3. QED
    BY <1>1, <2>1, <2>2, EndCloseFollows
<1>3. Alone(t)
  BY <1>1, <1>2, OthersAlone
<1>4. mem[d] = "live" /\ job[t] # "unplug" /\ pc[t] \notin DefLabels
  BY <1>0, <1>1 DEF NoUseAfterFree, Idle, DefLabels, WithBoth
<1>5. Typed'
  BY <1>1 DEF Typed, logical_vars
<1>6. Balanced'
  <2>1. \A e \in Devices : Mine(t, e)' = Mine(t, e)
    BY <1>1, <1>2, <1>4 DEF Mine, Uses, Drops, Loses, Holding, B
  <2>2. \A e \in Devices : Shared(e)' = Shared(e)
    BY <1>1, <1>2, SharedKept
  <2>3. QED
    BY <1>1, <1>3, <1>5, <2>1, <2>2, BalancedSame DEF logical_vars
<1>7. \A e \in Devices : pc'[e] # "none" => e \in opened' /\ pc[e] # "none"
  BY <1>1, <1>2 DEF EndClose, CloseSystem, Idle
<1>8. QED
  BY <1>0, <1>1, <1>2, <1>4, <1>5, <1>6, <1>7, AtDevice DEF SoughtLater

LEMMA OpenFailsRefs ==
  ASSUME Places, RInv, NoRaces, NEW t \in Callers, pc[t] \in {"open", "open_on"},
         Goto(t, "unref"), job' = [job EXCEPT ![t] = job'[t]], job'[t] # "unplug",
         UNCHANGED <<refs, flags, logical_vars, tgt, mem, table_vars, change, dev>>
  PROVE  RInv'
<1> USE DEF RInv
<1>0. PICK d \in Devices : d = dev[t]
  BY ThreadsDisjoint DEF Places, WithDevice
<1>1. t \in Threads /\ Moves(t) /\ pc'[t] = "unref"
  <2>1. t \in Threads /\ pc' = [pc EXCEPT ![t] = pc'[t]] /\ pc'[t] = "unref"
    BY ThreadsDisjoint DEF Goto, Places, Maps
  <2>2. dev' = [dev EXCEPT ![t] = dev'[t]] /\ tgt' = [tgt EXCEPT ![t] = tgt'[t]]
    BY <2>1 DEF Places, Maps, Typed
  <2>3. QED
    BY <2>1, <2>2 DEF Moves
<1>2. UNCHANGED <<opened, default, table, new, old, held, zombie>>
  BY DEF flags, table_vars, change
<1>3. Others(t) /\ Alone(t)
  BY <1>1, MovesFollows, OthersAlone
<1>4. mem[d] = "live" /\ job[t] # "unplug" /\ pc[t] \notin DefLabels
  BY <1>0, <1>1 DEF NoUseAfterFree, Idle, DefLabels, WithBoth
<1>5. Typed'
  BY <1>1, TypedKept DEF Typed, logical_vars
<1>6. Balanced'
  <2>1. \A e \in Devices : Mine(t, e)' = Mine(t, e)
    BY <1>1, <1>4 DEF Mine, Uses, Drops, Loses, Holding, B
  <2>2. \A e \in Devices : Shared(e)' = Shared(e)
    BY <1>1, <1>2, <1>3, SharedKept, ThreadsDisjoint
  <2>3. QED
    BY <1>1, <1>3, <1>5, <2>1, <2>2, BalancedSame DEF logical_vars
<1>7. \A e \in Devices : pc'[e] # "none" => e \in opened' /\ pc[e] # "none"
  BY <1>1, <1>2, SameThreads DEF Idle
<1>8. QED
  BY <1>0, <1>1, <1>2, <1>3, <1>4, <1>5, <1>6, <1>7, AtDevice DEF SoughtLater

-----------------------------------------------------------------------------
(* Closing.                                                                *)
LEMMA CloseJoinedRefs ==
  ASSUME Places, RInv, NoRaces, NEW t \in Callers, CloseJoined(t)
  PROVE  RInv'
<1> USE DEF RInv
<1>0. PICK d \in Devices : d = dev[t]
  BY ThreadsDisjoint DEF CloseJoined, Places, WithDevice
<1>1. /\ t \in Threads /\ pc[t] = "close_join" /\ EndClose(d, t, "unref")
      /\ refs' = [refs EXCEPT ![d] = refs[d] - 1]
      /\ UNCHANGED <<dev, tgt, job, mem, table, default, new, old, held, zombie, logical_vars>>
  BY <1>0, ThreadsDisjoint DEF CloseJoined, DropLogicalRef, table_vars, change
<1>2. /\ Others(t) /\ pc'[t] = "unref" /\ pc'[d] = "none"
      /\ \A e \in Devices : pc[e] = "none" => pc'[e] = "none"
  <2>1. /\ dev' = [dev EXCEPT ![t] = dev'[t]] /\ tgt' = [tgt EXCEPT ![t] = tgt'[t]]
        /\ job' = [job EXCEPT ![t] = job'[t]]
    BY <1>1 DEF Places, Maps, Typed
  <2>2. pc[t] \in JoinLabels /\ pc[t] # "none"
    BY <1>1 DEF JoinLabels
  <2>3. QED
    BY <1>1, <2>1, <2>2, EndCloseFollows
<1>3. Alone(t)
  BY <1>1, <1>2, OthersAlone
<1>4. mem[d] = "live" /\ job[t] # "unplug" /\ pc[t] \notin DefLabels
  BY <1>0, <1>1 DEF NoUseAfterFree, Idle, DefLabels, WithBoth
<1>5. refs' \in [Devices -> Int] /\ refs'[d] = refs[d] - 1
      /\ \A e \in Devices \ {d} : refs'[e] = refs[e]
  BY <1>1 DEF Typed
<1>6. Typed'
  BY <1>1, <1>5 DEF Typed, logical_vars
<1>7. Mine(t, d) = 2 /\ Mine(t, d)' = 1 /\ \A e \in Devices \ {d} : Mine(t, e)' = Mine(t, e)
  BY <1>0, <1>1, <1>2, <1>4 DEF Mine, Uses, Drops, Loses, Holding, B
<1>8. refs[d] \in Nat /\ refs[d] >= 2
  <2>1. \A a, b, c \in Nat : a + b + c >= c
    OBVIOUS
  <2>2. QED
    BY <1>1, <1>4, <1>7, <2>1, AtLeast
<1>9. Balanced'
  <2>1. \A e \in Devices : Shared(e)' = Shared(e) /\ Shared(e) \in Nat
    BY <1>1, <1>2, SharedKept DEF Shared, B
  <2>2. refs' = [refs EXCEPT ![d] = refs'[d]]
    BY <1>1, <1>5
  <2>3. refs'[d] - refs[d] = (Shared(d)' - Shared(d)) + (Mine(t, d)' - Mine(t, d))
    BY <1>5, <1>7, <1>8, <2>1
  <2>4. QED
    BY <1>1, <1>3, <1>6, <1>7, <2>1, <2>2, <2>3, BalancedAt DEF logical_vars
<1>10. \A e \in Devices : pc'[e] # "none" => e \in opened' /\ pc[e] # "none"
  BY <1>1, <1>2 DEF EndClose, CloseSystem, Idle
<1>11. /\ \A e \in Devices : refs[e] = 0 => refs'[e] = 0
       /\ \A u \in Threads \ {t} : pc[u] \in {"found", "disc"} => refs'[dev[u]] > 0
  BY <1>5, <1>8 DEF SoughtLater, Places, WithDevice
<1>12. QED
  BY <1>0, <1>1, <1>2, <1>4, <1>6, <1>9, <1>10, <1>11, AtDevice

LEMMA FindLogicalRefs ==
  ASSUME Places, RInv, NoRaces, NEW t \in Callers, NEW l \in Logicals,
         NEW next \in {"open_on", "use", "close"}, FindLogical(t, l, next),
         IF next = "close" THEN lstate' = [lstate EXCEPT ![l] = "closing"] ELSE lstate' = lstate
  PROVE  RInv'
<1> USE DEF RInv
<1>0. PICK d \in Devices : d = physOf[l]
  BY DEF FindLogical, Places
<1>1. /\ t \in Threads /\ pc[t] = "idle" /\ lstate[l] = "open" /\ Moves(t)
      /\ pc'[t] = next /\ dev'[t] = d /\ tgt'[t] = l /\ UNCHANGED job
      /\ refs' = [refs EXCEPT ![d] = refs[d] + 1]
  <2>1. t \in Threads /\ pc[t] = "idle" /\ lstate[l] = "open" /\ UNCHANGED job
        /\ refs' = [refs EXCEPT ![d] = refs[d] + 1]
    BY <1>0, ThreadsDisjoint DEF FindLogical, Ref
  <2>2. pc' = [pc EXCEPT ![t] = pc'[t]] /\ pc'[t] = next
    BY <2>1 DEF FindLogical, Goto, Places, Maps
  <2>3. dev' = [dev EXCEPT ![t] = dev'[t]] /\ dev'[t] = d
    BY <1>0, <2>1 DEF FindLogical, Places, Maps
  <2>4. tgt' = [tgt EXCEPT ![t] = tgt'[t]] /\ tgt'[t] = l
    BY <2>1 DEF FindLogical, Typed
  <2>5. job' = [job EXCEPT ![t] = job'[t]]
    BY <2>1 DEF Typed
  <2>6. QED
    BY <2>1, <2>2, <2>3, <2>4, <2>5 DEF Moves
<1>2. UNCHANGED <<mem, table, default, opened, zombie, logs, physOf, asDefault, held, new, old>>
  BY DEF FindLogical, table_vars, flags
<1>3. Others(t) /\ Alone(t)
  BY <1>1, MovesFollows, OthersAlone
<1>4. /\ \A k \in Logicals \ {l} : lstate'[k] = lstate[k]
      /\ lstate'[l] = IF next = "close" THEN "closing" ELSE "open"
  BY <1>1 DEF Places
<1>5. mem[d] = "live" /\ l \in logs[d] /\ physOf[l] = d
  BY <1>0 DEF NoUseAfterFree, Linked
<1>6. refs' \in [Devices -> Int] /\ refs'[d] = refs[d] + 1 /\ refs[d] \in Nat /\ refs[d] # 0
      /\ \A e \in Devices \ {d} : refs'[e] = refs[e]
  BY <1>1, <1>5, NobodyLeft, AtLeast DEF Typed
<1>7. Typed'
  BY <1>1, <1>2, <1>6, TypedKept
<1>8. Linked'
  BY <1>1, <1>2, <1>4 DEF Linked
<1>9. Targets'
  <2>1. \A u \in Threads \ {t} : pc'[u] \in {"open_wait", "open_woken", "close"} =>
          /\ pc[u] = pc'[u] /\ tgt'[u] = tgt[u] /\ dev'[u] = dev[u] /\ tgt[u] # l
          /\ tgt[u] \in Logicals
    BY <1>1, MovesOthers DEF Targets, Opening
  <2>2. \A u \in Threads : Opening(u)' => tgt'[u] \in Logicals /\ lstate'[tgt'[u]] = "allocated"
    BY <1>1, <1>4, <2>1 DEF Targets, Opening
  <2>3. \A u \in Threads : pc'[u] = "close" =>
          u \in Callers /\ tgt'[u] \in Logicals /\ lstate'[tgt'[u]] = "closing"
          /\ physOf'[tgt'[u]] = dev'[u]
    BY <1>1, <1>2, <1>4, <1>5, <2>1 DEF Targets
  <2>4. \A u, v \in Threads :
          tgt'[u] = tgt'[v] /\ (Opening(u)' \/ pc'[u] = "close") /\ (Opening(v)' \/ pc'[v] = "close")
            => u = v
    BY <1>1, <2>1 DEF Targets, Opening
  <2>5. QED
    BY <2>2, <2>3, <2>4 DEF Targets
<1>10. Changing'
  <2>1. Followers' = Followers
    BY <1>2 DEF Followers
  <2>2. ASSUME pc[driver] \in {"def_wait", "def_woken"}, old \in held, NEW k \in Followers,
               LookedAt(k)'
        PROVE  LookedAt(k)
    <3>1. old \in Devices
      BY <2>2 DEF Places, WithBoth
    <3>2. l \in Followers => physOf[l] = old /\ l \in asDefault
      BY <3>1 DEF Followers, Linked
    <3>3. k # l
      BY <2>2, <3>2 DEF FindLogical, NoRaces, Migrations
    <3>4. QED
      BY <1>1, <1>3, <2>2, <3>3, ThreadsDisjoint DEF LookedAt, Others, Follows
  <2>3. t # driver
    BY ThreadsDisjoint
  <2>4. QED
    BY <1>1, <1>2, <1>3, <2>1, <2>2, <2>3, ChangingKept
<1>11. Idle'
  <2>1. \A e \in Devices : pc'[e] # "none" => e \in opened'
    BY <1>1, <1>2, SameThreads DEF Idle
  <2>2. pc'[t] \in WithDevice /\ job'[t] # "unplug" /\ pc'[t] # "plug"
    BY <1>1 DEF Idle, WithDevice
  <2>3. QED
    BY <1>1, <1>3, <2>1, <2>2, IdleKept
<1>12. Unreferenced'
  <2>1. \A e \in Devices : ~Doomed(t, e)'
    BY <1>1 DEF Doomed
  <2>2. \A e \in Devices : pc[e] = "none" => pc'[e] = "none"
    BY <1>1, SameThreads
  <2>3. \A e \in Devices : refs[e] = 0 => refs'[e] = 0
    BY <1>6
  <2>4. QED
    BY <1>1, <1>2, <1>3, <2>1, <2>2, <2>3, DoomedKept
<1>13. SoughtLater'
  <2>1. \A u \in Threads \ {t} : pc[u] \in {"found", "disc"} => refs'[dev[u]] > 0
    BY <1>6 DEF SoughtLater, Places, WithDevice
  <2>2. QED
    BY <1>1, <1>3, <2>1, SoughtStill
<1>14. NoUseAfterFree'
  <2>1. \A e \in Devices : pc'[e] # "none" => pc[e] # "none"
    BY <1>1, SameThreads
  <2>2. /\ \A e \in Devices : new' = e \/ old' = e \/ default' = e => mem'[e] = "live"
        /\ \A e \in Devices : \A k \in Logicals : physOf'[k] = e => mem'[e] = "live"
        /\ \A e \in Devices : dev'[t] = e => mem'[e] = "live"
    BY <1>1, <1>2, <1>5 DEF NoUseAfterFree
  <2>3. QED
    BY <1>1, <1>2, <1>3, <2>1, <2>2, NoUseKept
<1>15. Balanced'
  <2>1. \A e \in Devices : Mine(t, e) = 0 /\ Mine(t, e)' = B(d = e)
    <3>1. \A e \in Devices : Mine(t, e) = 0
      BY <1>1 DEF Mine, Uses, Drops, Loses, Holding, B
    <3>2. \A e \in Devices : Mine(t, e)' = B(d = e)
      BY <1>1 DEF Mine, Uses, Drops, Loses, Holding, B
    <3>3. QED
      BY <3>1, <3>2
  <2>2. \A e \in Devices : Shared(e)' = Shared(e) /\ Shared(e) \in Nat
    BY <1>2, <1>1, <1>3, SharedKept, ThreadsDisjoint DEF Shared, B
  <2>3. \A e \in Devices \ {d} : Shared(e)' = Shared(e) /\ Mine(t, e)' = Mine(t, e)
    BY <2>1, <2>2 DEF B
  <2>4. refs'[d] - refs[d] = (Shared(d)' - Shared(d)) + (Mine(t, d)' - Mine(t, d))
    BY <1>6, <2>1, <2>2 DEF B
  <2>5. refs' = [refs EXCEPT ![d] = refs'[d]]
    BY <1>1, <1>6
  <2>6. QED
    BY <1>1, <1>2, <1>3, <1>7, <2>3, <2>4, <2>5, BalancedAt
<1>16. QED
  BY <1>7, <1>8, <1>9, <1>10, <1>11, <1>12, <1>13, <1>14, <1>15

LEMMA CloseLockedRefs ==
  ASSUME Places, RInv, NoRaces, NEW t \in Callers, CloseLocked(t)
  PROVE  RInv'
<1> USE DEF RInv
<1>0. PICK d \in Devices : d = dev[t]
  BY ThreadsDisjoint DEF CloseLocked, Places, WithDevice
<1>1. PICK l \in Logicals : l = tgt[t]
  BY ThreadsDisjoint DEF CloseLocked, Targets
<1>2. /\ t \in Threads /\ pc[t] = "close" /\ lstate[l] = "closing" /\ physOf[l] = d /\ l \in logs[d]
      /\ mem[d] = "live" /\ job[t] # "unplug"
  <2>1. t \in Threads /\ pc[t] = "close"
    BY ThreadsDisjoint DEF CloseLocked
  <2>2. QED
    BY <1>0, <1>1, <2>1 DEF Targets, Linked, NoUseAfterFree, Idle
<1>3. /\ UNCHANGED <<dev, tgt, job, mem, default, opened, zombie, held, new, old>>
      /\ table' = table \ {l} /\ asDefault' = asDefault \ {l}
      /\ logs' = [logs EXCEPT ![d] = logs[d] \ {l}]
      /\ lstate' = [k \in Logicals |-> IF k = l THEN "closed" ELSE lstate[k]]
      /\ physOf' = [k \in Logicals |-> IF k = l THEN None ELSE physOf[k]]
  BY <1>0, <1>1, <1>2 DEF CloseLocked, DestroyLogicals, change
<1>4. \/ pc' = [pc EXCEPT ![t] = "close_join"] /\ refs' = refs
      \/ pc' = [pc EXCEPT ![t] = "unref"] /\ refs' = [refs EXCEPT ![d] = refs[d] - 1]
  BY <1>0 DEF CloseLocked, Goto, DropLogicalRef
<1>5. Moves(t) /\ pc'[t] \in {"close_join", "unref"}
  BY <1>2, <1>3, <1>4 DEF Moves, Places, Maps, Typed
<1>6. Others(t) /\ Alone(t)
  BY <1>2, <1>5, MovesFollows, OthersAlone
<1>7. /\ Cardinality(logs[d]) \in Nat /\ Cardinality(logs'[d]) = Cardinality(logs[d]) - 1
      /\ Cardinality(logs[d]) >= 1 /\ logs'[d] = logs[d] \ {l}
      /\ \A e \in Devices \ {d} : logs'[e] = logs[e]
  <2>1. logs'[d] = logs[d] \ {l} /\ \A e \in Devices \ {d} : logs'[e] = logs[e]
    BY <1>3 DEF Typed
  <2>2. IsFiniteSet(logs[d]) /\ Cardinality(logs[d]) \in Nat
    BY LogsFinite
  <2>3. IsFiniteSet(logs[d] \ {l}) /\ Cardinality(logs[d] \ {l}) = Cardinality(logs[d]) - 1
    BY <1>2, <2>2, FS_RemoveElement
  <2>4. Cardinality(logs[d] \ {l}) \in Nat
    BY <2>3, FS_CardinalityType
  <2>5. QED
    BY <2>1, <2>2, <2>3, <2>4
<1>8. Mine(t, d) = 1 /\ \A e \in Devices \ {d} : Mine(t, e) = 0 /\ Mine(t, e)' = 0
  BY <1>0, <1>2, <1>3, <1>5 DEF Mine, Uses, Drops, Loses, Holding, B
<1>9. refs[d] \in Nat /\ refs[d] >= 2
  <2>1. \A a, b, c \in Nat : b >= 1 /\ c = 1 => a + b + c >= 2
    OBVIOUS
  <2>2. QED
    BY <1>2, <1>7, <1>8, <2>1, AtLeast
<1>10. /\ refs' \in [Devices -> Int] /\ \A e \in Devices \ {d} : refs'[e] = refs[e]
       /\ refs'[d] - refs[d] = Mine(t, d)' - 2
  <2>1. CASE pc' = [pc EXCEPT ![t] = "close_join"] /\ refs' = refs
    <3>1. Mine(t, d)' = 2
      BY <1>0, <1>2, <1>3, <2>1 DEF Mine, Uses, Drops, Loses, Holding, B, Places, Maps
    <3>2. QED
      BY <1>9, <2>1, <3>1 DEF Typed
  <2>2. CASE pc' = [pc EXCEPT ![t] = "unref"] /\ refs' = [refs EXCEPT ![d] = refs[d] - 1]
    <3>1. Mine(t, d)' = 1
      BY <1>0, <1>2, <1>3, <2>2 DEF Mine, Uses, Drops, Loses, Holding, B, Places, Maps
    <3>2. QED
      BY <1>9, <2>2, <3>1 DEF Typed
  <2>3. QED
    BY <1>4, <2>1, <2>2
<1>11. refs'[d] \in Nat /\ refs'[d] >= 1
  <2>1. Mine(t, d)' \in Nat /\ Mine(t, d)' >= 1
    BY <1>0, <1>3, <1>5 DEF Mine, Uses, Drops, Loses, Holding, B
  <2>2. refs'[d] \in Int
    BY <1>10
  <2>3. QED
    BY <1>9, <1>10, <2>1, <2>2
<1>12. Typed'
  <2>1. logs' \in [Devices -> SUBSET Logicals]
    BY <1>3 DEF Typed
  <2>2. physOf' \in [Logicals -> Devices \cup {None}]
    BY <1>3 DEF Typed
  <2>3. QED
    BY <1>3, <1>10, <2>1, <2>2 DEF Typed
<1>13. Linked'
  BY <1>2, <1>3, <1>7, ThreadsDisjoint DEF Linked
<1>14. Targets'
  <2>1. \A u \in Threads \ {t} : Opening(u) \/ pc[u] = "close" => tgt[u] # l /\ tgt[u] \in Logicals
    BY <1>1, <1>2 DEF Targets
  <2>2. QED
    BY <1>2, <1>3, <1>5, <1>6, <2>1, TargetsKept
<1>15. Changing'
  <2>1. Followers' \subseteq Followers
    <3>1. old \in Devices => logs'[old] \subseteq logs[old]
      BY <1>7
    <3>2. old \notin Devices => logs'[old] = logs[old]
      BY <1>3 DEF Typed
    <3>3. QED
      BY <1>3, <3>1, <3>2 DEF Followers
  <2>2. t # driver
    BY ThreadsDisjoint
  <2>3. QED
    BY <1>2, <1>3, <1>5, <1>6, <2>1, <2>2, LookedKept, ChangingKept
<1>16. Idle'
  <2>1. \A e \in Devices : pc'[e] # "none" => e \in opened'
    BY <1>2, <1>3, <1>5, SameThreads DEF Idle
  <2>2. pc'[t] \in WithDevice /\ job'[t] # "unplug" /\ pc'[t] # "plug"
    BY <1>2, <1>3, <1>5 DEF WithDevice
  <2>3. QED
    BY <1>2, <1>6, <2>1, <2>2, IdleKept
<1>17. Unreferenced'
  <2>1. \A e \in Devices : ~Doomed(t, e)'
    BY <1>5 DEF Doomed
  <2>2. \A e \in Devices : pc[e] = "none" => pc'[e] = "none"
    BY <1>2, <1>5, SameThreads
  <2>3. \A e \in Devices : refs[e] = 0 => refs'[e] = 0
    BY <1>9, <1>10
  <2>4. QED
    BY <1>2, <1>3, <1>5, <1>6, <2>1, <2>2, <2>3, DoomedKept
<1>18. SoughtLater'
  <2>1. \A u \in Threads \ {t} : pc[u] \in {"found", "disc"} => refs'[dev[u]] > 0
    BY <1>10, <1>11 DEF SoughtLater, Places, WithDevice
  <2>2. QED
    BY <1>2, <1>5, <1>6, <2>1, SoughtStill
<1>19. NoUseAfterFree'
  <2>1. \A e \in Devices : pc'[e] # "none" => pc[e] # "none"
    BY <1>2, <1>5, SameThreads
  <2>2. /\ \A e \in Devices : new' = e \/ old' = e \/ default' = e => mem'[e] = "live"
        /\ \A e \in Devices : \A k \in Logicals : physOf'[k] = e => mem'[e] = "live"
        /\ \A e \in Devices : dev'[t] = e => mem'[e] = "live"
    BY <1>0, <1>2, <1>3, ThreadsDisjoint DEF NoUseAfterFree
  <2>3. QED
    BY <1>2, <1>3, <1>6, <2>1, <2>2, NoUseKept
<1>20. Balanced'
  <2>1. \A e \in Devices : Shared(e)' = Shared(e) /\ Shared(e) \in Nat
    BY <1>2, <1>3, <1>6, SharedKept, ThreadsDisjoint DEF Shared, B
  <2>2. \A e \in Devices : refs[e] \in Int /\ Cardinality(logs[e]) \in Nat
    BY LogsFinite DEF Typed
  <2>3. refs'[d] - refs[d] = (Shared(d)' - Shared(d)) + (Mine(t, d)' - Mine(t, d))
                             + (Cardinality(logs'[d]) - Cardinality(logs[d]))
    <3>1. Mine(t, d)' \in Int
      BY DEF Mine, B
    <3>2. QED
      BY <1>7, <1>8, <1>9, <1>10, <1>11, <2>1, <3>1
  <2>4. \A e \in Devices \ {d} :
          refs'[e] - refs[e] = (Shared(e)' - Shared(e)) + (Mine(t, e)' - Mine(t, e))
                               + (Cardinality(logs'[e]) - Cardinality(logs[e]))
    BY <1>7, <1>8, <1>10, <2>1, <2>2
  <2>5. QED
    BY <1>2, <1>3, <1>6, <1>12, <2>3, <2>4, BalancedKept
<1>21. QED
  BY <1>12, <1>13, <1>14, <1>15, <1>16, <1>17, <1>18, <1>19, <1>20

-----------------------------------------------------------------------------
(* The driver: devices plugged.                                            *)
LEMMA PlugRefs ==
  ASSUME Places, RInv, NoRaces, NEW d \in Devices, Plug(d)
  PROVE  RInv'
<1> USE DEF RInv
<1> DEFINE t == driver
<1>1. /\ t \in Threads /\ pc[t] = "idle" /\ mem[d] = "absent" /\ Moves(t) /\ pc'[t] = "plug"
      /\ dev'[t] = d /\ UNCHANGED <<tgt, job>> /\ mem' = [mem EXCEPT ![d] = "live"]
      /\ table' = table \cup {d}
  BY ThreadsDisjoint DEF Plug, Moves, Goto, Places, Maps, Typed
<1>2. UNCHANGED <<refs, default, opened, zombie, logical_vars, held, new, old>>
  BY DEF Plug, flags
<1>3. Others(t) /\ Alone(t)
  BY <1>1, MovesFollows, OthersAlone
<1>4. \A e \in Devices : mem'[e] = IF e = d THEN "live" ELSE mem[e]
  BY <1>1 DEF Typed
<1>5. /\ refs[d] = 0 /\ d \notin zombie /\ default # d /\ new # d /\ old # d /\ pc[d] = "none"
      /\ \A u \in Threads : dev[u] = d => pc[u] = "find"
      /\ \A l \in Logicals : physOf[l] # d
  BY <1>1 DEF Unreferenced, NoUseAfterFree
<1>6. Typed'
  BY <1>1, <1>2 DEF Typed, logical_vars
<1>7. Linked' /\ Followers' = Followers
  BY <1>2 DEF Linked, Followers, logical_vars
<1>8. Targets'
  BY <1>1, <1>2, <1>3, TargetsKept DEF logical_vars
<1>9. Changing'
  <2>1. pc[t] \notin DefLabels /\ pc'[t] \notin DefLabels
    BY <1>1 DEF DefLabels, WithBoth
  <2>2. QED
    BY <1>1, <1>2, <1>3, <1>7, <2>1, LookedKept, ChangingKept
<1>10. Idle'
  <2>1. \A e \in Devices : pc'[e] # "none" => e \in opened'
    BY <1>1, <1>2, SameThreads DEF Idle
  <2>2. job'[t] # "unplug"
    BY <1>1 DEF Idle
  <2>3. QED
    BY <1>1, <1>3, <2>1, <2>2, IdleKept
<1>11. Unreferenced'
  <2>1. \A e \in Devices : mem'[e] = "absent" => refs'[e] = 0 /\ e \notin zombie'
    BY <1>2, <1>4 DEF Unreferenced
  <2>2. refs'[d] = 0 /\ d \notin zombie' /\ pc'[d] = "none"
    BY <1>1, <1>2, <1>5, SameThreads
  <2>3. \A u \in Threads : \A e \in Devices :
          Doomed(u, e)' => Doomed(u, e) /\ pc'[u] = pc[u] /\ e # d
    <3>1. ~\E e \in Devices : Doomed(t, e)'
      BY <1>1 DEF Doomed
    <3>2. \A u \in Threads \ {t} : pc'[u] = pc[u] /\ dev'[u] = dev[u]
      BY <1>1, MovesOthers
    <3>3. QED
      BY <1>5, <3>1, <3>2 DEF Doomed
  <2>4. QED
    BY <1>1, <1>2, <2>1, <2>2, <2>3 DEF Unreferenced
<1>12. SoughtLater'
  BY <1>1, <1>2, <1>3, SoughtStill DEF SoughtLater
<1>13. NoUseAfterFree'
  <2>1. \A e \in Devices : pc'[e] # "none" => pc[e] # "none"
    BY <1>1, SameThreads
  <2>2. /\ \A e \in Devices : mem[e] = "live" => mem'[e] = "live"
        /\ \A e \in Devices : new' = e \/ old' = e \/ default' = e => mem'[e] = "live"
        /\ \A e \in Devices : \A k \in Logicals : physOf'[k] = e => mem'[e] = "live"
        /\ \A e \in Devices : dev'[t] = e => mem'[e] = "live"
        /\ \A e \in Devices : e \in table' => e \in table \/ mem'[e] = "live"
    BY <1>1, <1>2, <1>4 DEF NoUseAfterFree, logical_vars
  <2>3. QED
    BY <1>1, <1>3, <2>1, <2>2, NoUseKept
<1>14. Balanced'
  <2>1. ASSUME NEW e \in Devices \ {d}, mem'[e] = "live"
        PROVE  refs'[e] = Shared(e)' + Cardinality(logs'[e]) + Theirs(e)'
    <3>1. Theirs(e) \in Nat /\ Theirs(e)' = Theirs(e) - Mine(t, e) + Mine(t, e)'
      BY <1>1, <1>3, TheirsChange DEF Alone
    <3>2. Mine(t, e) = 0 /\ Mine(t, e)' = 0
      BY <1>1 DEF Mine, Uses, Drops, Loses, Holding, B
    <3>3. Shared(e)' = Shared(e)
      BY <1>1, <1>2 DEF Shared, Connected, B
    <3>4. refs[e] = Shared(e) + Cardinality(logs[e]) + Theirs(e)
      BY <1>4, <2>1 DEF Balanced
    <3>5. QED
      BY <1>2, <3>1, <3>2, <3>3, <3>4 DEF logical_vars
  <2>2. refs'[d] = Shared(d)' + Cardinality(logs'[d]) + Theirs(d)'
    <3>1. Shared(d)' = 0
      BY <1>1, <1>2, <1>5 DEF Shared, Connected, B
    <3>2. Cardinality(logs'[d]) = 0
      <4>1. logs[d] = {}
        BY <1>5 DEF Linked, Typed
      <4>2. QED
        BY <1>2, <4>1, FS_EmptySet DEF logical_vars
    <3>3. Theirs(d)' = 0
      <4>1. \A u \in Threads \ {t} : dev'[u] = d => pc'[u] = "find"
        BY <1>1, <1>5, MovesOthers
      <4>2. \A u \in Threads : ~Uses(u, d)' /\ ~Drops(u, d)' /\ ~Loses(u, d)'
        BY <1>1, <4>1 DEF Uses, Drops, Loses, Holding
      <4>3. /\ {u \in Threads : Uses(u, d)}' = {} /\ {u \in Threads : Drops(u, d)}' = {}
            /\ {u \in Threads : Loses(u, d)}' = {}
        BY <4>2
      <4>4. QED
        BY <4>3, FS_EmptySet DEF Theirs
    <3>4. QED
      BY <1>2, <1>5, <3>1, <3>2, <3>3
  <2>3. QED
    BY <2>1, <2>2 DEF Balanced
<1>15. QED
  BY <1>6, <1>7, <1>8, <1>9, <1>10, <1>11, <1>12, <1>13, <1>14

LEMMA PlugRefRefs ==
  ASSUME Places, RInv, NoRaces, PlugRef
  PROVE  RInv'
<1> USE DEF RInv
<1> DEFINE t == driver
<1>0. PICK d \in Devices : d = dev[t]
  BY DEF PlugRef, Unreferenced
<1>1. /\ t \in Threads /\ pc[t] = "plug" /\ refs' = [refs EXCEPT ![d] = refs[d] + 1]
      /\ Moves(t) /\ pc'[t] \in {"again", "insert", "idle"} /\ dev'[t] = None /\ job'[t] = "none"
      /\ tgt'[t] \in {tgt[t], None}
  BY <1>0, ThreadsDisjoint
     DEF PlugRef, Ref, Leave, ForgetCall, Next_pc, Goto, Moves, Places, Maps, Typed
<1>2. UNCHANGED <<mem, table, default, opened, zombie, logical_vars, held, new, old>>
  BY DEF PlugRef, flags, table_vars, change
<1>3. Others(t) /\ Alone(t)
  BY <1>1, MovesFollows, OthersAlone
<1>4. refs[d] = 0 /\ d \notin zombie /\ mem[d] = "live"
  BY <1>0, <1>1 DEF Unreferenced, NoUseAfterFree
<1>5. refs' \in [Devices -> Int] /\ refs'[d] = 1 /\ \A e \in Devices \ {d} : refs'[e] = refs[e]
  BY <1>1, <1>4 DEF Typed
<1>6. Typed'
  BY <1>1, <1>2, <1>5, TypedKept DEF logical_vars, Typed
<1>7. Linked' /\ Followers' = Followers
  BY <1>2 DEF Linked, Followers, logical_vars
<1>8. Targets'
  BY <1>1, <1>2, <1>3, TargetsKept DEF logical_vars
<1>9. Changing'
  <2>1. pc[t] \notin DefLabels /\ pc'[t] \notin DefLabels
    BY <1>1 DEF DefLabels, WithBoth
  <2>2. QED
    BY <1>1, <1>2, <1>3, <1>7, <2>1, LookedKept, ChangingKept
<1>10. Idle'
  <2>1. \A e \in Devices : pc'[e] # "none" => e \in opened'
    BY <1>1, <1>2, SameThreads DEF Idle
  <2>2. QED
    BY <1>1, <1>3, <2>1, IdleKept
<1>11. Unreferenced'
  <2>1. \A u \in Threads : \A e \in Devices :
          Doomed(u, e)' => Doomed(u, e) /\ pc'[u] = pc[u] /\ e # d
    <3>1. ~\E e \in Devices : Doomed(t, e)'
      BY <1>1 DEF Doomed
    <3>2. \A u \in Threads \ {t} : pc'[u] = pc[u] /\ dev'[u] = dev[u]
      BY <1>1, MovesOthers
    <3>3. \A u \in Threads : ~Doomed(u, d)
      BY <1>4 DEF Unreferenced
    <3>4. QED
      BY <3>1, <3>2, <3>3 DEF Doomed
  <2>2. pc'[t] # "plug"
    BY <1>1
  <2>3. QED
    BY <1>2, <1>4, <1>5, <2>1, <2>2 DEF Unreferenced
<1>12. SoughtLater'
  <2>1. \A u \in Threads \ {t} : pc[u] \in {"found", "disc"} => refs'[dev[u]] > 0
    BY <1>5 DEF SoughtLater, Places, WithDevice
  <2>2. QED
    BY <1>1, <1>3, <2>1, SoughtStill
<1>13. NoUseAfterFree'
  <2>1. \A e \in Devices : pc'[e] # "none" => pc[e] # "none"
    BY <1>1, SameThreads
  <2>2. /\ \A e \in Devices : new' = e \/ old' = e \/ default' = e => mem'[e] = "live"
        /\ \A e \in Devices : \A k \in Logicals : physOf'[k] = e => mem'[e] = "live"
    BY <1>2 DEF NoUseAfterFree, logical_vars
  <2>3. QED
    BY <1>1, <1>2, <1>3, <2>1, <2>2, NoUseKept, ThreadsDisjoint
<1>14. Balanced'
  <2>1. \A e \in Devices : Mine(t, e) = 0 /\ Mine(t, e)' = 0
    BY <1>1 DEF Mine, Uses, Drops, Loses, Holding, B
  <2>2. \A e \in Devices \ {d} : Shared(e)' = Shared(e) /\ Mine(t, e)' = Mine(t, e)
    BY <1>0, <1>1, <1>2, <2>1 DEF Shared, Connected, B
  <2>3. Shared(d)' = Shared(d) + 1 /\ Shared(d) \in Nat
    BY <1>0, <1>1, <1>2, <1>4 DEF Shared, Connected, B
  <2>4. refs'[d] - refs[d] = (Shared(d)' - Shared(d)) + (Mine(t, d)' - Mine(t, d))
    BY <1>4, <1>5, <2>1, <2>3
  <2>5. refs' = [refs EXCEPT ![d] = refs'[d]]
    BY <1>1, <1>4, <1>5
  <2>6. QED
    BY <1>1, <1>2, <1>3, <1>6, <2>2, <2>4, <2>5, BalancedAt DEF logical_vars
<1>15. QED
  BY <1>6, <1>7, <1>8, <1>9, <1>10, <1>11, <1>12, <1>13, <1>14

-----------------------------------------------------------------------------
(* The driver: the default device changes.                                 *)

(* A step that moves no logical device.                                    *)
LEMMA AtDriver ==
  ASSUME Places, RInv, Others(driver), Typed', Balanced',
         UNCHANGED <<logical_vars, mem, table, default, new, old, zombie>>,
         pc[driver] \in DefLabels, pc'[driver] \in DefLabels,
         dev'[driver] = dev[driver], job'[driver] = job[driver],
         pc'[driver] \in {"def_wait", "def_woken"} =>
           old \in held' /\ \A l \in Followers : ~LookedAt(l),
         \A e \in Devices : pc'[e] # "none" => e \in opened' /\ pc[e] # "none",
         \A e \in Devices : refs[e] = 0 => refs'[e] = 0,
         \A e \in Devices : refs'[e] >= refs[e]
  PROVE  RInv'
<1> USE DEF RInv
<1> DEFINE t == driver
<1>1. /\ t \in Threads /\ pc'[t] \notin {"open_wait", "open_woken", "close", "use", "open_on", "plug"}
      /\ pc'[t] \notin WithDevice /\ pc[t] \notin WithDevice \cup {"plug"}
  BY ThreadsDisjoint DEF DefLabels, WithBoth, WithDevice
<1>2. dev[t] = None /\ job[t] # "unplug"
  BY <1>1 DEF Idle, WithDevice
<1>3. Linked' /\ Followers' = Followers
  BY DEF Linked, Followers, logical_vars
<1>4. Targets'
  BY <1>1, TargetsKept DEF logical_vars
<1>5. Changing'
  <2>1. \A l : LookedAt(l)' => LookedAt(l)
    BY <1>1, LookedKept
  <2>2. QED
    BY <1>3, <2>1 DEF Changing
<1>6. Idle'
  BY <1>1, <1>2, IdleKept
<1>7. Unreferenced'
  <2>1. \A e \in Devices : ~Doomed(t, e)'
    BY <1>1 DEF Doomed, WithDevice
  <2>2. QED
    BY <1>1, <2>1, DoomedKept
<1>8. SoughtLater'
  <2>1. ASSUME NEW u \in Threads, pc[u] \in {"found", "disc"} PROVE refs'[dev[u]] > 0
    <3>1. refs[dev[u]] > 0 /\ dev[u] \in Devices
      BY <2>1 DEF SoughtLater, Places, WithDevice
    <3>2. refs'[dev[u]] \in Int /\ refs[dev[u]] \in Int
      BY <3>1 DEF Typed
    <3>3. QED
      BY <3>1, <3>2
  <2>2. pc'[t] \notin {"found", "disc"}
    BY <1>1 DEF WithDevice
  <2>3. QED
    BY <1>1, <2>1, <2>2, SoughtStill
<1>9. NoUseAfterFree'
  <2>1. /\ \A e \in Devices : new' = e \/ old' = e \/ default' = e => mem'[e] = "live"
        /\ \A e \in Devices : \A l \in Logicals : physOf'[l] = e => mem'[e] = "live"
    BY DEF NoUseAfterFree, logical_vars
  <2>2. \A e \in Devices : dev'[t] # e
    BY <1>2, ThreadsDisjoint
  <2>3. QED
    BY <1>1, <2>1, <2>2, NoUseKept
<1>10. QED
  BY <1>3, <1>4, <1>5, <1>6, <1>7, <1>8, <1>9

(* The same, and no reference changes hands.                               *)
LEMMA DriverOnly ==
  ASSUME Places, RInv, Others(driver),
         UNCHANGED <<logical_vars, mem, table, default, new, old, zombie, refs, dev, tgt, job>>,
         pc[driver] \in DefLabels \ {"def_lock"}, pc'[driver] \in DefLabels \ {"def_lock"},
         pc'[driver] \in {"def_wait", "def_woken"} =>
           old \in held' /\ \A l \in Followers : ~LookedAt(l),
         \A e \in Devices : pc'[e] # "none" => e \in opened' /\ pc[e] # "none"
  PROVE  RInv'
<1> USE DEF RInv
<1>1. driver \in Threads /\ Alone(driver)
  BY ThreadsDisjoint, OthersAlone
<1>2. Typed'
  BY DEF Typed, logical_vars
<1>3. Balanced'
  <2>1. \A e \in Devices : Mine(driver, e)' = 0 /\ Mine(driver, e) = 0
    BY DEF Mine, Uses, Drops, Loses, Holding, B, DefLabels, WithBoth
  <2>2. pc[driver] # "plug" /\ pc'[driver] # "plug"
    BY DEF DefLabels, WithBoth
  <2>3. \A e \in Devices : Shared(e)' = Shared(e)
    BY <1>1, <2>2, SharedKept
  <2>4. QED
    BY <1>1, <1>2, <2>1, <2>3, BalancedSame DEF logical_vars
<1>4. \A e \in Devices : refs'[e] >= refs[e]
  BY DEF Typed
<1>5. QED
  BY <1>2, <1>3, <1>4, AtDriver

LEMMA NewJoinedRefs ==
  ASSUME Places, RInv, NoRaces, NewJoined
  PROVE  RInv'
<1> USE DEF RInv
<1>0. PICK d \in Devices : d = new
  BY DEF NewJoined, Places, WithBoth
<1>1. /\ pc[driver] = "new_join" /\ EndClose(d, driver, "def_release")
      /\ UNCHANGED <<logical_vars, mem, table, default, new, old, zombie, refs, dev, tgt, job>>
  BY <1>0 DEF NewJoined, table_vars
<1>2. /\ Others(driver) /\ pc'[driver] = "def_release" /\ pc'[d] = "none"
      /\ \A e \in Devices : pc[e] = "none" => pc'[e] = "none"
  <2>1. driver \in Threads /\ driver \notin Devices
    BY ThreadsDisjoint
  <2>2. /\ dev' = [dev EXCEPT ![driver] = dev'[driver]] /\ tgt' = [tgt EXCEPT ![driver] = tgt'[driver]]
        /\ job' = [job EXCEPT ![driver] = job'[driver]]
    BY <1>1, <2>1 DEF Places, Maps, Typed
  <2>3. pc[driver] \in JoinLabels
    BY <1>1 DEF JoinLabels
  <2>4. QED
    BY <1>1, <2>1, <2>2, <2>3, EndCloseFollows
<1>3. pc[driver] \in DefLabels \ {"def_lock"} /\ pc'[driver] \in DefLabels \ {"def_lock"}
  BY <1>1, <1>2 DEF DefLabels, WithBoth
<1>4. \A e \in Devices : pc'[e] # "none" => e \in opened' /\ pc[e] # "none"
  BY <1>1, <1>2 DEF EndClose, CloseSystem, Idle
<1>5. QED
  BY <1>1, <1>2, <1>3, <1>4, DriverOnly

LEMMA OldJoinedRefs ==
  ASSUME Places, RInv, NoRaces, OldJoined
  PROVE  RInv'
<1> USE DEF RInv
<1>0. PICK d \in Devices : d = old
  BY DEF OldJoined, Places, WithBoth
<1>1. /\ pc[driver] = "old_join" /\ EndClose(d, driver, "def_release")
      /\ UNCHANGED <<logical_vars, mem, table, default, new, old, zombie, refs, dev, tgt, job>>
  BY <1>0 DEF OldJoined, table_vars
<1>2. /\ Others(driver) /\ pc'[driver] = "def_release" /\ pc'[d] = "none"
      /\ \A e \in Devices : pc[e] = "none" => pc'[e] = "none"
  <2>1. driver \in Threads /\ driver \notin Devices
    BY ThreadsDisjoint
  <2>2. /\ dev' = [dev EXCEPT ![driver] = dev'[driver]] /\ tgt' = [tgt EXCEPT ![driver] = tgt'[driver]]
        /\ job' = [job EXCEPT ![driver] = job'[driver]]
    BY <1>1, <2>1 DEF Places, Maps, Typed
  <2>3. pc[driver] \in JoinLabels
    BY <1>1 DEF JoinLabels
  <2>4. QED
    BY <1>1, <2>1, <2>2, <2>3, EndCloseFollows
<1>3. pc[driver] \in DefLabels \ {"def_lock"} /\ pc'[driver] \in DefLabels \ {"def_lock"}
  BY <1>1, <1>2 DEF DefLabels, WithBoth
<1>4. \A e \in Devices : pc'[e] # "none" => e \in opened' /\ pc[e] # "none"
  BY <1>1, <1>2 DEF EndClose, CloseSystem, Idle
<1>5. QED
  BY <1>1, <1>2, <1>3, <1>4, DriverOnly

LEMMA LockNewRefs ==
  ASSUME Places, RInv, NoRaces, LockNew
  PROVE  RInv'
<1> USE DEF RInv
<1> DEFINE t == driver
<1>1. /\ t \in Threads /\ pc[t] = "def_lock" /\ pc'[t] \in {"def_release", "def_lock_old"} /\ Moves(t)
      /\ UNCHANGED <<logical_vars, mem, table, default, new, old, zombie, opened, dev, tgt, job>>
  BY ThreadsDisjoint DEF LockNew, Goto, Moves, Places, Maps, Typed, table_vars, flags
<1>2. Others(t) /\ Alone(t) /\ pc[t] \in DefLabels /\ pc'[t] \in DefLabels
  BY <1>1, MovesFollows, OthersAlone DEF DefLabels, WithBoth
<1>3. \A e \in Devices : pc'[e] # "none" => e \in opened' /\ pc[e] # "none"
  BY <1>1, SameThreads DEF Idle
<1>4. \A e \in Devices : Mine(t, e) = 0 /\ Mine(t, e)' = 0
  BY <1>1 DEF Mine, Uses, Drops, Loses, Holding, B
<1>5. \A e \in Devices : Shared(e)' = Shared(e) + B(old = e) /\ Shared(e) \in Nat
  <2>1. \A e \in Devices : B(old = e /\ pc[t] # "def_lock") = 0
    BY <1>1 DEF B
  <2>2. \A e \in Devices : B(old = e /\ pc[t] # "def_lock")' = B(old = e)
    BY <1>1 DEF B
  <2>3. \A e \in Devices : Connected(e)' = Connected(e)
    BY <1>1 DEF Connected
  <2>4. QED
    BY <1>1, <2>1, <2>2, <2>3 DEF Shared, B
<1>6. CASE old = None
  <2>1. refs' = refs
    BY <1>6 DEF LockNew
  <2>2. \A e \in Devices : Shared(e)' = Shared(e) /\ refs'[e] >= refs[e]
    BY <1>5, <1>6, <2>1, ThreadsDisjoint DEF B, Typed
  <2>3. Typed'
    BY <1>1, <2>1 DEF Typed, logical_vars
  <2>4. Balanced'
    BY <1>1, <1>2, <1>4, <2>1, <2>2, <2>3, BalancedSame DEF logical_vars
  <2>5. QED
    BY <1>1, <1>2, <1>3, <2>1, <2>2, <2>3, <2>4, AtDriver
<1>7. CASE old # None
  <2>0. PICK d \in Devices : d = old
    BY <1>7 DEF Places
  <2>1. refs' = [refs EXCEPT ![d] = refs[d] + 1] /\ refs[d] \in Int /\ refs[d] # 0
    BY <1>7, <2>0, NobodyLeft DEF LockNew, Ref, Typed, NoUseAfterFree
  <2>2. refs' \in [Devices -> Int] /\ refs'[d] = refs[d] + 1
        /\ \A e \in Devices \ {d} : refs'[e] = refs[e]
    BY <2>1 DEF Typed
  <2>3. /\ \A e \in Devices : refs'[e] >= refs[e]
        /\ \A e \in Devices : refs[e] = 0 => refs'[e] = 0
    BY <2>1, <2>2 DEF Typed
  <2>4. Typed'
    BY <1>1, <2>2 DEF Typed, logical_vars
  <2>5. Balanced'
    <3>1. \A e \in Devices \ {d} : Shared(e)' = Shared(e) /\ Mine(t, e)' = Mine(t, e)
      BY <1>4, <1>5, <2>0 DEF B
    <3>2. refs'[d] - refs[d] = (Shared(d)' - Shared(d)) + (Mine(t, d)' - Mine(t, d))
      BY <1>4, <1>5, <2>0, <2>1, <2>2 DEF B
    <3>3. refs' = [refs EXCEPT ![d] = refs'[d]]
      BY <2>1, <2>2
    <3>4. QED
      BY <1>1, <1>2, <2>4, <3>1, <3>2, <3>3, BalancedAt DEF logical_vars
  <2>6. QED
    BY <1>1, <1>2, <1>3, <2>3, <2>4, <2>5, AtDriver
<1>8. QED
  BY <1>6, <1>7

LEMMA ChangeDefaultRefs ==
  ASSUME Places, RInv, NoRaces, NEW d \in Devices, ChangeDefault(d)
  PROVE  RInv'
<1> USE DEF RInv
<1> DEFINE t == driver
<1>1. /\ t \in Threads /\ pc[t] = "idle" /\ pc'[t] = "def_lock" /\ Moves(t)
      /\ UNCHANGED <<logical_vars, mem, table, zombie, opened, dev, tgt, job>>
      /\ refs' = [refs EXCEPT ![d] = refs[d] + 2] /\ new' = d /\ old' = default /\ default' = d
      /\ default # d /\ d \in table /\ refs[d] > 0
  BY ThreadsDisjoint
     DEF ChangeDefault, Goto, Moves, Places, Maps, Typed, table_vars, flags, NoRaces, Lookups
<1>2. Others(t) /\ Alone(t)
  BY <1>1, MovesFollows, OthersAlone
<1>3. new = None /\ old = None /\ dev[t] = None /\ job[t] # "unplug" /\ mem[d] = "live"
  BY <1>1 DEF Changing, DefLabels, WithBoth, WithDevice, Idle, NoUseAfterFree
<1>4. refs' \in [Devices -> Int] /\ refs[d] \in Int /\ refs'[d] = refs[d] + 2
      /\ \A e \in Devices \ {d} : refs'[e] = refs[e]
  BY <1>1 DEF Typed
<1>5. Typed'
  BY <1>1, <1>4 DEF Typed, logical_vars
<1>6. Linked'
  BY <1>1 DEF Linked, logical_vars
<1>7. Targets'
  BY <1>1, <1>2, TargetsKept DEF logical_vars
<1>8. Changing'
  BY <1>1 DEF Changing, DefLabels, WithBoth
<1>9. Idle'
  <2>1. \A e \in Devices : pc'[e] # "none" => e \in opened'
    BY <1>1, SameThreads DEF Idle
  <2>2. QED
    BY <1>1, <1>2, <1>3, <2>1, IdleKept
<1>10. Unreferenced'
  <2>1. \A e \in Devices : ~Doomed(t, e)'
    BY <1>1 DEF Doomed
  <2>2. \A e \in Devices : pc[e] = "none" => pc'[e] = "none"
    BY <1>1, SameThreads
  <2>3. \A e \in Devices : refs[e] = 0 => refs'[e] = 0
    BY <1>1, <1>4
  <2>4. QED
    BY <1>1, <1>2, <2>1, <2>2, <2>3, DoomedKept
<1>11. SoughtLater'
  <2>1. ASSUME NEW u \in Threads, pc[u] \in {"found", "disc"} PROVE refs'[dev[u]] > 0
    BY <1>1, <1>4, <2>1 DEF SoughtLater, Places, WithDevice
  <2>2. QED
    BY <1>1, <1>2, <2>1, SoughtStill
<1>12. NoUseAfterFree'
  <2>1. \A e \in Devices : pc'[e] # "none" => pc[e] # "none"
    BY <1>1, SameThreads
  <2>2. /\ \A e \in Devices : new' = e \/ old' = e \/ default' = e => mem'[e] = "live"
        /\ \A e \in Devices : \A l \in Logicals : physOf'[l] = e => mem'[e] = "live"
        /\ \A e \in Devices : dev'[t] # e
    BY <1>1, <1>3, ThreadsDisjoint DEF NoUseAfterFree, logical_vars
  <2>3. QED
    BY <1>1, <1>2, <2>1, <2>2, NoUseKept
<1>13. Balanced'
  <2>1. \A e \in Devices : Mine(t, e) = 0 /\ Mine(t, e)' = 0
    BY <1>1 DEF Mine, Uses, Drops, Loses, Holding, B
  <2>2. \A e \in Devices : Connected(e)' = Connected(e)
    BY <1>1 DEF Connected
  <2>3. \A e \in Devices : Shared(e) = B(Connected(e)) + B(default = e)
    BY <1>3, ThreadsDisjoint DEF Shared, B
  <2>4. \A e \in Devices : Shared(e)' = B(Connected(e)) + B(d = e) + B(d = e) + B(default = e)
    BY <1>1, <2>2 DEF Shared, B
  <2>5. \A e \in Devices \ {d} : Shared(e)' = Shared(e) /\ Mine(t, e)' = Mine(t, e)
    BY <2>1, <2>3, <2>4 DEF B
  <2>6. refs'[d] - refs[d] = (Shared(d)' - Shared(d)) + (Mine(t, d)' - Mine(t, d))
    BY <1>1, <1>4, <2>1, <2>3, <2>4 DEF B
  <2>7. refs' = [refs EXCEPT ![d] = refs'[d]]
    BY <1>1, <1>4
  <2>8. QED
    BY <1>1, <1>2, <1>5, <2>5, <2>6, <2>7, BalancedAt DEF logical_vars
<1>14. QED
  BY <1>5, <1>6, <1>7, <1>8, <1>9, <1>10, <1>11, <1>12, <1>13

(* The references of the driver go back.  The old device's that it had as  *)
(* the default goes with UnrefPhysicalAudioDevice.                         *)
LEMMA ReleaseRefs ==
  ASSUME Places, RInv, NoRaces, Release
  PROVE  RInv'
<1> USE DEF RInv
<1> DEFINE t == driver
<1>0. PICK d \in Devices : d = new
  BY DEF Release, Places
<1>1. /\ t \in Threads /\ pc[t] = "def_release" /\ Moves(t)
      /\ UNCHANGED <<logical_vars, mem, table, default, zombie, opened, tgt, job>>
      /\ refs' = [e \in Devices |-> IF e \in {d, old} THEN refs[e] - 1 ELSE refs[e]]
      /\ new' = None /\ old' = None /\ dev'[t] = old
      /\ pc'[t] = IF old = None THEN "idle" ELSE "unref"
  BY <1>0, ThreadsDisjoint DEF Release, Goto, Moves, Places, Maps, Typed, table_vars, flags
<1>2. Others(t) /\ Alone(t) /\ pc'[t] \in {"idle", "unref"}
  BY <1>1, MovesFollows, OthersAlone
<1>3. default = d /\ old # d /\ old \in Devices \cup {None} /\ dev[t] = None /\ job[t] # "unplug"
      /\ (old # None => mem[old] = "live") /\ mem[d] = "live"
  BY <1>0, <1>1 DEF Changing, DefLabels, WithBoth, WithDevice, Idle, NoUseAfterFree, Places
<1>4. /\ \A e \in Devices : Mine(t, e) = 0 /\ Mine(t, e)' = B(old = e)
      /\ \A e \in Devices : Connected(e)' = Connected(e)
  <2>1. \A e \in Devices : Mine(t, e) = 0
    BY <1>1 DEF Mine, Uses, Drops, Loses, Holding, B
  <2>2. \A e \in Devices : Mine(t, e)' = B(old = e)
    BY <1>1, <1>3, ThreadsDisjoint DEF Mine, Uses, Drops, Loses, Holding, B
  <2>3. QED
    BY <1>1, <1>2, <2>1, <2>2 DEF Connected
<1>5. \A e \in Devices : /\ Shared(e) \in Nat /\ Shared(e)' \in Nat
                         /\ Shared(e) = Shared(e)' + B(d = e) + B(old = e) + B(old = e)
  <2>1. \A e \in Devices : Shared(e)' = B(Connected(e)) + B(default = e)
    BY <1>1, <1>4, ThreadsDisjoint DEF Shared, B
  <2>2. \A e \in Devices : Shared(e) = B(Connected(e)) + B(default = e) + B(d = e) + B(old = e)
                                       + B(old = e)
    BY <1>0, <1>1 DEF Shared, B
  <2>3. QED
    BY <2>1, <2>2 DEF B
<1>6. \A e \in Devices : e \in {d, old} => refs[e] \in Nat /\ refs[e] >= 2
  <2>1. ASSUME NEW e \in Devices, e \in {d, old} PROVE Shared(e) >= 2 /\ mem[e] = "live"
    <3>1. CASE e = d
      BY <1>0, <1>3, <3>1 DEF Shared, B
    <3>2. CASE e = old
      BY <1>1, <1>3, <3>2, ThreadsDisjoint DEF Shared, B
    <3>3. QED
      BY <2>1, <3>1, <3>2
  <2>2. \A a, b, c \in Nat : a >= 2 => a + b + c >= 2
    OBVIOUS
  <2>3. QED
    BY <1>1, <1>5, <2>1, <2>2, AtLeast
<1>7. Typed'
  <2>1. refs' \in [Devices -> Int]
    BY <1>1 DEF Typed
  <2>2. QED
    BY <1>1, <2>1 DEF Typed, logical_vars
<1>8. Linked'
  BY <1>1 DEF Linked, logical_vars
<1>9. Targets'
  BY <1>1, <1>2, TargetsKept DEF logical_vars
<1>10. Changing'
  BY <1>1, <1>2 DEF Changing, DefLabels, WithBoth
<1>11. Idle'
  <2>1. \A e \in Devices : pc'[e] # "none" => e \in opened'
    BY <1>1, <1>2, SameThreads DEF Idle
  <2>2. pc'[t] \notin WithDevice => dev'[t] = None
    BY <1>1 DEF WithDevice
  <2>3. QED
    BY <1>1, <1>2, <1>3, <2>1, <2>2, IdleKept
<1>12. Unreferenced'
  <2>1. \A e \in Devices : ~Doomed(t, e)'
    BY <1>2 DEF Doomed
  <2>2. \A e \in Devices : pc[e] = "none" => pc'[e] = "none"
    BY <1>1, <1>2, SameThreads
  <2>3. \A e \in Devices : refs[e] = 0 => refs'[e] = 0
    BY <1>1, <1>6
  <2>4. QED
    BY <1>1, <1>2, <2>1, <2>2, <2>3, DoomedKept
<1>13. SoughtLater'
  <2>1. ASSUME NEW u \in Threads, pc[u] \in {"found", "disc"} PROVE refs'[dev[u]] > 0
    <3>1. refs[dev[u]] > 0 /\ dev[u] \in Devices
      BY <2>1 DEF SoughtLater, Places, WithDevice
    <3>2. QED
      BY <1>1, <1>6, <3>1
  <2>2. QED
    BY <1>1, <1>2, <2>1, SoughtStill
<1>14. NoUseAfterFree'
  <2>1. \A e \in Devices : pc'[e] # "none" => pc[e] # "none"
    BY <1>1, <1>2, SameThreads
  <2>2. /\ \A e \in Devices : new' = e \/ old' = e \/ default' = e => mem'[e] = "live"
        /\ \A e \in Devices : \A l \in Logicals : physOf'[l] = e => mem'[e] = "live"
        /\ \A e \in Devices : dev'[t] = e => mem'[e] = "live"
    BY <1>1, <1>3, ThreadsDisjoint DEF NoUseAfterFree, logical_vars
  <2>3. QED
    BY <1>1, <1>2, <2>1, <2>2, NoUseKept
<1>15. Balanced'
  <2>1. \A e \in Devices : Cardinality(logs[e]) \in Nat /\ refs[e] \in Int
    BY LogsFinite DEF Typed
  <2>2. ASSUME NEW e \in Devices
        PROVE  refs'[e] - refs[e] = (Shared(e)' - Shared(e)) + (Mine(t, e)' - Mine(t, e))
                                    + (Cardinality(logs'[e]) - Cardinality(logs[e]))
    <3>1. refs'[e] = refs[e] - B(d = e) - B(old = e)
      BY <1>1, <1>3, <2>1 DEF B
    <3>2. logs'[e] = logs[e]
      BY <1>1 DEF logical_vars
    <3>3. B(d = e) \in Nat /\ B(old = e) \in Nat
      BY DEF B
    <3>4. QED
      BY <1>4, <1>5, <2>1, <3>1, <3>2, <3>3
  <2>3. QED
    BY <1>1, <1>2, <1>7, <2>2, BalancedKept
<1>16. QED
  BY <1>7, <1>8, <1>9, <1>10, <1>11, <1>12, <1>13, <1>14, <1>15

(* Moving the logical devices, nobody being at one of them.                *)
LEMMA MigrateRefs ==
  ASSUME Places, RInv, NEW S, S = Followers, \A l \in S : ~LookedAt(l),
         NEW T \in {{}, {new}}, Migrate(T), pc[driver] \in WithBoth,
         opened' = opened \cup T, new \in T => new \notin opened,
         UNCHANGED <<mem, table, default, zombie, new, old, dev, tgt, job>>
  PROVE  RInv'
<1> USE DEF RInv
<1> DEFINE t == driver
<1>0. PICK d \in Devices, o \in Devices : d = new /\ o = old
  BY DEF Places
<1>1. /\ t \in Threads /\ t \notin Devices /\ t \notin Callers /\ pc[t] \in DefLabels /\ d # o
      /\ default = d /\ mem[d] = "live" /\ mem[o] = "live" /\ dev[t] = None /\ job[t] # "unplug"
  <2>1. t \in Threads /\ t \notin Devices /\ t \notin Callers /\ pc[t] \in DefLabels
    BY ThreadsDisjoint DEF DefLabels
  <2>2. pc[t] \notin WithDevice \cup {"plug"} /\ pc[t] # "unref"
    BY DEF WithBoth, WithDevice
  <2>3. QED
    BY <1>0, <2>1, <2>2 DEF Changing, NoUseAfterFree, Idle
<1>2. /\ S = logs[o] \cap asDefault
      /\ logs' = [logs EXCEPT ![o] = logs[o] \ S, ![d] = logs[d] \cup S]
      /\ physOf' = [l \in Logicals |-> IF l \in S THEN d ELSE physOf[l]]
      /\ refs' = [refs EXCEPT ![d] = refs[d] + Cardinality(S), ![o] = refs[o] - Cardinality(S)]
      /\ UNCHANGED <<asDefault, lstate>>
  BY <1>0 DEF Migrate, MoveRefs, Followers
<1>3. /\ pc'[t] \in {"old_join", "def_release"}
      /\ \A u \in Threads \ {t} : pc'[u] = IF u \in T THEN "run" ELSE pc[u]
  BY <1>0, <1>1 DEF Migrate
<1>4. d \in T => pc[d] = "none"
  BY <1>0 DEF Idle
<1>5. Others(t) /\ Alone(t)
  <2>1. Others(t)
    BY <1>0, <1>3, <1>4 DEF Others, Follows
  <2>2. QED
    BY <1>1, <2>1, OthersAlone
<1>6. /\ logs'[d] = logs[d] \cup S /\ logs'[o] = logs[o] \ S
      /\ \A e \in Devices \ {d, o} : logs'[e] = logs[e]
  BY <1>1, <1>2 DEF Typed
<1>7. /\ Cardinality(S) \in Nat /\ Cardinality(S) <= Cardinality(logs[o])
      /\ Cardinality(logs'[d]) = Cardinality(logs[d]) + Cardinality(S)
      /\ Cardinality(logs'[o]) = Cardinality(logs[o]) - Cardinality(S)
  <2>1. IsFiniteSet(logs[d]) /\ IsFiniteSet(logs[o]) /\ Cardinality(logs[d]) \in Nat
        /\ Cardinality(logs[o]) \in Nat
    BY LogsFinite
  <2>2. S \subseteq logs[o] /\ logs[d] \cap S = {}
    BY <1>1, <1>2 DEF Linked, Typed
  <2>3. PICK X, Y : X = logs[d] /\ Y = logs[o]
    OBVIOUS
  <2>4. /\ Cardinality(S) \in Nat /\ Cardinality(S) <= Cardinality(Y)
        /\ Cardinality(X \cup S) = Cardinality(X) + Cardinality(S)
        /\ Cardinality(Y \ S) = Cardinality(Y) - Cardinality(S)
    <3>1. IsFiniteSet(X) /\ IsFiniteSet(Y) /\ \A x \in S : x \in Y /\ x \notin X
      BY <2>1, <2>2, <2>3
    <3>2. IsFiniteSet(S) /\ Cardinality(S) \in Nat /\ Cardinality(S) <= Cardinality(Y)
          /\ Cardinality(X) \in Nat /\ Cardinality(Y) \in Nat
      <4>1. S \subseteq Y
        BY <3>1
      <4>2. QED
        BY <3>1, <4>1, FS_Subset, FS_CardinalityType
    <3>3. Cardinality(X \cup S) = Cardinality(X) + Cardinality(S)
      <4>1. X \cap S = {}
        BY <3>1
      <4>2. Cardinality(X \cap S) = 0
        BY <4>1, FS_EmptySet
      <4>3. Cardinality(X \cup S) = Cardinality(X) + Cardinality(S) - Cardinality(X \cap S)
        BY <3>1, <3>2, FS_Union
      <4>4. QED
        BY <3>2, <4>2, <4>3
    <3>4. Cardinality(Y \ S) = Cardinality(Y) - Cardinality(S)
      <4>1. Y \cap S = S
        BY <3>1
      <4>2. Cardinality(Y \ S) = Cardinality(Y) - Cardinality(Y \cap S)
        BY <3>1, FS_Difference
      <4>3. QED
        BY <4>1, <4>2
    <3>5. QED
      BY <3>2, <3>3, <3>4
  <2>5. QED
    BY <1>6, <2>3, <2>4
<1>8. /\ refs' \in [Devices -> Int] /\ refs[d] \in Nat /\ refs[o] \in Nat
      /\ refs'[d] = refs[d] + Cardinality(S) /\ refs'[o] = refs[o] - Cardinality(S)
      /\ \A e \in Devices \ {d, o} : refs'[e] = refs[e]
      /\ refs[d] > 0 /\ refs'[o] > 0 /\ refs[o] > 0
  <2>1. refs[d] \in Nat /\ refs[o] \in Nat
    BY <1>1, AtLeast
  <2>2. refs' \in [Devices -> Int] /\ refs'[d] = refs[d] + Cardinality(S)
        /\ refs'[o] = refs[o] - Cardinality(S) /\ \A e \in Devices \ {d, o} : refs'[e] = refs[e]
    <3>1. PICK n \in Nat : n = Cardinality(S)
      BY <1>7
    <3>2. refs' = [refs EXCEPT ![d] = refs[d] + n, ![o] = refs[o] - n]
      BY <1>2, <3>1
    <3>3. refs' \in [Devices -> Int] /\ refs'[d] = refs[d] + n /\ refs'[o] = refs[o] - n
          /\ \A e \in Devices \ {d, o} : refs'[e] = refs[e]
      BY <1>1, <2>1, <3>2 DEF Typed
    <3>4. QED
      BY <3>1, <3>3
  <2>3. refs[d] # 0
    BY <1>0, <1>1, NobodyLeft
  <2>4. refs[o] >= 1 + Cardinality(logs[o]) /\ Cardinality(logs[o]) \in Nat
    <3>1. Shared(o) >= 1 /\ Shared(o) \in Nat
      BY <1>0 DEF Shared, B
    <3>2. \A a, b, c \in Nat : a >= 1 => a + b + c >= 1 + b
      OBVIOUS
    <3>3. /\ refs[o] >= Shared(o) + Cardinality(logs[o]) + Mine(t, o)
          /\ Mine(t, o) \in Nat /\ Cardinality(logs[o]) \in Nat
      BY <1>1, AtLeast
    <3>4. QED
      BY <2>1, <3>1, <3>3
  <2>5. QED
    BY <1>7, <2>1, <2>2, <2>3, <2>4
<1>9. Typed'
  <2>1. S \subseteq Logicals
    BY <1>2 DEF Typed
  <2>2. logs' \in [Devices -> SUBSET Logicals]
    BY <1>2, <2>1 DEF Typed
  <2>3. physOf' \in [Logicals -> Devices \cup {None}]
    BY <1>2 DEF Typed
  <2>4. QED
    BY <1>8, <2>2, <2>3 DEF Typed
<1>10. Linked'
  <2>1. S \subseteq Logicals /\ \A l \in S : physOf[l] = o
    BY <1>2 DEF Typed, Linked
  <2>2. \A l \in Logicals : physOf'[l] = IF l \in S THEN d ELSE physOf[l]
    BY <1>2
  <2>3. \A l \in Logicals : \A e \in Devices : l \in logs'[e] <=> physOf'[l] = e
    BY <1>1, <1>6, <2>1, <2>2 DEF Linked
  <2>4. \A l \in Logicals : lstate'[l] \in {"open", "closing"} <=> physOf'[l] # None
    BY <1>2, <2>1, <2>2, ThreadsDisjoint DEF Linked
  <2>5. QED
    BY <2>3, <2>4 DEF Linked
<1>11. Targets'
  <2>1. ASSUME NEW u \in Threads, pc[u] = "close" PROVE physOf'[tgt[u]] = physOf[tgt[u]]
    <3>1. u \in Callers /\ tgt[u] \in Logicals
      BY <2>1 DEF Targets
    <3>2. tgt[u] \notin S
      BY <2>1, <3>1 DEF LookedAt
    <3>3. QED
      BY <1>2, <3>1, <3>2
  <2>2. QED
    BY <1>1, <1>2, <1>3, <1>5, <2>1, TargetsKept
<1>12. Changing'
  BY <1>0, <1>1, <1>3 DEF Changing, DefLabels, WithBoth
<1>13. \A e \in Devices : (pc'[e] # "none" => e \in opened') /\ (pc[e] = "none" => pc'[e] = "none" \/ e = d)
  BY <1>0, <1>1, <1>3, ThreadsDisjoint DEF Idle
<1>14. Idle'
  BY <1>1, <1>3, <1>5, <1>13, IdleKept
<1>15. Unreferenced'
  <2>1. \A e \in Devices : ~Doomed(t, e)'
    BY <1>3 DEF Doomed
  <2>2. \A e \in Devices : refs[e] = 0 => refs'[e] = 0
    BY <1>8
  <2>3. \A e \in Devices : pc[e] = "none" => pc'[e] = "none" \/ refs[e] # 0
    BY <1>8, <1>13
  <2>4. QED
    BY <1>1, <1>3, <1>5, <2>1, <2>2, <2>3, DoomedKept
<1>16. SoughtLater'
  <2>1. ASSUME NEW u \in Threads, pc[u] \in {"found", "disc"} PROVE refs'[dev[u]] > 0
    <3>1. refs[dev[u]] > 0 /\ dev[u] \in Devices
      BY <2>1 DEF SoughtLater, Places, WithDevice
    <3>2. QED
      BY <1>7, <1>8, <3>1
  <2>2. QED
    BY <1>1, <1>3, <1>5, <2>1, SoughtStill
<1>17. NoUseAfterFree'
  <2>1. \A e \in Devices : pc'[e] # "none" => pc[e] # "none" \/ mem[e] = "live"
    BY <1>1, <1>13
  <2>2. /\ \A e \in Devices : new' = e \/ old' = e \/ default' = e => mem'[e] = "live"
        /\ \A e \in Devices : dev'[t] # e
    BY <1>1, ThreadsDisjoint DEF NoUseAfterFree
  <2>3. \A e \in Devices : \A l \in Logicals : physOf'[l] = e => mem'[e] = "live"
    BY <1>1, <1>2 DEF NoUseAfterFree
  <2>4. QED
    BY <1>1, <1>3, <1>5, <2>1, <2>2, <2>3, NoUseKept
<1>18. Balanced'
  <2>1. \A e \in Devices : Mine(t, e) = 0 /\ Mine(t, e)' = 0
    BY <1>1, <1>3 DEF Mine, Uses, Drops, Loses, Holding, B, WithBoth
  <2>2. \A e \in Devices : Shared(e)' = Shared(e) /\ Shared(e) \in Nat
    <3>1. pc[t] \notin {"plug", "def_lock"} /\ pc'[t] \notin {"plug", "def_lock"}
      BY <1>3 DEF WithBoth
    <3>2. QED
      BY <1>1, <1>5, <3>1, SharedKept DEF Shared, B
  <2>3. \A e \in Devices : refs[e] \in Int /\ Cardinality(logs[e]) \in Nat
    BY LogsFinite DEF Typed
  <2>4. \A e \in Devices :
          refs'[e] - refs[e] = (Shared(e)' - Shared(e)) + (Mine(t, e)' - Mine(t, e))
                               + (Cardinality(logs'[e]) - Cardinality(logs[e]))
    <3>1. ASSUME NEW e \in Devices
          PROVE  refs'[e] - refs[e] = Cardinality(logs'[e]) - Cardinality(logs[e])
      <4>1. CASE e = d
        BY <1>7, <1>8, <2>3, <4>1
      <4>2. CASE e = o
        <5>1. /\ refs'[o] = refs[o] - Cardinality(S) /\ refs[o] \in Nat /\ Cardinality(S) \in Nat
              /\ Cardinality(logs'[o]) = Cardinality(logs[o]) - Cardinality(S)
              /\ Cardinality(logs[o]) \in Nat
          BY <1>7, <1>8, <2>3
        <5>2. QED
          BY <4>2, <5>1
      <4>3. CASE e \notin {d, o}
        BY <1>6, <1>8, <2>3, <4>3
      <4>4. QED
        BY <4>1, <4>2, <4>3
    <3>2. \A e \in Devices : Cardinality(logs'[e]) \in Int
      <4>1. Cardinality(logs'[d]) \in Int /\ Cardinality(logs'[o]) \in Int
        BY <1>7, <2>3
      <4>2. \A e \in Devices \ {d, o} : Cardinality(logs'[e]) = Cardinality(logs[e])
        BY <1>6
      <4>3. QED
        BY <2>3, <4>1, <4>2
    <3>3. QED
      BY <2>1, <2>2, <2>3, <3>1, <3>2
  <2>5. QED
    BY <1>1, <1>5, <1>9, <2>4, BalancedKept
<1>19. QED
  BY <1>9, <1>10, <1>11, <1>12, <1>14, <1>15, <1>16, <1>17, <1>18

LEMMA OpenNewRefs ==
  ASSUME Places, RInv, OpenNew, pc[driver] \in {"def_lock_old", "def_woken"},
         \A l \in Followers : ~LookedAt(l),
         UNCHANGED <<mem, table_vars, zombie, new, old, stimuli, dev, tgt, job>>
  PROVE  RInv'
<1> USE DEF RInv
<1>1. driver \in Threads /\ pc[driver] \in WithBoth /\ pc[driver] \in DefLabels \ {"def_lock"}
  BY ThreadsDisjoint DEF WithBoth, DefLabels
<1>2. UNCHANGED <<mem, table, default, zombie, new, old, dev, tgt, job>>
  BY DEF table_vars
<1>3. ASSUME NEW l \in {"def_wait", "new_join"}, Goto(driver, l), UNCHANGED <<refs, logical_vars>>,
             opened \subseteq opened', l = "def_wait" => held' = {old}
      PROVE  RInv'
  <2>1. Moves(driver) /\ pc'[driver] = l
    <3>1. pc' = [pc EXCEPT ![driver] = pc'[driver]] /\ pc'[driver] = l
      BY <1>1, <1>3 DEF Goto, Places, Maps
    <3>2. /\ dev' = [dev EXCEPT ![driver] = dev'[driver]] /\ tgt' = [tgt EXCEPT ![driver] = tgt'[driver]]
          /\ job' = [job EXCEPT ![driver] = job'[driver]]
      BY <1>1, <1>2 DEF Places, Maps, Typed
    <3>3. QED
      BY <3>1, <3>2 DEF Moves
  <2>2. Others(driver)
    BY <1>1, <2>1, MovesFollows
  <2>3. \A e \in Devices : pc'[e] # "none" => e \in opened' /\ pc[e] # "none"
    BY <1>1, <1>3, <2>1, SameThreads DEF Idle, WithBoth
  <2>4. pc'[driver] \in DefLabels \ {"def_lock"} /\ (pc'[driver] \in {"def_wait", "def_woken"} => old \in held')
    BY <1>3, <2>1 DEF DefLabels, WithBoth
  <2>5. QED
    BY <1>1, <1>2, <1>3, <2>2, <2>3, <2>4, DriverOnly
<1>4. ASSUME NEW T \in {{}, {new}}, Migrate(T), opened' = opened \cup T,
             new \in T => new \notin opened
      PROVE  RInv'
  <2>1. PICK S : S = Followers
    OBVIOUS
  <2>2. QED
    BY <1>1, <1>2, <1>4, <2>1, MigrateRefs
<1>5. CASE Goto(driver, "def_wait") /\ held' = {old} /\ UNCHANGED <<refs, opened, logical_vars>>
  BY <1>3, <1>5
<1>6. CASE Migrate({}) /\ UNCHANGED opened
  BY <1>4, <1>6
<1>7. CASE new \notin opened /\ opened' = opened \cup {new} /\ Migrate({new})
  BY <1>4, <1>7
<1>8. CASE opened' = opened \cup {new} /\ Goto(driver, "new_join") /\ UNCHANGED <<refs, logical_vars>>
  BY <1>3, <1>8
<1>9. QED
  BY <1>5, <1>6, <1>7, <1>8 DEF OpenNew

LEMMA LockOldRefs ==
  ASSUME Places, RInv, NoRaces, LockOld
  PROVE  RInv'
<1> USE DEF RInv
<1>1. /\ driver \in Threads /\ pc[driver] = "def_lock_old"
      /\ UNCHANGED <<mem, table_vars, zombie, new, old, stimuli, dev, tgt, job>>
  BY ThreadsDisjoint DEF LockOld
<1>2. CASE Goto(driver, "def_release") /\ UNCHANGED <<refs, opened, logical_vars>>
  <2>1. Moves(driver) /\ pc'[driver] = "def_release"
    <3>1. pc' = [pc EXCEPT ![driver] = pc'[driver]] /\ pc'[driver] = "def_release"
      BY <1>1, <1>2 DEF Goto, Places, Maps
    <3>2. /\ dev' = [dev EXCEPT ![driver] = dev'[driver]] /\ tgt' = [tgt EXCEPT ![driver] = tgt'[driver]]
          /\ job' = [job EXCEPT ![driver] = job'[driver]]
      BY <1>1 DEF Places, Maps, Typed
    <3>3. QED
      BY <3>1, <3>2 DEF Moves
  <2>2. Others(driver)
    BY <1>1, <2>1, MovesFollows
  <2>3. \A e \in Devices : pc'[e] # "none" => e \in opened' /\ pc[e] # "none"
    BY <1>1, <1>2, <2>1, SameThreads DEF Idle
  <2>4. pc[driver] \in DefLabels \ {"def_lock"} /\ pc'[driver] \in DefLabels \ {"def_lock"}
    BY <1>1, <2>1 DEF DefLabels, WithBoth
  <2>5. UNCHANGED <<logical_vars, mem, table, default, new, old, zombie, refs, dev, tgt, job>>
    BY <1>1, <1>2 DEF table_vars
  <2>6. QED
    BY <2>1, <2>2, <2>3, <2>4, <2>5, DriverOnly
<1>3. CASE (\A l \in Followers : ~LookedAt(l)) /\ OpenNew
  BY <1>1, <1>3, OpenNewRefs
<1>4. QED
  BY <1>2, <1>3 DEF LockOld, NoRaces, Migrations

LEMMA NewWokenRefs ==
  ASSUME Places, RInv, NoRaces, NewWoken
  PROVE  RInv'
<1> USE DEF RInv
<1>1. /\ pc[driver] = "def_woken" /\ OpenNew
      /\ UNCHANGED <<mem, table_vars, zombie, new, old, stimuli, dev, tgt, job>>
  BY DEF NewWoken
<1>2. \A l \in Followers : ~LookedAt(l)
  BY <1>1 DEF Changing
<1>3. QED
  BY <1>1, <1>2, OpenNewRefs

-----------------------------------------------------------------------------
(* OpenPhysicalAudioDevice for a logical device l, which is nobody else's. *)
Fresh(t, l) ==
  /\ lstate[l] \in {"unused", "allocated"}
  /\ \A u \in Threads \ {t} : Opening(u) => tgt[u] # l

(* What it keeps, whether l is attached or not.                            *)
LEMMA OpenKept ==
  ASSUME Places, RInv, NEW t \in Callers, NEW d \in Devices, NEW l \in Logicals,
         dev[t] = d, pc[t] \in {"open", "open_on", "open_woken"}, Free(d), Fresh(t, l),
         Others(t), Typed', Balanced',
         UNCHANGED <<mem, table, default, zombie, held, new, old, dev>>,
         pc'[t] \in {"open_wait", "open_join", "unref"}, job'[t] # "unplug",
         lstate' = [lstate EXCEPT ![l] = lstate'[l]],
         pc'[t] = "open_wait" => tgt'[t] = l /\ lstate'[l] = "allocated",
         \/ UNCHANGED <<logs, physOf, asDefault>> /\ lstate'[l] \in {"allocated", "unused"}
         \/ /\ logs' = [logs EXCEPT ![d] = logs[d] \cup {l}]
            /\ physOf' = [physOf EXCEPT ![l] = d] /\ lstate'[l] = "open"
            /\ asDefault' \subseteq asDefault \cup {l},
         \A e \in Devices : pc'[e] # "none" => e \in opened',
         \A e \in Devices : pc[e] = "none" => pc'[e] = "none" \/ e = d,
         refs' = refs \/ refs' = [refs EXCEPT ![d] = refs[d] + 1]
  PROVE  RInv'
<1> USE DEF RInv
<1>1. /\ t \in Threads /\ t # driver /\ mem[d] = "live" /\ refs[d] # 0
      /\ physOf[l] = None /\ (\A e \in Devices : l \notin logs[e])
  <2>1. t \in Threads /\ t # driver
    BY ThreadsDisjoint
  <2>2. mem[d] = "live"
    BY <2>1 DEF NoUseAfterFree
  <2>3. Uses(t, d)
    BY DEF Uses, Holding
  <2>4. physOf[l] = None
    BY DEF Fresh, Linked
  <2>5. QED
    BY <2>1, <2>2, <2>3, <2>4, NobodyLeft, ThreadsDisjoint DEF Linked
<1>2. \A k \in Logicals \ {l} : lstate'[k] = lstate[k]
  BY DEF Places
<1>3. \A k \in Logicals \ {l} : physOf'[k] = physOf[k]
  BY DEF Places
<1>4. /\ \A e \in Devices : refs[e] = 0 => refs'[e] = 0
      /\ \A e \in Devices : refs[e] > 0 => refs'[e] > 0
  BY <1>1 DEF Typed
<1>5. Linked'
  <2>1. CASE UNCHANGED <<logs, physOf>> /\ lstate'[l] \in {"allocated", "unused"}
    BY <1>1, <1>2, <2>1 DEF Linked
  <2>2. CASE /\ logs' = [logs EXCEPT ![d] = logs[d] \cup {l}]
             /\ physOf' = [physOf EXCEPT ![l] = d] /\ lstate'[l] = "open"
    <3>1. physOf'[l] = d /\ logs'[d] = logs[d] \cup {l}
          /\ \A e \in Devices \ {d} : logs'[e] = logs[e]
      BY <2>2 DEF Typed
    <3>2. \A k \in Logicals : \A e \in Devices : k \in logs'[e] <=> physOf'[k] = e
      BY <1>1, <1>3, <3>1 DEF Linked
    <3>3. \A k \in Logicals : lstate'[k] \in {"open", "closing"} <=> physOf'[k] # None
      BY <1>2, <1>3, <2>2, <3>1, ThreadsDisjoint DEF Linked
    <3>4. QED
      BY <3>2, <3>3 DEF Linked
  <2>3. QED
    BY <2>1, <2>2
<1>6. Targets'
  <2>1. \A u \in Threads \ {t} : Opening(u) \/ pc[u] = "close" => tgt[u] # l /\ tgt[u] \in Logicals
    BY DEF Fresh, Targets
  <2>2. \A u \in Threads \ {t} : Opening(u)' \/ pc'[u] = "close" =>
          /\ tgt'[u] = tgt[u] /\ tgt[u] # l /\ tgt[u] \in Logicals
          /\ (Opening(u)' => Opening(u)) /\ (pc'[u] = "close" => pc[u] = "close")
    BY <2>1 DEF Others, Follows, Opening
  <2>3. \A u \in Threads : Opening(u)' => tgt'[u] \in Logicals /\ lstate'[tgt'[u]] = "allocated"
    BY <1>1, <1>2, <2>2 DEF Targets, Opening
  <2>4. \A u \in Threads : pc'[u] = "close" =>
          u \in Callers /\ tgt'[u] \in Logicals /\ lstate'[tgt'[u]] = "closing"
          /\ physOf'[tgt'[u]] = dev'[u]
    BY <1>1, <1>2, <1>3, <2>2 DEF Targets
  <2>5. \A u, v \in Threads :
          tgt'[u] = tgt'[v] /\ (Opening(u)' \/ pc'[u] = "close") /\ (Opening(v)' \/ pc'[v] = "close")
            => u = v
    <3>1. Opening(t)' \/ pc'[t] = "close" => tgt'[t] = l
      BY DEF Opening
    <3>2. QED
      BY <2>2, <3>1 DEF Targets
  <2>6. QED
    BY <2>3, <2>4, <2>5 DEF Targets
<1>7. Changing'
  <2>1. ASSUME pc[driver] \in {"def_wait", "def_woken"}, old \in held
        PROVE  Followers' \subseteq Followers
    <3>1. old \in Devices /\ d # old
      BY <2>1 DEF Places, WithBoth, Free
    <3>2. CASE UNCHANGED <<logs, asDefault>>
      BY <3>2 DEF Followers
    <3>3. CASE /\ logs' = [logs EXCEPT ![d] = logs[d] \cup {l}]
               /\ asDefault' \subseteq asDefault \cup {l}
      <4>1. logs'[old] = logs[old]
        BY <3>1, <3>3 DEF Typed
      <4>2. QED
        BY <1>1, <3>1, <3>3, <4>1 DEF Followers
    <3>4. QED
      BY <3>2, <3>3
  <2>2. QED
    BY <1>1, <2>1, LookedKept, ChangingKept
<1>8. Idle'
  BY <1>1, IdleKept DEF WithDevice
<1>9. Unreferenced'
  <2>1. \A e \in Devices : ~Doomed(t, e)'
    BY DEF Doomed
  <2>2. QED
    BY <1>1, <1>4, <2>1, DoomedKept
<1>10. SoughtLater'
  <2>1. \A u \in Threads : pc[u] \in {"found", "disc"} => refs'[dev[u]] > 0
    BY <1>4 DEF SoughtLater, Places, WithDevice
  <2>2. QED
    BY <1>1, <2>1, SoughtStill
<1>11. NoUseAfterFree'
  <2>1. /\ \A e \in Devices : new' = e \/ old' = e \/ default' = e => mem'[e] = "live"
        /\ \A e \in Devices : dev'[t] = e => mem'[e] = "live"
        /\ \A e \in Devices : pc'[e] # "none" => pc[e] # "none" \/ mem[e] = "live"
    BY <1>1 DEF NoUseAfterFree
  <2>2. \A e \in Devices : \A k \in Logicals : physOf'[k] = e => mem'[e] = "live"
    BY <1>1, <1>3 DEF NoUseAfterFree, Typed
  <2>3. QED
    BY <1>1, <2>1, <2>2, NoUseKept
<1>12. QED
  BY <1>5, <1>6, <1>7, <1>8, <1>9, <1>10, <1>11

LEMMA AttachRefs ==
  ASSUME Places, RInv, NEW t \in Callers, NEW d \in Devices, NEW l \in Logicals, NEW b,
         dev[t] = d, pc[t] \in {"open", "open_on", "open_woken"}, Free(d), Fresh(t, l),
         Attach(t, d, l, b), Others(t), pc'[t] = "unref",
         UNCHANGED <<mem, table, default, zombie, held, new, old, dev>>,
         \A e \in Devices : pc'[e] # "none" => e \in opened',
         \A e \in Devices : pc[e] = "none" => pc'[e] = "none" \/ e = d
  PROVE  RInv'
<1> USE DEF RInv
<1>1. /\ lstate' = [lstate EXCEPT ![l] = "open"] /\ physOf' = [physOf EXCEPT ![l] = d]
      /\ logs' = [logs EXCEPT ![d] = logs[d] \cup {l}] /\ refs' = [refs EXCEPT ![d] = refs[d] + 1]
      /\ tgt' = [tgt EXCEPT ![t] = l] /\ job' = [job EXCEPT ![t] = "insert"]
      /\ asDefault' \subseteq asDefault \cup {l}
  BY DEF Attach, Ref
<1>2. /\ t \in Threads /\ t # driver /\ job[t] # "unplug" /\ job'[t] = "insert"
      /\ lstate'[l] = "open" /\ lstate' = [lstate EXCEPT ![l] = lstate'[l]]
  <2>1. t \in Threads /\ t # driver
    BY ThreadsDisjoint
  <2>2. job[t] # "unplug" /\ job'[t] = "insert"
    BY <1>1, <2>1 DEF Idle, Typed
  <2>3. lstate'[l] = "open"
    BY <1>1 DEF Places
  <2>4. QED
    BY <1>1, <2>1, <2>2, <2>3
<1>3. refs' \in [Devices -> Int] /\ refs'[d] = refs[d] + 1 /\ refs[d] \in Int
      /\ \A e \in Devices \ {d} : refs'[e] = refs[e]
  BY <1>1 DEF Typed
<1>4. Typed'
  <2>1. logs' \in [Devices -> SUBSET Logicals]
    BY <1>1 DEF Typed
  <2>2. physOf' \in [Logicals -> Devices \cup {None}]
    BY <1>1 DEF Typed
  <2>3. tgt' \in [Threads -> Logicals \cup {None}] /\ job' = [u \in Threads |-> job'[u]]
    BY <1>1 DEF Typed
  <2>4. QED
    BY <1>3, <2>1, <2>2, <2>3 DEF Typed
<1>5. Balanced'
  <2>1. \A e \in Devices : Mine(t, e)' = Mine(t, e) /\ Mine(t, e) \in Nat
    <3>1. \A e \in Devices : Uses(t, e)' = Uses(t, e) /\ Drops(t, e)' = Drops(t, e)
                             /\ Loses(t, e)' = Loses(t, e)
      BY <1>2 DEF Uses, Drops, Loses, Holding
    <3>2. QED
      BY <3>1 DEF Mine, B
  <2>2. \A e \in Devices : Shared(e)' = Shared(e) /\ Shared(e) \in Nat
    BY <1>2, SharedKept DEF Shared, B
  <2>3. \A e \in Devices : Cardinality(logs[e]) \in Nat /\ refs[e] \in Int
    BY LogsFinite DEF Typed
  <2>4. logs'[d] = logs[d] \cup {l} /\ (\A e \in Devices \ {d} : logs'[e] = logs[e])
        /\ l \notin logs[d]
    <3>1. l \notin logs[d]
      BY ThreadsDisjoint DEF Fresh, Linked
    <3>2. QED
      BY <1>1, <3>1 DEF Typed
  <2>5. Cardinality(logs'[d]) = Cardinality(logs[d]) + 1
    <3>1. IsFiniteSet(logs[d])
      BY LogsFinite
    <3>2. QED
      BY <2>4, <3>1, FS_AddElement
  <2>6. refs'[d] - refs[d] = (Shared(d)' - Shared(d)) + (Mine(t, d)' - Mine(t, d))
                             + (Cardinality(logs'[d]) - Cardinality(logs[d]))
    BY <1>3, <2>1, <2>2, <2>3, <2>5
  <2>7. \A e \in Devices \ {d} :
          refs'[e] - refs[e] = (Shared(e)' - Shared(e)) + (Mine(t, e)' - Mine(t, e))
                               + (Cardinality(logs'[e]) - Cardinality(logs[e]))
    BY <1>3, <2>1, <2>2, <2>3, <2>4
  <2>8. Alone(t)
    BY <1>2, OthersAlone
  <2>9. QED
    BY <1>2, <1>4, <2>6, <2>7, <2>8, BalancedKept
<1>6. QED
  BY <1>1, <1>2, <1>4, <1>5, OpenKept

(* The device is opened, waited for, or not opened after all.              *)
LEMMA OpenPhysicalRefs ==
  ASSUME Places, RInv, NEW t \in Callers, NEW d \in Devices, NEW l \in Logicals, NEW b,
         dev[t] = d, pc[t] \in {"open", "open_on", "open_woken"}, Free(d), Fresh(t, l),
         OpenPhysical(t, d, l, b), UNCHANGED <<mem, table_vars, change, dev>>
  PROVE  RInv'
<1> USE DEF RInv
<1>1. /\ t \in Threads /\ t \notin Devices /\ t # driver /\ mem[d] = "live" /\ job[t] # "unplug"
      /\ UNCHANGED <<mem, table, default, held, new, old, dev>>
  <2>1. t \in Threads /\ t \notin Devices /\ t # driver
    BY ThreadsDisjoint
  <2>2. QED
    BY <2>1 DEF NoUseAfterFree, Idle, table_vars, change
<1>2. dev' = [dev EXCEPT ![t] = dev'[t]]
  BY <1>1 DEF Places, Maps
(* Nothing is attached. *)
<1>3. ASSUME NEW n \in {"open_wait", "open_join"}, Goto(t, n),
             lstate' = [lstate EXCEPT ![l] = lstate'[l]],
             n = "open_wait" => lstate'[l] = "allocated" /\ tgt'[t] = l,
             n = "open_join" => lstate'[l] = "unused",
             tgt' = [tgt EXCEPT ![t] = tgt'[t]], tgt'[t] \in {tgt[t], l},
             job' = [job EXCEPT ![t] = job'[t]], job'[t] # "unplug",
             opened \subseteq opened', UNCHANGED <<refs, zombie, logs, physOf, asDefault>>
      PROVE  RInv'
  <2>1. Moves(t) /\ pc'[t] = n
    BY <1>1, <1>2, <1>3 DEF Moves, Goto, Places, Maps
  <2>2. Others(t) /\ Alone(t)
    BY <1>1, <2>1, MovesFollows, OthersAlone
  <2>3. Typed'
    BY <1>1, <1>3, <2>1, TypedKept DEF Typed
  <2>4. Balanced'
    <3>1. \A e \in Devices : Uses(t, e)' = Uses(t, e) /\ Drops(t, e)' = Drops(t, e)
                             /\ Loses(t, e)' = Loses(t, e)
      BY <1>1, <1>3, <2>1 DEF Uses, Drops, Loses, Holding
    <3>2. \A e \in Devices : Shared(e)' = Shared(e)
      BY <1>1, <1>3, <2>2, SharedKept
    <3>3. \A e \in Devices : Mine(t, e)' = Mine(t, e)
      BY <3>1 DEF Mine, B
    <3>4. QED
      BY <1>1, <1>3, <2>2, <2>3, <3>2, <3>3, BalancedSame
  <2>5. /\ \A e \in Devices : pc'[e] # "none" => e \in opened'
        /\ \A e \in Devices : pc[e] = "none" => pc'[e] = "none" \/ e = d
    BY <1>1, <1>3, <2>1, SameThreads DEF Idle
  <2>6. QED
    BY <1>1, <1>3, <2>1, <2>2, <2>3, <2>4, <2>5, OpenKept
<1>4. CASE OpenWait(t, d, l, b)
  <2>1. /\ Goto(t, "open_wait") /\ lstate' = [lstate EXCEPT ![l] = "allocated"]
        /\ tgt' = [tgt EXCEPT ![t] = l]
        /\ \E x \in {"default", "device"} : job' = [job EXCEPT ![t] = x]
        /\ UNCHANGED <<opened, refs, zombie, logs, physOf, asDefault>>
    BY <1>4 DEF OpenWait, flags
  <2>2. lstate'[l] = "allocated" /\ lstate' = [lstate EXCEPT ![l] = lstate'[l]]
    BY <2>1 DEF Places
  <2>3. tgt'[t] = l /\ tgt' = [tgt EXCEPT ![t] = tgt'[t]]
    BY <1>1, <2>1 DEF Typed
  <2>4. job'[t] # "unplug" /\ job' = [job EXCEPT ![t] = job'[t]]
    BY <1>1, <2>1 DEF Typed
  <2>5. QED
    BY <1>3, <2>1, <2>2, <2>3, <2>4
<1>5. CASE OpenShared(t, d, l, b)
  <2>1. Goto(t, "unref") /\ Attach(t, d, l, b) /\ UNCHANGED <<opened, zombie>>
    BY <1>5 DEF OpenShared, flags
  <2>2. Moves(t) /\ pc'[t] = "unref"
    <3>1. tgt' = [tgt EXCEPT ![t] = tgt'[t]] /\ job' = [job EXCEPT ![t] = job'[t]]
      BY <1>1, <2>1 DEF Attach, Typed
    <3>2. QED
      BY <1>1, <1>2, <2>1, <3>1 DEF Moves, Goto, Places, Maps
  <2>3. Others(t)
    BY <1>1, <2>2, MovesFollows
  <2>4. /\ \A e \in Devices : pc'[e] # "none" => e \in opened'
        /\ \A e \in Devices : pc[e] = "none" => pc'[e] = "none" \/ e = d
    BY <1>1, <2>1, <2>2, SameThreads DEF Idle
  <2>5. QED
    BY <1>1, <2>1, <2>2, <2>3, <2>4, AttachRefs
<1>6. CASE /\ d \notin opened /\ opened' = opened \cup {d} /\ Attach(t, d, l, b)
           /\ pc' = [pc EXCEPT ![t] = "unref", ![d] = "run"] /\ UNCHANGED zombie
  <2>1. /\ pc[d] = "none" /\ pc'[t] = "unref" /\ pc'[d] = "run"
        /\ \A u \in Threads \ {t, d} : pc'[u] = pc[u]
    BY <1>1, <1>6, ThreadsDisjoint DEF Idle, Places, Maps
  <2>2. Others(t)
    <3>1. \A u \in Threads \ {t} : dev'[u] = dev[u] /\ tgt'[u] = tgt[u] /\ job'[u] = job[u]
      BY <1>1, <1>6 DEF Attach, Typed
    <3>2. QED
      BY <2>1, <3>1 DEF Others, Follows
  <2>3. /\ \A e \in Devices : pc'[e] # "none" => e \in opened'
        /\ \A e \in Devices : pc[e] = "none" => pc'[e] = "none" \/ e = d
    BY <1>1, <1>6, <2>1, ThreadsDisjoint DEF Idle
  <2>4. QED
    BY <1>1, <1>6, <2>1, <2>2, <2>3, AttachRefs
<1>7. CASE /\ opened' = opened \cup {d} /\ job' = [job EXCEPT ![t] = "none"]
           /\ lstate' = [lstate EXCEPT ![l] = "unused"] /\ Goto(t, "open_join")
           /\ UNCHANGED <<refs, zombie, logs, physOf, asDefault, tgt>>
  <2>1. lstate'[l] = "unused" /\ lstate' = [lstate EXCEPT ![l] = lstate'[l]]
    BY <1>7 DEF Places
  <2>2. job'[t] # "unplug" /\ job' = [job EXCEPT ![t] = job'[t]]
    BY <1>1, <1>7 DEF Typed
  <2>3. tgt' = [tgt EXCEPT ![t] = tgt'[t]] /\ tgt'[t] = tgt[t]
    BY <1>1, <1>7 DEF Typed
  <2>4. QED
    BY <1>3, <1>7, <2>1, <2>2, <2>3
<1>8. QED
  BY <1>4, <1>5, <1>6, <1>7 DEF OpenPhysical, OpenSystem

LEMMA OpenLockedRefs ==
  ASSUME Places, RInv, NoRaces, NEW t \in Callers, OpenLocked(t)
  PROVE  RInv'
<1> USE DEF RInv
<1>1. /\ t \in Threads /\ pc[t] \in {"open", "open_on"} /\ Free(dev[t]) /\ dev[t] \in Devices
      /\ UNCHANGED <<mem, table_vars, change, dev>>
  BY ThreadsDisjoint DEF OpenLocked, Places, WithDevice
<1>2. CASE /\ job' = [job EXCEPT ![t] = IF Stale(t) THEN "again" ELSE "none"]
           /\ Goto(t, "unref") /\ UNCHANGED <<refs, flags, logical_vars, tgt>>
  <2>1. job'[t] # "unplug" /\ job' = [job EXCEPT ![t] = job'[t]]
    BY <1>1, <1>2 DEF Typed
  <2>2. QED
    BY <1>1, <1>2, <2>1, OpenFailsRefs
<1>3. CASE Unused # {} /\ OpenPhysical(t, dev[t], CHOOSE l \in Unused : TRUE, WantsDefault(t))
  <2>1. PICK l \in Unused : OpenPhysical(t, dev[t], l, WantsDefault(t))
    BY <1>3
  <2>2. l \in Logicals /\ Fresh(t, l)
    BY DEF Unused, Fresh, Targets
  <2>3. PICK d, b : d \in Devices /\ d = dev[t] /\ b = WantsDefault(t)
    BY <1>1
  <2>4. QED
    BY <1>1, <2>1, <2>2, <2>3, OpenPhysicalRefs
<1>4. QED
  BY <1>2, <1>3 DEF OpenLocked

LEMMA OpenWokenRefs ==
  ASSUME Places, RInv, NoRaces, NEW t \in Callers, OpenWoken(t)
  PROVE  RInv'
<1> USE DEF RInv
<1>1. /\ t \in Threads /\ pc[t] = "open_woken" /\ Free(dev[t]) /\ dev[t] \in Devices
      /\ UNCHANGED <<mem, table_vars, change, dev>>
  BY ThreadsDisjoint DEF OpenWoken, Places, WithDevice
<1>2. PICK d, l, b :
        /\ d \in Devices /\ d = dev[t] /\ l \in Logicals /\ l = tgt[t]
        /\ b = WantsDefault(t)
  BY <1>1 DEF Targets, Opening
<1>3. Fresh(t, l)
  BY <1>1, <1>2 DEF Fresh, Targets, Opening
<1>4. OpenPhysical(t, d, l, b)
  BY <1>2 DEF OpenWoken
<1>5. QED
  BY <1>1, <1>2, <1>3, <1>4, OpenPhysicalRefs
-----------------------------------------------------------------------------
(* The beginning.                                                          *)
LEMMA InitRefs == Init => RInv
<1> SUFFICES ASSUME Init PROVE RInv
  OBVIOUS
<1>0. PICK plugged \in SUBSET Devices, e \in Devices \cup {None} :
        /\ e = None <=> plugged = {}
        /\ e # None => e \in plugged
        /\ mem = [x \in Devices |-> IF x \in plugged THEN "live" ELSE "absent"]
        /\ refs = [x \in Devices |-> CASE x = e       -> 2
                                       [] x \in plugged /\ x # e -> 1
                                       [] OTHER       -> 0]
        /\ table = plugged /\ default = e
  BY DEF Init
<1>1. /\ zombie = {} /\ logs = [d \in Devices |-> {}] /\ physOf = [l \in Logicals |-> None]
      /\ lstate = [l \in Logicals |-> "unused"] /\ new = None /\ old = None /\ opened = {}
      /\ pc = [t \in Threads |-> IF t \in Devices THEN "none" ELSE "idle"]
      /\ dev = [t \in Threads |-> None] /\ tgt = [t \in Threads |-> None]
      /\ job = [t \in Threads |-> "none"]
  BY DEF Init
<1>2. /\ \A t \in Threads : pc[t] \in {"none", "idle"} /\ dev[t] = None /\ job[t] = "none"
      /\ driver \in Threads /\ pc[driver] = "idle" /\ None \notin Devices
      /\ \A d \in Devices : d \in Threads /\ pc[d] = "none"
  BY <1>1, ThreadsDisjoint, AudioDeviceAssumption DEF Threads
<1>3. \A d \in Devices : /\ refs[d] \in Int
                         /\ d \in plugged /\ d = e => refs[d] = 2 /\ mem[d] = "live"
                         /\ d \in plugged /\ d # e => refs[d] = 1 /\ mem[d] = "live"
                         /\ d \notin plugged => refs[d] = 0 /\ mem[d] = "absent"
  BY <1>0, <1>2
<1>4. Typed
  <2>1. refs \in [Devices -> Int]
    BY <1>0, <1>3
  <2>2. mem \in [Devices -> {"absent", "live", "freed"}]
    BY <1>0
  <2>3. QED
    BY <1>1, <2>1, <2>2 DEF Typed
<1>5. Linked /\ Targets
  BY <1>1, <1>2 DEF Linked, Targets, Opening
<1>6. Changing /\ Idle
  BY <1>1, <1>2 DEF Changing, Idle, DefLabels, WithBoth, WithDevice
<1>7. Unreferenced /\ SoughtLater
  BY <1>1, <1>2, <1>3 DEF Unreferenced, SoughtLater, Doomed
<1>8. NoUseAfterFree
  BY <1>0, <1>1, <1>2, <1>3 DEF NoUseAfterFree
<1>9. Balanced
  <2> SUFFICES ASSUME NEW d \in Devices, mem[d] = "live"
               PROVE  refs[d] = Shared(d) + Cardinality(logs[d]) + Theirs(d)
    BY DEF Balanced
  <2>1. d \in plugged /\ refs[d] = 1 + B(default = d)
    BY <1>0, <1>3 DEF B
  <2>2. Shared(d) = 1 + B(default = d)
    BY <1>1, <1>2 DEF Shared, Connected, B
  <2>3. logs[d] = {} /\ {t \in Threads : Uses(t, d)} = {} /\ {t \in Threads : Drops(t, d)} = {}
        /\ {t \in Threads : Loses(t, d)} = {}
    BY <1>1, <1>2 DEF Uses, Drops, Loses, Holding
  <2>4. Cardinality(logs[d]) = 0 /\ Theirs(d) = 0
    BY <2>3, FS_EmptySet DEF Theirs
  <2>5. QED
    BY <2>1, <2>2, <2>4 DEF B
<1>10. QED
  BY <1>4, <1>5, <1>6, <1>7, <1>8, <1>9 DEF RInv

LEMMA StutterRefs ==
  ASSUME RInv, UNCHANGED vars
  PROVE  RInv'
<1>1. UNCHANGED <<pc, dev, tgt, job, logs, physOf, asDefault, lstate, mem, refs, table, default,
                  zombie, opened, held, new, old>>
  BY DEF vars, table_vars, flags, logical_vars, change
<1>2. Typed' /\ Linked' /\ Targets'
  BY <1>1 DEF RInv, Typed, Linked, Targets, Opening
<1>3. Changing' /\ Idle'
  BY <1>1 DEF RInv, Changing, Idle, Followers, LookedAt
<1>4. Unreferenced' /\ SoughtLater' /\ NoUseAfterFree'
  BY <1>1 DEF RInv, Unreferenced, SoughtLater, NoUseAfterFree, Doomed
<1>5. Balanced'
  BY <1>1 DEF RInv, Balanced, Shared, Theirs, Connected, Uses, Drops, Loses
<1>6. QED
  BY <1>2, <1>3, <1>4, <1>5 DEF RInv

-----------------------------------------------------------------------------
LEMMA CallRefs ==
  ASSUME Places, RInv, NoRaces, NEW t \in Callers, Call(t)
  PROVE  RInv'
<1>1. CASE OpenDefault(t) \/ \E d \in Devices : OpenDevice(t, d)
  BY <1>1, OpenDefaultRefs, OpenDeviceRefs
<1>2. CASE \E l \in Logicals : OpenOnLogical(t, l)
  <2>1. PICK l \in Logicals : FindLogical(t, l, "open_on") /\ UNCHANGED lstate
    BY <1>2 DEF OpenOnLogical
  <2>2. QED
    BY <2>1, FindLogicalRefs
<1>3. CASE \E l \in Logicals : Use(t, l)
  <2>1. PICK l \in Logicals : FindLogical(t, l, "use") /\ UNCHANGED lstate
    BY <1>3 DEF Use
  <2>2. QED
    BY <2>1, FindLogicalRefs
<1>4. CASE \E l \in Logicals : Close(t, l)
  <2>1. PICK l \in Logicals :
          FindLogical(t, l, "close") /\ lstate' = [lstate EXCEPT ![l] = "closing"]
    BY <1>4 DEF Close
  <2>2. QED
    BY <2>1, FindLogicalRefs
<1>5. QED
  BY <1>1, <1>2, <1>3, <1>4 DEF Call

LEMMA CallStepRefs ==
  ASSUME Places, RInv, NoRaces, NEW t \in Callers, CallStep(t)
  PROVE  RInv'
BY OpenDefaultRefs, FindRefs, ObtainRefs, OpenLockedRefs, OpenWokenRefs, OpenJoinedRefs,
   InsertRefs, UseLockedRefs, CloseLockedRefs, CloseJoinedRefs DEF CallStep

LEMMA SharedStepRefs ==
  ASSUME Places, RInv, NoRaces, NEW t \in Threads, SharedStep(t)
  PROVE  RInv'
BY UnrefRefs, UnhashRefs, DestroyRefs, FreeJoinedRefs, DisconnectRefs, DisconnectLockedRefs
   DEF SharedStep

LEMMA EventRefs ==
  ASSUME Places, RInv, NoRaces, NEW d \in Devices, Event(d) \/ ThreadEnds(d)
  PROVE  RInv'
BY PlugRefs, UnplugRefs, ChangeDefaultRefs, ThreadFailsRefs, ThreadEndsRefs DEF Event

LEMMA ChangeStepRefs ==
  ASSUME Places, RInv, NoRaces, ChangeStep
  PROVE  RInv'
BY PlugRefRefs, LockNewRefs, LockOldRefs, NewWokenRefs, NewJoinedRefs, OldJoinedRefs, ReleaseRefs
   DEF ChangeStep

(* With Places, RInv is inductive as long as no race of Windows happens.   *)
THEOREM RefsInductive == ASSUME NoRaces PROVE Spec => [](Places /\ RInv)
<1>1. Init => RInv
  BY InitRefs
<1>2. Places /\ RInv /\ [Next]_vars => RInv'
  BY CallRefs, CallStepRefs, SharedStepRefs, EventRefs, ChangeStepRefs, StutterRefs DEF Next
<1>3. QED
  BY <1>1, <1>2, Inductive, PTL DEF Spec

(* UnrefPhysicalAudioDevice and DestroyPhysicalAudioDevice: while a thread *)
(* works on a device, a logical device is on it, it is the default, its    *)
(* thread runs or it can be looked up, its memory is there.                *)
THEOREM NothingFreedInUse == ASSUME NoRaces PROVE Spec => []NoUseAfterFree
<1>1. Places /\ RInv => NoUseAfterFree
  BY DEF RInv
<1>2. QED
  BY <1>1, RefsInductive, PTL

-----------------------------------------------------------------------------
(* Only DestroyPhysicalAudioDevice frees.                                  *)
Frees == \A d \in Devices : mem[d] = "live" /\ mem'[d] = "freed" =>
           d \in zombie /\ default # d /\ logs[d] = {} /\ d \notin table

LEMMA FreeJoinedFrees ==
  ASSUME Places, RInv, NEW t \in Threads, FreeJoined(t)
  PROVE  Frees
<1> SUFFICES ASSUME NEW d \in Devices, mem[d] = "live", mem'[d] = "freed"
             PROVE  d \in zombie /\ default # d /\ logs[d] = {} /\ d \notin table
  BY DEF Frees
<1>1. pc[t] = "free_join" /\ mem' = [mem EXCEPT ![dev[t]] = "freed"]
  BY DEF FreeJoined
<1>2. dev[t] = d
  BY <1>1 DEF RInv, Typed
<1>3. Doomed(t, d) /\ pc[t] # "unhash"
  BY <1>1, <1>2 DEF Doomed
<1>4. refs[d] = 0 /\ d \in zombie /\ d \notin table
  BY <1>3 DEF RInv, Unreferenced
<1>5. QED
  BY <1>4, NobodyLeft

LEMMA KeepsMemory ==
  ASSUME RInv, UNCHANGED mem \/ \E d \in Devices : mem' = [mem EXCEPT ![d] = "live"]
  PROVE  Frees
BY DEF RInv, Typed, Frees

LEMMA NextFrees ==
  ASSUME Places, RInv, [Next]_vars
  PROVE  Frees
<1>1. CASE \E t \in Callers : Call(t)
  BY <1>1, KeepsMemory
     DEF Call, OpenDefault, OpenDevice, OpenOnLogical, Use, Close, FindLogical
<1>2. CASE \E t \in Callers : CallStep(t)
  BY <1>2, KeepsMemory
     DEF CallStep, OpenDefault, Find, Obtain, OpenLocked, OpenWoken, OpenJoined, Insert,
         UseLocked, CloseLocked, CloseJoined
<1>3. CASE \E t \in Threads : SharedStep(t)
  <2>1. PICK t \in Threads : SharedStep(t)
    BY <1>3
  <2>2. CASE FreeJoined(t)
    BY <2>2, FreeJoinedFrees
  <2>3. CASE Unref(t) \/ Unhash(t) \/ Destroy(t) \/ Disconnect(t) \/ DisconnectLocked(t)
    BY <2>3, KeepsMemory DEF Unref, Unhash, Destroy, Disconnect, DisconnectLocked
  <2>4. QED
    BY <2>1, <2>2, <2>3 DEF SharedStep
<1>4. CASE \E d \in Devices : Event(d) \/ ThreadEnds(d)
  BY <1>4, KeepsMemory DEF Event, Plug, Unplug, ChangeDefault, ThreadFails, ThreadEnds
<1>5. CASE ChangeStep
  BY <1>5, KeepsMemory
     DEF ChangeStep, PlugRef, LockNew, LockOld, NewWoken, NewJoined, OldJoined, Release
<1>6. CASE UNCHANGED vars
  BY <1>6, KeepsMemory DEF vars
<1>7. QED
  BY <1>1, <1>2, <1>3, <1>4, <1>5, <1>6 DEF Next

(* DestroyPhysicalAudioDevice frees only a device that was lost, is not    *)
(* the default, has no logical devices and cannot be found any more.       *)
THEOREM OnlyLostDevicesFreed == ASSUME NoRaces PROVE Spec => DestroyedOnlyWhenLost
<1>1. Places /\ RInv /\ [Next]_vars =>
        [\A d \in Devices :
           mem[d] = "live" /\ mem'[d] = "freed" =>
             d \in zombie /\ default # d /\ logs[d] = {} /\ d \notin table]_vars
  BY NextFrees DEF Frees
<1>2. QED
  BY <1>1, RefsInductive, PTL DEF Spec, DestroyedOnlyWhenLost

-----------------------------------------------------------------------------
(* A count is the number of the tokens.                                    *)
Named(X, names) == IsFiniteSet(X) /\ \A x \in X : x[1] \in names
Apart(m, n) == m \cap n = {}

LEMMA Joins ==
  ASSUME NEW X, NEW Y, NEW m, NEW n, Named(X, m), Named(Y, n), Apart(m, n)
  PROVE  Named(X \cup Y, m \cup n) /\ Cardinality(X \cup Y) = Cardinality(X) + Cardinality(Y)
<1>1. X \cap Y = {}
  BY DEF Named, Apart
<1>2. Cardinality(X) \in Nat /\ Cardinality(Y) \in Nat /\ Cardinality(X \cap Y) = 0
  BY <1>1, FS_CardinalityType, FS_EmptySet DEF Named
<1>3. IsFiniteSet(X \cup Y)
      /\ Cardinality(X \cup Y) = Cardinality(X) + Cardinality(Y) - Cardinality(X \cap Y)
  BY FS_Union DEF Named
<1>4. \A x \in X \cup Y : x[1] \in m \cup n
  BY DEF Named
<1>5. QED
  BY <1>2, <1>3, <1>4 DEF Named

Tag(name, X) == {<<name, x>> : x \in X}
LEMMA Tagged ==
  ASSUME NEW X, IsFiniteSet(X), NEW name
  PROVE  Named(Tag(name, X), {name}) /\ Cardinality(Tag(name, X)) = Cardinality(X)
<1>0. PICK T : T = {<<name, x>> : x \in X}
  OBVIOUS
<1> DEFINE f == [x \in X |-> <<name, x>>]
<1>1. f \in Bijection(X, T)
  <2>1. f \in [X -> T] /\ \A x, y \in X : f[x] = f[y] => x = y
    BY <1>0
  <2>2. \A y \in T : \E x \in X : f[x] = y
    BY <1>0
  <2>3. QED
    BY <2>1, <2>2 DEF Bijection, Injection, Surjection, IsInjective
<1>2. ExistsBijection(X, T)
  BY <1>1 DEF ExistsBijection
<1>3. IsFiniteSet(T) /\ Cardinality(T) = Cardinality(X)
  BY <1>2, FS_Bijection
<1>4. QED
  BY <1>0, <1>3 DEF Named, Tag

Token(name, p, d) == IF p THEN {<<name, d>>} ELSE {}

LEMMA NoToken ==
  ASSUME NEW name PROVE Named({}, {name}) /\ Cardinality({}) = 0
BY FS_EmptySet DEF Named

LEMMA OneToken ==
  ASSUME NEW name, NEW d PROVE Named({<<name, d>>}, {name}) /\ Cardinality({<<name, d>>}) = 1
<1>1. PICK e : e = <<name, d>>
  OBVIOUS
<1>2. IsFiniteSet({e}) /\ Cardinality({e}) = 1 /\ e[1] = name
  BY <1>1, FS_Singleton
<1>3. QED
  BY <1>1, <1>2 DEF Named

AllNamed(S1, S2, S3, S4, S5, S6, S7, S8, S9) ==
  /\ Named(S1, {"connected"}) /\ Named(S2, {"default"}) /\ Named(S3, {"was default"})
  /\ Named(S4, {"new"}) /\ Named(S5, {"old"}) /\ Named(S6, {"logical"})
  /\ Named(S7, {"closed"}) /\ Named(S8, {"call"}) /\ Named(S9, {"lost"})

LEMMA NineSets ==
  ASSUME NEW S1, NEW S2, NEW S3, NEW S4, NEW S5, NEW S6, NEW S7, NEW S8, NEW S9,
         AllNamed(S1, S2, S3, S4, S5, S6, S7, S8, S9)
  PROVE  Cardinality(S1 \cup S2 \cup S3 \cup S4 \cup S5 \cup S6 \cup S7 \cup S8 \cup S9)
           = Cardinality(S1) + Cardinality(S2) + Cardinality(S3) + Cardinality(S4)
             + Cardinality(S5) + Cardinality(S6) + Cardinality(S7) + Cardinality(S8)
             + Cardinality(S9)
<1> USE DEF AllNamed
<1>1. PICK T : T = S1 \cup S2
  OBVIOUS
<1>2. PICK U : U = T \cup S3
  OBVIOUS
<1>3. PICK V : V = U \cup S4
  OBVIOUS
<1>4. PICK W : W = V \cup S5
  OBVIOUS
<1>5. PICK X : X = W \cup S6
  OBVIOUS
<1>6. PICK Y : Y = X \cup S7
  OBVIOUS
<1>7. PICK Z : Z = Y \cup S8
  OBVIOUS
<1> DEFINE n1 == {"connected"}
           n2 == n1 \cup {"default"}
           n3 == n2 \cup {"was default"}
           n4 == n3 \cup {"new"}
           n5 == n4 \cup {"old"}
           n6 == n5 \cup {"logical"}
           n7 == n6 \cup {"closed"}
           n8 == n7 \cup {"call"}
<1>8. /\ Apart(n1, {"default"}) /\ Apart(n2, {"was default"}) /\ Apart(n3, {"new"})
      /\ Apart(n4, {"old"}) /\ Apart(n5, {"logical"}) /\ Apart(n6, {"closed"})
      /\ Apart(n7, {"call"}) /\ Apart(n8, {"lost"})
  BY DEF Apart
<1>9. /\ Named(S1, n1)
      /\ n2 = n1 \cup {"default"}
      /\ n3 = n2 \cup {"was default"}
      /\ n4 = n3 \cup {"new"}
      /\ n5 = n4 \cup {"old"}
      /\ n6 = n5 \cup {"logical"}
      /\ n7 = n6 \cup {"closed"}
      /\ n8 = n7 \cup {"call"}
  OBVIOUS
<1> HIDE DEF n1, n2, n3, n4, n5, n6, n7, n8
<1>10. Named(T, n2) /\ Cardinality(T) = Cardinality(S1) + Cardinality(S2)
  BY <1>1, <1>8, <1>9, Joins
<1>11. Named(U, n3) /\ Cardinality(U) = Cardinality(T) + Cardinality(S3)
  BY <1>2, <1>8, <1>9, <1>10, Joins
<1>12. Named(V, n4) /\ Cardinality(V) = Cardinality(U) + Cardinality(S4)
  BY <1>3, <1>8, <1>9, <1>11, Joins
<1>13. Named(W, n5) /\ Cardinality(W) = Cardinality(V) + Cardinality(S5)
  BY <1>4, <1>8, <1>9, <1>12, Joins
<1>14. Named(X, n6) /\ Cardinality(X) = Cardinality(W) + Cardinality(S6)
  BY <1>5, <1>8, <1>9, <1>13, Joins
<1>15. Named(Y, n7) /\ Cardinality(Y) = Cardinality(X) + Cardinality(S7)
  BY <1>6, <1>8, <1>9, <1>14, Joins
<1>16. Named(Z, n8) /\ Cardinality(Z) = Cardinality(Y) + Cardinality(S8)
  BY <1>7, <1>8, <1>9, <1>15, Joins
<1>17. Cardinality(Z \cup S9) = Cardinality(Z) + Cardinality(S9)
  BY <1>8, <1>16, Joins
<1>18. S1 \cup S2 \cup S3 \cup S4 \cup S5 \cup S6 \cup S7 \cup S8 \cup S9 = Z \cup S9
  BY <1>1, <1>2, <1>3, <1>4, <1>5, <1>6, <1>7, Zenon
<1>19. Cardinality(Z \cup S9)
         = Cardinality(S1) + Cardinality(S2) + Cardinality(S3) + Cardinality(S4)
           + Cardinality(S5) + Cardinality(S6) + Cardinality(S7) + Cardinality(S8)
           + Cardinality(S9)
  <2> HIDE DEF AllNamed
  <2>1. QED
    BY <1>10, <1>11, <1>12, <1>13, <1>14, <1>15, <1>16, <1>17, Zenon
<1>20. QED
  BY <1>18, <1>19, Zenon

LEMMA TokensCounted ==
  ASSUME Typed, NEW d \in Devices
  PROVE  Cardinality(Tokens(d)) = Shared(d) + Cardinality(logs[d]) + Theirs(d)
<1>1. PICK S1, S2, S3, S4, S5 :
        /\ S1 = Token("connected", Connected(d), d) /\ S2 = Token("default", default = d, d)
        /\ S3 = Token("was default", old = d, d) /\ S4 = Token("new", new = d, d)
        /\ S5 = Token("old", old = d /\ pc[driver] # "def_lock", d)
  OBVIOUS
<1>2. PICK U, D, L : /\ U = {t \in Threads : Uses(t, d)}
                     /\ D = {t \in Threads : Drops(t, d)}
                     /\ L = {t \in Threads : Loses(t, d)}
  OBVIOUS
<1>3. PICK S6, S7, S8, S9 :
        /\ S6 = Tag("logical", logs[d]) /\ S7 = Tag("closed", D)
        /\ S8 = Tag("call", U) /\ S9 = Tag("lost", L)
  OBVIOUS
<1>4. Tokens(d) = S1 \cup S2 \cup S3 \cup S4 \cup S5 \cup S6 \cup S7 \cup S8 \cup S9
  <2>1. {x \in Callers : pc[x] = "close_join" /\ dev[x] = d} = D
    BY <1>2, ThreadsDisjoint DEF Drops
  <2>2. {x \in Threads : pc[x] \in Holding /\ dev[x] = d} = U
    BY <1>2 DEF Uses
  <2>3. {x \in Threads : pc[x] = "unref" /\ dev[x] = d /\ job[x] = "unplug"} = L
    BY <1>2 DEF Loses
  <2>4. QED
    BY <1>1, <1>3, <2>1, <2>2, <2>3 DEF Tokens, Token, Tag, Connected
<1>5. /\ Named(S1, {"connected"}) /\ Cardinality(S1) = B(Connected(d))
      /\ Named(S2, {"default"}) /\ Cardinality(S2) = B(default = d)
      /\ Named(S3, {"was default"}) /\ Cardinality(S3) = B(old = d)
      /\ Named(S4, {"new"}) /\ Cardinality(S4) = B(new = d)
      /\ Named(S5, {"old"}) /\ Cardinality(S5) = B(old = d /\ pc[driver] # "def_lock")
  <2>1. Named(S1, {"connected"}) /\ Cardinality(S1) = B(Connected(d))
    BY <1>1, NoToken, OneToken DEF Token, B
  <2>2. Named(S2, {"default"}) /\ Cardinality(S2) = B(default = d)
    BY <1>1, NoToken, OneToken DEF Token, B
  <2>3. Named(S3, {"was default"}) /\ Cardinality(S3) = B(old = d)
    BY <1>1, NoToken, OneToken DEF Token, B
  <2>4. Named(S4, {"new"}) /\ Cardinality(S4) = B(new = d)
    BY <1>1, NoToken, OneToken DEF Token, B
  <2>5. Named(S5, {"old"}) /\ Cardinality(S5) = B(old = d /\ pc[driver] # "def_lock")
    BY <1>1, NoToken, OneToken DEF Token, B
  <2>6. QED
    BY <2>1, <2>2, <2>3, <2>4, <2>5
<1>6. IsFiniteSet(logs[d]) /\ IsFiniteSet(U) /\ IsFiniteSet(D) /\ IsFiniteSet(L)
  <2>1. U \subseteq Threads /\ D \subseteq Threads /\ L \subseteq Threads
    BY <1>2
  <2>2. QED
    BY <2>1, LogsFinite, Finite, FS_Subset
<1>7. /\ Named(S6, {"logical"}) /\ Cardinality(S6) = Cardinality(logs[d])
      /\ Named(S7, {"closed"}) /\ Cardinality(S7) = Cardinality(D)
      /\ Named(S8, {"call"}) /\ Cardinality(S8) = Cardinality(U)
      /\ Named(S9, {"lost"}) /\ Cardinality(S9) = Cardinality(L)
  BY <1>3, <1>6, Tagged
<1>8. Cardinality(Tokens(d))
        = Cardinality(S1) + Cardinality(S2) + Cardinality(S3) + Cardinality(S4)
          + Cardinality(S5) + Cardinality(S6) + Cardinality(S7) + Cardinality(S8)
          + Cardinality(S9)
  <2>1. Cardinality(S1 \cup S2 \cup S3 \cup S4 \cup S5 \cup S6 \cup S7 \cup S8 \cup S9)
        = Cardinality(S1) + Cardinality(S2) + Cardinality(S3) + Cardinality(S4)
          + Cardinality(S5) + Cardinality(S6) + Cardinality(S7) + Cardinality(S8)
          + Cardinality(S9)
    <3>1. AllNamed(S1, S2, S3, S4, S5, S6, S7, S8, S9)
      BY <1>5, <1>7 DEF AllNamed
    <3>2. QED
      BY <3>1, NineSets
  <2>2. QED
    BY <1>4, <2>1
<1>9. Cardinality(U) \in Nat /\ Cardinality(D) \in Nat /\ Cardinality(L) \in Nat
      /\ Cardinality(logs[d]) \in Nat
  BY <1>6, FS_CardinalityType
<1>10. Theirs(d) = Cardinality(U) + Cardinality(D) + Cardinality(L)
  BY <1>2 DEF Theirs
<1>11. QED
  <2>1. \A p : B(p) \in Nat
    BY DEF B
  <2>2. Shared(d) = Cardinality(S1) + Cardinality(S2) + Cardinality(S4) + Cardinality(S3)
                    + Cardinality(S5)
    BY <1>5 DEF Shared
  <2>3. /\ Cardinality(S1) \in Nat /\ Cardinality(S2) \in Nat /\ Cardinality(S3) \in Nat
        /\ Cardinality(S4) \in Nat /\ Cardinality(S5) \in Nat
    BY <1>5, <2>1
  <2>4. QED
    BY <1>7, <1>8, <1>9, <1>10, <2>2, <2>3

(* RefPhysicalAudioDevice and UnrefPhysicalAudioDevice: through failed     *)
(* opens, migrations and lost devices, the reference count of a device is  *)
(* the number of those who hold a reference to it.                         *)
THEOREM ReferencesBalanced == ASSUME NoRaces PROVE Spec => []RefsAccountFor
<1>1. Places /\ RInv => RefsAccountFor
  <2> SUFFICES ASSUME RInv, NEW d \in Devices, mem[d] = "live"
               PROVE  refs[d] = Cardinality(Tokens(d))
    BY DEF RefsAccountFor
  <2>1. Typed /\ refs[d] = Shared(d) + Cardinality(logs[d]) + Theirs(d)
    BY DEF RInv, Balanced
  <2>2. QED
    BY <2>1, TokensCounted
<1>2. QED
  BY <1>1, RefsInductive, PTL

=============================================================================
