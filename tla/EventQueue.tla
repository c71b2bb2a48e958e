----------------------------- MODULE EventQueue -----------------------------
(***************************************************************************)
(* The event queue of src/src/events/SDL_events.c: any thread pushes, the  *)
(* main thread pumps the devices, polls, waits and discards.               *)
(*                                                                         *)
(* An event is its type.  What a function does under SDL_EventQ.lock is    *)
(* one action; a poll or a wait is several.  The main thread follows the   *)
(* documented pattern, "while (SDL_PollEvent(&event))", to its end.        *)
(***************************************************************************)
EXTENDS Naturals, Sequences, SequencesExt

CONSTANTS
  Pushers,      \* threads that push events
  Types,        \* event types, without the sentinel's
  Sentinel,     \* SDL_EVENT_POLL_SENTINEL
  None,         \* no event
  MaxQueued     \* SDL_MAX_QUEUED_EVENTS

ASSUME QueueAssumption ==
  Sentinel \notin Types /\ None \notin Types \cup {Sentinel} /\ MaxQueued \in Nat \ {0}

VARIABLES
  queue, sentinel_pending, active,
  sentinelEnabled,    \* SDL_EventEnabled(SDL_EVENT_POLL_SENTINEL)
  wakeup_window,      \* whether it is set
  message,            \* a wakeup message waits in the window system's queue
  pc,                 \* of the pushers
  main,               \* the main thread: program counter, call and locals
  polling,            \* the main thread is in a poll loop
  old,                \* history: how many events at the front are older than that loop
  result              \* history: what the last poll or wait returned

queueVars == <<queue, sentinel_pending>>
wakeVars  == <<wakeup_window, message>>
config    == <<active, sentinelEnabled>>
history   == <<old, result>>
vars == <<queueVars, wakeVars, config, pc, main, polling, history>>

AllTypes == Types \cup {Sentinel}
NoCall == [pc |-> "idle", call |-> "none", null |-> FALSE, timed |-> FALSE, found |-> FALSE,
           ret |-> "idle"]

Init ==
  /\ queue = <<>> /\ sentinel_pending = 0 /\ active = FALSE
  /\ sentinelEnabled = TRUE
  /\ wakeup_window = FALSE /\ message = FALSE
  /\ pc = [p \in Pushers |-> "idle"]
  /\ main = NoCall /\ polling = FALSE
  /\ old = 0 /\ result = FALSE

-----------------------------------------------------------------------------
(* Operations on the queue. *)

(* The entries of q of the types in S, in their order.                     *)
Only(q, S) ==
  LET kept[n \in 0..Len(q)] ==
        IF n = 0 THEN <<>> ELSE IF q[n] \in S THEN Append(kept[n - 1], q[n]) ELSE kept[n - 1]
  IN kept[Len(q)]

Events(q) == Only(q, Types)
SentinelsIn(q) == Len(q) - Len(Events(q))

(* SDL_AddEvent, called with the queue locked and active.                  *)
HasRoom == active /\ Len(queue) < MaxQueued

Link_Front(e) == <<e>> \o queue
Link(e) == Append(queue, e)

AddEvent(e) ==
  /\ queue' = Link(e)
  /\ sentinel_pending' = sentinel_pending + (IF e = Sentinel THEN 1 ELSE 0)

TryAddEvent(e) == IF HasRoom THEN AddEvent(e) ELSE UNCHANGED queueVars

(* SDL_CutEvent for the entries of q that are not left in rest.            *)
Pending_Kept(q, rest) == sentinel_pending
Pending(q, rest) == sentinel_pending - (SentinelsIn(q) - SentinelsIn(rest))

Cut(rest) ==
  /\ queue' = rest
  /\ sentinel_pending' = Pending(queue, rest)

(* Where SDL_PeepEventsInternal finds its first event of a type in S, or   *)
(* 0: a sentinel counts only if it is wanted and none is pending after it. *)
Counts(i, include) ==
  \/ queue[i] # Sentinel
  \/ include /\ sentinel_pending <= SentinelsIn(SubSeq(queue, 1, i))

Find(S, include) ==
  LET places == {i \in DOMAIN queue : queue[i] \in S /\ Counts(i, include)}
  IN IF places = {} THEN 0 ELSE Min(places)

(* Removing one event (SDL_GETEVENT) also removes the sentinels passed.    *)
Skipped(S, n) ==
  IF Sentinel \in S THEN Events(SubSeq(queue, 1, n)) ELSE SubSeq(queue, 1, n)
AfterGet(S, include) ==
  LET k == Find(S, include)
  IN IF k = 0 THEN Skipped(S, Len(queue))
     ELSE Skipped(S, k - 1) \o SubSeq(queue, k + 1, Len(queue))
Found(S, include) ==
  LET k == Find(S, include) IN IF k = 0 THEN None ELSE queue[k]

(* With no place to store events it counts them and removes nothing.       *)
AnyEvent(include) == \E i \in DOMAIN queue : Counts(i, include)

(* The events older than the poll loop that are left of the queue.         *)
OldIn(rest) ==
  LET gone == Len(Events(queue)) - Len(Events(rest))
  IN IF old > gone THEN old - gone ELSE 0

-----------------------------------------------------------------------------
(* A thread pushes an event (SDL_PushEvent), and then wakes the main       *)
(* thread if that has asked for it (SDL_SendWakeupEvent).                  *)

Push(p) ==
  /\ pc[p] = "idle"
  /\ \E e \in Types : TryAddEvent(e)
  /\ pc' = [pc EXCEPT ![p] = IF HasRoom THEN "wake" ELSE "idle"]
  /\ UNCHANGED <<wakeVars, config, main, polling, history>>

SendWakeup ==
  /\ message' = (message \/ wakeup_window)
  /\ wakeup_window' = FALSE

Wake(p) ==
  /\ pc[p] = "wake"
  /\ SendWakeup
  /\ pc' = [pc EXCEPT ![p] = "idle"]
  /\ UNCHANGED <<queueVars, config, main, polling, history>>

-----------------------------------------------------------------------------
(* The main thread between calls: it pushes, discards events of some types *)
(* (SDL_FlushEvents, SDL_FilterEvents), takes one out of turn              *)
(* (SDL_PeepEvents) and starts and stops the event loop.                   *)

Idle == main.pc = "idle"

(* It is not waiting, so it wakes nobody.                                  *)
MainPush ==
  /\ Idle /\ HasRoom
  /\ \E e \in Types : AddEvent(e)
  /\ UNCHANGED <<wakeVars, config, pc, main, polling, history>>

Flush ==
  /\ Idle /\ active
  /\ \E S \in SUBSET AllTypes :
       /\ S # {}
       /\ Cut(Only(queue, AllTypes \ S))
       /\ old' = Len(Only(SubSeq(Events(queue), 1, old), AllTypes \ S))
  /\ UNCHANGED <<wakeVars, config, pc, main, polling, result>>

GetOne ==
  /\ Idle /\ active /\ ~polling
  /\ \E S \in SUBSET AllTypes : S # {} /\ Cut(AfterGet(S, FALSE))
  /\ UNCHANGED <<wakeVars, config, pc, main, polling, history>>

(* SDL_PollSentinelChanged: disabling the sentinel also discards it.       *)
SetSentinel ==
  /\ Idle
  /\ sentinelEnabled' = ~sentinelEnabled
  /\ IF sentinelEnabled /\ active THEN Cut(Events(queue)) ELSE UNCHANGED queueVars
  /\ UNCHANGED <<wakeVars, active, pc, main, polling, history>>

StartEventLoop ==
  /\ Idle /\ ~active
  /\ active' = TRUE
  /\ UNCHANGED <<queueVars, wakeVars, sentinelEnabled, pc, main, polling, history>>

StopEventLoop ==
  /\ Idle /\ active /\ ~polling
  /\ active' = FALSE
  /\ queue' = <<>> /\ sentinel_pending' = 0
  /\ sentinelEnabled' = TRUE
  /\ UNCHANGED <<wakeVars, pc, main, polling, history>>

-----------------------------------------------------------------------------
(* SDL_PumpEventsInternal, for the call in hand, and then on to main.ret.  *)

ToPump(ret) == main' = [main EXCEPT !.pc = "pump", !.ret = ret]

BeginPumpEvents ==
  /\ Idle
  /\ main' = [NoCall EXCEPT !.pc = "pump", !.call = "pump"]
  /\ UNCHANGED <<queueVars, wakeVars, config, pc, polling, history>>

(* The devices deliver what they have, and messages of the window system   *)
(* are taken off its queue.                                                *)
PumpDevices ==
  /\ main.pc = "pump"
  /\ message' = FALSE
  /\ \/ \E e \in Types : TryAddEvent(e)
     \/ UNCHANGED queueVars
  /\ main' = IF main.call = "pump" THEN NoCall
             ELSE [main EXCEPT !.pc = IF sentinelEnabled THEN "get_sentinel" ELSE main.ret]
  /\ UNCHANGED <<wakeup_window, config, pc, polling, history>>

(* Make sure there is not already a sentinel, and add one at the end.      *)
GetSentinel ==
  /\ main.pc = "get_sentinel"
  /\ IF sentinel_pending > 0 /\ active
     THEN Cut(AfterGet({Sentinel}, TRUE)) ELSE UNCHANGED queueVars
  /\ main' = [main EXCEPT !.pc = "push_sentinel"]
  /\ UNCHANGED <<wakeVars, config, pc, polling, history>>

PushSentinel ==
  /\ main.pc = "push_sentinel"
  /\ TryAddEvent(Sentinel)
  /\ main' = [main EXCEPT !.pc = main.ret]
  /\ UNCHANGED <<wakeVars, config, pc, polling, history>>

-----------------------------------------------------------------------------
(* SDL_WaitEventTimeoutNS: polls, with a timeout of 0, and waits.          *)

Return(v) ==
  /\ main' = NoCall
  /\ result' = v
  /\ polling' = (v /\ main.call = "poll" /\ ~main.null)

(* If no sentinel is pending, pump and add one.                            *)
BeginCall(call, null, timed) ==
  /\ Idle
  /\ main' = [NoCall EXCEPT !.pc = IF sentinel_pending = 0 THEN "pump" ELSE "first",
                            !.call = call, !.null = null, !.timed = timed, !.ret = "first"]
  /\ UNCHANGED <<queueVars, wakeVars, config, pc, result>>

(* A poll loop begins; the events it finds are old, unless a sentinel that *)
(* an earlier call left will cut it short.                                 *)
BeginPoll ==
  /\ BeginCall("poll", FALSE, FALSE)
  /\ polling' = TRUE
  /\ old' = IF polling THEN old ELSE IF sentinel_pending = 0 THEN Len(Events(queue)) ELSE 0

BeginPollNull ==
  /\ ~polling /\ BeginCall("poll", TRUE, FALSE)
  /\ UNCHANGED <<polling, old>>

BeginWait ==
  /\ ~polling
  /\ \E null, timed \in BOOLEAN : BeginCall("wait", null, timed)
  /\ UNCHANGED <<polling, old>>

(* The event system has been shut down: SDL_FALSE.                         *)
FirstFails ==
  /\ main.pc = "first" /\ ~active
  /\ Return(FALSE)
  /\ UNCHANGED <<queueVars, wakeVars, config, pc, old>>

(* Poll for an event: the sentinel ends the loop.                          *)
PollResult_AnyFound(e) == e # None
PollResult(e) == e \notin {None, Sentinel}

FirstOfPoll ==
  /\ main.pc = "first" /\ active /\ main.call = "poll" /\ ~main.null
  /\ Cut(AfterGet(AllTypes, TRUE))
  /\ old' = OldIn(AfterGet(AllTypes, TRUE))
  /\ Return(PollResult(Found(AllTypes, TRUE)))
  /\ UNCHANGED <<wakeVars, config, pc>>

(* Poll without a place for the event: count, then look whether the next   *)
(* event is the sentinel, and then remove it.                              *)
FirstOfNullPoll ==
  /\ main.pc = "first" /\ active /\ main.call = "poll" /\ main.null
  /\ main' = [main EXCEPT !.pc = "null_peek", !.found = AnyEvent(TRUE)]
  /\ UNCHANGED <<queueVars, wakeVars, config, pc, polling, history>>

NullPeek ==
  /\ main.pc = "null_peek"
  /\ IF Found(AllTypes, TRUE) = Sentinel
     THEN /\ main' = [main EXCEPT !.pc = "null_get"]
          /\ UNCHANGED <<polling, result>>
     ELSE Return(main.found)
  /\ UNCHANGED <<queueVars, wakeVars, config, pc, old>>

NullGet ==
  /\ main.pc = "null_get"
  /\ Cut(AfterGet({Sentinel}, TRUE))
  /\ Return(FALSE)
  /\ UNCHANGED <<wakeVars, config, pc, old>>

(* What SDL_PeepEvents(event, 1, SDL_GETEVENT, ...) finds for a wait, and  *)
(* does to the queue.                                                      *)
WaitFinds == IF main.null THEN AnyEvent(FALSE) ELSE Found(AllTypes, FALSE) # None
WaitTakes_Always == Cut(AfterGet(AllTypes, FALSE))
WaitTakes == IF main.null THEN UNCHANGED queueVars ELSE Cut(AfterGet(AllTypes, FALSE))

(* Otherwise wait on the device, if the video driver can and has a window, *)
(* or keep polling.                                                        *)
FirstOfWait ==
  /\ main.pc = "first" /\ active /\ main.call = "wait"
  /\ WaitTakes
  /\ IF WaitFinds
     THEN Return(TRUE)
     ELSE \E ret \in {"device_peep", "loop_peep"} : ToPump(ret) /\ UNCHANGED <<polling, result>>
  /\ UNCHANGED <<wakeVars, config, pc, old>>

(* The fallback: pump and peep until an event turns up or the time is up.  *)
LoopPeep ==
  /\ main.pc = "loop_peep"
  /\ WaitTakes
  /\ IF WaitFinds
     THEN Return(TRUE)
     ELSE \/ ToPump("loop_peep") /\ UNCHANGED <<polling, result>>
          \/ main.timed /\ Return(FALSE)
  /\ UNCHANGED <<wakeVars, config, pc, old>>

-----------------------------------------------------------------------------
(* SDL_WaitEventTimeout_Device *)

(* Peep once more, under wakeup_lock, and ask to be woken if the queue is  *)
(* empty.                                                                  *)
AskForWakeup_Never == FALSE
AskForWakeup == ~WaitFinds

DevicePeep ==
  /\ main.pc = "device_peep"
  /\ WaitTakes
  /\ wakeup_window' = AskForWakeup
  /\ IF WaitFinds
     THEN Return(TRUE)
     ELSE main' = [main EXCEPT !.pc = "device_wait"] /\ UNCHANGED <<polling, result>>
  /\ UNCHANGED <<message, config, pc, old>>

(* The driver's WaitEventTimeout: a wakeup message or an interruption ends *)
(* it; so does an event of the window system, which it adds to the queue;  *)
(* so do the periodic polls for joysticks.                                 *)
DeviceWoken ==
  /\ main.pc = "device_wait"
  /\ \/ message /\ message' = FALSE
     \/ UNCHANGED message
  /\ wakeup_window' = FALSE
  /\ ToPump("device_peep")
  /\ UNCHANGED <<queueVars, config, pc, polling, history>>

DeviceEvent ==
  /\ main.pc = "device_wait" /\ HasRoom
  /\ \E e \in Types : AddEvent(e)
  /\ SendWakeup
  /\ ToPump("device_peep")
  /\ UNCHANGED <<config, pc, polling, history>>

(* The time is up, before the driver's wait or in it.                      *)
DeviceTimeUp ==
  /\ main.pc = "device_wait" /\ main.timed
  /\ wakeup_window' = FALSE
  /\ Return(FALSE)
  /\ UNCHANGED <<queueVars, message, config, pc, old>>

(* The driver cannot wait: fall back to polling.                           *)
DeviceFails ==
  /\ main.pc = "device_wait"
  /\ wakeup_window' = FALSE
  /\ ToPump("loop_peep")
  /\ UNCHANGED <<queueVars, message, config, pc, polling, history>>

-----------------------------------------------------------------------------
BetweenCalls ==
  \/ MainPush \/ Flush \/ GetOne \/ SetSentinel \/ StartEventLoop \/ StopEventLoop
  \/ BeginPumpEvents \/ BeginPollNull \/ BeginWait

InCall ==
  \/ PumpDevices \/ GetSentinel \/ PushSentinel
  \/ FirstFails \/ FirstOfPoll \/ FirstOfNullPoll \/ NullPeek \/ NullGet
  \/ FirstOfWait \/ LoopPeep \/ DevicePeep

DeviceWakes == message /\ DeviceWoken

Next ==
  \/ \E p \in Pushers : Push(p) \/ Wake(p)
  \/ BetweenCalls \/ BeginPoll \/ InCall
  \/ DeviceWoken \/ DeviceEvent \/ DeviceTimeUp \/ DeviceFails

(* Calls run on, a poll loop goes on polling, a pusher that has queued its *)
(* event sends the wakeup, and the window system delivers it.  Nothing is  *)
(* assumed of timeouts, devices or further pushes.                         *)
Fairness ==
  /\ WF_vars(InCall) /\ SF_vars(polling /\ BeginPoll) /\ WF_vars(DeviceWakes)
  /\ \A p \in Pushers : WF_vars(Wake(p))

Spec == Init /\ [][Next]_vars /\ Fairness

-----------------------------------------------------------------------------
TypeOK ==
  /\ queue \in Seq(AllTypes) /\ Len(queue) <= MaxQueued
  /\ sentinel_pending \in Nat
  /\ active \in BOOLEAN /\ sentinelEnabled \in BOOLEAN
  /\ wakeup_window \in BOOLEAN /\ message \in BOOLEAN
  /\ pc \in [Pushers -> {"idle", "wake"}]
  /\ main \in [pc : {"idle", "pump", "get_sentinel", "push_sentinel", "first", "null_peek",
                     "null_get", "loop_peep", "device_peep", "device_wait"},
               call : {"none", "pump", "poll", "wait"}, null : BOOLEAN, timed : BOOLEAN,
               found : BOOLEAN, ret : {"idle", "first", "loop_peep", "device_peep"}]
  /\ polling \in BOOLEAN /\ result \in BOOLEAN
  /\ old \in 0..MaxQueued

(* The count of pending sentinels, which pollers read without the lock, is *)
(* right after every way an event leaves the queue, and there is never     *)
(* more than one.                                                          *)
SentinelsCounted == sentinel_pending = SentinelsIn(queue) /\ sentinel_pending <= 1

(* The main thread does not sleep on an event: it has been sent a wakeup,  *)
(* or the thread that pushed the event is about to send one and will find  *)
(* the window.                                                             *)
NoLostWakeup ==
  main.pc = "device_wait" /\ Events(queue) # <<>> =>
    message \/ (wakeup_window /\ \E p \in Pushers : pc[p] = "wake")

(* Pollers, who look at the count, and sleepers, who rely on the window,   *)
(* overlook no entry of the queue.                                         *)
NothingOverlooked == SentinelsCounted /\ NoLostWakeup

(* A poll loop that found no sentinel pending ends only when every event   *)
(* queued before it began has been delivered or discarded.                 *)
PollLoopDrains ==
  [][polling /\ ~polling' => old' = 0]_vars

(* Inside a call an event leaves the queue only to be returned, and then   *)
(* the call returns SDL_TRUE and it was the oldest: no handling of the     *)
(* sentinel and no wakeup loses or reorders one.                           *)
EventsAreDelivered ==
  [][InCall =>
       \/ IsPrefix(Events(queue), Events(queue'))
       \/ /\ Events(queue') = Tail(Events(queue))
          /\ ~main.null /\ main'.pc = "idle" /\ result']_vars

(* A poll loop ends although devices and threads go on producing events;   *)
(* unless the queue is full again and again when the sentinel is to be     *)
(* added, or the application disables or discards it again and again.      *)
PollLoopEnds ==
  \/ []<>(main.pc = "push_sentinel" /\ ~HasRoom)
  \/ []<>~sentinelEnabled
  \/ []<><<Flush /\ sentinel_pending' < sentinel_pending>>_vars
  \/ polling ~> ~polling

(* A wait returns once there is an event.                                  *)
WaitReturns ==
  main.call = "wait" /\ Events(queue) # <<>> ~> main.call # "wait"

=============================================================================
