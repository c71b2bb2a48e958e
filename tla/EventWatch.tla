----------------------------- MODULE EventWatch -----------------------------
(***************************************************************************)
(* Event filter and event watchers (SDL_PushEvent, SDL_AddEventWatch and   *)
(* SDL_DelEventWatch of src/src/events/SDL_events.c): a callback may add   *)
(* and remove watchers, and push events, while the watchers are dispatched.*)
(*                                                                         *)
(* SDL_event_watchers_lock is recursive and held all through a dispatch,   *)
(* so one thread at a time is in it: between dispatches any thread may     *)
(* call, within one only the callbacks.  The array keeps the slots that    *)
(* are past the count until it is reallocated.                             *)
(***************************************************************************)
EXTENDS Naturals, Sequences, SequencesExt

CONSTANTS
  Watchers,    \* pairs of callback and userdata
  MaxDepth,    \* bound: events pushed from inside of each other's callbacks
  Uses         \* what callbacks do: remove watchers, push events

ASSUME WatchAssumption ==
  MaxDepth \in Nat /\ Uses \subseteq [remove : BOOLEAN, nest : BOOLEAN]

VARIABLES
  use,
  watchers,      \* SDL_event_watchers, as long as it is allocated
  count,         \* SDL_event_watchers_count
  dispatching, removed,   \* SDL_event_watchers_dispatching, _removed
  filter,        \* whether SDL_EventOK has a callback
  stack,         \* the SDL_PushEvent calls under way, innermost last
  live           \* history: the watchers added and not removed since

watchVars == <<use, watchers, count, dispatching, removed, filter, stack, live>>

WatchInit ==
  /\ use \in Uses
  /\ watchers = <<>> /\ count = 0
  /\ dispatching = FALSE /\ removed = FALSE
  /\ filter = FALSE
  /\ stack = <<>>
  /\ live = {}

Top == stack[Len(stack)]
SetTop(frame) == stack' = [stack EXCEPT ![Len(stack)] = frame]
InPhase(phase) == stack # <<>> /\ Top.phase = phase

(* Some thread may call: none is in a dispatch, or a callback runs.        *)
InCallback == InPhase("filter") \/ InPhase("callback")
MayCall == stack = <<>> \/ InCallback

-----------------------------------------------------------------------------
(* SDL_memmove the later slots over slot i; the last one keeps its content.*)
RemoveSlot(a, i) ==
  [slots |-> [j \in DOMAIN a.slots |-> IF j \in i..a.count - 1 THEN a.slots[j + 1] ELSE a.slots[j]],
   count |-> a.count - 1]

AddEventWatch(w) ==
  /\ MayCall
  /\ \A i \in DOMAIN watchers : i <= count => watchers[i].w # w
  /\ watchers' = Append(SubSeq(watchers, 1, count), [w |-> w, removed |-> FALSE])
  /\ count' = count + 1
  /\ live' = live \cup {w}
  /\ UNCHANGED <<use, dispatching, removed, filter, stack>>

(* While watchers are dispatched the slot is only marked.                  *)
Deferred_Never == FALSE
Deferred == dispatching

DelEventWatch(w) ==
  /\ MayCall /\ (stack = <<>> \/ use.remove)
  /\ \E i \in 1..count :
       /\ watchers[i].w = w /\ \A j \in 1..i - 1 : watchers[j].w # w
       /\ IF Deferred
          THEN /\ watchers' = [watchers EXCEPT ![i].removed = TRUE]
               /\ removed' = TRUE
               /\ UNCHANGED count
          ELSE LET a == RemoveSlot([slots |-> watchers, count |-> count], i)
               IN watchers' = a.slots /\ count' = a.count /\ UNCHANGED removed
  /\ live' = live \ {w}
  /\ UNCHANGED <<use, dispatching, filter, stack>>

SetEventFilter ==
  /\ MayCall
  /\ filter' = ~filter
  /\ UNCHANGED <<use, watchers, count, dispatching, removed, stack, live>>

(* SDL_StopEventLoop frees the array and forgets the filter.               *)
ForgetWatchers ==
  /\ stack = <<>>
  /\ watchers' = <<>> /\ count' = 0 /\ filter' = FALSE
  /\ live' = {}
  /\ UNCHANGED <<use, dispatching, removed, stack>>

-----------------------------------------------------------------------------
(* SDL_PushEvent *)

PushEvent ==
  /\ MayCall /\ Len(stack) < MaxDepth /\ (stack = <<>> \/ use.nest)
  /\ filter \/ count > 0
  /\ stack' = Append(stack, [phase  |-> IF filter THEN "filter" ELSE "begin",
                             i |-> 0, n |-> 0, expect |-> {}, called |-> {}])
  /\ UNCHANGED <<use, watchers, count, dispatching, removed, filter, live>>

(* The filter drops the event, and that is all, or accepts it.             *)
FilterReturns ==
  /\ InPhase("filter")
  /\ \/ stack' = Front(stack)
     \/ SetTop([Top EXCEPT !.phase = "begin"])
  /\ UNCHANGED <<use, watchers, count, dispatching, removed, filter, live>>

(* Dispatch the current watcher list.                                      *)
BeginDispatch ==
  /\ InPhase("begin")
  /\ IF count > 0
     THEN /\ dispatching' = TRUE
          /\ SetTop([Top EXCEPT !.phase = "loop", !.i = 1, !.n = count, !.expect = live])
     ELSE /\ stack' = Front(stack)
          /\ UNCHANGED dispatching
  /\ UNCHANGED <<use, watchers, count, removed, filter, live>>

InLoop == InPhase("loop") /\ Top.i <= Top.n

Skip_Never(slot) == FALSE
Skip(slot) == slot.removed

SkipRemoved ==
  /\ InLoop /\ Top.i \in DOMAIN watchers /\ Skip(watchers[Top.i])
  /\ SetTop([Top EXCEPT !.i = @ + 1])
  /\ UNCHANGED <<use, watchers, count, dispatching, removed, filter, live>>

CallWatcher ==
  /\ InLoop /\ Top.i \in DOMAIN watchers /\ ~Skip(watchers[Top.i])
  /\ SetTop([Top EXCEPT !.phase = "callback", !.called = @ \cup {watchers[Top.i].w}])
  /\ UNCHANGED <<use, watchers, count, dispatching, removed, filter, live>>

CallbackReturns ==
  /\ InPhase("callback")
  /\ SetTop([Top EXCEPT !.phase = "loop", !.i = @ + 1])
  /\ UNCHANGED <<use, watchers, count, dispatching, removed, filter, live>>

(* Take the marked slots out, from the last to the first.                  *)
CompactSlot(a, i) == IF a.slots[i].removed THEN RemoveSlot(a, i) ELSE a
Compacted_Forward ==
  FoldLeft(CompactSlot, [slots |-> watchers, count |-> count], [k \in 1..count |-> k])
Compacted ==
  FoldLeft(CompactSlot, [slots |-> watchers, count |-> count],
           [k \in 1..count |-> count + 1 - k])

EndDispatch ==
  /\ InPhase("loop") /\ Top.i > Top.n
  /\ dispatching' = FALSE
  /\ IF removed
     THEN watchers' = Compacted.slots /\ count' = Compacted.count
     ELSE UNCHANGED <<watchers, count>>
  /\ removed' = FALSE
  /\ stack' = Front(stack)
  /\ UNCHANGED <<use, filter, live>>

-----------------------------------------------------------------------------
WatchNext ==
  \/ \E w \in Watchers : AddEventWatch(w) \/ DelEventWatch(w)
  \/ SetEventFilter \/ ForgetWatchers
  \/ PushEvent \/ FilterReturns \/ BeginDispatch \/ SkipRemoved \/ CallWatcher
  \/ CallbackReturns \/ EndDispatch

WatchSpec == WatchInit /\ [][WatchNext]_watchVars

-----------------------------------------------------------------------------
WatchTypeOK ==
  /\ use \in Uses
  /\ watchers \in Seq([w : Watchers, removed : BOOLEAN])
  /\ count \in 0..Len(watchers)
  /\ dispatching \in BOOLEAN /\ removed \in BOOLEAN /\ filter \in BOOLEAN
  /\ Len(stack) <= MaxDepth
  /\ \A d \in DOMAIN stack :
       stack[d] \in [phase : {"filter", "begin", "loop", "callback"}, i : Nat, n : Nat,
                     expect : SUBSET Watchers, called : SUBSET Watchers]
  /\ live \subseteq Watchers

(* The array holds each watcher that was added and not removed, once; a    *)
(* slot is marked only while a dispatch will still compact it, and no      *)
(* dispatch reads a slot that is not allocated.                            *)
ArrayHoldsLive ==
  /\ live = {watchers[i].w : i \in {j \in 1..count : ~watchers[j].removed}}
  /\ \A i, j \in 1..count : watchers[i].w = watchers[j].w => i = j
  /\ \A i \in 1..count : watchers[i].removed => removed /\ dispatching
  /\ \A d \in DOMAIN stack : stack[d].phase = "loop" => stack[d].n <= Len(watchers)

(* A watcher is called only while it is registered, for an event pushed    *)
(* after it was added, and once.                                           *)
CallsCurrentWatchers ==
  [][CallWatcher => LET w == watchers[Top.i].w
                    IN w \in live /\ w \in Top.expect /\ w \notin Top.called]_watchVars

(* Every watcher that was registered when the event was pushed, and still  *)
(* is when the dispatch ends, has been called.                             *)
CallsEveryWatcher ==
  [][EndDispatch => Top.expect \cap live \subseteq Top.called]_watchVars

-----------------------------------------------------------------------------
(* SDL_events.h: SDL_DelEventWatch removes the callback, so it is not      *)
(* called again.  A nested SDL_PushEvent ends by clearing "dispatching"    *)
(* and compacting the array under the loop of the outer one.               *)
RemovedNotCalled ==
  [][CallWatcher => watchers[Top.i].w \in live]_watchVars

=============================================================================
