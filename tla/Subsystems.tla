---------------------------- MODULE Subsystems ----------------------------
(***************************************************************************)
(* Initialization and shutdown of src/src/SDL.c, by one thread.  A call is *)
(* a list of things to do, each of which may put others in front: what a   *)
(* subsystem implies is initialized before it, and some subsystems         *)
(* initialize the events for themselves as well.                           *)
(***************************************************************************)
EXTENDS Integers, Sequences, FiniteSets, FiniteSetsExt

CONSTANTS
  Failing,        \* subsystems whose own initialization may fail
  MaxFlags,       \* bound: subsystems in a call
  MaxUses         \* bound: references the application holds, below 255

Subsystems ==
  {"timer", "audio", "video", "joystick", "haptic", "gamepad", "events", "sensor"}

ASSUME SubsystemsAssumption ==
  /\ MaxFlags \in Nat /\ MaxUses \in Nat /\ MaxUses < 255 - 16
  /\ Failing \subseteq Subsystems

(* "video implies events"                                                  *)
Implied(s) ==
  IF s \in {"video", "audio", "joystick"} THEN <<"events">>
  ELSE IF s = "gamepad" THEN <<"joystick">>
  ELSE <<>>

(* SDL_VideoInit, SDL_InitJoysticks and SDL_InitSensors take a reference   *)
(* to the events, which their counterparts drop.                           *)
Takes(s) == IF s \in {"video", "joystick", "sensor"} THEN <<"events">> ELSE <<>>

VARIABLES
  SDL_SubsystemRefCount,
  SDL_bInMainQuit,
  up,             \* the subsystems that run
  todo,           \* the rest of the call
  flags_initialized,
  \* history
  uses,           \* references the application has got and not given back
  asked,          \* flags of the call
  former          \* the counts as the call began

subVars == <<SDL_SubsystemRefCount, SDL_bInMainQuit, up, todo, flags_initialized,
          uses, asked, former>>

None == [s \in Subsystems |-> 0]
Ref(s) == SDL_SubsystemRefCount[s]

SubInit ==
  /\ SDL_SubsystemRefCount = None /\ SDL_bInMainQuit = FALSE
  /\ up = {} /\ todo = <<>> /\ flags_initialized = {}
  /\ uses = None /\ asked = {} /\ former = None

-----------------------------------------------------------------------------
(* What there is to do: op to subsystem s.                                 *)
Do(op, list) == [i \in DOMAIN list |-> [op |-> op, s |-> list[i]]]
ToDo(op, s) == Do(op, <<s>>)
End(op) == <<[op |-> op, s |-> "events"]>>

Next_is(op) == todo # <<>> /\ Head(todo).op = op
This == Head(todo).s
Continue(before) == todo' = before \o Tail(todo)

(* Of the flags, in the order of the code, before what comes after.        *)
InitFlag(flags, s, after) ==
  IF s \in flags THEN ToDo("init", s) \o (ToDo("mark", s) \o after) ELSE after
Inits(flags, after) ==
  LET I(s, list) == InitFlag(flags, s, list)
  IN  I("events", I("timer", I("video", I("audio",
        I("joystick", I("gamepad", I("haptic", I("sensor", after))))))))

QuitFlag(flags, s, after) == IF s \in flags THEN ToDo("quit", s) \o after ELSE after
Quits(flags, after) ==
  LET Q(s, list) == QuitFlag(flags, s, list)
  IN  Q("sensor", Q("gamepad", Q("joystick", Q("haptic",
        Q("audio", Q("video", Q("timer", Q("events", after))))))))

-----------------------------------------------------------------------------
(* The calls.  The application gives back only what it has got.            *)
SDL_InitSubSystem(flags) ==
  /\ todo = <<>>
  /\ MapThenSumSet(LAMBDA s : uses[s], Subsystems) + Cardinality(flags) <= MaxUses
  /\ todo' = Inits(flags, End("return"))
  /\ flags_initialized' = {}
  /\ asked' = flags /\ former' = SDL_SubsystemRefCount
  /\ UNCHANGED <<SDL_SubsystemRefCount, SDL_bInMainQuit, up, uses>>

SDL_QuitSubSystem(flags) ==
  /\ todo = <<>>
  /\ \A s \in flags : uses[s] > 0
  /\ todo' = Quits(flags, <<>>)
  /\ uses' = [s \in Subsystems |-> IF s \in flags THEN uses[s] - 1 ELSE uses[s]]
  /\ UNCHANGED <<SDL_SubsystemRefCount, SDL_bInMainQuit, up, flags_initialized, asked, former>>

SDL_Quit ==
  /\ todo = <<>>
  /\ SDL_bInMainQuit' = TRUE
  /\ todo' = Quits(Subsystems, End("reset"))
  /\ uses' = None
  /\ UNCHANGED <<SDL_SubsystemRefCount, up, flags_initialized, asked, former>>

-----------------------------------------------------------------------------
(* A subsystem that is there gets a reference more; one that is not is     *)
(* started after what it implies.                                          *)
IncrementSubsystemRefCount(s) ==
  SDL_SubsystemRefCount' = [SDL_SubsystemRefCount EXCEPT ![s] = @ + 1]

ShouldInit(s) == Ref(s) = 0

InitOrIncrement ==
  /\ Next_is("init")
  /\ IF ShouldInit(This)
     THEN /\ Continue(Do("init", Implied(This)) \o ToDo("begin", This))
          /\ UNCHANGED SDL_SubsystemRefCount
     ELSE Continue(<<>>) /\ IncrementSubsystemRefCount(This)
  /\ UNCHANGED <<SDL_bInMainQuit, up, flags_initialized, uses, asked, former>>

Begin ==
  /\ Next_is("begin")
  /\ IncrementSubsystemRefCount(This)
  /\ Continue(Do("init", Takes(This)) \o ToDo("open", This))
  /\ UNCHANGED <<SDL_bInMainQuit, up, flags_initialized, uses, asked, former>>

Open ==
  /\ Next_is("open")
  /\ up' = up \cup {This}
  /\ Continue(<<>>)
  /\ UNCHANGED <<SDL_SubsystemRefCount, SDL_bInMainQuit, flags_initialized, uses, asked, former>>

(* What has been taken is dropped, but for the reference to what the       *)
(* subsystem implies.                                                      *)
Dropped_Nothing(s) == <<>>
Dropped(s) == Takes(s)

OpenFails ==
  /\ Next_is("open") /\ This \in Failing
  /\ Continue(Do("quit", Dropped(This)) \o (ToDo("dec", This) \o ToDo("unwind", This)))
  /\ UNCHANGED <<SDL_SubsystemRefCount, SDL_bInMainQuit, up, flags_initialized, uses, asked, former>>

(* What wanted the subsystem fails in its turn: a subsystem that has not   *)
(* begun is left alone, one that has is decremented, and the call of       *)
(* SDL_InitSubSystem quits what it has initialized (quit_and_error).       *)
Unwind ==
  /\ Next_is("unwind") /\ Tail(todo) # <<>>
  /\ LET d == todo[2]
         after == Tail(Tail(todo))
     IN  todo' = IF d.op = "begin" THEN ToDo("unwind", d.s) \o after
                 ELSE IF d.op = "open" THEN ToDo("dec", d.s) \o (ToDo("unwind", d.s) \o after)
                 ELSE Quits(flags_initialized, End("fail"))
  /\ UNCHANGED <<SDL_SubsystemRefCount, SDL_bInMainQuit, up, flags_initialized, uses, asked, former>>

Mark ==
  /\ Next_is("mark")
  /\ flags_initialized' = flags_initialized \cup {This}
  /\ Continue(<<>>)
  /\ UNCHANGED <<SDL_SubsystemRefCount, SDL_bInMainQuit, up, uses, asked, former>>

Return ==
  /\ Next_is("return")
  /\ uses' = [s \in Subsystems |-> IF s \in asked THEN uses[s] + 1 ELSE uses[s]]
  /\ Continue(<<>>)
  /\ UNCHANGED <<SDL_SubsystemRefCount, SDL_bInMainQuit, up, flags_initialized, asked, former>>

Fail ==
  /\ Next_is("fail")
  /\ Continue(<<>>)
  /\ UNCHANGED <<SDL_SubsystemRefCount, SDL_bInMainQuit, up, flags_initialized, uses, asked, former>>

(* SDL_QuitSubSystem for one subsystem: the last reference, or SDL_Quit,   *)
(* shuts it down.                                                          *)
ShouldQuit(s) == Ref(s) = 1 \/ (Ref(s) > 0 /\ SDL_bInMainQuit)

(* SDL_VideoQuit does nothing the second time, the others do.              *)
DroppedByQuit_Implied(s) == Implied(s)
DroppedByQuit(s) == (IF s = "video" /\ s \notin up THEN <<>> ELSE Takes(s)) \o Implied(s)

QuitOne ==
  /\ Next_is("quit")
  /\ IF ShouldQuit(This)
     THEN /\ up' = up \ {This}
          /\ Continue(Do("quit", DroppedByQuit(This)) \o ToDo("dec", This))
     ELSE Continue(ToDo("dec", This)) /\ UNCHANGED up
  /\ UNCHANGED <<SDL_SubsystemRefCount, SDL_bInMainQuit, flags_initialized, uses, asked, former>>

Decrement ==
  /\ Next_is("dec")
  /\ SDL_SubsystemRefCount' =
       [SDL_SubsystemRefCount EXCEPT ![This] = IF @ > 0 THEN @ - 1 ELSE 0]
  /\ Continue(<<>>)
  /\ UNCHANGED <<SDL_bInMainQuit, up, flags_initialized, uses, asked, former>>

Reset ==
  /\ Next_is("reset")
  /\ SDL_SubsystemRefCount' = None
  /\ SDL_bInMainQuit' = FALSE
  /\ Continue(<<>>)
  /\ UNCHANGED <<up, flags_initialized, uses, asked, former>>

-----------------------------------------------------------------------------
Flags == {F \in SUBSET Subsystems : F # {} /\ Cardinality(F) <= MaxFlags}
SubNext ==
  \/ \E flags \in Flags : SDL_InitSubSystem(flags) \/ SDL_QuitSubSystem(flags)
  \/ SDL_Quit
  \/ InitOrIncrement \/ Begin \/ Open \/ OpenFails \/ Unwind \/ Mark \/ Return \/ Fail
  \/ QuitOne \/ Decrement \/ Reset

SubSpec == SubInit /\ [][SubNext]_subVars

-----------------------------------------------------------------------------
SubTypeOK ==
  /\ SDL_SubsystemRefCount \in [Subsystems -> 0 .. 255]
  /\ SDL_bInMainQuit \in BOOLEAN
  /\ up \subseteq Subsystems /\ flags_initialized \subseteq Subsystems
  /\ uses \in [Subsystems -> Nat] /\ former \in [Subsystems -> 0 .. 255]
  /\ asked \subseteq Subsystems

AtRest == todo = <<>>

(* The references to s that running subsystems hold, for what they imply   *)
(* and for themselves.                                                     *)
HeldBy(running, s) ==
  Cardinality({u \in running : Implied(u) = <<s>>}) + Cardinality({u \in running : Takes(u) = <<s>>})

(* Between calls each count is what the application and the subsystems     *)
(* that run account for, and what runs is what is counted; and none is     *)
(* started that runs.                                                      *)
Balanced ==
  /\ AtRest => \A s \in Subsystems :
       /\ Ref(s) = uses[s] + HeldBy(up, s)
       /\ s \in up <=> Ref(s) > 0
  /\ Next_is("open") => This \notin up

(* A call that fails leaves the counts as they were.                       *)
FailureRestores == Next_is("fail") => SDL_SubsystemRefCount = former

(* "Video implies events", "audio implies events": a subsystem is not shut *)
(* down under one that runs and needs it.                                  *)
UsersStopFirst ==
  Next_is("quit") /\ This \in up /\ ShouldQuit(This) =>
    HeldBy(up, This) = 0

(* "You must call SDL_QuitSubSystem() for each SDL_InitSubSystem() to      *)
(* correctly shutdown a subsystem": if that has been done, all are down.   *)
NothingLeft == AtRest /\ uses = None => up = {}

=============================================================================
