---------------------------- MODULE Properties ----------------------------
(***************************************************************************)
(* Groups of properties, src/src/SDL_properties.c, used by several         *)
(* threads.  One lock guards the table of groups and one each group; both  *)
(* are recursive.  A group has one name in the model, and every value has  *)
(* a cleanup function, which may call back.  A thread's calls are a stack. *)
(*                                                                         *)
(* The application keeps to the documentation: no group is destroyed while *)
(* it is locked or used, and who has locked a group uses only that one.    *)
(***************************************************************************)
EXTENDS Integers, Sequences, FiniteSets, FiniteSetsExt, SequencesExt

CONSTANTS
  Threads,
  NIDs,           \* IDs are 0 .. NIDs - 1, 32 bits in the code
  MaxObjects,     \* bound: groups created
  MaxValues,      \* bound: values set
  CleanupCalls,   \* what a cleanup function may call, out of set, get, destroy
  QuitCalls,      \* ... when SDL_Quit runs it
  ReachesAny      \* it sets and gets in any group, not only in its own

ASSUME PropertiesAssumption ==
  /\ NIDs \in Nat /\ NIDs > 1 /\ MaxObjects \in Nat /\ MaxObjects > 0 /\ MaxValues \in Nat
  /\ CleanupCalls \subseteq {"set", "get", "destroy"} /\ QuitCalls \subseteq {"set", "get"}
  /\ ReachesAny \in BOOLEAN

Objects == 1 .. MaxObjects
Values == 1 .. MaxValues
IDs == 1 .. NIDs - 1

VARIABLES
  SDL_properties,         \* the table: IDs to groups
  SDL_properties_lock,
  SDL_last_properties_id,
  props,                  \* value of each group's one name, 0 for none
  lock,                   \* the groups' locks
  stack,                  \* calls of each thread, the innermost first
  \* history
  made, freed,            \* groups made so far, and those freed again
  idOf,                   \* ID that was returned for a group
  held,                   \* group a thread has locked with SDL_LockProperties
  given, accepted,        \* values passed to a set, and those it has kept
  cleaned,                \* how often each value was cleaned up
  quitting

table == <<SDL_properties, SDL_properties_lock, SDL_last_properties_id, made, idOf>>
values == <<given, accepted, cleaned>>
vars == <<table, props, lock, stack, freed, held, values, quitting>>

Free == [owner |-> {}, depth |-> 0]
CanTake(l, t) == l.owner \subseteq {t}
Taken(l, t) == [owner |-> {t}, depth |-> l.depth + 1]
Released(l) == IF l.depth <= 1 THEN Free ELSE [l EXCEPT !.depth = @ - 1]

Global == 1     \* SDL_global_properties, made by SDL_InitSubSystem

Init ==
  /\ SDL_properties = [i \in {1} |-> Global] /\ SDL_properties_lock = Free
  /\ SDL_last_properties_id = 1
  /\ props = [o \in Objects |-> 0] /\ lock = [o \in Objects |-> Free]
  /\ stack = [t \in Threads |-> <<>>]
  /\ made = 1 /\ freed = {} /\ idOf = [o \in {Global} |-> 1]
  /\ held = [t \in Threads |-> 0]
  /\ given = 0 /\ accepted = {} /\ cleaned = [v \in Values |-> 0]
  /\ quitting = FALSE

-----------------------------------------------------------------------------
(* The stack of calls.                                                     *)
In(t, at) == stack[t] # <<>> /\ Head(stack[t]).at = at
Top(t) == Head(stack[t])
GoOn(t, at) == stack' = [stack EXCEPT ![t] = <<[Top(t) EXCEPT !.at = at]>> \o Tail(@)]
GoWith(t, at, o) ==
  stack' = [stack EXCEPT ![t] = <<[Top(t) EXCEPT !.at = at, !.obj = o]>> \o Tail(@)]
Return(t) == stack' = [stack EXCEPT ![t] = Tail(@)]
Callback(o, calls) == [op |-> "callback", at |-> "callback", id |-> 0, obj |-> o, v |-> 0,
                       calls |-> calls]
GoAndCall(t, at, calls) ==
  stack' = [stack EXCEPT ![t] =
              <<Callback(Top(t).obj, calls), [Top(t) EXCEPT !.at = at]>> \o Tail(@)]

Uses(t, id) == \E i \in DOMAIN stack[t] : stack[t][i].id = id
Destroys(t, id) == \E i \in DOMAIN stack[t] : stack[t][i].id = id /\ stack[t][i].op = "destroy"

(* Calls by the application, from the outside or from a callback.          *)
Reaches(t, id) ==
  \/ stack[t] = <<>> /\ held[t] \in {0} \cup {o \in Objects : o \in DOMAIN idOf /\ idOf[o] = id}
  \/ stack[t] # <<>> /\ (ReachesAny \/ (Top(t).obj \in DOMAIN idOf /\ idOf[Top(t).obj] = id))

MayCall(t, op) ==
  \/ stack[t] = <<>> /\ ~quitting
  \/ In(t, "callback") /\ op \in Top(t).calls

MayUse(id) == \A u \in Threads : ~Destroys(u, id)
MayDestroy(id) ==
  /\ id \in DOMAIN SDL_properties /\ SDL_properties[id] # Global
  /\ lock[SDL_properties[id]] = Free
  /\ \A u \in Threads : ~Uses(u, id)

Call(t, op, id, at, v) ==
  stack' = [stack EXCEPT ![t] =
    <<[op |-> op, at |-> at, id |-> id, obj |-> 0, v |-> v, calls |-> {}]>> \o
    (IF @ = <<>> THEN @ ELSE <<[Head(@) EXCEPT !.calls = {}]>> \o Tail(@))]

CallSet(t, id) ==
  /\ MayCall(t, "set") /\ Reaches(t, id) /\ (MayUse(id) \/ Destroys(t, id))
  /\ \/ given < MaxValues /\ given' = given + 1 /\ Call(t, "set", id, "find", given + 1)
     \/ UNCHANGED given /\ Call(t, "set", id, "find", 0)           \* SDL_ClearProperty
  /\ UNCHANGED <<table, props, lock, freed, held, accepted, cleaned, quitting>>

CallReader(t, op, id) ==
  /\ MayCall(t, op) /\ Reaches(t, id) /\ (MayUse(id) \/ Destroys(t, id))
  /\ op \in {"lock", "enumerate"} => held[t] = 0
  /\ Call(t, op, id, "find", 0)
  /\ UNCHANGED <<table, props, lock, freed, held, values, quitting>>

CallUnlock(t) ==
  /\ stack[t] = <<>> /\ held[t] # 0
  /\ Call(t, "unlock", idOf[held[t]], "find", 0)
  /\ UNCHANGED <<table, props, lock, freed, held, values, quitting>>

CallDestroy(t, id) ==
  /\ MayCall(t, "destroy") /\ MayDestroy(id) /\ (stack[t] = <<>> => held[t] = 0)
  /\ Call(t, "destroy", id, "remove", 0)
  /\ UNCHANGED <<table, props, lock, freed, held, values, quitting>>

CallbackReturns(t) ==
  /\ In(t, "callback") /\ Return(t)
  /\ UNCHANGED <<table, props, lock, freed, held, values, quitting>>

-----------------------------------------------------------------------------
(* An ID that is in use after the counter has wrapped makes it fail.       *)
NextID == IF SDL_last_properties_id + 1 < NIDs THEN SDL_last_properties_id + 1 ELSE 1

With(f, x, y) == [z \in DOMAIN f \cup {x} |-> IF z = x THEN y ELSE f[z]]

CanInsert_Stackable(id) == TRUE
CanInsert(id) == id \notin DOMAIN SDL_properties

SDL_CreateProperties(t) ==
  /\ stack[t] = <<>> /\ held[t] = 0 /\ ~quitting /\ made < MaxObjects
  /\ CanTake(SDL_properties_lock, t)
  /\ made' = made + 1
  /\ SDL_last_properties_id' = NextID
  /\ IF CanInsert(NextID)
     THEN /\ SDL_properties' = With(SDL_properties, NextID, made')
          /\ idOf' = With(idOf, made', NextID)
          /\ UNCHANGED freed
     ELSE freed' = freed \cup {made'} /\ UNCHANGED <<SDL_properties, idOf>>
  /\ UNCHANGED <<SDL_properties_lock, props, lock, stack, held, values, quitting>>

-----------------------------------------------------------------------------
(* The group is looked up with the table locked.  Its own lock is taken    *)
(* afterwards.                                                             *)
UnlocksTableFirst_Not == FALSE
UnlocksTableFirst == TRUE

Find(t) ==
  /\ In(t, "find")
  /\ CanTake(SDL_properties_lock, t)
  /\ IF Top(t).id \in DOMAIN SDL_properties
     THEN /\ GoWith(t, IF Top(t).op = "unlock" THEN "unlock" ELSE "lock", SDL_properties[Top(t).id])
          /\ SDL_properties_lock' =
               IF UnlocksTableFirst \/ Top(t).op = "unlock" THEN SDL_properties_lock
               ELSE Taken(SDL_properties_lock, t)
     ELSE Return(t) /\ UNCHANGED SDL_properties_lock
  /\ UNCHANGED <<SDL_properties, SDL_last_properties_id, made, idOf,
                 props, lock, freed, held, values, quitting>>

(* SDL_LockMutex(properties->lock)                                         *)
Waits_Not(t, o) == TRUE
Waits(t, o) == CanTake(lock[o], t)

Acquire(t) ==
  /\ In(t, "lock")
  /\ LET o == Top(t).obj IN
     /\ Waits(t, o)
     /\ SDL_properties_lock' =
          IF UnlocksTableFirst THEN SDL_properties_lock ELSE Released(SDL_properties_lock)
     /\ CASE Top(t).op = "lock" ->
               /\ lock' = [lock EXCEPT ![o] = Taken(@, t)]
               /\ held' = [held EXCEPT ![t] = o] /\ Return(t)
          [] Top(t).op = "get" -> Return(t) /\ UNCHANGED <<lock, held>>
          [] OTHER ->
               /\ lock' = [lock EXCEPT ![o] = Taken(@, t)]
               /\ GoOn(t, IF Top(t).op = "set" THEN "change" ELSE "iterate") /\ UNCHANGED held
  /\ UNCHANGED <<SDL_properties, SDL_last_properties_id, made, idOf, props, freed, values, quitting>>

SDL_UnlockProperties(t) ==
  /\ In(t, "unlock")
  /\ lock' = [lock EXCEPT ![Top(t).obj] = Released(@)]
  /\ held' = [held EXCEPT ![t] = 0]
  /\ Return(t)
  /\ UNCHANGED <<table, props, freed, values, quitting>>

(* SDL_PrivateSetProperty: what was there goes, with its cleanup, before   *)
(* the new value comes, unless the cleanup has set the name again.         *)
CleanupMay == IF quitting THEN QuitCalls ELSE CleanupCalls

RemoveOld(t) ==
  /\ In(t, "change")
  /\ LET old == props[Top(t).obj] IN
     IF old = 0 THEN GoOn(t, "insert") /\ UNCHANGED <<props, cleaned>>
     ELSE /\ props' = [props EXCEPT ![Top(t).obj] = 0]
          /\ cleaned' = [cleaned EXCEPT ![old] = @ + 1]
          /\ GoAndCall(t, "insert", CleanupMay)
  /\ UNCHANGED <<table, lock, freed, held, given, accepted, quitting>>

CanInsertProperty_Anyway(o) == TRUE
CanInsertProperty(o) == props[o] = 0

InsertNew(t) ==
  /\ In(t, "insert")
  /\ LET o == Top(t).obj  v == Top(t).v IN
     /\ IF v # 0 /\ CanInsertProperty(o)
        THEN props' = [props EXCEPT ![o] = v] /\ accepted' = accepted \cup {v}
        ELSE UNCHANGED <<props, accepted>>
     /\ lock' = [lock EXCEPT ![o] = Released(@)]
  /\ Return(t)
  /\ UNCHANGED <<table, freed, held, given, cleaned, quitting>>

(* SDL_EnumerateProperties calls back with the group locked, and goes on   *)
(* from the item it has shown.                                             *)
LockDuringCallback_None(o) == Free
LockDuringCallback(o) == lock[o]

Iterate(t) ==
  /\ In(t, "iterate")
  /\ LET item == props[Top(t).obj] IN
     IF item = 0 THEN GoOn(t, "enumerated")
     ELSE stack' = [stack EXCEPT ![t] = <<Callback(Top(t).obj, {"get"}),
            [Top(t) EXCEPT !.at = "enumerated", !.v = item]>> \o Tail(@)]
  /\ lock' = [lock EXCEPT ![Top(t).obj] = LockDuringCallback(Top(t).obj)]
  /\ UNCHANGED <<table, props, freed, held, values, quitting>>

EndEnumerate(t) ==
  /\ In(t, "enumerated")
  /\ lock' = [lock EXCEPT ![Top(t).obj] = Released(@)]
  /\ Return(t)
  /\ UNCHANGED <<table, props, freed, held, values, quitting>>

-----------------------------------------------------------------------------
(* SDL_DestroyProperties has the table locked all the time.                *)
TableWithout(id) == [i \in DOMAIN SDL_properties \ {id} |-> SDL_properties[i]]

RemoveGroup(t) ==
  /\ In(t, "remove")
  /\ CanTake(SDL_properties_lock, t)
  /\ SDL_properties_lock' = Taken(SDL_properties_lock, t)
  /\ SDL_properties' = TableWithout(Top(t).id)
  /\ GoWith(t, "nuke", SDL_properties[Top(t).id])
  /\ UNCHANGED <<SDL_last_properties_id, made, idOf, props, lock, freed, held, values, quitting>>

(* SDL_FreeProperties: the value is cleaned up before its item is freed.   *)
Nuke(t) ==
  /\ In(t, "nuke")
  /\ LET v == props[Top(t).obj] IN
     IF v = 0 THEN GoOn(t, "free") /\ UNCHANGED cleaned
     ELSE /\ cleaned' = [cleaned EXCEPT ![v] = @ + 1]
          /\ GoAndCall(t, "free", CleanupMay)
  /\ UNCHANGED <<table, props, lock, freed, held, given, accepted, quitting>>

FreeProperties(t) ==
  /\ In(t, "free")
  /\ props' = [props EXCEPT ![Top(t).obj] = 0]
  /\ freed' = freed \cup {Top(t).obj}
  /\ SDL_properties_lock' = IF Top(t).op = "destroy" THEN Released(SDL_properties_lock)
                            ELSE SDL_properties_lock
  /\ Return(t)
  /\ UNCHANGED <<SDL_properties, SDL_last_properties_id, made, idOf,
                 lock, held, values, quitting>>

(* SDL_QuitProperties, of SDL_Quit: first the global group, then the table *)
(* is destroyed, without its lock and with its groups still in it.         *)
SDL_QuitProperties(t) ==
  /\ ~quitting /\ \A u \in Threads : stack[u] = <<>> /\ held[u] = 0
  /\ quitting' = TRUE
  /\ LET frame(op, at, id) ==
           [op |-> op, at |-> at, id |-> id, obj |-> 0, v |-> 0, calls |-> {}] IN
     stack' = [stack EXCEPT ![t] = <<frame("destroy", "remove", 1), frame("quit", "sweep", 0)>>]
  /\ UNCHANGED <<table, props, lock, freed, held, values>>

DestroyHashTable(t) ==
  /\ In(t, "sweep")
  /\ LET left == {id \in DOMAIN SDL_properties : SDL_properties[id] \notin freed} IN
     IF left = {} THEN /\ SDL_properties' = [id \in {} |-> 0] /\ Return(t)
     ELSE /\ stack' = [stack EXCEPT ![t] =
               <<[op |-> "nuke", at |-> "nuke", id |-> Min(left), obj |-> SDL_properties[Min(left)],
                  v |-> 0, calls |-> {}]>> \o @]
          /\ UNCHANGED SDL_properties
  /\ UNCHANGED <<SDL_properties_lock, SDL_last_properties_id, made, idOf,
                 props, lock, freed, held, values, quitting>>

-----------------------------------------------------------------------------
Step(t) ==
  \/ CallbackReturns(t) \/ Find(t) \/ Acquire(t) \/ SDL_UnlockProperties(t)
  \/ RemoveOld(t) \/ InsertNew(t) \/ Iterate(t) \/ EndEnumerate(t)
  \/ RemoveGroup(t) \/ Nuke(t) \/ FreeProperties(t) \/ DestroyHashTable(t)

Next ==
  \E t \in Threads :
    \/ \E id \in IDs :
         CallSet(t, id) \/ (\E op \in {"lock", "get", "enumerate"} : CallReader(t, op, id))
         \/ CallDestroy(t, id)
    \/ CallUnlock(t) \/ SDL_CreateProperties(t) \/ SDL_QuitProperties(t)
    \/ Step(t)

Spec == Init /\ [][Next]_vars
-----------------------------------------------------------------------------
TypeOK ==
  /\ DOMAIN SDL_properties \subseteq IDs /\ Range(SDL_properties) \subseteq 1 .. made
  /\ \A l \in {SDL_properties_lock} \cup Range(lock) :
       /\ l.owner \subseteq Threads /\ Cardinality(l.owner) <= 1 /\ l.depth \in Nat
       /\ (l.owner = {}) <=> (l.depth = 0)
  /\ SDL_last_properties_id \in IDs
  /\ props \in [Objects -> 0 .. MaxValues] /\ freed \subseteq 1 .. made
  /\ held \in [Threads -> 0 .. made] /\ accepted \subseteq 1 .. given

(* Nobody uses a group that has been freed.                                *)
NoUseAfterFree ==
  \A t \in Threads : \A i \in DOMAIN stack[t] : stack[t][i].obj \notin freed

(* A group that was created is found under its ID until it is destroyed.   *)
BeingDestroyed(o) ==
  \E t \in Threads : \E i \in DOMAIN stack[t] :
    stack[t][i].obj = o /\ stack[t][i].op \in {"destroy", "nuke"}
FoundByID ==
  \A o \in DOMAIN idOf \ freed :
    BeingDestroyed(o) \/ (idOf[o] \in DOMAIN SDL_properties /\ SDL_properties[idOf[o]] = o)

(* "All properties are deleted and their cleanup functions will be         *)
(* called": once for each value that a set has kept, when it goes, and     *)
(* never for one that was rejected.                                        *)
CleanedOnce ==
  \A v \in Values :
    \/ cleaned[v] = IF v \in accepted \ Range(props) THEN 1 ELSE 0
    \/ cleaned[v] = 1 /\ \E o \in Objects : props[o] = v /\ BeingDestroyed(o)

(* "The properties are locked during enumeration": the item shown is still *)
(* there when the iteration goes on from it.                               *)
EnumeratedStay ==
  \A t \in Threads : \A i \in DOMAIN stack[t] :
    stack[t][i].at = "enumerated" => props[stack[t][i].obj] = stack[t][i].v

(* What an ID or an iteration leads to is there until it is destroyed.     *)
FoundUntilFreed == NoUseAfterFree /\ FoundByID /\ EnumeratedStay

(* Who has locked a group sees no change but its own.                      *)
LockProtects ==
  [][\A t \in Threads : held[t] # 0 /\ stack'[t] = stack[t] =>
       props'[held[t]] = props[held[t]]]_vars

(* No threads wait for each other.                                         *)
WaitsFor(t) ==
  IF In(t, "find") \/ In(t, "remove") THEN SDL_properties_lock.owner \ {t}
  ELSE IF In(t, "lock") THEN lock[Top(t).obj].owner \ {t}
  ELSE {}
NoDeadlock ==
  \A S \in (SUBSET Threads) \ {{}} : \E t \in S : WaitsFor(t) \cap S = {}

=============================================================================
