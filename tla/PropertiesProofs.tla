-------------------------- MODULE PropertiesProofs --------------------------
(***************************************************************************)
(* Properties: what an ID leads to is there until it is destroyed, every   *)
(* value is cleaned up once, locked groups do not change and no threads    *)
(* wait for each other, for any number of threads, groups, values and IDs, *)
(* and calls nested to any depth.                                          *)
(*                                                                         *)
(* The cleanup functions that SDL_Quit runs call nothing (NoQuitCalls);    *)
(* for NoDeadlock, cleanup functions keep to their own group (OwnOnly).    *)
(*                                                                         *)
(* The invariant speaks of every call on every stack.  A step changes a    *)
(* stack in one of few ways (Move), so the clauses about calls are shown   *)
(* by moves, and those about locks, table, groups and values by actions.   *)
(***************************************************************************)
EXTENDS Properties, FiniteSetTheorems, WellFoundedInduction, TLAPS

(* A thread's calls are counted from the outermost, so that a call keeps   *)
(* its place while others come and go on top: D(t) is their number and     *)
(* A(t, p) the p-th.                                                       *)
D(t) == Len(stack[t])
A(t, p) == stack[t][Len(stack[t]) + 1 - p]

Using == {"set", "get", "lock", "enumerate", "unlock"}
Below == {"insert", "enumerated", "free"}
(* What a call's frame looks like: where each operation may be, and what   *)
(* it has got there.                                                       *)
Records == [op : Using \cup {"destroy", "nuke", "quit", "callback"},
            at : {"find", "lock", "change", "insert", "iterate", "enumerated", "unlock",
                  "remove", "nuke", "free", "sweep", "callback"},
            id : Nat, obj : Nat, v : 0 .. MaxValues, calls : SUBSET {"set", "get", "destroy"}]
FrameOK(f) ==
  /\ f.op = "set" => f.at \in {"find", "lock", "change", "insert"}
  /\ f.op = "get" => f.at \in {"find", "lock"}
  /\ f.op = "lock" => f.at \in {"find", "lock"}
  /\ f.op = "enumerate" => f.at \in {"find", "lock", "iterate", "enumerated"}
  /\ f.op = "unlock" => f.at \in {"find", "unlock"}
  /\ f.op = "destroy" => f.at \in {"remove", "nuke", "free"}
  /\ f.op = "nuke" => f.at \in {"nuke", "free"}
  /\ f.op = "quit" => f.at = "sweep"
  /\ f.op = "callback" => f.at = "callback"
  /\ f.op \in Using \cup {"destroy", "nuke"} => f.id \in IDs
  /\ f.op \in {"callback", "quit"} => f.id = 0
  /\ f.at \in {"find", "remove", "sweep"} => f.obj = 0
  /\ f.at \notin {"find", "remove", "sweep"} => f.obj \in Objects
  /\ f.op # "set" /\ f.at # "enumerated" => f.v = 0
  /\ f.op # "callback" => f.calls = {}
Frames == {f \in Records : FrameOK(f)}

(* A lock is free, or some thread has it at least once.                    *)
LockStates == {l \in [owner : SUBSET Threads, depth : Nat] :
                 l = Free \/ \E t \in Threads : l.owner = {t} /\ l.depth > 0}

Stacked == stack \in [Threads -> Seq(Frames)]

(* A frame that a step leaves alone may lose what its callback was         *)
(* allowed.                                                                *)
Same(f, g) ==
  /\ f.op = g.op /\ f.at = g.at /\ f.id = g.id /\ f.obj = g.obj /\ f.v = g.v
  /\ f.calls \subseteq g.calls

(* A step of t leaves the other threads' frames alone, and those of t up   *)
(* to k.                                                                   *)
Around(t, k) ==
  /\ \A u \in Threads : u # t => D(u)' = D(u)
  /\ \A u \in Threads : \A q \in 1 .. D(u) : u # t \/ q <= k => Same(A(u, q)', A(u, q))

(* The four ways in which a step changes the calls of t: one comes, the    *)
(* last goes on, it goes on and calls back, it goes.                       *)
Pushes(t, n, f) == D(t)' = n + 1 /\ Around(t, n) /\ A(t, n + 1)' = f
Turns(t, n, f) == n >= 1 /\ D(t)' = n /\ Around(t, n - 1) /\ A(t, n)' = f
Calls(t, n, f, g) == n >= 1 /\ D(t)' = n + 1 /\ Around(t, n - 1) /\ A(t, n)' = f /\ A(t, n + 1)' = g
Pops(t, n) == n >= 1 /\ D(t)' = n - 1 /\ Around(t, n - 1)

(* The number of calls is a natural number.                                *)
LEMMA DepthType == ASSUME Stacked, NEW t \in Threads PROVE D(t) \in Nat
  BY DEF Stacked, D

(* Every call of a thread has a frame of the right type.                   *)
LEMMA FrameType == ASSUME Stacked, NEW t \in Threads, NEW p \in 1 .. D(t) PROVE A(t, p) \in Frames
<1>1. stack[t] \in Seq(Frames)
  BY DEF Stacked
<1>2. Len(stack[t]) + 1 - p \in 1 .. Len(stack[t])
  BY <1>1 DEF D
<1> QED
  BY <1>1, <1>2 DEF A

(* DepthType in the next state.                                            *)
LEMMA DepthTypeNext == ASSUME Stacked', NEW t \in Threads PROVE D(t)' \in Nat
  BY DEF Stacked, D

(* FrameType in the next state.                                            *)
LEMMA FrameTypeNext == ASSUME Stacked', NEW t \in Threads, NEW p \in 1 .. D(t)' PROVE A(t, p)' \in Frames
<1>1. stack'[t] \in Seq(Frames)
  BY DEF Stacked
<1>2. Len(stack'[t]) + 1 - p \in 1 .. Len(stack'[t])
  BY <1>1 DEF D
<1> QED
  BY <1>1, <1>2 DEF A

(* The head of the stack is the last call.                                 *)
LEMMA TopIs == ASSUME Stacked, NEW t \in Threads, stack[t] # <<>>, NEW n \in Nat, n = D(t)
               PROVE n >= 1 /\ Top(t) = A(t, n) /\ A(t, n) \in Frames
<1>1. stack[t] \in Seq(Frames)
  BY DEF Stacked
<1>2. n >= 1
  BY <1>1 DEF D
<1>3. Top(t) = A(t, n)
  BY <1>1 DEF Top, A, D
<1> QED
  BY <1>2, <1>3, FrameType

(* A frame that stays as it is is the same.                                *)
LEMMA SameRefl == \A f : Same(f, f)
  BY DEF Same

(* A frame in front of the stack is one call more.                         *)
LEMMA PushEffect ==
  ASSUME Stacked, NEW t \in Threads, NEW n \in Nat, n = D(t), NEW f \in Frames,
         stack' = [stack EXCEPT ![t] = <<f>> \o @]
  PROVE Pushes(t, n, f) /\ Stacked'
<1>1. stack[t] \in Seq(Frames)
  BY DEF Stacked
<1> DEFINE s == <<f>> \o stack[t]
<1>2. s \in Seq(Frames) /\ Len(s) = n + 1 /\ s[1] = f /\ \A i \in 1 .. n : s[i + 1] = stack[t][i]
  BY <1>1 DEF D
<1>3. stack' \in [Threads -> Seq(Frames)] /\ stack'[t] = s /\ \A u \in Threads : u # t => stack'[u] = stack[u]
  BY <1>2 DEF Stacked
<1> HIDE DEF s
<1>4. D(t)' = n + 1
  BY <1>2, <1>3 DEF D
<1>5. A(t, n + 1)' = f
  BY <1>2, <1>3 DEF A
<1>6. ASSUME NEW q \in 1 .. n PROVE A(t, q)' = A(t, q)
  <2>1. A(t, q)' = s[n + 2 - q]
    BY <1>2, <1>3 DEF A
  <2>2. n + 1 - q \in 1 .. n /\ (n + 1 - q) + 1 = n + 2 - q
    OBVIOUS
  <2>3. s[(n + 1 - q) + 1] = stack[t][n + 1 - q]
    BY <1>2, <2>2
  <2>4. A(t, q) = stack[t][n + 1 - q]
    BY DEF A, D
  <2> QED
    BY <2>1, <2>2, <2>3, <2>4
<1>7. ASSUME NEW u \in Threads, u # t PROVE D(u)' = D(u) /\ \A q \in 1 .. D(u) : A(u, q)' = A(u, q)
  BY <1>3, <1>7 DEF D, A
<1>8. Around(t, n)
  BY <1>6, <1>7, SameRefl DEF Around
<1> QED
  BY <1>3, <1>4, <1>5, <1>8 DEF Pushes, Stacked

(* A new head of the stack is a call that goes on.                         *)
LEMMA TurnEffect ==
  ASSUME Stacked, NEW t \in Threads, stack[t] # <<>>, NEW n \in Nat, n = D(t), NEW f \in Frames,
         stack' = [stack EXCEPT ![t] = <<f>> \o Tail(@)]
  PROVE Turns(t, n, f) /\ Stacked'
<1>1. stack[t] \in Seq(Frames)
  BY DEF Stacked
<1> DEFINE s == <<f>> \o Tail(stack[t])
<1>0. n >= 1
  BY <1>1 DEF D
<1>9. Tail(stack[t]) \in Seq(Frames) /\ Len(Tail(stack[t])) = n - 1 /\ \A i \in 1 .. n - 1 : Tail(stack[t])[i] = stack[t][i + 1]
  BY <1>1, <1>0 DEF D
<1>2. s \in Seq(Frames) /\ Len(s) = n /\ s[1] = f /\ \A i \in 1 .. n - 1 : s[i + 1] = stack[t][i + 1]
  <2> DEFINE r == Tail(stack[t])
  <2>1. r \in Seq(Frames) /\ Len(r) = n - 1 /\ \A i \in 1 .. n - 1 : r[i] = stack[t][i + 1]
    BY <1>9
  <2> HIDE DEF r
  <2>2. <<f>> \o r \in Seq(Frames) /\ Len(<<f>> \o r) = n /\ (<<f>> \o r)[1] = f
        /\ \A i \in 1 .. n - 1 : (<<f>> \o r)[i + 1] = r[i]
    BY <2>1, <1>0
  <2> QED
    BY <2>1, <2>2 DEF r
<1>3. stack' \in [Threads -> Seq(Frames)] /\ stack'[t] = s /\ \A u \in Threads : u # t => stack'[u] = stack[u]
  BY <1>2 DEF Stacked
<1> HIDE DEF s
<1>4. D(t)' = n
  BY <1>2, <1>3 DEF D
<1>5. A(t, n)' = f
  BY <1>2, <1>3 DEF A
<1>6. ASSUME NEW q \in 1 .. n - 1 PROVE A(t, q)' = A(t, q)
  <2>1. A(t, q)' = s[n + 1 - q]
    BY <1>2, <1>3 DEF A
  <2>2. n - q \in 1 .. n - 1 /\ (n - q) + 1 = n + 1 - q
    OBVIOUS
  <2>3. s[(n - q) + 1] = stack[t][(n - q) + 1]
    BY <1>2, <2>2
  <2>4. A(t, q) = stack[t][n + 1 - q]
    BY DEF A, D
  <2> QED
    BY <2>1, <2>2, <2>3, <2>4
<1>7. ASSUME NEW u \in Threads, u # t PROVE D(u)' = D(u) /\ \A q \in 1 .. D(u) : A(u, q)' = A(u, q)
  BY <1>3, <1>7 DEF D, A
<1>8. Around(t, n - 1)
  BY <1>6, <1>7, SameRefl DEF Around
<1> QED
  BY <1>0, <1>3, <1>4, <1>5, <1>8 DEF Turns, Stacked

(* A new head with a frame before it is a call that goes on and calls      *)
(* back.                                                                   *)
LEMMA CallsEffect ==
  ASSUME Stacked, NEW t \in Threads, stack[t] # <<>>, NEW n \in Nat, n = D(t),
         NEW f \in Frames, NEW g \in Frames,
         stack' = [stack EXCEPT ![t] = <<g, f>> \o Tail(@)]
  PROVE Calls(t, n, f, g) /\ Stacked'
<1>1. stack[t] \in Seq(Frames)
  BY DEF Stacked
<1> DEFINE s == <<g, f>> \o Tail(stack[t])
<1>0. n >= 1
  BY <1>1 DEF D
<1>9. Tail(stack[t]) \in Seq(Frames) /\ Len(Tail(stack[t])) = n - 1 /\ \A i \in 1 .. n - 1 : Tail(stack[t])[i] = stack[t][i + 1]
  BY <1>1, <1>0 DEF D
<1>2. s \in Seq(Frames) /\ Len(s) = n + 1 /\ s[1] = g /\ s[2] = f /\ \A i \in 1 .. n - 1 : s[i + 2] = stack[t][i + 1]
  <2> DEFINE r == Tail(stack[t])
  <2>1. r \in Seq(Frames) /\ Len(r) = n - 1 /\ \A i \in 1 .. n - 1 : r[i] = stack[t][i + 1]
    BY <1>9
  <2> HIDE DEF r
  <2>2. <<g, f>> \o r \in Seq(Frames) /\ Len(<<g, f>> \o r) = n + 1 /\ (<<g, f>> \o r)[1] = g
        /\ (<<g, f>> \o r)[2] = f /\ \A i \in 1 .. n - 1 : (<<g, f>> \o r)[i + 2] = r[i]
    BY <2>1, <1>0
  <2> QED
    BY <2>1, <2>2 DEF r
<1>3. stack' \in [Threads -> Seq(Frames)] /\ stack'[t] = s /\ \A u \in Threads : u # t => stack'[u] = stack[u]
  BY <1>2 DEF Stacked
<1> HIDE DEF s
<1>4. D(t)' = n + 1
  BY <1>2, <1>3 DEF D
<1>5. A(t, n)' = f /\ A(t, n + 1)' = g
  <2>1. A(t, n)' = s[(n + 1) + 1 - n] /\ A(t, n + 1)' = s[(n + 1) + 1 - (n + 1)]
    BY <1>2, <1>3 DEF A
  <2>2. (n + 1) + 1 - n = 2 /\ (n + 1) + 1 - (n + 1) = 1
    OBVIOUS
  <2> QED
    BY <1>2, <2>1, <2>2
<1>6. ASSUME NEW q \in 1 .. n - 1 PROVE A(t, q)' = A(t, q)
  <2>1. A(t, q)' = s[n + 2 - q]
    BY <1>2, <1>3 DEF A
  <2>2. n - q \in 1 .. n - 1 /\ (n - q) + 2 = n + 2 - q /\ (n - q) + 1 = n + 1 - q
    OBVIOUS
  <2>3. s[(n - q) + 2] = stack[t][(n - q) + 1]
    BY <1>2, <2>2
  <2>4. A(t, q) = stack[t][n + 1 - q]
    BY DEF A, D
  <2> QED
    BY <2>1, <2>2, <2>3, <2>4
<1>7. ASSUME NEW u \in Threads, u # t PROVE D(u)' = D(u) /\ \A q \in 1 .. D(u) : A(u, q)' = A(u, q)
  BY <1>3, <1>7 DEF D, A
<1>8. Around(t, n - 1)
  BY <1>6, <1>7, SameRefl DEF Around
<1> QED
  BY <1>0, <1>3, <1>4, <1>5, <1>8 DEF Calls, Stacked

(* Return takes the last call away.                                        *)
LEMMA PopEffect ==
  ASSUME Stacked, NEW t \in Threads, stack[t] # <<>>, NEW n \in Nat, n = D(t), Return(t)
  PROVE Pops(t, n) /\ Stacked'
<1>1. stack[t] \in Seq(Frames)
  BY DEF Stacked
<1> DEFINE s == Tail(stack[t])
<1>0. n >= 1
  BY <1>1 DEF D
<1>2. s \in Seq(Frames) /\ Len(s) = n - 1 /\ \A i \in 1 .. n - 1 : s[i] = stack[t][i + 1]
  BY <1>1, <1>0 DEF D
<1>3. stack' \in [Threads -> Seq(Frames)] /\ stack'[t] = s /\ \A u \in Threads : u # t => stack'[u] = stack[u]
  BY <1>2 DEF Stacked, Return
<1> HIDE DEF s
<1>4. D(t)' = n - 1
  BY <1>2, <1>3 DEF D
<1>6. ASSUME NEW q \in 1 .. n - 1 PROVE A(t, q)' = A(t, q)
  <2>1. A(t, q)' = s[n - q]
    BY <1>2, <1>3 DEF A
  <2>2. n - q \in 1 .. n - 1 /\ (n - q) + 1 = n + 1 - q
    OBVIOUS
  <2>3. s[n - q] = stack[t][(n - q) + 1]
    BY <1>2, <2>2
  <2>4. A(t, q) = stack[t][n + 1 - q]
    BY DEF A, D
  <2> QED
    BY <2>1, <2>2, <2>3, <2>4
<1>7. ASSUME NEW u \in Threads, u # t PROVE D(u)' = D(u) /\ \A q \in 1 .. D(u) : A(u, q)' = A(u, q)
  BY <1>3, <1>7 DEF D, A
<1>8. Around(t, n - 1)
  BY <1>6, <1>7, SameRefl DEF Around
<1> QED
  BY <1>0, <1>3, <1>4, <1>8 DEF Pops, Stacked

(* The frame that a call begins with.                                      *)
NewFrame(op, at, id, v) ==
  [op |-> op, at |-> at, id |-> id, obj |-> 0, v |-> v, calls |-> {}]

(* Call, from outside or from a callback, adds a call and leaves the       *)
(* others, apart from what the callback may call from now on.              *)
LEMMA CallEffect ==
  ASSUME Stacked, NEW t \in Threads, NEW n \in Nat, n = D(t),
         NEW op, NEW at, NEW id, NEW v, NewFrame(op, at, id, v) \in Frames, Call(t, op, id, at, v)
  PROVE Pushes(t, n, NewFrame(op, at, id, v)) /\ Stacked'
<1> DEFINE f == NewFrame(op, at, id, v)
<1>0. f \in Frames
  OBVIOUS
<1>9. stack[t] \in Seq(Frames) /\ stack \in [Threads -> Seq(Frames)]
  BY DEF Stacked
<1>1. CASE stack[t] = <<>>
  <2>1. stack' = [stack EXCEPT ![t] = <<f>> \o @]
    BY <1>1, <1>9 DEF Call, NewFrame
  <2> HIDE DEF f
  <2>2. Pushes(t, n, f) /\ Stacked'
    BY <1>0, <2>1, PushEffect
  <2> QED
    BY <2>2 DEF f
<1>2. CASE stack[t] # <<>>
  <2> DEFINE h == [Head(stack[t]) EXCEPT !.calls = {}]
  <2>0. Head(stack[t]) = A(t, n) /\ A(t, n) \in Frames /\ n >= 1
    BY <1>2, TopIs DEF Top
  <2>1. h \in Frames /\ Same(h, A(t, n))
    <3>1. h \in Records
      BY <2>0 DEF Frames, Records
    <3>2. FrameOK(h)
      BY <2>0 DEF Frames, Records, FrameOK
    <3>3. Same(h, A(t, n))
      BY <2>0 DEF Frames, Records, Same
    <3> QED
      BY <3>1, <3>2, <3>3 DEF Frames
  <2>2. stack' = [stack EXCEPT ![t] = <<f>> \o (<<h>> \o Tail(stack[t]))]
    BY <1>2 DEF Call, NewFrame
  <2> HIDE DEF f, h
  <2>3. Tail(stack[t]) \in Seq(Frames)
    BY <1>2, <1>9
  <2>4. <<f>> \o (<<h>> \o Tail(stack[t])) = <<f, h>> \o Tail(stack[t])
    <3> DEFINE r == Tail(stack[t])
    <3>1. r \in Seq(Frames)
      BY <2>3
    <3> HIDE DEF r
    <3>2. <<f>> \o (<<h>> \o r) = <<f, h>> \o r
      BY <3>1, <1>0, <2>1
    <3> QED
      BY <3>2 DEF r
  <2>5. stack' = [stack EXCEPT ![t] = <<f, h>> \o Tail(@)]
    BY <2>2, <2>4
  <2>6. Calls(t, n, h, f) /\ Stacked'
    BY <1>0, <1>2, <2>1, <2>5, CallsEffect
  <2>7. Pushes(t, n, f)
    BY <2>0, <2>1, <2>6 DEF Pushes, Calls, Around
  <2> QED
    BY <2>6, <2>7 DEF f
<1> QED
  BY <1>1, <1>2

(* The types of the variables.                                             *)
Typed ==
  /\ Stacked
  /\ SDL_properties_lock \in LockStates /\ lock \in [Objects -> LockStates]
  /\ props \in [Objects -> 0 .. MaxValues] /\ held \in [Threads -> 0 .. MaxObjects]
  /\ made \in 1 .. MaxObjects /\ given \in 0 .. MaxValues
  /\ freed \subseteq 1 .. made /\ accepted \subseteq 1 .. given
  /\ cleaned \in [Values -> Nat] /\ quitting \in BOOLEAN
  /\ SDL_last_properties_id \in IDs

(* Clause Table: the table leads to groups that were made under that ID,   *)
(* and until SDL_Quit none of them is freed and the global group is one of *)
(* them.                                                                   *)
Table ==
  /\ DOMAIN SDL_properties \subseteq IDs /\ DOMAIN idOf \subseteq 1 .. made
  /\ \A o \in DOMAIN idOf : idOf[o] \in IDs
  /\ \A i \in DOMAIN SDL_properties :
       SDL_properties[i] \in DOMAIN idOf /\ idOf[SDL_properties[i]] = i
  /\ ~quitting => /\ \A i \in DOMAIN SDL_properties : SDL_properties[i] \notin freed
                  /\ 1 \in DOMAIN SDL_properties /\ SDL_properties[1] = Global

(* In(t, at) speaks of the last call.                                      *)
LEMMA InIs ==
  ASSUME Stacked, NEW t \in Threads, NEW at, In(t, at), NEW n \in Nat, n = D(t)
  PROVE  /\ stack[t] # <<>> /\ n >= 1 /\ A(t, n).at = at
         /\ Top(t) = A(t, n) /\ Head(stack[t]) = A(t, n) /\ A(t, n) \in Frames
  BY TopIs DEF In, Top

(* The type of a frame, taken apart.                                       *)
LEMMA FieldsOf == \A f \in Frames : f \in Records /\ FrameOK(f)
  BY DEF Frames

(* The stack is empty when there are no calls.                             *)
LEMMA EmptyIs ==
  ASSUME Stacked, NEW t \in Threads, NEW n \in Nat, n = D(t) PROVE stack[t] = <<>> <=> n = 0
<1>1. stack[t] \in Seq(Frames)
  BY DEF Stacked
<1> QED
  BY <1>1 DEF D

(* The frame that a call begins with has the right type.                   *)
LEMMA NewFrameType ==
  ASSUME NEW op \in {"set", "get", "lock", "enumerate", "unlock", "destroy"}, NEW id \in IDs,
         NEW v \in 0 .. MaxValues, op # "set" => v = 0
  PROVE  NewFrame(op, IF op = "destroy" THEN "remove" ELSE "find", id, v) \in Frames
  BY PropertiesAssumption DEF NewFrame, Frames, Records, FrameOK, Using, IDs

(* Who makes a call: the application from outside, or a callback that may. *)
Caller(t, n, op) ==
  \/ n = 0 /\ ~quitting
  \/ n >= 1 /\ A(t, n).at = "callback" /\ op \in A(t, n).calls

(* MayCall in terms of the calls counted from the outermost.               *)
LEMMA CallerIs ==
  ASSUME Stacked, NEW t \in Threads, NEW n \in Nat, n = D(t), NEW op, MayCall(t, op)
  PROVE Caller(t, n, op)
  BY EmptyIs, InIs DEF MayCall, Caller

(* Which group a call may use, in the same terms.                          *)
Reach(t, n, id) ==
  \/ n = 0 /\ held[t] \in {0} \cup {o \in Objects : o \in DOMAIN idOf /\ idOf[o] = id}
  \/ n >= 1 /\ (ReachesAny \/ (A(t, n).obj \in DOMAIN idOf /\ idOf[A(t, n).obj] = id))

(* Reaches in terms of the calls counted from the outermost.               *)
LEMMA ReachIs ==
  ASSUME Stacked, NEW t \in Threads, NEW n \in Nat, n = D(t), NEW id, Reaches(t, id)
  PROVE Reach(t, n, id)
  BY EmptyIs, TopIs DEF Reaches, Reach

(* The stack and the calls counted from the outermost hold the same        *)
(* frames.                                                                 *)
LEMMA Positions ==
  ASSUME Stacked, NEW t \in Threads
  PROVE  /\ \A i \in DOMAIN stack[t] : \E p \in 1 .. D(t) : A(t, p) = stack[t][i]
         /\ \A p \in 1 .. D(t) : \E i \in DOMAIN stack[t] : A(t, p) = stack[t][i]
<1>1. stack[t] \in Seq(Frames) /\ DOMAIN stack[t] = 1 .. Len(stack[t]) /\ Len(stack[t]) \in Nat
  BY DEF Stacked
<1>2. ASSUME NEW i \in DOMAIN stack[t] PROVE \E p \in 1 .. D(t) : A(t, p) = stack[t][i]
  <2>1. Len(stack[t]) + 1 - i \in 1 .. D(t)
    BY <1>1, <1>2 DEF D
  <2>2. A(t, Len(stack[t]) + 1 - i) = stack[t][Len(stack[t]) + 1 - (Len(stack[t]) + 1 - i)]
    BY DEF A
  <2>3. Len(stack[t]) + 1 - (Len(stack[t]) + 1 - i) = i
    BY <1>1, <1>2
  <2> QED
    BY <2>1, <2>2, <2>3
<1>3. ASSUME NEW p \in 1 .. D(t) PROVE \E i \in DOMAIN stack[t] : A(t, p) = stack[t][i]
  <2>1. Len(stack[t]) + 1 - p \in DOMAIN stack[t]
    BY <1>1, <1>3 DEF D
  <2> QED
    BY <2>1 DEF A
<1> QED
  BY <1>2, <1>3

(* Uses and Destroys in terms of the calls counted from the outermost.     *)
LEMMA UsesIs ==
  ASSUME Stacked, NEW t \in Threads, NEW id
  PROVE  /\ Uses(t, id) <=> \E p \in 1 .. D(t) : A(t, p).id = id
         /\ Destroys(t, id) <=> \E p \in 1 .. D(t) : A(t, p).id = id /\ A(t, p).op = "destroy"
<1>1. \A i \in DOMAIN stack[t] : \E p \in 1 .. D(t) : A(t, p) = stack[t][i]
  BY Positions
<1>2. \A p \in 1 .. D(t) : \E i \in DOMAIN stack[t] : A(t, p) = stack[t][i]
  BY Positions
<1>3. Uses(t, id) <=> \E p \in 1 .. D(t) : A(t, p).id = id
  BY <1>1, <1>2 DEF Uses
<1>4. Destroys(t, id) <=> \E p \in 1 .. D(t) : A(t, p).id = id /\ A(t, p).op = "destroy"
  BY <1>1, <1>2 DEF Destroys
<1> QED
  BY <1>3, <1>4

(* BeingDestroyed in terms of the calls counted from the outermost.        *)
LEMMA BeingDestroyedIs ==
  ASSUME Stacked, NEW o
  PROVE  BeingDestroyed(o) <=>
           \E t \in Threads : \E p \in 1 .. D(t) :
             A(t, p).obj = o /\ A(t, p).op \in {"destroy", "nuke"}
<1>1. \A t \in Threads : \A i \in DOMAIN stack[t] : \E p \in 1 .. D(t) : A(t, p) = stack[t][i]
  BY Positions
<1>2. \A t \in Threads : \A p \in 1 .. D(t) : \E i \in DOMAIN stack[t] : A(t, p) = stack[t][i]
  BY Positions
<1> QED
  BY <1>1, <1>2 DEF BeingDestroyed

-----------------------------------------------------------------------------
(* What each action does to the calls, one lemma per action from here on.  *)
(* CallSet begins a set, with a new value or with none.                    *)
LEMMA CallSetDoes ==
  ASSUME Typed, NEW t \in Threads, NEW id \in IDs, CallSet(t, id), NEW n \in Nat, n = D(t)
  PROVE  /\ Stacked' /\ Caller(t, n, "set") /\ Reach(t, n, id)
         /\ MayUse(id) \/ Destroys(t, id)
         /\ \/ given < MaxValues /\ given' = given + 1
               /\ Pushes(t, n, NewFrame("set", "find", id, given + 1))
            \/ UNCHANGED given /\ Pushes(t, n, NewFrame("set", "find", id, 0))
<1>1. Stacked
  BY DEF Typed
<1>2. Caller(t, n, "set") /\ Reach(t, n, id) /\ (MayUse(id) \/ Destroys(t, id))
  BY <1>1, CallerIs, ReachIs DEF CallSet
<1>3. CASE given < MaxValues /\ given' = given + 1 /\ Call(t, "set", id, "find", given + 1)
  <2>1. given + 1 \in 0 .. MaxValues
    BY <1>3, PropertiesAssumption DEF Typed
  <2>2. NewFrame("set", "find", id, given + 1) \in Frames
    BY <2>1, NewFrameType
  <2> QED
    BY <1>1, <1>2, <1>3, <2>2, CallEffect
<1>4. CASE UNCHANGED given /\ Call(t, "set", id, "find", 0)
  <2>1. 0 \in 0 .. MaxValues
    BY PropertiesAssumption
  <2>2. NewFrame("set", "find", id, 0) \in Frames
    BY <2>1, NewFrameType
  <2> QED
    BY <1>1, <1>2, <1>4, <2>2, CallEffect
<1> QED
  BY <1>3, <1>4 DEF CallSet

(* CallReader begins a lock, a get or an enumeration.                      *)
LEMMA CallReaderDoes ==
  ASSUME Typed, NEW t \in Threads, NEW id \in IDs, NEW op \in {"lock", "get", "enumerate"},
         CallReader(t, op, id), NEW n \in Nat, n = D(t)
  PROVE  /\ Stacked' /\ Caller(t, n, op) /\ Reach(t, n, id) /\ (MayUse(id) \/ Destroys(t, id))
         /\ op \in {"lock", "enumerate"} => held[t] = 0
         /\ Pushes(t, n, NewFrame(op, "find", id, 0))
<1>1. Stacked /\ 0 \in 0 .. MaxValues
  BY PropertiesAssumption DEF Typed
<1>2. NewFrame(op, "find", id, 0) \in Frames
  BY <1>1, NewFrameType
<1> QED
  BY <1>1, <1>2, CallerIs, ReachIs, CallEffect DEF CallReader

(* CallUnlock begins the unlock of the group that the thread holds.        *)
LEMMA CallUnlockDoes ==
  ASSUME Typed, NEW t \in Threads, CallUnlock(t), held[t] \in DOMAIN idOf, idOf[held[t]] \in IDs,
         NEW n \in Nat, n = D(t)
  PROVE  /\ Stacked' /\ n = 0 /\ held[t] # 0
         /\ Pushes(t, n, NewFrame("unlock", "find", idOf[held[t]], 0))
<1>1. Stacked /\ 0 \in 0 .. MaxValues
  BY PropertiesAssumption DEF Typed
<1>2. NewFrame("unlock", "find", idOf[held[t]], 0) \in Frames
  BY <1>1, NewFrameType
<1> QED
  BY <1>1, <1>2, EmptyIs, CallEffect DEF CallUnlock

(* CallDestroy begins the destruction of a group.                          *)
LEMMA CallDestroyDoes ==
  ASSUME Typed, NEW t \in Threads, NEW id \in IDs, CallDestroy(t, id), NEW n \in Nat, n = D(t)
  PROVE  /\ Stacked' /\ Caller(t, n, "destroy") /\ MayDestroy(id) /\ (n = 0 => held[t] = 0)
         /\ Pushes(t, n, NewFrame("destroy", "remove", id, 0))
<1>1. Stacked /\ 0 \in 0 .. MaxValues
  BY PropertiesAssumption DEF Typed
<1>2. NewFrame("destroy", "remove", id, 0) \in Frames
  BY <1>1, NewFrameType
<1> QED
  BY <1>1, <1>2, CallerIs, EmptyIs, CallEffect DEF CallDestroy

(* CallbackReturns ends the callback.                                      *)
LEMMA CallbackReturnsDoes ==
  ASSUME Typed, NEW t \in Threads, CallbackReturns(t), NEW n \in Nat, n = D(t)
  PROVE  Stacked' /\ A(t, n).at = "callback" /\ Pops(t, n)
  BY InIs, PopEffect DEF CallbackReturns, Typed

(* A frame that goes to its operation's next place keeps its type.         *)
LEMMA MovedType ==
  ASSUME NEW f \in Frames, NEW at, NEW g, g = [f EXCEPT !.at = at],
         \/ f.at = "lock" /\ f.op = "set" /\ at = "change"
         \/ f.at = "lock" /\ f.op = "enumerate" /\ at = "iterate"
         \/ f.at = "change" /\ at = "insert"
         \/ f.at = "iterate" /\ at = "enumerated"
         \/ f.at = "nuke" /\ at = "free"
  PROVE  /\ g \in Frames /\ g.op = f.op /\ g.at = at /\ g.id = f.id /\ g.obj = f.obj
         /\ g.v = f.v /\ g.calls = f.calls
<1>1. f \in Records /\ FrameOK(f)
  BY FieldsOf
<1>2. g \in Records /\ g.op = f.op /\ g.at = at /\ g.id = f.id /\ g.obj = f.obj
      /\ g.v = f.v /\ g.calls = f.calls
  BY <1>1 DEF Records
<1>3. FrameOK(g)
  BY <1>1, <1>2 DEF FrameOK, Using
<1> QED
  BY <1>2, <1>3 DEF Frames

(* The table leads to groups that were made.                               *)
LEMMA ObjectOf ==
  ASSUME Typed, Table, NEW i \in DOMAIN SDL_properties
  PROVE  SDL_properties[i] \in 1 .. made /\ SDL_properties[i] \in Objects /\ SDL_properties[i] \in Nat
<1>1. SDL_properties[i] \in 1 .. made
  BY DEF Table
<1>2. made \in 1 .. MaxObjects
  BY DEF Typed
<1> QED
  BY <1>1, <1>2, PropertiesAssumption DEF Objects

(* Find goes on with the group that the table has, or ends the call.       *)
LEMMA FindDoes ==
  ASSUME Typed, Table, NEW t \in Threads, Find(t), NEW n \in Nat, n = D(t)
  PROVE  /\ Stacked' /\ n >= 1 /\ A(t, n).at = "find" /\ UNCHANGED SDL_properties_lock
         /\ A(t, n).id \in DOMAIN SDL_properties => \E f \in Frames :
              /\ f.op = A(t, n).op /\ f.id = A(t, n).id /\ f.obj = SDL_properties[A(t, n).id]
              /\ f.v = A(t, n).v /\ f.calls = A(t, n).calls
              /\ f.at = IF f.op = "unlock" THEN "unlock" ELSE "lock"
              /\ Turns(t, n, f)
         /\ A(t, n).id \notin DOMAIN SDL_properties => Pops(t, n)
<1>1. Stacked
  BY DEF Typed
<1>2. stack[t] # <<>> /\ n >= 1 /\ A(t, n).at = "find" /\ Top(t) = A(t, n) /\ A(t, n) \in Frames
  BY <1>1, InIs DEF Find
<1>3. CASE A(t, n).id \in DOMAIN SDL_properties
  <2> DEFINE x == A(t, n)
             f == [x EXCEPT !.at = IF x.op = "unlock" THEN "unlock" ELSE "lock", !.obj = SDL_properties[x.id]]
  <2>1. x \in Records /\ FrameOK(x)
    BY <1>2, FieldsOf
  <2>2. SDL_properties[x.id] \in Objects /\ SDL_properties[x.id] \in Nat
    BY <1>3, ObjectOf
  <2>3. f \in Records /\ f.op = x.op /\ f.id = x.id /\ f.obj = SDL_properties[x.id]
        /\ f.v = x.v /\ f.calls = x.calls /\ f.at = IF x.op = "unlock" THEN "unlock" ELSE "lock"
    BY <2>1, <2>2 DEF Records
  <2>4. FrameOK(f)
    <3> HIDE DEF f, x
    <3> QED
      BY <1>2, <2>1, <2>2, <2>3 DEF FrameOK, Using, Records, x
  <2>5. f \in Frames
    BY <2>3, <2>4 DEF Frames
  <2>6. stack' = [stack EXCEPT ![t] = <<f>> \o Tail(@)] /\ UNCHANGED SDL_properties_lock
    BY <1>2, <1>3 DEF Find, GoWith, UnlocksTableFirst
  <2> HIDE DEF f
  <2>7. Turns(t, n, f) /\ Stacked'
    BY <1>1, <1>2, <2>5, <2>6, TurnEffect
  <2> QED
    BY <1>2, <1>3, <2>3, <2>5, <2>6, <2>7
<1>4. CASE A(t, n).id \notin DOMAIN SDL_properties
  <2>1. Return(t) /\ UNCHANGED SDL_properties_lock
    BY <1>2, <1>4 DEF Find
  <2> QED
    BY <1>1, <1>2, <1>4, <2>1, PopEffect
<1> QED
  BY <1>3, <1>4

(* Acquire takes the group's lock, which nobody else has.                  *)
LEMMA AcquireDoes ==
  ASSUME Typed, NEW t \in Threads, Acquire(t), NEW n \in Nat, n = D(t)
  PROVE  /\ Stacked' /\ n >= 1 /\ A(t, n).at = "lock" /\ A(t, n).obj \in Objects
         /\ CanTake(lock[A(t, n).obj], t) /\ UNCHANGED SDL_properties_lock
         /\ \/ /\ A(t, n).op = "lock" /\ Pops(t, n)
               /\ lock' = [lock EXCEPT ![A(t, n).obj] = Taken(@, t)]
               /\ held' = [held EXCEPT ![t] = A(t, n).obj]
            \/ A(t, n).op = "get" /\ Pops(t, n) /\ UNCHANGED <<lock, held>>
            \/ /\ A(t, n).op \in {"set", "enumerate"}
               /\ lock' = [lock EXCEPT ![A(t, n).obj] = Taken(@, t)] /\ UNCHANGED held
               /\ Turns(t, n, [A(t, n) EXCEPT !.at = IF A(t, n).op = "set" THEN "change" ELSE "iterate"])
<1>1. Stacked
  BY DEF Typed
<1>2. stack[t] # <<>> /\ n >= 1 /\ A(t, n).at = "lock" /\ Top(t) = A(t, n) /\ A(t, n) \in Frames
  BY <1>1, InIs DEF Acquire
<1>3. A(t, n) \in Records /\ FrameOK(A(t, n))
  BY <1>2, FieldsOf
<1>4. A(t, n).obj \in Objects /\ A(t, n).op \in {"set", "get", "lock", "enumerate"}
  BY <1>2, <1>3 DEF FrameOK, Records, Using
<1>5. CanTake(lock[A(t, n).obj], t) /\ UNCHANGED SDL_properties_lock
  BY <1>2 DEF Acquire, Waits, UnlocksTableFirst
<1>6. CASE A(t, n).op = "lock"
  <2>1. /\ lock' = [lock EXCEPT ![A(t, n).obj] = Taken(@, t)]
        /\ held' = [held EXCEPT ![t] = A(t, n).obj] /\ Return(t)
    BY <1>2, <1>6 DEF Acquire
  <2> QED
    BY <1>1, <1>2, <1>4, <1>5, <1>6, <2>1, PopEffect
<1>7. CASE A(t, n).op = "get"
  <2>1. Return(t) /\ UNCHANGED <<lock, held>>
    BY <1>2, <1>7 DEF Acquire
  <2> QED
    BY <1>1, <1>2, <1>4, <1>5, <1>7, <2>1, PopEffect
<1>8. CASE A(t, n).op \in {"set", "enumerate"}
  <2> DEFINE f == [A(t, n) EXCEPT !.at = IF A(t, n).op = "set" THEN "change" ELSE "iterate"]
  <2>1. /\ lock' = [lock EXCEPT ![A(t, n).obj] = Taken(@, t)] /\ UNCHANGED held
        /\ stack' = [stack EXCEPT ![t] = <<f>> \o Tail(@)]
    BY <1>2, <1>8 DEF Acquire, GoOn
  <2>2. f \in Frames
    BY <1>2, <1>8, MovedType
  <2>3. Turns(t, n, f) /\ Stacked'
    <3> HIDE DEF f
    <3> QED
      BY <1>1, <1>2, <2>1, <2>2, TurnEffect
  <2> QED
    BY <1>2, <1>4, <1>5, <1>8, <2>1, <2>3
<1> QED
  BY <1>4, <1>6, <1>7, <1>8

(* SDL_UnlockProperties gives the lock back and ends the call.             *)
LEMMA UnlockDoes ==
  ASSUME Typed, NEW t \in Threads, SDL_UnlockProperties(t), NEW n \in Nat, n = D(t)
  PROVE  /\ Stacked' /\ A(t, n).at = "unlock" /\ A(t, n).op = "unlock" /\ A(t, n).obj \in Objects
         /\ Pops(t, n) /\ lock' = [lock EXCEPT ![A(t, n).obj] = Released(@)]
<1>1. Stacked /\ In(t, "unlock") /\ Return(t)
  BY DEF Typed, SDL_UnlockProperties
<1>2. stack[t] # <<>> /\ n >= 1 /\ A(t, n).at = "unlock" /\ Top(t) = A(t, n) /\ A(t, n) \in Frames
  BY <1>1, InIs
<1>3. A(t, n).op = "unlock" /\ A(t, n).obj \in Objects
  BY <1>2, FieldsOf DEF FrameOK, Records, Using
<1> QED
  BY <1>1, <1>2, <1>3, PopEffect DEF SDL_UnlockProperties

(* The frame of a callback about group o.                                  *)
CallbackFrame(o, calls) ==
  [op |-> "callback", at |-> "callback", id |-> 0, obj |-> o, v |-> 0, calls |-> calls]

(* A callback's frame has the right type.                                  *)
LEMMA CallbackType ==
  ASSUME NEW o \in Objects, NEW calls \in SUBSET {"set", "get", "destroy"}
  PROVE  CallbackFrame(o, calls) \in Frames
  BY PropertiesAssumption DEF CallbackFrame, Frames, Records, FrameOK, Using, Objects

(* What a cleanup function may call.                                       *)
LEMMA CleanupMayType == CleanupMay \in SUBSET {"set", "get", "destroy"}
  BY PropertiesAssumption DEF CleanupMay

(* RemoveOld takes the old value out and calls its cleanup.                *)
LEMMA RemoveOldDoes ==
  ASSUME Typed, NEW t \in Threads, RemoveOld(t), NEW n \in Nat, n = D(t)
  PROVE  /\ Stacked' /\ n >= 1 /\ A(t, n).at = "change" /\ A(t, n).op = "set" /\ A(t, n).obj \in Objects
         /\ \/ /\ props[A(t, n).obj] = 0 /\ UNCHANGED <<props, cleaned>>
               /\ Turns(t, n, [A(t, n) EXCEPT !.at = "insert"])
            \/ /\ props[A(t, n).obj] # 0
               /\ props' = [props EXCEPT ![A(t, n).obj] = 0]
               /\ cleaned' = [cleaned EXCEPT ![props[A(t, n).obj]] = @ + 1]
               /\ Calls(t, n, [A(t, n) EXCEPT !.at = "insert"], CallbackFrame(A(t, n).obj, CleanupMay))
<1>1. Stacked /\ In(t, "change")
  BY DEF Typed, RemoveOld
<1>2. stack[t] # <<>> /\ n >= 1 /\ A(t, n).at = "change" /\ Top(t) = A(t, n) /\ A(t, n) \in Frames
  BY <1>1, InIs
<1>3. A(t, n).op = "set" /\ A(t, n).obj \in Objects
  BY <1>2, FieldsOf DEF FrameOK, Records, Using
<1> DEFINE f == [A(t, n) EXCEPT !.at = "insert"]
           g == CallbackFrame(A(t, n).obj, CleanupMay)
<1>4. f \in Frames
  BY <1>2, MovedType
<1>5. g \in Frames
  BY <1>3, CallbackType, CleanupMayType
<1>6. CASE props[A(t, n).obj] = 0
  <2>1. UNCHANGED <<props, cleaned>> /\ stack' = [stack EXCEPT ![t] = <<f>> \o Tail(@)]
    BY <1>2, <1>6 DEF RemoveOld, GoOn
  <2>2. Turns(t, n, f) /\ Stacked'
    <3> HIDE DEF f
    <3> QED
      BY <1>1, <1>2, <1>4, <2>1, TurnEffect
  <2> QED
    BY <1>2, <1>3, <1>6, <2>1, <2>2
<1>7. CASE props[A(t, n).obj] # 0
  <2>1. /\ props' = [props EXCEPT ![A(t, n).obj] = 0]
        /\ cleaned' = [cleaned EXCEPT ![props[A(t, n).obj]] = @ + 1]
    BY <1>2, <1>7 DEF RemoveOld
  <2>2. stack' = [stack EXCEPT ![t] = <<g, f>> \o Tail(@)]
    BY <1>2, <1>7 DEF RemoveOld, GoAndCall, Callback, CallbackFrame
  <2>3. Calls(t, n, f, g) /\ Stacked'
    <3> HIDE DEF f, g
    <3> QED
      BY <1>1, <1>2, <1>4, <1>5, <2>2, CallsEffect
  <2> QED
    BY <1>2, <1>3, <1>7, <2>1, <2>3
<1> QED
  BY <1>6, <1>7

(* InsertNew puts the new value if the name is free, and unlocks.          *)
LEMMA InsertNewDoes ==
  ASSUME Typed, NEW t \in Threads, InsertNew(t), NEW n \in Nat, n = D(t)
  PROVE  /\ Stacked' /\ A(t, n).at = "insert" /\ A(t, n).op = "set" /\ A(t, n).obj \in Objects
         /\ Pops(t, n) /\ lock' = [lock EXCEPT ![A(t, n).obj] = Released(@)]
         /\ \/ /\ A(t, n).v # 0 /\ props[A(t, n).obj] = 0
               /\ props' = [props EXCEPT ![A(t, n).obj] = A(t, n).v]
               /\ accepted' = accepted \cup {A(t, n).v}
            \/ UNCHANGED <<props, accepted>>
<1>1. Stacked /\ In(t, "insert") /\ Return(t)
  BY DEF Typed, InsertNew
<1>2. stack[t] # <<>> /\ n >= 1 /\ A(t, n).at = "insert" /\ Top(t) = A(t, n) /\ A(t, n) \in Frames
  BY <1>1, InIs
<1>3. A(t, n).op = "set" /\ A(t, n).obj \in Objects
  BY <1>2, FieldsOf DEF FrameOK, Records, Using
<1>4. Pops(t, n) /\ Stacked'
  BY <1>1, <1>2, PopEffect
<1> QED
  BY <1>2, <1>3, <1>4 DEF InsertNew, CanInsertProperty

(* Iterate shows the item there is to a callback, the lock kept.           *)
LEMMA IterateDoes ==
  ASSUME Typed, NEW t \in Threads, Iterate(t), NEW n \in Nat, n = D(t)
  PROVE  /\ Stacked' /\ n >= 1 /\ A(t, n).at = "iterate" /\ A(t, n).op = "enumerate" /\ A(t, n).obj \in Objects
         /\ UNCHANGED lock
         /\ \/ /\ props[A(t, n).obj] = 0
               /\ Turns(t, n, [A(t, n) EXCEPT !.at = "enumerated"])
            \/ /\ props[A(t, n).obj] # 0
               /\ \E f \in Frames :
                    /\ f.op = "enumerate" /\ f.at = "enumerated" /\ f.id = A(t, n).id
                    /\ f.obj = A(t, n).obj /\ f.v = props[A(t, n).obj] /\ f.calls = {}
                    /\ Calls(t, n, f, CallbackFrame(A(t, n).obj, {"get"}))
<1>1. Stacked /\ In(t, "iterate")
  BY DEF Typed, Iterate
<1>2. stack[t] # <<>> /\ n >= 1 /\ A(t, n).at = "iterate" /\ Top(t) = A(t, n) /\ A(t, n) \in Frames
  BY <1>1, InIs
<1>3. A(t, n).op = "enumerate" /\ A(t, n).obj \in Objects /\ A(t, n).calls = {} /\ A(t, n) \in Records /\ FrameOK(A(t, n))
  BY <1>2, FieldsOf DEF FrameOK, Records, Using
<1>8. UNCHANGED lock
  BY <1>3, <1>2 DEF Iterate, LockDuringCallback, Typed
<1>6. CASE props[A(t, n).obj] = 0
  <2> DEFINE f == [A(t, n) EXCEPT !.at = "enumerated"]
  <2>1. stack' = [stack EXCEPT ![t] = <<f>> \o Tail(@)]
    BY <1>2, <1>6 DEF Iterate, GoOn
  <2>3. f \in Frames
    BY <1>2, MovedType
  <2>2. Turns(t, n, f) /\ Stacked'
    <3> HIDE DEF f
    <3> QED
      BY <1>1, <1>2, <2>1, <2>3, TurnEffect
  <2> QED
    BY <1>2, <1>3, <1>6, <1>8, <2>2
<1>7. CASE props[A(t, n).obj] # 0
  <2> DEFINE x == A(t, n)
             f == [x EXCEPT !.at = "enumerated", !.v = props[x.obj]]
             g == CallbackFrame(x.obj, {"get"})
  <2>2. stack' = [stack EXCEPT ![t] = <<g, f>> \o Tail(@)]
    BY <1>2, <1>7 DEF Iterate, Callback, CallbackFrame
  <2>3. g \in Frames
    BY <1>3, CallbackType
  <2>4. f \in Records /\ f.op = "enumerate" /\ f.at = "enumerated" /\ f.id = x.id
        /\ f.obj = x.obj /\ f.v = props[x.obj] /\ f.calls = {}
    BY <1>2, <1>3 DEF Records, Typed
  <2>5. FrameOK(f)
    <3> HIDE DEF f
    <3> QED
      BY <1>2, <1>3, <2>4 DEF FrameOK, Using
  <2>6. f \in Frames
    BY <2>4, <2>5 DEF Frames
  <2>7. Calls(t, n, f, g) /\ Stacked'
    <3> HIDE DEF f, g
    <3> QED
      BY <1>1, <1>2, <2>2, <2>3, <2>6, CallsEffect
  <2> QED
    BY <1>2, <1>3, <1>7, <1>8, <2>4, <2>6, <2>7
<1> QED
  BY <1>6, <1>7

(* EndEnumerate unlocks and ends the call.                                 *)
LEMMA EndEnumerateDoes ==
  ASSUME Typed, NEW t \in Threads, EndEnumerate(t), NEW n \in Nat, n = D(t)
  PROVE  /\ Stacked' /\ A(t, n).at = "enumerated" /\ A(t, n).op = "enumerate" /\ A(t, n).obj \in Objects
         /\ Pops(t, n) /\ lock' = [lock EXCEPT ![A(t, n).obj] = Released(@)]
<1>1. Stacked /\ In(t, "enumerated") /\ Return(t)
  BY DEF Typed, EndEnumerate
<1>2. stack[t] # <<>> /\ n >= 1 /\ A(t, n).at = "enumerated" /\ Top(t) = A(t, n) /\ A(t, n) \in Frames
  BY <1>1, InIs
<1>3. A(t, n).op = "enumerate" /\ A(t, n).obj \in Objects
  BY <1>2, FieldsOf DEF FrameOK, Records, Using
<1> QED
  BY <1>1, <1>2, <1>3, PopEffect DEF EndEnumerate

(* RemoveGroup takes the table's lock and the group out of the table.      *)
LEMMA RemoveGroupDoes ==
  ASSUME Typed, Table, NEW t \in Threads, RemoveGroup(t), NEW n \in Nat, n = D(t),
         A(t, n).id \in DOMAIN SDL_properties
  PROVE  /\ Stacked' /\ n >= 1 /\ A(t, n).at = "remove" /\ A(t, n).op = "destroy"
         /\ CanTake(SDL_properties_lock, t) /\ SDL_properties_lock' = Taken(SDL_properties_lock, t)
         /\ SDL_properties' = TableWithout(A(t, n).id)
         /\ \E f \in Frames :
              /\ f.op = "destroy" /\ f.at = "nuke" /\ f.id = A(t, n).id
              /\ f.obj = SDL_properties[A(t, n).id] /\ f.v = 0 /\ f.calls = {}
              /\ Turns(t, n, f)
<1>1. Stacked /\ In(t, "remove")
  BY DEF Typed, RemoveGroup
<1>2. stack[t] # <<>> /\ n >= 1 /\ A(t, n).at = "remove" /\ Top(t) = A(t, n) /\ A(t, n) \in Frames
  BY <1>1, InIs
<1> DEFINE x == A(t, n)
           f == [x EXCEPT !.at = "nuke", !.obj = SDL_properties[x.id]]
<1>3. x.op = "destroy" /\ x \in Records /\ FrameOK(x) /\ x.calls = {} /\ x.v = 0
  BY <1>2, FieldsOf DEF FrameOK, Records, Using
<1>4. SDL_properties[x.id] \in Objects /\ SDL_properties[x.id] \in Nat
  BY ObjectOf
<1>5. f \in Records /\ f.op = "destroy" /\ f.at = "nuke" /\ f.id = x.id
      /\ f.obj = SDL_properties[x.id] /\ f.v = 0 /\ f.calls = {}
  BY <1>3, <1>4 DEF Records
<1>6. FrameOK(f)
  <2> HIDE DEF f
  <2> QED
    BY <1>3, <1>4, <1>5 DEF FrameOK, Using
<1>7. f \in Frames
  BY <1>5, <1>6 DEF Frames
<1>8. stack' = [stack EXCEPT ![t] = <<f>> \o Tail(@)]
  BY <1>2 DEF RemoveGroup, GoWith
<1> HIDE DEF f
<1>9. Turns(t, n, f) /\ Stacked'
  BY <1>1, <1>2, <1>7, <1>8, TurnEffect
<1> QED
  BY <1>2, <1>3, <1>5, <1>7, <1>9 DEF RemoveGroup

(* Nuke cleans up the value that the group has.                            *)
LEMMA NukeDoes ==
  ASSUME Typed, NEW t \in Threads, Nuke(t), NEW n \in Nat, n = D(t)
  PROVE  /\ Stacked' /\ n >= 1 /\ A(t, n).at = "nuke" /\ A(t, n).op \in {"destroy", "nuke"} /\ A(t, n).obj \in Objects
         /\ \/ /\ props[A(t, n).obj] = 0 /\ UNCHANGED cleaned
               /\ Turns(t, n, [A(t, n) EXCEPT !.at = "free"])
            \/ /\ props[A(t, n).obj] # 0
               /\ cleaned' = [cleaned EXCEPT ![props[A(t, n).obj]] = @ + 1]
               /\ Calls(t, n, [A(t, n) EXCEPT !.at = "free"], CallbackFrame(A(t, n).obj, CleanupMay))
<1>1. Stacked /\ In(t, "nuke")
  BY DEF Typed, Nuke
<1>2. stack[t] # <<>> /\ n >= 1 /\ A(t, n).at = "nuke" /\ Top(t) = A(t, n) /\ A(t, n) \in Frames
  BY <1>1, InIs
<1>3. A(t, n).op \in {"destroy", "nuke"} /\ A(t, n).obj \in Objects
  BY <1>2, FieldsOf DEF FrameOK, Records, Using
<1> DEFINE f == [A(t, n) EXCEPT !.at = "free"]
           g == CallbackFrame(A(t, n).obj, CleanupMay)
<1>4. f \in Frames
  BY <1>2, MovedType
<1>5. g \in Frames
  BY <1>3, CallbackType, CleanupMayType
<1>6. CASE props[A(t, n).obj] = 0
  <2>1. UNCHANGED cleaned /\ stack' = [stack EXCEPT ![t] = <<f>> \o Tail(@)]
    BY <1>2, <1>6 DEF Nuke, GoOn
  <2>2. Turns(t, n, f) /\ Stacked'
    <3> HIDE DEF f
    <3> QED
      BY <1>1, <1>2, <1>4, <2>1, TurnEffect
  <2> QED
    BY <1>2, <1>3, <1>6, <2>1, <2>2
<1>7. CASE props[A(t, n).obj] # 0
  <2>1. cleaned' = [cleaned EXCEPT ![props[A(t, n).obj]] = @ + 1]
    BY <1>2, <1>7 DEF Nuke
  <2>2. stack' = [stack EXCEPT ![t] = <<g, f>> \o Tail(@)]
    BY <1>2, <1>7 DEF Nuke, GoAndCall, Callback, CallbackFrame
  <2>3. Calls(t, n, f, g) /\ Stacked'
    <3> HIDE DEF f, g
    <3> QED
      BY <1>1, <1>2, <1>4, <1>5, <2>2, CallsEffect
  <2> QED
    BY <1>2, <1>3, <1>7, <2>1, <2>3
<1> QED
  BY <1>6, <1>7

(* FreeProperties frees the group and ends its destruction.                *)
LEMMA FreeDoes ==
  ASSUME Typed, NEW t \in Threads, FreeProperties(t), NEW n \in Nat, n = D(t)
  PROVE  /\ Stacked' /\ A(t, n).at = "free" /\ A(t, n).op \in {"destroy", "nuke"} /\ A(t, n).obj \in Objects
         /\ Pops(t, n) /\ freed' = freed \cup {A(t, n).obj}
         /\ props' = [props EXCEPT ![A(t, n).obj] = 0]
         /\ SDL_properties_lock' = IF A(t, n).op = "destroy" THEN Released(SDL_properties_lock)
                                   ELSE SDL_properties_lock
<1>1. Stacked /\ In(t, "free") /\ Return(t)
  BY DEF Typed, FreeProperties
<1>2. stack[t] # <<>> /\ n >= 1 /\ A(t, n).at = "free" /\ Top(t) = A(t, n) /\ A(t, n) \in Frames
  BY <1>1, InIs
<1>3. A(t, n).op \in {"destroy", "nuke"} /\ A(t, n).obj \in Objects
  BY <1>2, FieldsOf DEF FrameOK, Records, Using
<1>4. Pops(t, n) /\ Stacked'
  BY <1>1, <1>2, PopEffect
<1> QED
  BY <1>2, <1>3, <1>4 DEF FreeProperties

(* The least of some numbers is one of them.                               *)
LEMMA MinIn == ASSUME NEW S \in SUBSET Nat, S # {} PROVE Min(S) \in S
<1>1. PICK x \in S : \A y \in S : ~ (<<y, x>> \in OpToRel(<, Nat))
  BY NatLessThanWellFounded, WFMin
<1>2. \A y \in S : x <= y
  <2>1. SUFFICES ASSUME NEW y \in S, ~ (x <= y) PROVE FALSE
    OBVIOUS
  <2>2. y \in Nat /\ x \in Nat
    OBVIOUS
  <2>3. y < x
    BY <2>1, <2>2
  <2>4. <<y, x>> \in OpToRel(<, Nat)
    BY <2>2, <2>3 DEF OpToRel
  <2> QED
    BY <1>1, <2>4
<1> QED
  BY <1>2 DEF Min

(* DestroyHashTable frees a group that the table still has, or ends.       *)
LEMMA SweepDoes ==
  ASSUME Typed, Table, NEW t \in Threads, DestroyHashTable(t), NEW n \in Nat, n = D(t)
  PROVE  /\ Stacked' /\ n >= 1 /\ A(t, n).at = "sweep" /\ A(t, n).op = "quit"
         /\ \/ /\ \A id \in DOMAIN SDL_properties : SDL_properties[id] \in freed
               /\ SDL_properties' = [id \in {} |-> 0] /\ Pops(t, n)
            \/ /\ UNCHANGED SDL_properties
               /\ \E id \in DOMAIN SDL_properties, f \in Frames :
                    /\ SDL_properties[id] \notin freed
                    /\ f.op = "nuke" /\ f.at = "nuke" /\ f.id = id /\ f.obj = SDL_properties[id]
                    /\ f.v = 0 /\ f.calls = {}
                    /\ Pushes(t, n, f)
<1>1. Stacked /\ In(t, "sweep")
  BY DEF Typed, DestroyHashTable
<1>2. stack[t] # <<>> /\ n >= 1 /\ A(t, n).at = "sweep" /\ Top(t) = A(t, n) /\ A(t, n) \in Frames
  BY <1>1, InIs
<1>3. A(t, n).op = "quit"
  BY <1>2, FieldsOf DEF FrameOK, Records, Using
<1> DEFINE left == {id \in DOMAIN SDL_properties : SDL_properties[id] \notin freed}
<1>4. CASE left = {}
  <2>1. SDL_properties' = [id \in {} |-> 0] /\ Return(t)
    BY <1>4 DEF DestroyHashTable
  <2>2. Pops(t, n) /\ Stacked'
    BY <1>1, <1>2, <2>1, PopEffect
  <2> QED
    BY <1>2, <1>3, <1>4, <2>1, <2>2
<1>5. CASE left # {}
  <2>1. left \subseteq Nat
    BY PropertiesAssumption DEF Table, IDs
  <2> DEFINE id == Min(left)
             f == [op |-> "nuke", at |-> "nuke", id |-> id, obj |-> SDL_properties[id], v |-> 0, calls |-> {}]
  <2>2. id \in DOMAIN SDL_properties /\ SDL_properties[id] \notin freed
    BY <1>5, <2>1, MinIn
  <2>3. stack' = [stack EXCEPT ![t] = <<f>> \o @] /\ UNCHANGED SDL_properties
    BY <1>5 DEF DestroyHashTable
  <2> HIDE DEF id
  <2>4. SDL_properties[id] \in Objects /\ SDL_properties[id] \in Nat /\ id \in IDs /\ id \in Nat
    BY <2>2, ObjectOf, PropertiesAssumption DEF Table, IDs
  <2>5. f \in Frames
    BY <2>4, PropertiesAssumption DEF Frames, Records, FrameOK, Using
  <2>6. Pushes(t, n, f) /\ Stacked'
    <3> HIDE DEF f
    <3> QED
      BY <1>1, <2>3, <2>5, PushEffect
  <2> QED
    BY <1>2, <1>3, <2>2, <2>3, <2>5, <2>6
<1> QED
  BY <1>4, <1>5

(* The frame of SDL_QuitProperties.                                        *)
QuitFrame == NewFrame("quit", "sweep", 0, 0)

(* SDL_QuitProperties begins with the global group, nobody else being in a *)
(* call.                                                                   *)
LEMMA QuitDoes ==
  ASSUME Typed, NEW t \in Threads, SDL_QuitProperties(t)
  PROVE  /\ Stacked' /\ ~quitting /\ quitting' /\ \A u \in Threads : D(u) = 0 /\ held[u] = 0
         /\ \A u \in Threads : u # t => D(u)' = 0
         /\ D(t)' = 2 /\ A(t, 1)' = QuitFrame /\ A(t, 2)' = NewFrame("destroy", "remove", 1, 0)
<1> DEFINE s == <<NewFrame("destroy", "remove", 1, 0), QuitFrame>>
<1>1. NewFrame("destroy", "remove", 1, 0) \in Frames
  <2>1. 1 \in IDs /\ 0 \in 0 .. MaxValues
    BY PropertiesAssumption DEF IDs
  <2> QED
    BY <2>1, NewFrameType
<1>2. QuitFrame \in Frames
  BY PropertiesAssumption DEF QuitFrame, NewFrame, Frames, Records, FrameOK, Using
<1>3. stack' = [stack EXCEPT ![t] = s]
  BY DEF SDL_QuitProperties, QuitFrame, NewFrame
<1>4. ~quitting /\ quitting' /\ \A u \in Threads : stack[u] = <<>> /\ held[u] = 0
  BY DEF SDL_QuitProperties
<1>5. stack \in [Threads -> Seq(Frames)]
  BY DEF Typed, Stacked
<1>6. s \in Seq(Frames) /\ Len(s) = 2 /\ s[1] = NewFrame("destroy", "remove", 1, 0) /\ s[2] = QuitFrame
  BY <1>1, <1>2
<1> HIDE DEF s
<1>7. stack' \in [Threads -> Seq(Frames)] /\ stack'[t] = s /\ \A u \in Threads : u # t => stack'[u] = <<>>
  BY <1>3, <1>4, <1>5, <1>6
<1>8. \A u \in Threads : D(u) = 0
  BY <1>4 DEF D
<1>9. \A u \in Threads : u # t => D(u)' = 0
  BY <1>7 DEF D
<1>10. D(t)' = 2
  BY <1>6, <1>7 DEF D
<1>11. A(t, 1)' = QuitFrame
  <2>1. A(t, 1)' = s[2 + 1 - 1]
    BY <1>6, <1>7 DEF A
  <2> QED
    BY <1>6, <2>1
<1>12. A(t, 2)' = NewFrame("destroy", "remove", 1, 0)
  <2>1. A(t, 2)' = s[2 + 1 - 2]
    BY <1>6, <1>7 DEF A
  <2> QED
    BY <1>6, <2>1
<1> QED
  BY <1>4, <1>7, <1>8, <1>9, <1>10, <1>11, <1>12 DEF Stacked

-----------------------------------------------------------------------------
(* Clause Nested: only a callback's caller, and SDL_QuitProperties, wait   *)
(* below another call, and a callback is about its caller's group.         *)
Nested ==
  \A t \in Threads : \A p \in 1 .. D(t) :
    /\ p < D(t) => A(t, p).at \in Below \cup {"callback", "sweep"}
    /\ A(t, p).op = "callback" => p > 1 /\ A(t, p - 1).at \in Below /\ A(t, p - 1).obj = A(t, p).obj

(* Clause Outer: groups are locked, unlocked and enumerated from outside   *)
(* only, by threads that have none locked, or the one to be unlocked; an   *)
(* enumeration's callback only gets.                                       *)
Outer ==
  \A t \in Threads : \A p \in 1 .. D(t) :
    /\ A(t, p).op \in {"lock", "unlock", "enumerate"} => p = 1
    /\ A(t, p).op \in {"lock", "enumerate"} => held[t] = 0
    /\ A(t, p).op = "unlock" => held[t] # 0 /\ A(t, p).id = idOf[held[t]]
    /\ A(t, p).op = "enumerate" =>
         \A q \in p + 1 .. D(t) : A(t, q).op \in {"callback", "get"} /\ A(t, q).calls \subseteq {"get"}

(* The group of a call is in the table under the call's ID.                *)
Linked(f) == f.id \in DOMAIN SDL_properties /\ SDL_properties[f.id] = f.obj
(* A locked group is in the table under its ID.                            *)
HeldLinked ==
  \A t \in Threads : held[t] # 0 =>
    /\ held[t] \in DOMAIN idOf /\ idOf[held[t]] \in DOMAIN SDL_properties
    /\ SDL_properties[idOf[held[t]]] = held[t]
(* Clause Links: so is the group of every call that has found it; a group  *)
(* that is being destroyed is in the table no more, and no call has one    *)
(* that was freed.                                                         *)
FrameLinked(f) ==
  /\ f.op \in Using /\ f.at # "find" => Linked(f)
  /\ f.op = "nuke" => Linked(f)
  /\ f.op = "destroy" /\ f.at = "remove" => f.id \in DOMAIN SDL_properties
  /\ f.op = "destroy" /\ f.at # "remove" =>
       f.obj \in DOMAIN idOf /\ idOf[f.obj] = f.id /\ f.id \notin DOMAIN SDL_properties
  /\ f.obj \notin freed
Links == HeldLinked /\ \A t \in Threads : \A p \in 1 .. D(t) : FrameLinked(A(t, p))

(* Clause Destroying: an ID that is being destroyed has no user but that   *)
(* call and the sets and gets of its cleanup, and no holder.               *)
Destroying ==
  \A t \in Threads : \A p \in 1 .. D(t) :
    A(t, p).op = "destroy" =>
      /\ \A u \in Threads : \A q \in 1 .. D(u) :
           A(u, q).id = A(t, p).id =>
             u = t /\ (q = p \/ (q > p /\ A(u, q).at = "find" /\ A(u, q).op \in {"set", "get"}))
      /\ \A u \in Threads : held[u] # 0 => idOf[held[u]] # A(t, p).id

(* Clause Quit: after SDL_QuitProperties has begun, one thread is left,    *)
(* with its frame, the group that it frees and a callback that calls       *)
(* nothing.                                                                *)
Quit ==
  /\ ~quitting => \A t \in Threads : \A p \in 1 .. D(t) : A(t, p).op \notin {"quit", "nuke"}
  /\ quitting =>
       /\ \A t \in Threads : held[t] = 0
       /\ \A t, u \in Threads : D(t) > 0 /\ D(u) > 0 => t = u
       /\ \A t \in Threads : \A p \in 1 .. D(t) :
            /\ p = 1 => A(t, p).op = "quit"
            /\ p = 2 => A(t, p).op \in {"destroy", "nuke"}
            /\ p = 3 => A(t, p).op = "callback" /\ A(t, p).calls = {}
            /\ p <= 3

(* What a step does to the calls, whichever action it is: a call begins,   *)
Enters(t, n, f) ==
  /\ Pushes(t, n, f) /\ f.op \in Using \cup {"destroy"} /\ f.obj = 0 /\ f.calls = {}
  /\ f.at = IF f.op = "destroy" THEN "remove" ELSE "find"
  /\ f.op # "unlock" => Caller(t, n, f.op)
  /\ f.op \in {"set", "get", "lock", "enumerate"} => Reach(t, n, f.id) /\ (MayUse(f.id) \/ Destroys(t, f.id))
  /\ f.op \in {"lock", "enumerate"} => held[t] = 0
  /\ f.op = "unlock" => n = 0 /\ held[t] # 0 /\ f.id = idOf[held[t]]
  /\ f.op = "destroy" => MayDestroy(f.id) /\ (n = 0 => held[t] = 0)
  /\ UNCHANGED <<held, quitting>>

(* ... the last call goes to its next place,                               *)
GoesOn(t, n, f) ==
  /\ Turns(t, n, f) /\ f.op = A(t, n).op /\ f.id = A(t, n).id /\ f.calls = {}
  /\ f.op \notin {"callback", "quit"} /\ f.at \notin {"find", "remove"}
  /\ A(t, n).at = "find" => A(t, n).id \in DOMAIN SDL_properties
  /\ A(t, n).at \in {"find", "lock", "change", "iterate", "remove", "nuke"}
  /\ f.at \in {"nuke", "free"} <=> A(t, n).at \in {"remove", "nuke"}
  /\ UNCHANGED <<held, quitting>>

(* ... it does, and calls back,                                            *)
CallsBack(t, n, f, g) ==
  /\ Calls(t, n, f, g) /\ f.op = A(t, n).op /\ f.id = A(t, n).id /\ f.obj = A(t, n).obj /\ f.calls = {}
  /\ f.op \notin {"callback", "quit"} /\ f.at \in Below
  /\ g.op = "callback" /\ g.at = "callback" /\ g.id = 0 /\ g.obj = f.obj
  /\ A(t, n).at \in {"change", "iterate", "nuke"}
  /\ f.op = "enumerate" => g.calls = {"get"}
  /\ f.op # "enumerate" => g.calls = CleanupMay
  /\ f.at = "free" <=> A(t, n).at = "nuke"
  /\ UNCHANGED <<held, quitting>>

(* ... it ends, with a lock taken or given back,                           *)
Finishes(t, n) ==
  /\ Pops(t, n) /\ UNCHANGED quitting
  /\ \A u \in Threads : u # t => held'[u] = held[u]
  /\ \/ held'[t] = held[t]
     \/ held'[t] = 0 /\ A(t, n).op = "unlock"
     \/ held'[t] = A(t, n).obj /\ A(t, n).op = "lock" /\ A(t, n).at = "lock"

(* ... SDL_QuitProperties frees the next group,                            *)
Sweeps(t, n, f) ==
  /\ Pushes(t, n, f) /\ n >= 1 /\ A(t, n).op = "quit" /\ A(t, n).at = "sweep"
  /\ f.op = "nuke" /\ f.at = "nuke" /\ f.calls = {}
  /\ UNCHANGED <<held, quitting>>

(* ... or it begins.                                                       *)
Quits(t) ==
  /\ ~quitting /\ quitting' /\ \A u \in Threads : D(u) = 0 /\ held[u] = 0
  /\ \A u \in Threads : u # t => D(u)' = 0
  /\ D(t)' = 2 /\ A(t, 1)' = QuitFrame /\ A(t, 2)' = NewFrame("destroy", "remove", 1, 0)
  /\ UNCHANGED held

(* Groups keep the ID that they were made with.                            *)
Grows == \A o \in DOMAIN idOf : o \in DOMAIN idOf' /\ idOf'[o] = idOf[o]

(* Every step is one of these for the thread that takes it.                *)
Move(t, n) ==
  /\ Grows
  /\ \/ \E f \in Frames : Enters(t, n, f)
     \/ \E f \in Frames : GoesOn(t, n, f)
     \/ \E f, g \in Frames : CallsBack(t, n, f, g)
     \/ Finishes(t, n)
     \/ \E f \in Frames : Sweeps(t, n, f)
     \/ Quits(t)
     \/ UNCHANGED <<stack, held, quitting>>

(* Next, for one thread.                                                   *)
NextOf(t) ==
  \/ \E id \in IDs :
       CallSet(t, id) \/ (\E op \in {"lock", "get", "enumerate"} : CallReader(t, op, id))
       \/ CallDestroy(t, id)
  \/ CallUnlock(t) \/ SDL_CreateProperties(t) \/ SDL_QuitProperties(t)
  \/ Step(t)

(* No new ID, no change.                                                   *)
LEMMA SameIdOf == UNCHANGED idOf => Grows
  BY DEF Grows

(* A call that begins with its operation's conditions Enters.              *)
LEMMA EntersIs ==
  ASSUME Typed, Table, NEW t \in Threads, NEW n \in Nat, n = D(t), UNCHANGED <<held, quitting>>,
         NEW id \in IDs, NEW v \in 0 .. MaxValues,
         NEW op \in Using \cup {"destroy"}, op # "set" => v = 0,
         Pushes(t, n, NewFrame(op, IF op = "destroy" THEN "remove" ELSE "find", id, v)),
         op # "unlock" => Caller(t, n, op),
         op \in {"set", "get", "lock", "enumerate"} => Reach(t, n, id) /\ (MayUse(id) \/ Destroys(t, id)),
         op \in {"lock", "enumerate"} => held[t] = 0,
         op = "unlock" => n = 0 /\ held[t] # 0 /\ id = idOf[held[t]],
         op = "destroy" => MayDestroy(id) /\ (n = 0 => held[t] = 0)
  PROVE  \E f \in Frames : Enters(t, n, f)
<1> DEFINE f == NewFrame(op, IF op = "destroy" THEN "remove" ELSE "find", id, v)
<1>1. f \in Frames
  BY NewFrameType DEF Using
<1>2. f.op = op /\ f.obj = 0 /\ f.calls = {} /\ f.id = id /\ f.at = IF op = "destroy" THEN "remove" ELSE "find"
  BY DEF NewFrame
<1>3. Pushes(t, n, f)
  OBVIOUS
<1> HIDE DEF f
<1>4. Enters(t, n, f)
  BY <1>2, <1>3 DEF Enters
<1> QED
  BY <1>1, <1>4

(* Every step is a Move: what follows about the calls is shown once for    *)
(* each kind of move, and not for each action.                             *)
LEMMA NextMoves ==
  ASSUME Typed, Table, Links, NEW t \in Threads, NextOf(t), NEW n \in Nat, n = D(t)
  PROVE  Move(t, n) /\ Stacked'
<1> USE DEF table, values
<1>0. Stacked
  BY DEF Typed
<1>1. ASSUME NEW id \in IDs, CallSet(t, id) PROVE Move(t, n) /\ Stacked'
  <2>1. Grows /\ UNCHANGED <<held, quitting>>
    BY <1>1, SameIdOf DEF CallSet
  <2>2. PICK w \in 0 .. MaxValues : Pushes(t, n, NewFrame("set", "find", id, w))
    <3>1. given \in Nat /\ 0 \in 0 .. MaxValues
      BY PropertiesAssumption DEF Typed
    <3> QED
      BY <1>1, <3>1, PropertiesAssumption, CallSetDoes
  <2>3. \E f \in Frames : Enters(t, n, f)
    BY <1>1, <2>1, <2>2, CallSetDoes, EntersIs DEF Using
  <2> QED
    BY <1>1, <2>1, <2>3, CallSetDoes DEF Move
<1>2. ASSUME NEW id \in IDs, NEW op \in {"lock", "get", "enumerate"}, CallReader(t, op, id)
      PROVE Move(t, n) /\ Stacked'
  <2>1. Grows /\ UNCHANGED <<held, quitting>>
    BY <1>2, SameIdOf DEF CallReader
  <2>2. 0 \in 0 .. MaxValues
    BY PropertiesAssumption
  <2>3. \E f \in Frames : Enters(t, n, f)
    BY <1>2, <2>1, <2>2, CallReaderDoes, EntersIs DEF Using
  <2> QED
    BY <1>2, <2>1, <2>3, CallReaderDoes DEF Move
<1>3. ASSUME NEW id \in IDs, CallDestroy(t, id) PROVE Move(t, n) /\ Stacked'
  <2>1. Grows /\ UNCHANGED <<held, quitting>>
    BY <1>3, SameIdOf DEF CallDestroy
  <2>2. 0 \in 0 .. MaxValues
    BY PropertiesAssumption
  <2>3. \E f \in Frames : Enters(t, n, f)
    BY <1>3, <2>1, <2>2, CallDestroyDoes, EntersIs DEF Using
  <2> QED
    BY <1>3, <2>1, <2>3, CallDestroyDoes DEF Move
<1>4. CASE CallUnlock(t)
  <2>1. Grows /\ UNCHANGED <<held, quitting>>
    BY <1>4, SameIdOf DEF CallUnlock
  <2>2. 0 \in 0 .. MaxValues
    BY PropertiesAssumption
  <2>4. held[t] \in DOMAIN idOf /\ idOf[held[t]] \in IDs
    BY <1>4 DEF Links, HeldLinked, CallUnlock, Table
  <2>3. \E f \in Frames : Enters(t, n, f)
    BY <1>4, <2>1, <2>2, <2>4, CallUnlockDoes, EntersIs DEF Using
  <2> QED
    BY <1>4, <2>1, <2>3, <2>4, CallUnlockDoes DEF Move
<1>5. CASE SDL_CreateProperties(t)
  <2>1. UNCHANGED <<stack, held, quitting>>
    BY <1>5 DEF SDL_CreateProperties
  <2>2. Grows
    <3>1. CASE UNCHANGED idOf
      BY <3>1, SameIdOf
    <3>2. CASE idOf' = With(idOf, made', NextID)
      <4>1. made' \notin DOMAIN idOf
        BY <1>5, PropertiesAssumption DEF Table, SDL_CreateProperties, Typed
      <4> QED
        BY <3>2, <4>1 DEF Grows, With
    <3> QED
      BY <1>5, <3>1, <3>2 DEF SDL_CreateProperties
  <2> QED
    BY <1>0, <2>1, <2>2 DEF Move, Stacked
<1>6. CASE SDL_QuitProperties(t)
  <2>1. Grows /\ UNCHANGED held
    BY <1>6, SameIdOf DEF SDL_QuitProperties
  <2> QED
    BY <1>6, <2>1, QuitDoes DEF Move, Quits
<1>7. CASE CallbackReturns(t)
  <2>1. Grows /\ UNCHANGED <<held, quitting>>
    BY <1>7, SameIdOf DEF CallbackReturns
  <2> QED
    BY <1>7, <2>1, CallbackReturnsDoes DEF Move, Finishes
<1>8. CASE Find(t)
  <2>1. Grows /\ UNCHANGED <<held, quitting>>
    BY <1>8, SameIdOf DEF Find
  <2>2. Stacked' /\ n >= 1 /\ A(t, n).at = "find"
    BY <1>8, FindDoes
  <2>3. CASE A(t, n).id \notin DOMAIN SDL_properties
    BY <1>8, <2>1, <2>2, <2>3, FindDoes DEF Move, Finishes
  <2>4. CASE A(t, n).id \in DOMAIN SDL_properties
    <3>1. PICK f \in Frames :
              /\ f.op = A(t, n).op /\ f.id = A(t, n).id /\ f.obj = SDL_properties[A(t, n).id]
              /\ f.v = A(t, n).v /\ f.calls = A(t, n).calls
              /\ f.at = IF f.op = "unlock" THEN "unlock" ELSE "lock"
              /\ Turns(t, n, f)
      BY <1>8, <2>4, FindDoes
    <3>2. A(t, n) \in Frames
      BY <1>0, <2>2, FrameType
    <3>3. f.op \notin {"callback", "quit"} /\ f.calls = {}
      BY <2>2, <3>1, <3>2, FieldsOf DEF FrameOK, Using, Records
    <3>4. GoesOn(t, n, f)
      BY <2>1, <2>2, <2>4, <3>1, <3>3 DEF GoesOn
    <3> QED
      BY <2>1, <2>2, <3>4 DEF Move
  <2> QED
    BY <2>3, <2>4
<1>9. CASE Acquire(t)
  <2>1. Grows /\ UNCHANGED quitting
    BY <1>9, SameIdOf DEF Acquire
  <2>2. Stacked' /\ n >= 1 /\ A(t, n).at = "lock"
    BY <1>9, AcquireDoes
  <2>3. CASE A(t, n).op = "lock" /\ Pops(t, n) /\ held' = [held EXCEPT ![t] = A(t, n).obj]
    <3>1. held'[t] = A(t, n).obj /\ \A u \in Threads : u # t => held'[u] = held[u]
      BY <2>3 DEF Typed
    <3> QED
      BY <2>1, <2>2, <2>3, <3>1 DEF Move, Finishes
  <2>4. CASE A(t, n).op = "get" /\ Pops(t, n) /\ UNCHANGED <<lock, held>>
    BY <2>1, <2>2, <2>4 DEF Move, Finishes
  <2>5. CASE /\ A(t, n).op \in {"set", "enumerate"} /\ UNCHANGED held
             /\ Turns(t, n, [A(t, n) EXCEPT !.at = IF A(t, n).op = "set" THEN "change" ELSE "iterate"])
    <3> DEFINE f == [A(t, n) EXCEPT !.at = IF A(t, n).op = "set" THEN "change" ELSE "iterate"]
    <3>1. A(t, n) \in Frames
      BY <1>0, <2>2, FrameType
    <3>2. f \in Frames /\ f.op = A(t, n).op /\ f.id = A(t, n).id /\ f.calls = A(t, n).calls
          /\ f.at = IF A(t, n).op = "set" THEN "change" ELSE "iterate"
      BY <2>2, <2>5, <3>1, MovedType
    <3>4. Turns(t, n, f)
      BY <2>5
    <3> HIDE DEF f
    <3>3. f.calls = {}
      BY <2>5, <3>1, <3>2, FieldsOf DEF FrameOK
    <3>5. GoesOn(t, n, f)
      BY <2>1, <2>2, <2>5, <3>2, <3>3, <3>4 DEF GoesOn
    <3> QED
      BY <2>1, <2>2, <3>2, <3>5 DEF Move
  <2> QED
    BY <1>9, <2>3, <2>4, <2>5, AcquireDoes
<1>10. CASE SDL_UnlockProperties(t)
  <2>1. Grows /\ UNCHANGED quitting
    BY <1>10, SameIdOf DEF SDL_UnlockProperties
  <2>2. Stacked' /\ A(t, n).op = "unlock" /\ Pops(t, n)
    BY <1>10, UnlockDoes
  <2>3. held'[t] = 0 /\ \A u \in Threads : u # t => held'[u] = held[u]
    BY <1>10 DEF SDL_UnlockProperties, Typed
  <2> QED
    BY <2>1, <2>2, <2>3 DEF Move, Finishes
<1>11. CASE RemoveOld(t)
  <2>1. Grows /\ UNCHANGED <<held, quitting>>
    BY <1>11, SameIdOf DEF RemoveOld
  <2>2. Stacked' /\ n >= 1 /\ A(t, n).at = "change" /\ A(t, n).op = "set" /\ A(t, n).obj \in Objects
    BY <1>11, RemoveOldDoes
  <2> DEFINE f == [A(t, n) EXCEPT !.at = "insert"]
             g == CallbackFrame(A(t, n).obj, CleanupMay)
  <2>3. A(t, n) \in Frames
    BY <1>0, <2>2, FrameType
  <2>4. f \in Frames /\ f.op = "set" /\ f.id = A(t, n).id /\ f.calls = A(t, n).calls /\ f.at = "insert"
        /\ f.obj = A(t, n).obj
    BY <2>2, <2>3, MovedType
  <2>5. f.calls = {}
    BY <2>2, <2>3, <2>4, FieldsOf DEF FrameOK
  <2>6. g \in Frames /\ g.op = "callback" /\ g.at = "callback" /\ g.id = 0 /\ g.obj = A(t, n).obj /\ g.calls = CleanupMay
    BY <2>2, CallbackType, CleanupMayType DEF CallbackFrame
  <2>7. Turns(t, n, f) \/ Calls(t, n, f, g)
    BY <1>11, RemoveOldDoes
  <2> HIDE DEF f, g
  <2>8. CASE Turns(t, n, f)
    <3>1. GoesOn(t, n, f)
      BY <2>1, <2>2, <2>4, <2>5, <2>8 DEF GoesOn
    <3> QED
      BY <2>1, <2>2, <2>4, <3>1 DEF Move
  <2>9. CASE Calls(t, n, f, g)
    <3>1. CallsBack(t, n, f, g)
      BY <2>1, <2>2, <2>4, <2>5, <2>6, <2>9 DEF CallsBack, Below
    <3> QED
      BY <2>1, <2>2, <2>4, <2>6, <3>1 DEF Move
  <2> QED
    BY <2>7, <2>8, <2>9
<1>12. CASE InsertNew(t)
  <2>1. Grows /\ UNCHANGED <<held, quitting>>
    BY <1>12, SameIdOf DEF InsertNew
  <2> QED
    BY <1>12, <2>1, InsertNewDoes DEF Move, Finishes
<1>13. CASE Iterate(t)
  <2>1. Grows /\ UNCHANGED <<held, quitting>>
    BY <1>13, SameIdOf DEF Iterate
  <2>2. Stacked' /\ n >= 1 /\ A(t, n).at = "iterate" /\ A(t, n).op = "enumerate" /\ A(t, n).obj \in Objects
    BY <1>13, IterateDoes
  <2>3. A(t, n) \in Frames
    BY <1>0, <2>2, FrameType
  <2>8. CASE Turns(t, n, [A(t, n) EXCEPT !.at = "enumerated"])
    <3> DEFINE f == [A(t, n) EXCEPT !.at = "enumerated"]
    <3>4. f \in Frames /\ f.op = "enumerate" /\ f.id = A(t, n).id /\ f.calls = A(t, n).calls /\ f.at = "enumerated"
      BY <2>2, <2>3, MovedType
    <3>5. f.calls = {}
      BY <2>2, <2>3, <3>4, FieldsOf DEF FrameOK
    <3>6. Turns(t, n, f)
      BY <2>8
    <3> HIDE DEF f
    <3>1. GoesOn(t, n, f)
      BY <2>1, <2>2, <3>4, <3>5, <3>6 DEF GoesOn
    <3> QED
      BY <2>1, <2>2, <3>4, <3>1 DEF Move
  <2>9. CASE \E f \in Frames :
               /\ f.op = "enumerate" /\ f.at = "enumerated" /\ f.id = A(t, n).id
               /\ f.obj = A(t, n).obj /\ f.v = props[A(t, n).obj] /\ f.calls = {}
               /\ Calls(t, n, f, CallbackFrame(A(t, n).obj, {"get"}))
    <3>0. PICK f \in Frames :
               /\ f.op = "enumerate" /\ f.at = "enumerated" /\ f.id = A(t, n).id
               /\ f.obj = A(t, n).obj /\ f.v = props[A(t, n).obj] /\ f.calls = {}
               /\ Calls(t, n, f, CallbackFrame(A(t, n).obj, {"get"}))
      BY <2>9
    <3> DEFINE g == CallbackFrame(A(t, n).obj, {"get"})
    <3>6. g \in Frames /\ g.op = "callback" /\ g.at = "callback" /\ g.id = 0 /\ g.obj = A(t, n).obj /\ g.calls = {"get"}
      BY <2>2, CallbackType DEF CallbackFrame
    <3>7. Calls(t, n, f, g)
      BY <3>0
    <3> HIDE DEF g
    <3>1. CallsBack(t, n, f, g)
      BY <2>1, <2>2, <3>0, <3>6, <3>7 DEF CallsBack, Below
    <3> QED
      BY <2>1, <2>2, <3>6, <3>1 DEF Move
  <2> QED
    BY <1>13, <2>8, <2>9, IterateDoes
<1>14. CASE EndEnumerate(t)
  <2>1. Grows /\ UNCHANGED <<held, quitting>>
    BY <1>14, SameIdOf DEF EndEnumerate
  <2> QED
    BY <1>14, <2>1, EndEnumerateDoes DEF Move, Finishes
<1>15. CASE RemoveGroup(t)
  <2>1. Grows /\ UNCHANGED <<held, quitting>>
    BY <1>15, SameIdOf DEF RemoveGroup
  <2>2. n >= 1 /\ A(t, n).at = "remove" /\ A(t, n) \in Frames
    BY <1>0, <1>15, InIs DEF RemoveGroup
  <2>3. A(t, n).op = "destroy"
    BY <2>2, FieldsOf DEF FrameOK, Records, Using
  <2>4. A(t, n).id \in DOMAIN SDL_properties
    BY <2>2, <2>3 DEF Links, FrameLinked
  <2>5. Stacked'
    BY <1>15, <2>4, RemoveGroupDoes
  <2>6. PICK f \in Frames :
              /\ f.op = "destroy" /\ f.at = "nuke" /\ f.id = A(t, n).id
              /\ f.obj = SDL_properties[A(t, n).id] /\ f.v = 0 /\ f.calls = {}
              /\ Turns(t, n, f)
    BY <1>15, <2>4, RemoveGroupDoes
  <2>7. GoesOn(t, n, f)
    BY <2>1, <2>2, <2>3, <2>6 DEF GoesOn
  <2> QED
    BY <2>1, <2>5, <2>7 DEF Move
<1>16. CASE Nuke(t)
  <2>1. Grows /\ UNCHANGED <<held, quitting>>
    BY <1>16, SameIdOf DEF Nuke
  <2>2. Stacked' /\ n >= 1 /\ A(t, n).at = "nuke" /\ A(t, n).op \in {"destroy", "nuke"} /\ A(t, n).obj \in Objects
    BY <1>16, NukeDoes
  <2> DEFINE f == [A(t, n) EXCEPT !.at = "free"]
             g == CallbackFrame(A(t, n).obj, CleanupMay)
  <2>3. A(t, n) \in Frames
    BY <1>0, <2>2, FrameType
  <2>4. f \in Frames /\ f.op = A(t, n).op /\ f.id = A(t, n).id /\ f.calls = A(t, n).calls /\ f.at = "free"
        /\ f.obj = A(t, n).obj
    BY <2>2, <2>3, MovedType
  <2>5. f.calls = {}
    BY <2>2, <2>3, <2>4, FieldsOf DEF FrameOK
  <2>6. g \in Frames /\ g.op = "callback" /\ g.at = "callback" /\ g.id = 0 /\ g.obj = A(t, n).obj /\ g.calls = CleanupMay
    BY <2>2, CallbackType, CleanupMayType DEF CallbackFrame
  <2>7. Turns(t, n, f) \/ Calls(t, n, f, g)
    BY <1>16, NukeDoes
  <2> HIDE DEF f, g
  <2>8. CASE Turns(t, n, f)
    <3>1. GoesOn(t, n, f)
      BY <2>1, <2>2, <2>4, <2>5, <2>8 DEF GoesOn
    <3> QED
      BY <2>1, <2>2, <2>4, <3>1 DEF Move
  <2>9. CASE Calls(t, n, f, g)
    <3>1. CallsBack(t, n, f, g)
      BY <2>1, <2>2, <2>4, <2>5, <2>6, <2>9 DEF CallsBack, Below
    <3> QED
      BY <2>1, <2>2, <2>4, <2>6, <3>1 DEF Move
  <2> QED
    BY <2>7, <2>8, <2>9
<1>17. CASE FreeProperties(t)
  <2>1. Grows /\ UNCHANGED <<held, quitting>>
    BY <1>17, SameIdOf DEF FreeProperties
  <2> QED
    BY <1>17, <2>1, FreeDoes DEF Move, Finishes
<1>18. CASE DestroyHashTable(t)
  <2>1. Grows /\ UNCHANGED <<held, quitting>>
    BY <1>18, SameIdOf DEF DestroyHashTable
  <2>2. Stacked' /\ n >= 1 /\ A(t, n).at = "sweep" /\ A(t, n).op = "quit"
    BY <1>18, SweepDoes
  <2>3. CASE Pops(t, n)
    BY <2>1, <2>2, <2>3 DEF Move, Finishes
  <2>4. ASSUME NEW f \in Frames, f.op = "nuke", f.at = "nuke", f.calls = {},
    Pushes(t, n, f) PROVE Move(t, n)
    <3>1. Sweeps(t, n, f)
      BY <2>1, <2>2, <2>4 DEF Sweeps
    <3> QED
      BY <2>1, <2>4, <3>1 DEF Move
  <2> QED
    BY <1>18, <2>2, <2>3, <2>4, SweepDoes
<1> QED
  BY <1>1, <1>2, <1>3, <1>4, <1>5, <1>6, <1>7, <1>8, <1>9, <1>10, <1>11, <1>12, <1>13,
     <1>14, <1>15, <1>16, <1>17, <1>18 DEF NextOf, Step

(* Nested, for one call.                                                   *)
NestedAt(t, p) ==
  /\ p < D(t) => A(t, p).at \in Below \cup {"callback", "sweep"}
  /\ A(t, p).op = "callback" => p > 1 /\ A(t, p - 1).at \in Below /\ A(t, p - 1).obj = A(t, p).obj

(* The frames that a step leaves alone.                                    *)
LEMMA Kept ==
  ASSUME NEW t \in Threads, NEW k \in Int, Around(t, k), NEW u \in Threads, NEW p \in 1 .. D(u),
         u # t \/ p <= k
  PROVE  Same(A(u, p)', A(u, p)) /\ (u # t => D(u)' = D(u))
  BY DEF Around

(* A move keeps Nested.                                                    *)
LEMMA NestedStep ==
  ASSUME Stacked, Stacked', Nested, NEW t \in Threads, NEW n \in Nat, n = D(t), Move(t, n)
  PROVE  Nested'
<1>0. Nested <=> \A u \in Threads : \A p \in 1 .. D(u) : NestedAt(u, p)
  BY DEF Nested, NestedAt
<1>1. SUFFICES ASSUME NEW u \in Threads, NEW p \in 1 .. D(u)' PROVE NestedAt(u, p)'
  BY DEF Nested, NestedAt
<1>2. D(u) \in Nat /\ D(u)' \in Nat
  BY DepthType, DepthTypeNext
<1>3. \A v \in Threads : \A q \in 1 .. D(v) : NestedAt(v, q)
  BY <1>0
<1>4. ASSUME NEW k \in Int, Around(t, k), k <= n, u # t \/ p <= k,
  u = t => (p < D(t)' => p < n \/ A(t, n).at \in Below \cup {"callback", "sweep"})
      PROVE NestedAt(u, p)'
  <2>1. p \in 1 .. D(u)
    BY <1>2, <1>4 DEF Around
  <2>2. Same(A(u, p)', A(u, p)) /\ (u # t => D(u)' = D(u))
    BY <1>4, <2>1, Kept
  <2>3. CASE p = 1
    BY <1>2, <1>3, <1>4, <2>1, <2>2, <2>3 DEF NestedAt, Same
  <2>4. CASE p > 1
    <3>1. p - 1 \in 1 .. D(u) /\ (u # t \/ p - 1 <= k)
      BY <1>2, <1>4, <2>1, <2>4
    <3>2. Same(A(u, p - 1)', A(u, p - 1))
      BY <1>4, <3>1, Kept
    <3> QED
      BY <1>2, <1>3, <1>4, <2>1, <2>2, <2>4, <3>2 DEF NestedAt, Same
  <2> QED
    BY <1>2, <2>1, <2>3, <2>4
<1>5. CASE \E f \in Frames : Enters(t, n, f)
  <2>1. PICK f \in Frames : Enters(t, n, f)
    BY <1>5
  <2>2. D(t)' = n + 1 /\ Around(t, n) /\ A(t, n + 1)' = f /\ f.op # "callback"
    BY <2>1 DEF Enters, Pushes, Using
  <2>3. n = 0 \/ A(t, n).at = "callback"
    BY <2>1 DEF Enters, Caller
  <2>4. CASE u = t /\ p = n + 1
    BY <2>2, <2>4 DEF NestedAt
  <2>5. CASE u # t \/ p <= n
    BY <1>2, <1>4, <2>2, <2>3, <2>5
  <2> QED
    BY <1>2, <2>2, <2>4, <2>5
<1>6. CASE \E f \in Frames : GoesOn(t, n, f)
  <2>1. PICK f \in Frames : GoesOn(t, n, f)
    BY <1>6
  <2>2. D(t)' = n /\ Around(t, n - 1) /\ A(t, n)' = f /\ f.op # "callback" /\ n >= 1
    BY <2>1 DEF GoesOn, Turns
  <2>4. CASE u = t /\ p = n
    BY <2>2, <2>4 DEF NestedAt
  <2>5. CASE u # t \/ p <= n - 1
    BY <1>2, <1>4, <2>2, <2>5
  <2> QED
    BY <1>2, <2>2, <2>4, <2>5
<1>7. CASE \E f, g \in Frames : CallsBack(t, n, f, g)
  <2>1. PICK f \in Frames, g \in Frames : CallsBack(t, n, f, g)
    BY <1>7
  <2>2. D(t)' = n + 1 /\ Around(t, n - 1) /\ A(t, n)' = f /\ A(t, n + 1)' = g /\ f.op # "callback" /\ n >= 1
        /\ f.at \in Below /\ g.obj = f.obj
    BY <2>1 DEF CallsBack, Calls
  <2>3. CASE u = t /\ p = n + 1
    <3>1. A(t, p - 1)' = f
      BY <2>2, <2>3
    <3> QED
      BY <2>2, <2>3, <3>1 DEF NestedAt
  <2>4. CASE u = t /\ p = n
    BY <2>2, <2>4 DEF NestedAt
  <2>5. CASE u # t \/ p <= n - 1
    BY <1>2, <1>4, <2>2, <2>5
  <2> QED
    BY <1>2, <2>2, <2>3, <2>4, <2>5
<1>8. CASE Finishes(t, n)
  <2>2. D(t)' = n - 1 /\ Around(t, n - 1)
    BY <1>8 DEF Finishes, Pops
  <2> QED
    BY <1>2, <1>4, <2>2
<1>9. CASE \E f \in Frames : Sweeps(t, n, f)
  <2>1. PICK f \in Frames : Sweeps(t, n, f)
    BY <1>9
  <2>2. D(t)' = n + 1 /\ Around(t, n) /\ A(t, n + 1)' = f /\ f.op # "callback" /\ A(t, n).at = "sweep"
    BY <2>1 DEF Sweeps, Pushes
  <2>4. CASE u = t /\ p = n + 1
    BY <2>2, <2>4 DEF NestedAt
  <2>5. CASE u # t \/ p <= n
    BY <1>2, <1>4, <2>2, <2>5
  <2> QED
    BY <1>2, <2>2, <2>4, <2>5
<1>10. CASE Quits(t)
  <2>1. u = t /\ p \in {1, 2} /\ D(t)' = 2
    BY <1>2, <1>10 DEF Quits
  <2>2. A(t, 1)' = QuitFrame /\ A(t, 2)' = NewFrame("destroy", "remove", 1, 0)
    BY <1>10 DEF Quits
  <2> QED
    BY <2>1, <2>2 DEF NestedAt, QuitFrame, NewFrame
<1>11. CASE UNCHANGED <<stack, held, quitting>>
  <2>1. D(u)' = D(u) /\ A(u, p)' = A(u, p) /\ A(u, p - 1)' = A(u, p - 1)
    BY <1>11 DEF D, A
  <2> QED
    BY <1>3, <2>1 DEF NestedAt
<1> QED
  BY <1>5, <1>6, <1>7, <1>8, <1>9, <1>10, <1>11 DEF Move

(* Outer, for one call.                                                    *)
OuterAt(t, p) ==
  /\ A(t, p).op \in {"lock", "unlock", "enumerate"} => p = 1
  /\ A(t, p).op \in {"lock", "enumerate"} => held[t] = 0
  /\ A(t, p).op = "unlock" => held[t] # 0 /\ A(t, p).id = idOf[held[t]]
  /\ A(t, p).op = "enumerate" =>
       \A q \in p + 1 .. D(t) : A(t, q).op \in {"callback", "get"} /\ A(t, q).calls \subseteq {"get"}

(* A move keeps Outer.                                                     *)
LEMMA OuterStep ==
  ASSUME Stacked, Stacked', Outer, HeldLinked, NEW t \in Threads, NEW n \in Nat, n = D(t),
         Move(t, n)
  PROVE  Outer'
<1>1. SUFFICES ASSUME NEW u \in Threads, NEW p \in 1 .. D(u)' PROVE OuterAt(u, p)'
  BY DEF Outer, OuterAt
<1>2. D(u) \in Nat /\ D(u)' \in Nat /\ Grows
  BY DepthType, DepthTypeNext DEF Move
<1>3. \A v \in Threads : \A q \in 1 .. D(v) : OuterAt(v, q)
  BY DEF Outer, OuterAt
<1>4. ASSUME NEW k \in Int, Around(t, k), k <= n, u # t \/ p <= k,
             held'[u] = held[u] \/ (u = t /\ A(t, n).op \in {"lock", "unlock"} /\ k = n - 1),
             u = t => \A q \in k + 1 .. D(t)' :
               A(t, p).op = "enumerate" => A(t, q)'.op \in {"callback", "get"} /\ A(t, q)'.calls \subseteq {"get"}
      PROVE OuterAt(u, p)'
  <2>1. p \in 1 .. D(u)
    BY <1>2, <1>4 DEF Around
  <2>2. Same(A(u, p)', A(u, p)) /\ (u # t => D(u)' = D(u))
    BY <1>4, <2>1, Kept
  <2>3. held'[u] = held[u]
    <3>1. SUFFICES ASSUME u = t, A(t, n).op \in {"lock", "unlock"}, k = n - 1 PROVE FALSE
      BY <1>4
    <3>2. n >= 1 /\ n \in 1 .. D(t) /\ p <= n - 1 /\ p >= 1
      BY <1>4, <2>1, <3>1
    <3>3. n = 1
      BY <1>3, <3>1, <3>2 DEF OuterAt
    <3> QED
      BY <3>2, <3>3
  <2>4. OuterAt(u, p)
    BY <1>3, <2>1
  <2>5. A(u, p).op = "unlock" => held'[u] # 0 /\ A(u, p).id = idOf'[held'[u]]
    BY <1>2, <2>3, <2>4 DEF OuterAt, HeldLinked, Grows
  <2>6. ASSUME NEW q \in p + 1 .. D(u)', A(u, p).op = "enumerate"
        PROVE  A(u, q)'.op \in {"callback", "get"} /\ A(u, q)'.calls \subseteq {"get"}
    <3>1. CASE u = t /\ q > k
      BY <1>2, <1>4, <2>6, <3>1
    <3>2. CASE u # t \/ q <= k
      <4>1. q \in 1 .. D(u) /\ q \in p + 1 .. D(u)
        BY <1>2, <1>4, <2>1, <2>2, <2>6, <3>2
      <4>2. Same(A(u, q)', A(u, q))
        BY <1>4, <3>2, <4>1, Kept
      <4>3. A(u, q).op \in {"callback", "get"} /\ A(u, q).calls \subseteq {"get"}
        BY <2>4, <2>6, <4>1 DEF OuterAt
      <4> QED
        BY <4>2, <4>3 DEF Same
    <3> QED
      BY <1>4, <3>1, <3>2
  <2> QED
    BY <2>2, <2>3, <2>4, <2>5, <2>6 DEF OuterAt, Same
<1>5. CASE \E f \in Frames : Enters(t, n, f)
  <2>1. PICK f \in Frames : Enters(t, n, f)
    BY <1>5
  <2>2. D(t)' = n + 1 /\ Around(t, n) /\ A(t, n + 1)' = f /\ held' = held /\ f.calls = {}
    BY <2>1 DEF Enters, Pushes, Using
  <2>6. f.op # "unlock" => n = 0 \/ (A(t, n).at = "callback" /\ f.op \in A(t, n).calls)
    BY <2>1 DEF Enters, Caller
  <2>7. n >= 1 => A(t, n) \in Frames /\ A(t, n).calls \subseteq {"set", "get", "destroy"}
    <3>1. ASSUME n >= 1 PROVE A(t, n) \in Frames
      BY <3>1, FrameType
    <3> QED
      BY <3>1, FieldsOf DEF Records
  <2>8. f.op \in {"unlock", "lock", "enumerate"} => n = 0
    BY <2>1, <2>6, <2>7 DEF Enters
  <2>4. CASE u = t /\ p = n + 1
    <3>1. f.op \in {"lock", "enumerate"} => held[t] = 0
      BY <2>1 DEF Enters
    <3>2. f.op = "unlock" => held[t] # 0 /\ f.id = idOf[held[t]] /\ held[t] \in DOMAIN idOf
      BY <2>1 DEF Enters, HeldLinked
    <3>3. f.op = "unlock" => held[t] # 0 /\ f.id = idOf'[held[t]]
      BY <1>2, <3>2 DEF Grows
    <3>4. \A q \in p + 1 .. D(t)' : FALSE
      BY <2>2, <2>4
    <3> QED
      BY <2>2, <2>4, <2>8, <3>1, <3>3, <3>4 DEF OuterAt
  <2>5. CASE u # t \/ p <= n
    <3>1. ASSUME u = t, NEW q \in n + 1 .. D(t)', A(t, p).op = "enumerate"
          PROVE A(t, q)'.op \in {"callback", "get"} /\ A(t, q)'.calls \subseteq {"get"}
      <4>1. q = n + 1 /\ A(t, q)' = f /\ n >= 1 /\ p \in 1 .. n
        BY <2>2, <2>5, <3>1, <1>2
      <4>2. p = 1
        BY <1>3, <3>1, <4>1 DEF OuterAt
      <4>3. n = 1 => FALSE
        <5>1. ASSUME n = 1 PROVE A(t, n).op = "enumerate" /\ A(t, n).at = "callback" /\ A(t, n) \in Frames
          BY <5>1, <3>1, <4>1, <4>2, <2>6, <2>8, <2>7
        <5> QED
          BY <5>1, FieldsOf DEF FrameOK
      <4>4. n \in p + 1 .. D(t)
        BY <4>1, <4>2, <4>3
      <4>5. A(t, n).calls \subseteq {"get"}
        BY <1>3, <3>1, <4>1, <4>4 DEF OuterAt
      <4>6. f.op = "get"
        BY <2>6, <2>8, <4>1, <4>5
      <4> QED
        BY <2>2, <4>1, <4>6
    <3> QED
      BY <1>2, <1>4, <2>2, <2>5, <3>1
  <2> QED
    BY <1>2, <2>2, <2>4, <2>5
<1>6. CASE \E f \in Frames : GoesOn(t, n, f)
  <2>1. PICK f \in Frames : GoesOn(t, n, f)
    BY <1>6
  <2>2. D(t)' = n /\ Around(t, n - 1) /\ A(t, n)' = f /\ f.op = A(t, n).op /\ n >= 1 /\ f.id = A(t, n).id
        /\ f.calls = {} /\ held' = held
    BY <2>1 DEF GoesOn, Turns
  <2>3. OuterAt(t, n)
    BY <1>3, <2>2
  <2>4. CASE u = t /\ p = n
    <3>2. f.op = "unlock" => held[t] # 0 /\ f.id = idOf[held[t]] /\ held[t] \in DOMAIN idOf
      BY <2>2, <2>3 DEF OuterAt, HeldLinked
    <3>3. f.op = "unlock" => held[t] # 0 /\ f.id = idOf'[held[t]]
      BY <1>2, <3>2 DEF Grows
    <3>4. \A q \in p + 1 .. D(t)' : FALSE
      BY <2>2, <2>4
    <3> QED
      BY <2>2, <2>3, <2>4, <3>3, <3>4 DEF OuterAt
  <2>5. CASE u # t \/ p <= n - 1
    <3>1. ASSUME u = t, NEW q \in (n - 1) + 1 .. D(t)', A(t, p).op = "enumerate"
          PROVE A(t, q)'.op \in {"callback", "get"} /\ A(t, q)'.calls \subseteq {"get"}
      <4>1. q = n /\ A(t, q)' = f /\ p \in 1 .. D(t) /\ n \in p + 1 .. D(t)
        BY <2>2, <2>5, <3>1, <1>2
      <4>2. A(t, n).op \in {"callback", "get"}
        BY <1>3, <3>1, <4>1 DEF OuterAt
      <4> QED
        BY <2>2, <4>1, <4>2
    <3> QED
      BY <1>2, <1>4, <2>2, <2>5, <3>1
  <2> QED
    BY <1>2, <2>2, <2>4, <2>5
<1>7. CASE \E f, g \in Frames : CallsBack(t, n, f, g)
  <2>1. PICK f \in Frames, g \in Frames : CallsBack(t, n, f, g)
    BY <1>7
  <2>2. D(t)' = n + 1 /\ Around(t, n - 1) /\ A(t, n)' = f /\ A(t, n + 1)' = g /\ f.op = A(t, n).op /\ n >= 1
        /\ f.id = A(t, n).id /\ f.calls = {} /\ held' = held /\ g.op = "callback" /\ f.op # "callback"
        /\ (f.op = "enumerate" => g.calls = {"get"})
    BY <2>1 DEF CallsBack, Calls
  <2>9. A(t, n).at \in {"change", "iterate", "nuke"} /\ A(t, n) \in Frames
    BY <2>1, <2>2, FrameType DEF CallsBack
  <2>0. OuterAt(t, n)
    BY <1>3, <2>2
  <2>3. CASE u = t /\ p = n + 1
    BY <2>2, <2>3 DEF OuterAt
  <2>4. CASE u = t /\ p = n
    <3>2. f.op # "unlock"
      BY <2>2, <2>9, FieldsOf DEF FrameOK
    <3>4. \A q \in p + 1 .. D(t)' : q = n + 1
      BY <2>2, <2>4
    <3>5. f.op = "enumerate" => \A q \in p + 1 .. D(t)' : A(t, q)'.op \in {"callback", "get"} /\ A(t, q)'.calls \subseteq {"get"}
      BY <2>2, <3>4
    <3> QED
      BY <2>0, <2>2, <2>4, <3>2, <3>5 DEF OuterAt
  <2>5. CASE u # t \/ p <= n - 1
    <3>1. ASSUME u = t, NEW q \in (n - 1) + 1 .. D(t)', A(t, p).op = "enumerate" PROVE FALSE
      <4>1. p \in 1 .. D(t) /\ n \in p + 1 .. D(t)
        BY <2>2, <2>5, <3>1, <1>2
      <4>2. A(t, n).op \in {"callback", "get"}
        BY <1>3, <3>1, <4>1 DEF OuterAt
      <4> QED
        BY <2>9, <4>2, FieldsOf DEF FrameOK
    <3> QED
      BY <1>2, <1>4, <2>2, <2>5, <3>1
  <2> QED
    BY <1>2, <2>2, <2>3, <2>4, <2>5
<1>8. CASE Finishes(t, n)
  <2>2. D(t)' = n - 1 /\ Around(t, n - 1)
    BY <1>8 DEF Finishes, Pops
  <2>3. held'[u] = held[u] \/ (u = t /\ A(t, n).op \in {"lock", "unlock"})
    BY <1>8 DEF Finishes
  <2> QED
    BY <1>2, <1>4, <2>2, <2>3
<1>9. CASE \E f \in Frames : Sweeps(t, n, f)
  <2>1. PICK f \in Frames : Sweeps(t, n, f)
    BY <1>9
  <2>2. D(t)' = n + 1 /\ Around(t, n) /\ A(t, n + 1)' = f /\ f.op = "nuke" /\ A(t, n).op = "quit" /\ held' = held /\ n >= 1
    BY <2>1 DEF Sweeps, Pushes
  <2>4. CASE u = t /\ p = n + 1
    BY <2>2, <2>4 DEF OuterAt
  <2>5. CASE u # t \/ p <= n
    <3>1. ASSUME u = t, A(t, p).op = "enumerate" PROVE FALSE
      <4>1. p \in 1 .. D(t) /\ p # n
        BY <2>2, <2>5, <3>1, <1>2
      <4>3. n \in p + 1 .. D(t)
        BY <2>2, <2>5, <3>1, <4>1
      <4>2. A(t, n).op \in {"callback", "get"}
        BY <1>3, <3>1, <4>1, <4>3 DEF OuterAt
      <4> QED
        BY <2>2, <4>2
    <3> QED
      BY <1>2, <1>4, <2>2, <2>5, <3>1
  <2> QED
    BY <1>2, <2>2, <2>4, <2>5
<1>10. CASE Quits(t)
  <2>1. u = t /\ p \in {1, 2} /\ D(t)' = 2
    BY <1>2, <1>10 DEF Quits
  <2>2. A(t, 1)' = QuitFrame /\ A(t, 2)' = NewFrame("destroy", "remove", 1, 0)
    BY <1>10 DEF Quits
  <2> QED
    BY <2>1, <2>2 DEF OuterAt, QuitFrame, NewFrame
<1>11. CASE UNCHANGED <<stack, held, quitting>>
  <2>1. D(u)' = D(u) /\ \A q \in 1 .. D(u) : A(u, q)' = A(u, q)
    BY <1>11 DEF D, A
  <2>2. OuterAt(u, p)
    BY <1>3, <2>1
  <2>3. A(u, p).op = "unlock" => held[u] # 0 /\ A(u, p).id = idOf'[held[u]]
    BY <1>2, <2>2 DEF OuterAt, HeldLinked, Grows
  <2>4. A(u, p).op = "enumerate" =>
       \A q \in p + 1 .. D(u)' : A(u, q)'.op \in {"callback", "get"} /\ A(u, q)'.calls \subseteq {"get"}
    <3>1. \A q \in p + 1 .. D(u) : q \in 1 .. D(u)
      BY <1>2
    <3> QED
      BY <2>1, <2>2, <3>1 DEF OuterAt
  <2>5. A(u, p)' = A(u, p)
    BY <2>1
  <2> QED
    BY <1>11, <2>2, <2>3, <2>4, <2>5 DEF OuterAt
<1> QED
  BY <1>5, <1>6, <1>7, <1>8, <1>9, <1>10, <1>11 DEF Move

(* Hypothesis of the theorems: the cleanup functions that SDL_Quit runs    *)
(* call nothing.  DestroyHashTable sweeps the table with the groups still  *)
(* in it, and a set from there would clean up a value a second time.       *)
NoQuitCalls == QuitCalls = {}

(* Quit, for one call.                                                     *)
QuitAt(t, p) ==
  /\ p = 1 => A(t, p).op = "quit"
  /\ p = 2 => A(t, p).op \in {"destroy", "nuke"}
  /\ p = 3 => A(t, p).op = "callback" /\ A(t, p).calls = {}
  /\ p <= 3

(* A move keeps Quit.                                                      *)
LEMMA QuitStep ==
  ASSUME NoQuitCalls, Typed, Stacked', Quit, NEW t \in Threads, NEW n \in Nat, n = D(t), Move(t, n)
  PROVE  Quit'
<1>0. Stacked /\ quitting \in BOOLEAN
  BY DEF Typed
<1>1. CASE UNCHANGED <<stack, held, quitting>>
  BY <1>1 DEF Quit, D, A
<1>2. CASE Quits(t)
  <2>1. \A u \in Threads : D(u)' > 0 => u = t
    BY <1>2 DEF Quits
  <2>2. ASSUME NEW p \in 1 .. D(t)' PROVE QuitAt(t, p)'
    <3>1. p \in {1, 2}
      BY <1>2 DEF Quits
    <3> QED
      BY <1>2, <3>1 DEF Quits, QuitAt, QuitFrame, NewFrame
  <2>3. \A u \in Threads : \A p \in 1 .. D(u)' : QuitAt(u, p)'
    <3>1. ASSUME NEW u \in Threads, NEW p \in 1 .. D(u)' PROVE u = t
      <4>1. D(u)' \in Nat
        BY DepthTypeNext
      <4> QED
        BY <2>1, <3>1, <4>1
    <3> QED
      BY <2>2, <3>1
  <2>4. \A u \in Threads : held'[u] = 0
    BY <1>2 DEF Quits
  <2> QED
    BY <1>2, <2>1, <2>3, <2>4 DEF Quit, QuitAt, Quits
<1>3. CASE ~quitting /\ UNCHANGED quitting
  <2> SUFFICES ASSUME NEW u \in Threads, NEW p \in 1 .. D(u)' PROVE A(u, p)'.op \notin {"quit", "nuke"}
    BY <1>3 DEF Quit
  <2>0. D(u) \in Nat /\ D(u)' \in Nat
    BY <1>0, DepthType, DepthTypeNext
  <2>1. \A v \in Threads : \A q \in 1 .. D(v) : A(v, q).op \notin {"quit", "nuke"}
    BY <1>3 DEF Quit
  <2>2. ASSUME NEW k \in Int, Around(t, k), k <= n, u # t \/ p <= k PROVE A(u, p)'.op \notin {"quit", "nuke"}
    <3>1. p \in 1 .. D(u)
      BY <2>0, <2>2 DEF Around
    <3> QED
      BY <2>1, <2>2, <3>1, Kept DEF Same
  <2>3. CASE \E f \in Frames : Enters(t, n, f)
    <3>1. PICK f \in Frames : Enters(t, n, f)
      BY <2>3
    <3>2. D(t)' = n + 1 /\ Around(t, n) /\ A(t, n + 1)' = f /\ f.op \notin {"quit", "nuke"}
      BY <3>1 DEF Enters, Pushes, Using
    <3> QED
      BY <2>0, <2>2, <3>2
  <2>4. CASE \E f \in Frames : GoesOn(t, n, f)
    <3>1. PICK f \in Frames : GoesOn(t, n, f)
      BY <2>4
    <3>2. n >= 1 /\ D(t)' = n /\ Around(t, n - 1) /\ A(t, n)' = f /\ f.op = A(t, n).op
      BY <3>1 DEF GoesOn, Turns
    <3> QED
      BY <2>0, <2>1, <2>2, <3>2
  <2>5. CASE \E f, g \in Frames : CallsBack(t, n, f, g)
    <3>1. PICK f \in Frames, g \in Frames : CallsBack(t, n, f, g)
      BY <2>5
    <3>2. n >= 1 /\ D(t)' = n + 1 /\ Around(t, n - 1) /\ A(t, n)' = f /\ A(t, n + 1)' = g /\ f.op = A(t, n).op /\ g.op = "callback"
      BY <3>1 DEF CallsBack, Calls
    <3>3. CASE u = t /\ p = n
      BY <2>1, <3>2, <3>3
    <3>4. CASE u = t /\ p = n + 1
      BY <3>2, <3>4
    <3>5. CASE u # t \/ p <= n - 1
      BY <2>0, <2>2, <3>2, <3>5
    <3> QED
      BY <2>0, <3>2, <3>3, <3>4, <3>5
  <2>6. CASE Finishes(t, n)
    <3>2. n >= 1 /\ D(t)' = n - 1 /\ Around(t, n - 1)
      BY <2>6 DEF Finishes, Pops
    <3> QED
      BY <2>0, <2>2, <3>2
  <2>7. ~ (\E f \in Frames : Sweeps(t, n, f))
    BY <2>1 DEF Sweeps
  <2>8. CASE UNCHANGED <<stack, held, quitting>>
    BY <1>1, <1>3, <2>8 DEF Quit
  <2>9. ~ Quits(t)
    BY <1>3 DEF Quits
  <2> QED
    BY <2>3, <2>4, <2>5, <2>6, <2>7, <2>8, <2>9 DEF Move
<1>4. CASE quitting /\ UNCHANGED quitting
  <2>1. \A v \in Threads : \A q \in 1 .. D(v) : QuitAt(v, q)
    BY <1>4 DEF Quit, QuitAt
  <2>2. \A v \in Threads : held[v] = 0
    BY <1>4 DEF Quit
  <2>3. \A v, w \in Threads : D(v) > 0 /\ D(w) > 0 => v = w
    BY <1>4 DEF Quit
  <2>4. ~ (\E f \in Frames : Enters(t, n, f))
    <3>1. SUFFICES ASSUME NEW f \in Frames, Enters(t, n, f) PROVE FALSE
      OBVIOUS
    <3>2. n >= 1 /\ A(t, n).at = "callback" /\ A(t, n).calls # {}
      BY <1>4, <2>2, <3>1 DEF Enters, Caller
    <3>3. A(t, n) \in Frames /\ QuitAt(t, n)
      BY <1>0, <2>1, <3>2, FrameType
    <3>4. n \in {1, 2, 3}
      BY <3>2, <3>3 DEF QuitAt
    <3>5. A(t, n).op \in {"quit", "destroy", "nuke"}
      BY <3>2, <3>3, <3>4 DEF QuitAt
    <3> QED
      BY <3>2, <3>3, <3>5, FieldsOf DEF FrameOK
  <2>5. ASSUME NEW k \in Int, Around(t, k), k <= n, NEW u \in Threads, NEW p \in 1 .. D(u)',
    u # t \/ p <= k
        PROVE  QuitAt(u, p)'
    <3>0. D(u) \in Nat /\ D(u)' \in Nat
      BY <1>0, DepthType, DepthTypeNext
    <3>1. p \in 1 .. D(u)
      BY <3>0, <2>5 DEF Around
    <3>2. QuitAt(u, p) /\ Same(A(u, p)', A(u, p))
      BY <2>1, <2>5, <3>1, Kept
    <3> QED
      BY <3>2 DEF QuitAt, Same
  <2>6. CASE \E f \in Frames : GoesOn(t, n, f)
    <3>1. PICK f \in Frames : GoesOn(t, n, f)
      BY <2>6
    <3>2. n >= 1 /\ D(t)' = n /\ Around(t, n - 1) /\ A(t, n)' = f /\ f.op = A(t, n).op /\ f.calls = {} /\ held' = held
      BY <3>1 DEF GoesOn, Turns
    <3>3. QuitAt(t, n)
      BY <2>1, <3>2
    <3>4. \A u \in Threads : \A p \in 1 .. D(u)' : QuitAt(u, p)'
      <4>1. ASSUME NEW u \in Threads, NEW p \in 1 .. D(u)' PROVE QuitAt(u, p)'
        <5>1. CASE u = t /\ p = n
          BY <3>2, <3>3, <5>1 DEF QuitAt
        <5>2. CASE u # t \/ p <= n - 1
          BY <2>5, <3>2, <5>2
        <5> QED
          BY <3>2, <5>1, <5>2
      <4> QED
        BY <4>1
    <3>5. \A v, w \in Threads : D(v)' > 0 /\ D(w)' > 0 => v = w
      BY <2>3, <3>2 DEF Around
    <3> QED
      BY <1>4, <2>2, <3>2, <3>4, <3>5 DEF Quit, QuitAt
  <2>7. CASE \E f, g \in Frames : CallsBack(t, n, f, g)
    <3>1. PICK f \in Frames, g \in Frames : CallsBack(t, n, f, g)
      BY <2>7
    <3>2. n >= 1 /\ D(t)' = n + 1 /\ Around(t, n - 1) /\ A(t, n)' = f /\ A(t, n + 1)' = g /\ f.op = A(t, n).op
          /\ held' = held /\ f.op \notin {"callback", "quit"} /\ g.op = "callback" /\ f.at \in Below
          /\ (f.op # "enumerate" => g.calls = CleanupMay)
      BY <3>1 DEF CallsBack, Calls
    <3>3. QuitAt(t, n)
      BY <2>1, <3>2
    <3>4. n = 2
      <4>1. n \in {1, 2, 3}
        BY <3>2, <3>3 DEF QuitAt
      <4> QED
        BY <3>2, <3>3, <4>1 DEF QuitAt
    <3>5. g.calls = {}
      BY <1>4, <3>2, <3>3, <3>4 DEF QuitAt, CleanupMay, NoQuitCalls
    <3>6. \A u \in Threads : \A p \in 1 .. D(u)' : QuitAt(u, p)'
      <4>1. ASSUME NEW u \in Threads, NEW p \in 1 .. D(u)' PROVE QuitAt(u, p)'
        <5>1. CASE u = t /\ p = n
          BY <3>2, <3>3, <3>4, <5>1 DEF QuitAt
        <5>3. CASE u = t /\ p = n + 1
          BY <3>2, <3>4, <3>5, <5>3 DEF QuitAt
        <5>2. CASE u # t \/ p <= n - 1
          BY <2>5, <3>2, <5>2
        <5> QED
          BY <3>2, <5>1, <5>2, <5>3
      <4> QED
        BY <4>1
    <3>7. \A v, w \in Threads : D(v)' > 0 /\ D(w)' > 0 => v = w
      BY <2>3, <3>2 DEF Around
    <3> QED
      BY <1>4, <2>2, <3>2, <3>6, <3>7 DEF Quit, QuitAt
  <2>8. CASE Finishes(t, n)
    <3>2. n >= 1 /\ D(t)' = n - 1 /\ Around(t, n - 1)
      BY <2>8 DEF Finishes, Pops
    <3>3. QuitAt(t, n) /\ A(t, n) \in Frames
      BY <1>0, <2>1, <3>2, FrameType
    <3>4. n \in {1, 2, 3}
      BY <3>2, <3>3 DEF QuitAt
    <3>5. \A u \in Threads : held'[u] = 0
      <4>1. A(t, n).op # "lock"
        BY <3>3, <3>4 DEF QuitAt
      <4> QED
        BY <2>2, <2>8, <4>1 DEF Finishes
    <3>6. \A u \in Threads : \A p \in 1 .. D(u)' : QuitAt(u, p)'
      BY <2>5, <3>2
    <3>7. \A v, w \in Threads : D(v)' > 0 /\ D(w)' > 0 => v = w
      BY <2>3, <3>2 DEF Around
    <3> QED
      BY <1>4, <3>5, <3>6, <3>7 DEF Quit, QuitAt
  <2>9. CASE \E f \in Frames : Sweeps(t, n, f)
    <3>1. PICK f \in Frames : Sweeps(t, n, f)
      BY <2>9
    <3>2. D(t)' = n + 1 /\ Around(t, n) /\ A(t, n + 1)' = f /\ f.op = "nuke" /\ A(t, n).op = "quit" /\ held' = held /\ n >= 1
      BY <3>1 DEF Sweeps, Pushes
    <3>3. QuitAt(t, n)
      BY <2>1, <3>2
    <3>4. n = 1
      <4>1. n \in {1, 2, 3}
        BY <3>2, <3>3 DEF QuitAt
      <4> QED
        BY <3>2, <3>3, <4>1 DEF QuitAt
    <3>6. \A u \in Threads : \A p \in 1 .. D(u)' : QuitAt(u, p)'
      <4>1. ASSUME NEW u \in Threads, NEW p \in 1 .. D(u)' PROVE QuitAt(u, p)'
        <5>3. CASE u = t /\ p = n + 1
          BY <3>2, <3>4, <5>3 DEF QuitAt
        <5>2. CASE u # t \/ p <= n
          BY <2>5, <3>2, <5>2
        <5> QED
          BY <3>2, <5>2, <5>3
      <4> QED
        BY <4>1
    <3>7. \A v, w \in Threads : D(v)' > 0 /\ D(w)' > 0 => v = w
      BY <2>3, <3>2 DEF Around
    <3> QED
      BY <1>4, <2>2, <3>2, <3>6, <3>7 DEF Quit, QuitAt
  <2>10. ~ Quits(t)
    BY <1>4 DEF Quits
  <2> QED
    BY <1>1, <2>4, <2>6, <2>7, <2>8, <2>9, <2>10 DEF Move
<1> QED
  BY <1>0, <1>1, <1>2, <1>3, <1>4 DEF Move, Enters, GoesOn, CallsBack, Finishes, Sweeps

(* SDL_QuitProperties frees a group while nobody else is in a call.        *)
LEMMA QuitAlone ==
  ASSUME Stacked, Quit, NEW t \in Threads, NEW n \in Nat, n = D(t), n >= 1, A(t, n).op = "quit"
  PROVE  quitting /\ n = 1 /\ \A u \in Threads : u # t => D(u) = 0
<1>1. quitting
  BY DEF Quit
<1>2. n \in {1, 2, 3} /\ n # 2 /\ n # 3
  BY <1>1 DEF Quit
<1>3. \A u \in Threads : D(u) \in Nat
  BY DepthType
<1> QED
  BY <1>1, <1>2, <1>3 DEF Quit

(* A call that has begun to take its group away has taken it out of the    *)
(* table.                                                                  *)
LEMMA Gone ==
  ASSUME Stacked, Nested, Links, NEW t \in Threads, NEW p \in 1 .. D(t), p < D(t),
         A(t, p).op = "destroy"
  PROVE  A(t, p).at = "free" /\ A(t, p).id \notin DOMAIN SDL_properties
         /\ A(t, p).obj \in DOMAIN idOf /\ idOf[A(t, p).obj] = A(t, p).id
<1>1. A(t, p) \in Frames
  BY FrameType
<1>2. A(t, p).at \in Below \cup {"callback", "sweep"}
  BY DEF Nested
<1>3. A(t, p).at = "free"
  BY <1>1, <1>2, FieldsOf DEF FrameOK, Below
<1> QED
  BY <1>3 DEF Links, FrameLinked

(* A group that a thread holds has its lock taken.                         *)
HeldLocked == \A t \in Threads : held[t] # 0 => lock[held[t]] # Free

(* Destroying, for two calls,                                              *)
DestroyingAt(t, p, u, q) ==
  A(t, p).op = "destroy" /\ A(u, q).id = A(t, p).id =>
    u = t /\ (q = p \/ (q > p /\ A(u, q).at = "find" /\ A(u, q).op \in {"set", "get"}))
(* ... and for a call and a holder.                                        *)
NotHeld(t, p, u) == A(t, p).op = "destroy" /\ held[u] # 0 => idOf[held[u]] # A(t, p).id

(* Destroying, taken apart.                                                *)
LEMMA DestroyingIs ==
  Destroying <=> /\ \A t, u \in Threads : \A p \in 1 .. D(t) : \A q \in 1 .. D(u) : DestroyingAt(t, p, u, q)
                 /\ \A t, u \in Threads : \A p \in 1 .. D(t) : NotHeld(t, p, u)
  BY DEF Destroying, DestroyingAt, NotHeld

(* A move keeps Destroying: no destruction begins for a group in use, and  *)
(* no use begins of a group in destruction but from its own cleanup.       *)
LEMMA DestroyingStep ==
  ASSUME Typed, Table, Nested, Links, HeldLocked, Quit, Destroying, Stacked',
         NEW t \in Threads, NEW n \in Nat, n = D(t), Move(t, n)
  PROVE  Destroying'
<1>0. Stacked /\ Grows
  BY DEF Typed, Move
<1>1. SUFFICES ASSUME NEW w \in Threads, NEW u \in Threads, NEW p \in 1 .. D(w)'
               PROVE  /\ \A q \in 1 .. D(u)' : DestroyingAt(w, p, u, q)'
                      /\ NotHeld(w, p, u)'
  BY DEF Destroying, DestroyingAt, NotHeld
<1>2. D(u) \in Nat /\ D(u)' \in Nat /\ D(w) \in Nat /\ D(w)' \in Nat
  BY <1>0, DepthType, DepthTypeNext
<1>3. \A v, x \in Threads : \A r \in 1 .. D(v) : \A q \in 1 .. D(x) : DestroyingAt(v, r, x, q)
  BY DestroyingIs
<1>4. \A v, x \in Threads : \A r \in 1 .. D(v) : NotHeld(v, r, x)
  BY DestroyingIs
<1>5. ASSUME NEW v \in Threads, NEW r \in 1 .. D(v), A(v, r).op = "destroy" PROVE A(v, r).id \in IDs /\ A(v, r).id # 0
  <2>1. A(v, r) \in Frames
    BY <1>0, FrameType
  <2> QED
    BY <1>5, <2>1, FieldsOf, PropertiesAssumption DEF FrameOK, IDs
(* frames that are kept *)
<1>6. ASSUME NEW k \in Int, Around(t, k), k <= n, w # t \/ p <= k, NEW q \in 1 .. D(u)',
  u # t \/ q <= k
      PROVE  DestroyingAt(w, p, u, q)'
  <2>1. p \in 1 .. D(w) /\ q \in 1 .. D(u)
    BY <1>2, <1>6 DEF Around
  <2>2. Same(A(w, p)', A(w, p)) /\ Same(A(u, q)', A(u, q)) /\ DestroyingAt(w, p, u, q)
    BY <1>3, <1>6, <2>1, Kept
  <2> QED
    BY <2>2 DEF DestroyingAt, Same
<1>7. ASSUME NEW k \in Int, Around(t, k), k <= n, w # t \/ p <= k,
  held'[u] = held[u] \/ held'[u] = 0
      PROVE  NotHeld(w, p, u)'
  <2>1. p \in 1 .. D(w)
    BY <1>2, <1>7 DEF Around
  <2>2. Same(A(w, p)', A(w, p)) /\ NotHeld(w, p, u)
    BY <1>4, <1>7, <2>1, Kept
  <2>3. held[u] # 0 => idOf'[held[u]] = idOf[held[u]]
    BY <1>0 DEF Links, HeldLinked, Grows
  <2> QED
    BY <1>7, <2>2, <2>3 DEF NotHeld, Same
<1>8. CASE \E f \in Frames : Enters(t, n, f)
  <2>1. PICK f \in Frames : Enters(t, n, f)
    BY <1>8
  <2>2. D(t)' = n + 1 /\ Around(t, n) /\ A(t, n + 1)' = f /\ held' = held
    BY <2>1 DEF Enters, Pushes
  <2>3. f.op = "destroy" => \A v \in Threads : \A r \in 1 .. D(v) : A(v, r).id # f.id
    BY <1>0, <2>1, UsesIs DEF Enters, MayDestroy
  <2>4. CASE w = t /\ p = n + 1
    <3>1. ASSUME NEW q \in 1 .. D(u)' PROVE DestroyingAt(w, p, u, q)'
      <4>1. CASE u = t /\ q = n + 1
        BY <2>4, <4>1 DEF DestroyingAt
      <4>2. CASE u # t \/ q <= n
        <5>1. q \in 1 .. D(u)
          BY <1>2, <2>2, <4>2 DEF Around
        <5>2. Same(A(u, q)', A(u, q))
          BY <2>2, <4>2, <5>1, Kept
        <5> QED
          BY <2>2, <2>3, <2>4, <5>1, <5>2 DEF DestroyingAt, Same
      <4> QED
        BY <2>2, <4>1, <4>2
    <3>2. NotHeld(w, p, u)'
      <4>1. SUFFICES ASSUME f.op = "destroy", held[u] # 0, idOf'[held[u]] = f.id PROVE FALSE
        BY <2>2, <2>4 DEF NotHeld
      <4>2. held[u] \in DOMAIN idOf /\ idOf[held[u]] = f.id /\ SDL_properties[f.id] = held[u]
        BY <1>0, <4>1 DEF Links, HeldLinked, Grows
      <4>3. lock[SDL_properties[f.id]] = Free
        BY <2>1, <4>1 DEF Enters, MayDestroy
      <4> QED
        BY <4>1, <4>2, <4>3 DEF HeldLocked
    <3> QED
      BY <3>1, <3>2
  <2>5. CASE w # t \/ p <= n
    <3>0. p \in 1 .. D(w)
      BY <1>2, <2>2, <2>5 DEF Around
    <3>1. Same(A(w, p)', A(w, p))
      BY <2>2, <2>5, <3>0, Kept
    <3>2. ASSUME NEW q \in 1 .. D(u)' PROVE DestroyingAt(w, p, u, q)'
      <4>1. CASE u = t /\ q = n + 1
        <5>1. SUFFICES ASSUME A(w, p).op = "destroy", f.id = A(w, p).id
              PROVE  w = t /\ p < n + 1 /\ f.at = "find" /\ f.op \in {"set", "get"}
          BY <2>2, <3>0, <3>1, <4>1 DEF DestroyingAt, Same
        <5>2. f.op # "destroy"
          BY <2>3, <3>0, <5>1
        <5>3. f.op # "unlock"
          BY <1>4, <2>1, <3>0, <5>1 DEF Enters, NotHeld
        <5>4. Destroys(w, f.id)
          BY <1>0, <3>0, <5>1, UsesIs
        <5>5. Destroys(t, f.id)
          BY <2>1, <5>2, <5>3, <5>4 DEF Enters, MayUse, Using
        <5>6. PICK r \in 1 .. D(t) : A(t, r).id = f.id
          BY <1>0, <5>5, UsesIs
        <5>7. w = t
          BY <1>3, <3>0, <5>1, <5>6 DEF DestroyingAt
        <5>8. n >= 1
          BY <3>0, <5>7
        <5>9. A(t, n) \in Frames
          BY <1>0, <5>8, FrameType
        <5>10. f.op \in {"set", "get"}
          BY <2>1, <5>2, <5>3, <5>8, <5>9, FieldsOf DEF Enters, Caller, Records, Using
        <5> QED
          BY <2>1, <3>0, <5>2, <5>7, <5>10 DEF Enters
      <4>2. CASE u # t \/ q <= n
        BY <1>6, <2>2, <2>5, <4>2
      <4> QED
        BY <2>2, <4>1, <4>2
    <3> QED
      BY <1>7, <2>2, <2>5, <3>2
  <2> QED
    BY <1>2, <2>2, <2>4, <2>5
(* frames that take the place of one with the same ID *)
<1>9. ASSUME NEW f \in Frames, n >= 1, A(t, n)' = f, f.op = A(t, n).op, f.id = A(t, n).id,
  Around(t, n - 1),
             A(t, n).at = "find" => A(t, n).id \in DOMAIN SDL_properties,
             D(t)' = n \/ (D(t)' = n + 1 /\ A(t, n + 1)'.op = "callback"),
             held' = held
      PROVE  /\ \A q \in 1 .. D(u)' : DestroyingAt(w, p, u, q)'
             /\ NotHeld(w, p, u)'
  <2>0. n \in 1 .. D(t) /\ n \in 1 .. D(t)'
    BY <1>9
  <2>1. CASE w = t /\ p = n + 1
    BY <1>9, <2>1, <1>2 DEF DestroyingAt, NotHeld
  <2>2. CASE w # t \/ p <= n
    <3>1. p \in 1 .. D(w) /\ A(w, p)'.op = A(w, p).op /\ A(w, p)'.id = A(w, p).id
      <4>1. CASE w = t /\ p = n
        BY <1>9, <4>1
      <4>2. CASE w # t \/ p <= n - 1
        <5>1. p \in 1 .. D(w)
          BY <1>2, <1>9, <4>2 DEF Around
        <5> QED
          BY <1>9, <4>2, <5>1, Kept DEF Same
      <4> QED
        BY <2>2, <4>1, <4>2, <1>2
    <3>2. NotHeld(w, p, u)'
      <4>1. held[u] # 0 => idOf'[held[u]] = idOf[held[u]]
        BY <1>0 DEF Links, HeldLinked, Grows
      <4> QED
        BY <1>4, <1>9, <3>1, <4>1 DEF NotHeld
    <3>3. ASSUME NEW q \in 1 .. D(u)', A(w, p).op = "destroy", A(u, q)'.id = A(w, p).id
          PROVE  u = w /\ (q = p \/ (q > p /\ A(u, q)'.at = "find" /\ A(u, q)'.op \in {"set", "get"}))
      <4>1. CASE u = t /\ q = n + 1
        <5>1. A(u, q)' \in Frames /\ A(u, q)'.op = "callback"
          BY <1>9, <4>1, <3>3, FrameTypeNext
        <5>2. A(u, q)'.id = 0
          BY <5>1, FieldsOf DEF FrameOK
        <5> QED
          BY <1>5, <3>1, <3>3, <5>2
      <4>2. CASE u = t /\ q = n
        <5>1. A(t, n).id = A(w, p).id /\ n \in 1 .. D(t)
          BY <1>9, <3>3, <4>2
        <5>2. t = w /\ (n = p \/ (n > p /\ A(t, n).at = "find"))
          BY <1>3, <3>1, <3>3, <5>1 DEF DestroyingAt
        <5>3. ASSUME n > p, A(t, n).at = "find" PROVE FALSE
          <6>1. A(t, p).id \notin DOMAIN SDL_properties
            BY <1>0, <3>1, <3>3, <5>2, <5>3, Gone
          <6> QED
            BY <1>9, <5>1, <5>2, <5>3, <6>1
        <5> QED
          BY <4>2, <5>2, <5>3
      <4>3. CASE u # t \/ q <= n - 1
        <5>1. q \in 1 .. D(u)
          BY <1>2, <1>9, <4>3 DEF Around
        <5>2. Same(A(u, q)', A(u, q))
          BY <1>9, <4>3, <5>1, Kept
        <5>3. DestroyingAt(w, p, u, q)
          BY <1>3, <3>1, <5>1
        <5>4. A(u, q).id = A(w, p).id /\ A(u, q)'.at = A(u, q).at /\ A(u, q)'.op = A(u, q).op
          BY <3>3, <5>2 DEF Same
        <5> QED
          BY <3>3, <5>3, <5>4 DEF DestroyingAt
      <4> QED
        BY <1>9, <1>2, <4>1, <4>2, <4>3
    <3>4. \A q \in 1 .. D(u)' : DestroyingAt(w, p, u, q)'
      BY <3>1, <3>3 DEF DestroyingAt
    <3> QED
      BY <3>2, <3>4
  <2> QED
    BY <1>2, <1>9, <2>1, <2>2
<1>10. CASE \E f \in Frames : GoesOn(t, n, f)
  <2>1. PICK f \in Frames : GoesOn(t, n, f)
    BY <1>10
  <2>2. /\ n >= 1 /\ A(t, n)' = f /\ f.op = A(t, n).op /\ f.id = A(t, n).id /\ Around(t, n - 1)
        /\ A(t, n).at = "find" => A(t, n).id \in DOMAIN SDL_properties
        /\ D(t)' = n /\ held' = held
    BY <2>1 DEF GoesOn, Turns
  <2> QED
    BY <1>9, <2>2
<1>11. CASE \E f, g \in Frames : CallsBack(t, n, f, g)
  <2>1. PICK f \in Frames, g \in Frames : CallsBack(t, n, f, g)
    BY <1>11
  <2>2. /\ n >= 1 /\ A(t, n)' = f /\ f.op = A(t, n).op /\ f.id = A(t, n).id /\ Around(t, n - 1)
        /\ A(t, n).at # "find" /\ A(t, n + 1)'.op = "callback"
        /\ D(t)' = n + 1 /\ held' = held
    BY <2>1 DEF CallsBack, Calls
  <2> QED
    BY <1>9, <2>2
<1>12. CASE Finishes(t, n)
  <2>1. n >= 1 /\ D(t)' = n - 1 /\ Around(t, n - 1)
    BY <1>12 DEF Finishes, Pops
  <2>2. w # t \/ p <= n - 1
    BY <2>1
  <2>3. \A q \in 1 .. D(u)' : DestroyingAt(w, p, u, q)'
    BY <1>6, <2>1, <2>2
  <2>4. NotHeld(w, p, u)'
    <3>1. CASE held'[u] = held[u] \/ held'[u] = 0
      BY <1>7, <2>1, <2>2, <3>1
    <3>2. CASE u = t /\ held'[t] = A(t, n).obj /\ A(t, n).op = "lock" /\ A(t, n).at = "lock"
      <4>1. Linked(A(t, n)) /\ n \in 1 .. D(t)
        BY <2>1, <3>2 DEF Links, FrameLinked, Using
      <4>2. A(t, n).obj \in DOMAIN idOf /\ idOf[A(t, n).obj] = A(t, n).id
        BY <4>1 DEF Table, Linked
      <4>3. p \in 1 .. D(w)
        BY <1>2, <2>1, <2>2 DEF Around
      <4>4. Same(A(w, p)', A(w, p))
        BY <2>1, <2>2, <4>3, Kept
      <4>5. A(w, p).op = "destroy" => A(t, n).id # A(w, p).id
        BY <1>3, <3>2, <4>1, <4>3 DEF DestroyingAt
      <4>6. idOf'[A(t, n).obj] = A(t, n).id
        BY <1>0, <4>2 DEF Grows
      <4> QED
        BY <3>2, <4>4, <4>5, <4>6 DEF NotHeld, Same
    <3> QED
      BY <1>12, <3>1, <3>2 DEF Finishes
  <2> QED
    BY <2>3, <2>4
<1>13. CASE \E f \in Frames : Sweeps(t, n, f)
  <2>1. PICK f \in Frames : Sweeps(t, n, f)
    BY <1>13
  <2>2. D(t)' = n + 1 /\ Around(t, n) /\ A(t, n + 1)' = f /\ f.op = "nuke" /\ n >= 1 /\ A(t, n).op = "quit"
    BY <2>1 DEF Sweeps, Pushes
  <2>3. n = 1 /\ \A v \in Threads : v # t => D(v) = 0
    BY <1>0, <2>2, QuitAlone
  <2>4. w = t /\ p \in {1, 2}
    BY <1>2, <2>2, <2>3 DEF Around
  <2>5. A(t, p)'.op # "destroy"
    <3>0. 1 \in 1 .. D(t) /\ 1 <= n /\ A(t, 1) = A(t, n)
      BY <2>3
    <3>1. Same(A(t, 1)', A(t, 1))
      BY <2>2, <3>0, Kept
    <3> QED
      BY <2>2, <2>3, <2>4, <3>0, <3>1 DEF Same
  <2> QED
    BY <2>4, <2>5 DEF DestroyingAt, NotHeld
<1>14. CASE Quits(t)
  <2>1. w = t /\ p \in {1, 2} /\ D(t)' = 2 /\ held'[u] = 0
    BY <1>2, <1>14 DEF Quits
  <2>2. A(t, 1)' = QuitFrame /\ A(t, 2)' = NewFrame("destroy", "remove", 1, 0)
    BY <1>14 DEF Quits
  <2>3. ASSUME NEW q \in 1 .. D(u)' PROVE DestroyingAt(w, p, u, q)'
    <3>1. u = t /\ q \in {1, 2}
      BY <1>2, <1>14, <2>3 DEF Quits
    <3> QED
      BY <2>1, <2>2, <3>1 DEF DestroyingAt, QuitFrame, NewFrame
  <2> QED
    BY <2>1, <2>3 DEF NotHeld
<1>15. CASE UNCHANGED <<stack, held, quitting>>
  <2>1. \A v \in Threads : D(v)' = D(v) /\ \A r \in 1 .. D(v) : A(v, r)' = A(v, r)
    BY <1>15 DEF D, A
  <2>2. held[u] # 0 => idOf'[held[u]] = idOf[held[u]]
    BY <1>0 DEF Links, HeldLinked, Grows
  <2>3. NotHeld(w, p, u)'
    BY <1>4, <1>15, <2>1, <2>2 DEF NotHeld
  <2>4. \A q \in 1 .. D(u)' : DestroyingAt(w, p, u, q)'
    BY <1>3, <2>1 DEF DestroyingAt
  <2> QED
    BY <2>3, <2>4
<1> QED
  BY <1>8, <1>10, <1>11, <1>12, <1>13, <1>14, <1>15 DEF Move

(* Hypothesis about deadlock: cleanup functions set and get in their own   *)
(* group only.  Two that reach for each other's group do wait for each     *)
(* other.                                                                  *)
OwnOnly == ~ ReachesAny

(* The call holds the table's lock.                                        *)
Frees(f) == f.op = "destroy" /\ f.at # "remove"

-----------------------------------------------------------------------------
(* Clause WhileFreeing: who holds the table's lock takes no group's lock,  *)
(* and looks up only the group it has taken out of the table.              *)
WhileFreeing ==
  \A t \in Threads : \A p, q \in 1 .. D(t) :
    p < q /\ Frees(A(t, p)) =>
      /\ A(t, q).at \in {"callback", "find", "remove", "nuke", "free"}
      /\ A(t, q).at = "find" => \E r \in 1 .. q : Frees(A(t, r)) /\ A(t, r).id = A(t, q).id

(* Clause SameGroup: calls on top of each other use one group, unless a    *)
(* destruction lies between them.                                          *)
SameGroup ==
  \A t \in Threads : \A p, q \in 1 .. D(t) :
    p < q /\ A(t, p).op \in Using /\ A(t, q).op \in Using /\ (\A r \in p .. q : A(t, r).op # "destroy") =>
      A(t, p).id = A(t, q).id

(* Clause HeldGroup: that is the group which the thread has locked, if it  *)
(* has one.                                                                *)
HeldGroup ==
  \A t \in Threads : held[t] # 0 =>
    \A q \in 1 .. D(t) :
      A(t, q).op \in Using /\ (\A r \in 1 .. q : A(t, r).op # "destroy") => A(t, q).id = idOf[held[t]]

(* A call comes from a cleanup function or an enumeration of the group it  *)
(* uses.                                                                   *)
LEMMA CallerBelow ==
  ASSUME NoQuitCalls, Typed, Table, Nested, Links, Quit, NEW t \in Threads, NEW n \in Nat, n = D(t),
         NEW f \in Frames, Enters(t, n, f), n >= 1
  PROVE  /\ n > 1 /\ A(t, n).op = "callback" /\ n - 1 \in 1 .. D(t) /\ n \in 1 .. D(t)
         /\ A(t, n - 1).at \in Below /\ A(t, n - 1).op \in Using \cup {"destroy"}
         /\ OwnOnly /\ f.op # "destroy" => f.id = A(t, n - 1).id
<1>0. Stacked
  BY DEF Typed
<1>1. A(t, n).at = "callback" /\ A(t, n).calls # {} /\ n \in 1 .. D(t)
  BY DEF Enters, Caller
<1>2. A(t, n) \in Frames
  BY <1>0, <1>1, FrameType
<1>3. A(t, n).op = "callback"
  BY <1>1, <1>2, FieldsOf DEF FrameOK, Records, Using
<1>4. n > 1 /\ A(t, n - 1).at \in Below /\ A(t, n - 1).obj = A(t, n).obj /\ n - 1 \in 1 .. D(t)
  BY <1>1, <1>3 DEF Nested
<1>5. A(t, n - 1) \in Frames
  BY <1>0, <1>4, FrameType
<1>6. A(t, n - 1).op \in Using \cup {"destroy", "nuke"}
  BY <1>4, <1>5, FieldsOf DEF FrameOK, Records, Using, Below
<1>7. A(t, n - 1).op # "nuke"
  <2>1. SUFFICES ASSUME A(t, n - 1).op = "nuke" PROVE FALSE
    OBVIOUS
  <2>2. quitting
    BY <1>4, <2>1 DEF Quit
  <2>3. n <= 3 /\ (n = 2 => A(t, n).op \in {"destroy", "nuke"}) /\ (n = 3 => A(t, n).calls = {})
    BY <1>1, <2>2 DEF Quit
  <2> QED
    BY <1>1, <1>3, <1>4, <2>3
<1>8. ASSUME OwnOnly, f.op # "destroy" PROVE f.id = A(t, n - 1).id
  <2>1. A(t, n).obj \in DOMAIN idOf /\ idOf[A(t, n).obj] = f.id
    BY <1>8 DEF Enters, Reach, OwnOnly, Using
  <2>2. idOf[A(t, n - 1).obj] = A(t, n - 1).id
    <3>1. CASE A(t, n - 1).op = "destroy"
      BY <1>0, <1>4, <3>1, Gone
    <3>2. CASE A(t, n - 1).op \in Using
      <4>1. Linked(A(t, n - 1))
        BY <1>4, <3>2 DEF Links, FrameLinked, Below
      <4> QED
        BY <4>1 DEF Linked, Table
    <3> QED
      BY <1>6, <1>7, <3>1, <3>2
  <2> QED
    BY <1>4, <2>1, <2>2
<1> QED
  BY <1>1, <1>3, <1>4, <1>6, <1>7, <1>8

(* WhileFreeing, for two calls.                                            *)
WhileFreeingAt(t, p, q) ==
  p < q /\ Frees(A(t, p)) =>
    /\ A(t, q).at \in {"callback", "find", "remove", "nuke", "free"}
    /\ A(t, q).at = "find" => \E r \in 1 .. q : Frees(A(t, r)) /\ A(t, r).id = A(t, q).id

(* A move keeps WhileFreeing.                                              *)
LEMMA WhileFreeingStep ==
  ASSUME NoQuitCalls, OwnOnly, Typed, Table, Nested, Links, Quit, WhileFreeing, Stacked',
         NEW t \in Threads, NEW n \in Nat, n = D(t), Move(t, n)
  PROVE  WhileFreeing'
<1>0. Stacked
  BY DEF Typed
<1>1. SUFFICES ASSUME NEW u \in Threads, NEW p \in 1 .. D(u)',
  NEW q \in 1 .. D(u)' PROVE WhileFreeingAt(u, p, q)'
  BY DEF WhileFreeing, WhileFreeingAt
<1>2. D(u) \in Nat /\ D(u)' \in Nat
  BY <1>0, DepthType, DepthTypeNext
<1>3. \A v \in Threads : \A i, j \in 1 .. D(v) : WhileFreeingAt(v, i, j)
  BY DEF WhileFreeing, WhileFreeingAt
<1>4. ASSUME NEW k \in Int, Around(t, k), k <= n, u # t \/ q <= k, p < q
      PROVE  WhileFreeingAt(u, p, q)'
  <2>1. p \in 1 .. D(u) /\ q \in 1 .. D(u) /\ (u # t \/ p <= k)
    BY <1>2, <1>4 DEF Around
  <2>2. Same(A(u, p)', A(u, p)) /\ Same(A(u, q)', A(u, q)) /\ WhileFreeingAt(u, p, q)
    BY <1>3, <1>4, <2>1, Kept
  <2>3. \A r \in 1 .. q : Same(A(u, r)', A(u, r))
    <3>1. ASSUME NEW r \in 1 .. q PROVE r \in 1 .. D(u) /\ (u # t \/ r <= k)
      BY <1>2, <1>4, <2>1
    <3> QED
      BY <1>4, <3>1, Kept
  <2> QED
    BY <2>2, <2>3 DEF WhileFreeingAt, Same, Frees
<1>5. CASE ~ (p < q)
  BY <1>5 DEF WhileFreeingAt
<1>6. CASE p < q /\ \E f \in Frames : Enters(t, n, f)
  <2>1. PICK f \in Frames : Enters(t, n, f)
    BY <1>6
  <2>2. D(t)' = n + 1 /\ Around(t, n) /\ A(t, n + 1)' = f
    BY <2>1 DEF Enters, Pushes
  <2>3. CASE u = t /\ q = n + 1
    <3>1. SUFFICES ASSUME Frees(A(t, p)')
                   PROVE  /\ f.at \in {"callback", "find", "remove", "nuke", "free"}
                          /\ f.at = "find" => \E r \in 1 .. q : Frees(A(t, r)') /\ A(t, r)'.id = f.id
      BY <2>2, <2>3 DEF WhileFreeingAt
    <3>2. p \in 1 .. D(t) /\ n >= 1 /\ p <= n
      BY <1>2, <1>6, <2>2, <2>3
    <3>3. Same(A(t, p)', A(t, p))
      BY <2>2, <3>2, Kept
    <3>4. Frees(A(t, p))
      BY <3>1, <3>3 DEF Same, Frees
    <3>5. f.at \in {"find", "remove"} /\ (f.at = "find" => f.op # "destroy")
      BY <2>1 DEF Enters
    <3>6. /\ n > 1 /\ A(t, n).op = "callback" /\ n - 1 \in 1 .. D(t)
          /\ A(t, n - 1).at \in Below /\ A(t, n - 1).op \in Using \cup {"destroy"}
          /\ f.op # "destroy" => f.id = A(t, n - 1).id
      BY <2>1, <3>2, CallerBelow
    <3>7. p <= n - 1
      BY <3>2, <3>4, <3>6 DEF Frees
    <3>8. Frees(A(t, n - 1))
      <4>1. CASE p = n - 1
        BY <3>4, <4>1
      <4>2. CASE p < n - 1
        <5>1. A(t, n - 1).at \in {"callback", "find", "remove", "nuke", "free"}
          BY <1>3, <3>2, <3>4, <3>6, <4>2 DEF WhileFreeingAt
        <5>2. A(t, n - 1) \in Frames
          BY <1>0, <3>6, FrameType
        <5> QED
          BY <3>6, <5>1, <5>2, FieldsOf DEF FrameOK, Frees, Below, Using
      <4> QED
        BY <3>2, <3>7, <4>1, <4>2
    <3>9. Same(A(t, n - 1)', A(t, n - 1))
      BY <2>2, <3>6, Kept
    <3>10. Frees(A(t, n - 1)') /\ A(t, n - 1)'.id = A(t, n - 1).id /\ n - 1 \in 1 .. q
      BY <2>3, <3>6, <3>8, <3>9 DEF Frees, Same
    <3> QED
      BY <3>5, <3>6, <3>10
  <2>4. CASE u # t \/ q <= n
    BY <1>4, <1>6, <2>2, <2>4
  <2> QED
    BY <2>2, <2>3, <2>4
<1>7. ASSUME p < q, NEW f \in Frames, n >= 1, A(t, n)' = f, f.op = A(t, n).op, f.id = A(t, n).id,
  Around(t, n - 1),
             f.at \notin {"find", "remove"},
             A(t, n).at = "find" => A(t, n).id \in DOMAIN SDL_properties,
             A(t, n).at \in {"find", "lock", "change", "iterate", "remove", "nuke"},
             A(t, n).at \in {"remove", "nuke"} => f.at \in {"nuke", "free"},
             D(t)' = n \/ (D(t)' = n + 1 /\ A(t, n + 1)'.at = "callback")
      PROVE  WhileFreeingAt(u, p, q)'
  <2>1. CASE u = t /\ q = n + 1
    BY <1>2, <1>7, <2>1 DEF WhileFreeingAt
  <2>2. CASE u = t /\ q = n
    <3>1. SUFFICES ASSUME Frees(A(t, p)') PROVE f.at \in {"nuke", "free"}
      BY <1>7, <2>2 DEF WhileFreeingAt
    <3>2. p \in 1 .. D(t) /\ p <= n - 1 /\ n \in 1 .. D(t) /\ p < D(t)
      BY <1>2, <1>7, <2>2
    <3>3. Same(A(t, p)', A(t, p))
      BY <1>7, <3>2, Kept
    <3>4. Frees(A(t, p))
      BY <3>1, <3>3 DEF Same, Frees
    <3>5. /\ A(t, n).at \in {"callback", "find", "remove", "nuke", "free"}
          /\ A(t, n).at = "find" => \E r \in 1 .. n : Frees(A(t, r)) /\ A(t, r).id = A(t, n).id
      BY <1>3, <3>2, <3>4 DEF WhileFreeingAt
    <3>6. A(t, n).at # "find"
      <4>1. SUFFICES ASSUME A(t, n).at = "find" PROVE FALSE
        OBVIOUS
      <4>2. PICK r \in 1 .. n : Frees(A(t, r)) /\ A(t, r).id = A(t, n).id
        BY <3>5, <4>1
      <4>3. r \in 1 .. D(t) /\ A(t, r).op = "destroy" /\ A(t, r).at # "remove"
        BY <4>2 DEF Frees
      <4>4. A(t, r).id \notin DOMAIN SDL_properties
        BY <4>3 DEF Links, FrameLinked
      <4> QED
        BY <1>7, <4>1, <4>2, <4>4
    <3> QED
      BY <1>7, <3>5, <3>6
  <2>3. CASE u # t \/ q <= n - 1
    BY <1>4, <1>7, <2>3
  <2> QED
    BY <1>2, <1>7, <2>1, <2>2, <2>3
<1>8. CASE p < q /\ \E f \in Frames : GoesOn(t, n, f)
  <2>1. PICK f \in Frames : GoesOn(t, n, f)
    BY <1>8
  <2>2. /\ n >= 1 /\ A(t, n)' = f /\ f.op = A(t, n).op /\ f.id = A(t, n).id /\ Around(t, n - 1)
        /\ f.at \notin {"find", "remove"}
        /\ A(t, n).at = "find" => A(t, n).id \in DOMAIN SDL_properties
        /\ A(t, n).at \in {"find", "lock", "change", "iterate", "remove", "nuke"}
        /\ A(t, n).at \in {"remove", "nuke"} => f.at \in {"nuke", "free"}
        /\ D(t)' = n
    BY <2>1 DEF GoesOn, Turns
  <2> QED
    BY <1>7, <1>8, <2>2
<1>9. CASE p < q /\ \E f, g \in Frames : CallsBack(t, n, f, g)
  <2>1. PICK f \in Frames, g \in Frames : CallsBack(t, n, f, g)
    BY <1>9
  <2>2. /\ n >= 1 /\ A(t, n)' = f /\ f.op = A(t, n).op /\ f.id = A(t, n).id /\ Around(t, n - 1)
        /\ f.at \notin {"find", "remove"}
        /\ A(t, n).at # "find"
        /\ A(t, n).at \in {"find", "lock", "change", "iterate", "remove", "nuke"}
        /\ A(t, n).at \in {"remove", "nuke"} => f.at \in {"nuke", "free"}
        /\ D(t)' = n + 1 /\ A(t, n + 1)'.at = "callback"
    BY <2>1 DEF CallsBack, Calls, Below
  <2> QED
    BY <1>7, <1>9, <2>2
<1>10. CASE p < q /\ Finishes(t, n)
  <2>1. n >= 1 /\ D(t)' = n - 1 /\ Around(t, n - 1)
    BY <1>10 DEF Finishes, Pops
  <2> QED
    BY <1>4, <1>10, <2>1
<1>11. CASE p < q /\ \E f \in Frames : Sweeps(t, n, f)
  <2>1. PICK f \in Frames : Sweeps(t, n, f)
    BY <1>11
  <2>2. D(t)' = n + 1 /\ Around(t, n) /\ A(t, n + 1)' = f /\ f.at = "nuke"
    BY <2>1 DEF Sweeps, Pushes
  <2>3. CASE u = t /\ q = n + 1
    BY <2>2, <2>3 DEF WhileFreeingAt
  <2>4. CASE u # t \/ q <= n
    BY <1>4, <1>11, <2>2, <2>4
  <2> QED
    BY <2>2, <2>3, <2>4
<1>12. CASE p < q /\ Quits(t)
  <2>1. u = t /\ p = 1 /\ q = 2
    BY <1>2, <1>12 DEF Quits
  <2>2. A(t, 1)' = QuitFrame
    BY <1>12 DEF Quits
  <2> QED
    BY <2>1, <2>2 DEF WhileFreeingAt, QuitFrame, NewFrame, Frees
<1>13. CASE UNCHANGED <<stack, held, quitting>>
  <2>1. D(u)' = D(u) /\ \A r \in 1 .. D(u) : A(u, r)' = A(u, r)
    BY <1>13 DEF D, A
  <2>2. WhileFreeingAt(u, p, q) /\ \A r \in 1 .. q : r \in 1 .. D(u)
    BY <1>2, <1>3, <2>1
  <2> QED
    BY <2>1, <2>2 DEF WhileFreeingAt
<1> QED
  BY <1>5, <1>6, <1>8, <1>9, <1>10, <1>11, <1>12, <1>13 DEF Move

(* SameGroup, for two calls.                                               *)
SameGroupAt(t, p, q) ==
  p < q /\ A(t, p).op \in Using /\ A(t, q).op \in Using /\ (\A r \in p .. q : A(t, r).op # "destroy") =>
    A(t, p).id = A(t, q).id
(* HeldGroup, for one call.                                                *)
HeldGroupAt(t, q) ==
  held[t] # 0 /\ A(t, q).op \in Using /\ (\A r \in 1 .. q : A(t, r).op # "destroy") => A(t, q).id = idOf[held[t]]

(* A move keeps SameGroup and HeldGroup.                                   *)
LEMMA GroupStep ==
  ASSUME NoQuitCalls, OwnOnly, Typed, Table, Nested, Outer, Links, Quit, SameGroup, HeldGroup,
         Stacked',
         NEW t \in Threads, NEW n \in Nat, n = D(t), Move(t, n)
  PROVE  SameGroup' /\ HeldGroup'
<1>0. Stacked /\ Grows
  BY DEF Typed, Move
<1>1. SUFFICES ASSUME NEW u \in Threads, NEW q \in 1 .. D(u)'
               PROVE  HeldGroupAt(u, q)' /\ \A p \in 1 .. D(u)' : SameGroupAt(u, p, q)'
  BY DEF SameGroup, HeldGroup, SameGroupAt, HeldGroupAt
<1>2. D(u) \in Nat /\ D(u)' \in Nat
  BY <1>0, DepthType, DepthTypeNext
<1>3. /\ \A v \in Threads : \A i, j \in 1 .. D(v) : SameGroupAt(v, i, j)
      /\ \A v \in Threads : \A j \in 1 .. D(v) : HeldGroupAt(v, j)
  BY DEF SameGroup, HeldGroup, SameGroupAt, HeldGroupAt
<1>4. held[u] # 0 => idOf'[held[u]] = idOf[held[u]]
  BY <1>0 DEF Links, HeldLinked, Grows
(* op and id do not change up to q *)
<1>5. ASSUME q \in 1 .. D(u), \A r \in 1 .. q : A(u, r)'.op = A(u, r).op /\ A(u, r)'.id = A(u, r).id,
             held'[u] = held[u] \/ held'[u] = 0
      PROVE  HeldGroupAt(u, q)' /\ \A p \in 1 .. D(u)' : SameGroupAt(u, p, q)'
  <2>1. q \in 1 .. q
    BY <1>2
  <2>2. HeldGroupAt(u, q)'
    <3>1. HeldGroupAt(u, q)
      BY <1>3, <1>5
    <3> QED
      BY <1>4, <1>5, <2>1, <3>1 DEF HeldGroupAt
  <2>3. ASSUME NEW p \in 1 .. D(u)', p < q PROVE SameGroupAt(u, p, q)'
    <3>1. p \in 1 .. D(u) /\ p \in 1 .. q /\ \A r \in p .. q : r \in 1 .. q
      BY <1>2, <1>5, <2>3
    <3>2. SameGroupAt(u, p, q)
      BY <1>3, <1>5, <3>1
    <3> QED
      BY <1>5, <2>1, <3>1, <3>2 DEF SameGroupAt
  <2> QED
    BY <2>2, <2>3 DEF SameGroupAt
<1>6. ASSUME NEW k \in Int, Around(t, k), k <= n, u # t \/ q <= k,
  held'[u] = held[u] \/ held'[u] = 0
      PROVE  HeldGroupAt(u, q)' /\ \A p \in 1 .. D(u)' : SameGroupAt(u, p, q)'
  <2>1. q \in 1 .. D(u)
    BY <1>2, <1>6 DEF Around
  <2>2. \A r \in 1 .. q : A(u, r)'.op = A(u, r).op /\ A(u, r)'.id = A(u, r).id
    <3>1. ASSUME NEW r \in 1 .. q PROVE r \in 1 .. D(u) /\ (u # t \/ r <= k)
      BY <1>2, <1>6, <2>1
    <3> QED
      BY <1>6, <3>1, Kept DEF Same
  <2> QED
    BY <1>5, <1>6, <2>1, <2>2
<1>7. ASSUME A(u, q)'.op \notin Using
      PROVE  HeldGroupAt(u, q)' /\ \A p \in 1 .. D(u)' : SameGroupAt(u, p, q)'
  BY <1>7 DEF HeldGroupAt, SameGroupAt
<1>8. CASE \E f \in Frames : Enters(t, n, f)
  <2>1. PICK f \in Frames : Enters(t, n, f)
    BY <1>8
  <2>2. D(t)' = n + 1 /\ Around(t, n) /\ A(t, n + 1)' = f /\ held' = held
    BY <2>1 DEF Enters, Pushes
  <2>3. CASE u = t /\ q = n + 1 /\ f.op \in Using
    <3>0. f.op # "destroy"
      BY <2>3 DEF Using
    <3>1. CASE n = 0
      <4>1. \A p \in 1 .. D(u)' : SameGroupAt(u, p, q)'
        BY <2>2, <2>3, <3>1 DEF SameGroupAt
      <4>2. held[t] # 0 => idOf[held[t]] = f.id
        BY <2>1, <2>3, <3>0, <3>1 DEF Enters, Reach, Using
      <4>3. HeldGroupAt(u, q)'
        BY <1>4, <2>2, <2>3, <4>2 DEF HeldGroupAt
      <4> QED
        BY <4>1, <4>3
    <3>2. CASE n >= 1
      <4>1. /\ n > 1 /\ A(t, n).op = "callback" /\ n - 1 \in 1 .. D(t) /\ n \in 1 .. D(t)
            /\ A(t, n - 1).op \in Using \cup {"destroy"}
            /\ f.id = A(t, n - 1).id
        BY <2>1, <3>0, <3>2, CallerBelow
      <4>2. \A r \in 1 .. n : A(t, r)'.op = A(t, r).op /\ A(t, r)'.id = A(t, r).id
        BY <2>2, Kept DEF Same
      <4>3. HeldGroupAt(u, q)'
        <5>1. SUFFICES ASSUME held[t] # 0, \A r \in 1 .. n + 1 : A(t, r)'.op # "destroy" PROVE f.id = idOf[held[t]]
          BY <1>4, <2>2, <2>3 DEF HeldGroupAt
        <5>2. \A r \in 1 .. n - 1 : A(t, r).op # "destroy"
          BY <4>2, <5>1
        <5>3. A(t, n - 1).op \in Using /\ n - 1 \in 1 .. n - 1
          BY <4>1, <5>2
        <5> QED
          BY <1>3, <4>1, <5>1, <5>2, <5>3 DEF HeldGroupAt
      <4>4. ASSUME NEW p \in 1 .. D(u)' PROVE SameGroupAt(u, p, q)'
        <5>1. SUFFICES ASSUME p < n + 1, A(t, p)'.op \in Using,
          \A r \in p .. n + 1 : A(t, r)'.op # "destroy"
                       PROVE  A(t, p)'.id = f.id
          BY <2>2, <2>3 DEF SameGroupAt
        <5>2. p \in 1 .. n /\ p \in 1 .. D(t) /\ A(t, p)'.op = A(t, p).op /\ A(t, p)'.id = A(t, p).id
          BY <1>2, <2>2, <2>3, <4>2, <5>1
        <5>3. p <= n - 1
          BY <4>1, <5>1, <5>2 DEF Using
        <5>4. \A r \in p .. n - 1 : A(t, r).op # "destroy"
          <6>1. ASSUME NEW r \in p .. n - 1 PROVE r \in 1 .. n /\ r \in p .. n + 1
            BY <5>2
          <6> QED
            BY <4>2, <5>1, <6>1
        <5>5. A(t, n - 1).op \in Using
          <6>1. n - 1 \in p .. n - 1
            BY <5>2, <5>3
          <6> QED
            BY <4>1, <5>4, <6>1
        <5>6. CASE p = n - 1
          BY <4>1, <5>2, <5>6
        <5>7. CASE p < n - 1
          BY <1>3, <4>1, <5>1, <5>2, <5>4, <5>5, <5>7 DEF SameGroupAt
        <5> QED
          BY <5>2, <5>3, <5>6, <5>7
      <4> QED
        BY <4>3, <4>4
    <3> QED
      BY <3>1, <3>2
  <2>4. CASE u # t \/ q <= n
    BY <1>6, <2>2, <2>4
  <2>5. CASE u = t /\ q = n + 1 /\ f.op \notin Using
    BY <1>7, <2>2, <2>5
  <2> QED
    BY <1>2, <2>2, <2>3, <2>4, <2>5
<1>9. ASSUME NEW f \in Frames, n >= 1, A(t, n)' = f, f.op = A(t, n).op, f.id = A(t, n).id,
  Around(t, n - 1),
             D(t)' = n \/ (D(t)' = n + 1 /\ A(t, n + 1)'.op = "callback"), held' = held
      PROVE  HeldGroupAt(u, q)' /\ \A p \in 1 .. D(u)' : SameGroupAt(u, p, q)'
  <2>1. CASE u = t /\ q = n + 1
    BY <1>7, <1>9, <2>1, <1>2 DEF Using
  <2>2. CASE u = t /\ q = n
    <3>1. q \in 1 .. D(u)
      BY <1>9, <2>2
    <3>2. \A r \in 1 .. q : A(u, r)'.op = A(u, r).op /\ A(u, r)'.id = A(u, r).id
      <4>1. ASSUME NEW r \in 1 .. n, r # n PROVE r \in 1 .. D(t) /\ r <= n - 1
        BY <4>1
      <4> QED
        BY <1>9, <2>2, <4>1, Kept DEF Same
    <3> QED
      BY <1>5, <1>9, <3>1, <3>2
  <2>3. CASE u # t \/ q <= n - 1
    BY <1>6, <1>9, <2>3
  <2> QED
    BY <1>2, <1>9, <2>1, <2>2, <2>3
<1>10. CASE \E f \in Frames : GoesOn(t, n, f)
  <2>1. PICK f \in Frames : GoesOn(t, n, f)
    BY <1>10
  <2>2. /\ n >= 1 /\ A(t, n)' = f /\ f.op = A(t, n).op /\ f.id = A(t, n).id /\ Around(t, n - 1)
        /\ D(t)' = n /\ held' = held
    BY <2>1 DEF GoesOn, Turns
  <2> QED
    BY <1>9, <2>2
<1>11. CASE \E f, g \in Frames : CallsBack(t, n, f, g)
  <2>1. PICK f \in Frames, g \in Frames : CallsBack(t, n, f, g)
    BY <1>11
  <2>2. /\ n >= 1 /\ A(t, n)' = f /\ f.op = A(t, n).op /\ f.id = A(t, n).id /\ Around(t, n - 1)
        /\ D(t)' = n + 1 /\ A(t, n + 1)'.op = "callback" /\ held' = held
    BY <2>1 DEF CallsBack, Calls
  <2> QED
    BY <1>9, <2>2
<1>12. CASE Finishes(t, n)
  <2>1. n >= 1 /\ D(t)' = n - 1 /\ Around(t, n - 1)
    BY <1>12 DEF Finishes, Pops
  <2>2. CASE held'[u] = held[u] \/ held'[u] = 0
    BY <1>6, <2>1, <2>2
  <2>3. CASE u = t /\ A(t, n).op = "lock"
    <3>1. n = 1
      BY <2>1, <2>3 DEF Outer
    <3> QED
      BY <2>1, <2>3, <3>1
  <2> QED
    BY <1>12, <2>2, <2>3 DEF Finishes
<1>13. CASE \E f \in Frames : Sweeps(t, n, f)
  <2>1. PICK f \in Frames : Sweeps(t, n, f)
    BY <1>13
  <2>2. D(t)' = n + 1 /\ Around(t, n) /\ A(t, n + 1)' = f /\ f.op = "nuke" /\ held' = held
    BY <2>1 DEF Sweeps, Pushes
  <2>3. CASE u = t /\ q = n + 1
    BY <1>7, <2>2, <2>3 DEF Using
  <2>4. CASE u # t \/ q <= n
    BY <1>6, <2>2, <2>4
  <2> QED
    BY <2>2, <2>3, <2>4
<1>14. CASE Quits(t)
  <2>1. u = t /\ q \in {1, 2}
    BY <1>2, <1>14 DEF Quits
  <2>2. A(t, 1)' = QuitFrame /\ A(t, 2)' = NewFrame("destroy", "remove", 1, 0)
    BY <1>14 DEF Quits
  <2>3. A(t, q)'.op \notin Using
    BY <2>1, <2>2 DEF QuitFrame, NewFrame, Using
  <2> QED
    BY <1>7, <2>1, <2>3
<1>15. CASE UNCHANGED <<stack, held, quitting>>
  <2>1. D(u)' = D(u) /\ \A r \in 1 .. D(u) : A(u, r)' = A(u, r)
    BY <1>15 DEF D, A
  <2>2. q \in 1 .. D(u) /\ \A r \in 1 .. q : r \in 1 .. D(u)
    BY <1>2, <2>1
  <2> QED
    BY <1>5, <1>15, <2>1, <2>2
<1> QED
  BY <1>8, <1>10, <1>11, <1>12, <1>13, <1>14, <1>15 DEF Move

-----------------------------------------------------------------------------
(* How often t has lock l.                                                 *)
Depth(l, t) == IF t \in l.owner THEN l.depth ELSE 0

(* Taken is once more for the thread, and no change for the others.        *)
LEMMA Taking ==
  ASSUME NEW l \in LockStates, NEW t \in Threads, CanTake(l, t)
  PROVE  /\ Taken(l, t) \in LockStates /\ Depth(l, t) \in Nat /\ Depth(Taken(l, t), t) = Depth(l, t) + 1
         /\ \A u \in Threads : u # t => Depth(Taken(l, t), u) = Depth(l, u)
<1>1. l.owner \subseteq {t} /\ l.depth \in Nat /\ (l = Free \/ l.owner = {t})
  BY DEF CanTake, LockStates
<1>2. l.owner = {} => l.depth = 0
  BY <1>1 DEF Free
<1>3. Taken(l, t) = [owner |-> {t}, depth |-> l.depth + 1]
  BY DEF Taken
<1> DEFINE m == [owner |-> {t}, depth |-> l.depth + 1]
<1>4. m.owner = {t} /\ m.depth = l.depth + 1
  OBVIOUS
<1>5. m \in LockStates
  BY <1>1 DEF LockStates
<1>6. Depth(m, t) = l.depth + 1 /\ \A u \in Threads : u # t => Depth(m, u) = 0
  BY <1>4 DEF Depth
<1>7. Depth(l, t) = l.depth /\ \A u \in Threads : u # t => Depth(l, u) = 0
  BY <1>1, <1>2 DEF Depth
<1> QED
  BY <1>1, <1>3, <1>5, <1>6, <1>7

(* Released is once less for the thread, and no change for the others.     *)
LEMMA Releasing ==
  ASSUME NEW l \in LockStates, NEW t \in Threads, Depth(l, t) >= 1
  PROVE  /\ Released(l) \in LockStates /\ Depth(l, t) \in Nat /\ Depth(Released(l), t) = Depth(l, t) - 1
         /\ \A u \in Threads : u # t => Depth(Released(l), u) = Depth(l, u)
<1>1. t \in l.owner /\ Depth(l, t) = l.depth /\ l.depth \in Nat
  BY DEF Depth, LockStates
<1>2. l.owner = {t} /\ l.depth > 0 /\ l \in [owner : SUBSET Threads, depth : Nat]
  BY <1>1 DEF LockStates, Free
<1>3. \A u \in Threads : u # t => Depth(l, u) = 0
  BY <1>2 DEF Depth
<1>4. CASE l.depth <= 1
  <2>1. Released(l) = Free
    BY <1>4 DEF Released
  <2>2. Free \in LockStates /\ \A u : Depth(Free, u) = 0
    BY DEF LockStates, Free, Depth
  <2> QED
    BY <1>1, <1>2, <1>3, <1>4, <2>1, <2>2
<1>5. CASE l.depth > 1
  <2> DEFINE m == [l EXCEPT !.depth = @ - 1]
  <2>1. Released(l) = m
    BY <1>2, <1>5 DEF Released
  <2>2. m.owner = {t} /\ m.depth = l.depth - 1 /\ m \in [owner : SUBSET Threads, depth : Nat]
    BY <1>2, <1>5
  <2> HIDE DEF m
  <2>3. m \in LockStates
    BY <1>1, <1>5, <2>2 DEF LockStates
  <2>4. Depth(m, t) = l.depth - 1 /\ \A u \in Threads : u # t => Depth(m, u) = 0
    BY <2>2 DEF Depth
  <2> QED
    BY <1>1, <1>3, <2>1, <2>3, <2>4
<1> QED
  BY <1>1, <1>4, <1>5

(* The lock that a call holds while its callback runs: 0 for the table's,  *)
(* -1 for none.                                                            *)
Holding(f) ==
  IF Frees(f) THEN 0
  ELSE IF f.at \in {"change", "insert", "iterate", "enumerated"} THEN f.obj ELSE -1
(* How often a call holds lock o,                                          *)
Bit(f, o) == IF Holding(f) = o THEN 1 ELSE 0
(* ... how often the calls of t do,                                        *)
Count(t, o) == Cardinality({p \in 1 .. D(t) : Holding(A(t, p)) = o})
(* ... and how often t does through SDL_LockProperties.                    *)
Extra(t, o) == IF held[t] = o /\ o # 0 THEN 1 ELSE 0
(* Lock o, the table's or a group's.                                       *)
LockOf(o) == IF o = 0 THEN SDL_properties_lock ELSE lock[o]

(* Clause Locks: a thread has every lock as often as its calls hold it.    *)
Locks == \A t \in Threads : \A o \in 0 .. MaxObjects : Depth(LockOf(o), t) = Count(t, o) + Extra(t, o)

(* The size of a set of places, with a new one.                            *)
LEMMA Finite ==
  ASSUME NEW n \in Nat, NEW S \in SUBSET (1 .. n)
  PROVE  IsFiniteSet(S) /\ Cardinality(S) \in Nat /\ Cardinality(S \cup {n + 1}) = Cardinality(S) + 1
<1>1. IsFiniteSet(1 .. n)
  BY FS_Interval
<1>2. IsFiniteSet(S)
  BY <1>1, FS_Subset
<1>3. n + 1 \notin S
  OBVIOUS
<1> QED
  BY <1>2, <1>3, FS_AddElement, FS_CardinalityType

(* A count is a natural number.                                            *)
LEMMA CountType == ASSUME Stacked, NEW t \in Threads, NEW o PROVE Count(t, o) \in Nat
  BY DepthType, Finite DEF Count

(* The last call counts apart from those below it.                         *)
LEMMA CountTop ==
  ASSUME NEW t \in Threads, NEW o, NEW n \in Nat, n >= 1, n = D(t)
  PROVE  LET S == {p \in 1 .. n - 1 : Holding(A(t, p)) = o}
         IN  Cardinality(S) \in Nat /\ Count(t, o) = Cardinality(S) + Bit(A(t, n), o)
<1> DEFINE S == {p \in 1 .. n - 1 : Holding(A(t, p)) = o}
           T == {p \in 1 .. D(t) : Holding(A(t, p)) = o}
<1>1. S \in SUBSET (1 .. n - 1) /\ n - 1 \in Nat /\ (n - 1) + 1 = n
  OBVIOUS
<1>2. T = IF Holding(A(t, n)) = o THEN S \cup {n} ELSE S
  OBVIOUS
<1> HIDE DEF S, T
<1>3. Cardinality(S) \in Nat /\ Cardinality(S \cup {n}) = Cardinality(S) + 1
  <2>1. Cardinality(S) \in Nat /\ Cardinality(S \cup {(n - 1) + 1}) = Cardinality(S) + 1
    BY <1>1, Finite
  <2> QED
    BY <1>1, <2>1
<1>4. Cardinality(T) = Cardinality(S) + Bit(A(t, n), o)
  BY <1>2, <1>3 DEF Bit
<1> QED
  BY <1>3, <1>4 DEF S, T, Count

(* CountTop in the next state.                                             *)
LEMMA CountTopNext ==
  ASSUME NEW t \in Threads, NEW o, NEW n \in Nat, n >= 1, n = D(t)'
  PROVE  LET S == {p \in 1 .. n - 1 : Holding(A(t, p)') = o}
         IN  Cardinality(S) \in Nat /\ Count(t, o)' = Cardinality(S) + Bit(A(t, n)', o)
<1> DEFINE S == {p \in 1 .. n - 1 : Holding(A(t, p)') = o}
           T == {p \in 1 .. D(t)' : Holding(A(t, p)') = o}
<1>1. S \in SUBSET (1 .. n - 1) /\ n - 1 \in Nat /\ (n - 1) + 1 = n
  OBVIOUS
<1>2. T = IF Holding(A(t, n)') = o THEN S \cup {n} ELSE S
  OBVIOUS
<1> HIDE DEF S, T
<1>3. Cardinality(S) \in Nat /\ Cardinality(S \cup {n}) = Cardinality(S) + 1
  <2>1. Cardinality(S) \in Nat /\ Cardinality(S \cup {(n - 1) + 1}) = Cardinality(S) + 1
    BY <1>1, Finite
  <2> QED
    BY <1>1, <2>1
<1>4. Cardinality(T) = Cardinality(S) + Bit(A(t, n)', o)
  BY <1>2, <1>3 DEF Bit
<1>5. Count(t, o)' = Cardinality(T)
  BY DEF Count, T, Holding, Frees
<1> QED
  BY <1>3, <1>4, <1>5 DEF S

(* A frame that is left alone holds what it held.                          *)
LEMMA SameHolding == ASSUME NEW f, NEW g, Same(f, g) PROVE Holding(f) = Holding(g)
  BY DEF Same, Holding, Frees

(* The other threads' counts stay.                                         *)
LEMMA CountOthers ==
  ASSUME NEW t \in Threads, NEW k \in Int, Around(t, k), NEW u \in Threads, u # t, NEW o
  PROVE  Count(u, o)' = Count(u, o)
<1>1. D(u)' = D(u) /\ \A p \in 1 .. D(u) : Same(A(u, p)', A(u, p))
  BY DEF Around
<1>2. \A p \in 1 .. D(u) : Holding(A(u, p)') = Holding(A(u, p))
  BY <1>1, SameHolding
<1>3. {p \in 1 .. D(u) : Holding(A(u, p)') = o} = {p \in 1 .. D(u) : Holding(A(u, p)) = o}
  BY <1>2
<1>4. Count(u, o)' = Cardinality({p \in 1 .. D(u)' : Holding(A(u, p)') = o})
  BY DEF Count, Holding, Frees
<1> QED
  BY <1>1, <1>3, <1>4 DEF Count

(* A call that begins adds what it holds,                                  *)
LEMMA CountPush ==
  ASSUME Stacked, NEW t \in Threads, NEW n \in Nat, n = D(t), NEW f, Pushes(t, n, f), NEW o
  PROVE  Count(t, o)' = Count(t, o) + Bit(f, o) /\ \A u \in Threads : u # t => Count(u, o)' = Count(u, o)
<1>1. D(t)' = n + 1 /\ A(t, n + 1)' = f /\ \A p \in 1 .. n : Same(A(t, p)', A(t, p))
  BY DEF Pushes, Around
<1>2. n + 1 \in Nat /\ n + 1 >= 1 /\ (n + 1) - 1 = n
  OBVIOUS
<1>3. Count(t, o)' = Cardinality({p \in 1 .. n : Holding(A(t, p)') = o}) + Bit(A(t, n + 1)', o)
  <2>1. Count(t, o)' = Cardinality({p \in 1 .. (n + 1) - 1 : Holding(A(t, p)') = o}) + Bit(A(t, n + 1)', o)
    BY <1>1, <1>2, CountTopNext
  <2> QED
    BY <1>2, <2>1
<1>4. {p \in 1 .. n : Holding(A(t, p)') = o} = {p \in 1 .. n : Holding(A(t, p)) = o}
  BY <1>1, SameHolding
<1>5. \A u \in Threads : u # t => Count(u, o)' = Count(u, o)
  BY CountOthers DEF Pushes
<1> QED
  BY <1>1, <1>3, <1>4, <1>5 DEF Count

(* ... one that goes on changes what it held to what it holds,             *)
LEMMA CountTurn ==
  ASSUME Stacked, NEW t \in Threads, NEW n \in Nat, n = D(t), NEW f, Turns(t, n, f), NEW o
  PROVE  /\ Count(t, o)' + Bit(A(t, n), o) = Count(t, o) + Bit(f, o)
         /\ \A u \in Threads : u # t => Count(u, o)' = Count(u, o)
<1>1. n >= 1 /\ D(t)' = n /\ A(t, n)' = f /\ \A p \in 1 .. n - 1 : Same(A(t, p)', A(t, p))
  BY DEF Turns, Around
<1> DEFINE S == {p \in 1 .. n - 1 : Holding(A(t, p)) = o}
           T == {p \in 1 .. n - 1 : Holding(A(t, p)') = o}
<1>2. Count(t, o)' = Cardinality(T) + Bit(f, o) /\ Cardinality(T) \in Nat
  BY <1>1, CountTopNext
<1>3. Count(t, o) = Cardinality(S) + Bit(A(t, n), o)
  BY <1>1, CountTop
<1>4. S = T
  BY <1>1, SameHolding
<1>5. \A u \in Threads : u # t => Count(u, o)' = Count(u, o)
  BY CountOthers DEF Turns
<1> HIDE DEF S, T
<1>6. Bit(f, o) \in Nat /\ Bit(A(t, n), o) \in Nat
  BY DEF Bit
<1> QED
  BY <1>2, <1>3, <1>4, <1>5, <1>6

(* ... one that ends takes what it held,                                   *)
LEMMA CountPop ==
  ASSUME Stacked, NEW t \in Threads, NEW n \in Nat, n = D(t), Pops(t, n), NEW o
  PROVE  /\ Count(t, o) = Count(t, o)' + Bit(A(t, n), o) /\ Count(t, o)' \in Nat
         /\ \A u \in Threads : u # t => Count(u, o)' = Count(u, o)
<1>1. n >= 1 /\ D(t)' = n - 1 /\ \A p \in 1 .. n - 1 : Same(A(t, p)', A(t, p))
  BY DEF Pops, Around
<1> DEFINE S == {p \in 1 .. n - 1 : Holding(A(t, p)) = o}
           T == {p \in 1 .. n - 1 : Holding(A(t, p)') = o}
<1>2. Count(t, o)' = Cardinality(T)
  BY <1>1 DEF Count, Holding, Frees
<1>3. Count(t, o) = Cardinality(S) + Bit(A(t, n), o) /\ Cardinality(S) \in Nat
  BY <1>1, CountTop
<1>4. S = T
  BY <1>1, SameHolding
<1>5. \A u \in Threads : u # t => Count(u, o)' = Count(u, o)
  BY CountOthers DEF Pops
<1> HIDE DEF S, T
<1> QED
  BY <1>2, <1>3, <1>4, <1>5

(* ... and calling back changes nothing.                                   *)
LEMMA CountCalls ==
  ASSUME Stacked, NEW t \in Threads, NEW n \in Nat, n = D(t), NEW f, NEW g, Calls(t, n, f, g),
         NEW o,
         Holding(f) = Holding(A(t, n)), Holding(g) # o
  PROVE  \A u \in Threads : Count(u, o)' = Count(u, o)
<1>1. n >= 1 /\ D(t)' = n + 1 /\ A(t, n)' = f /\ A(t, n + 1)' = g /\ \A p \in 1 .. n - 1 : Same(A(t, p)', A(t, p))
  BY DEF Calls, Around
<1>2. n + 1 \in Nat /\ n + 1 >= 1 /\ (n + 1) - 1 = n
  OBVIOUS
<1>3. Count(t, o)' = Cardinality({p \in 1 .. n : Holding(A(t, p)') = o}) + Bit(A(t, n + 1)', o)
      /\ Cardinality({p \in 1 .. n : Holding(A(t, p)') = o}) \in Nat
  <2>1. Count(t, o)' = Cardinality({p \in 1 .. (n + 1) - 1 : Holding(A(t, p)') = o}) + Bit(A(t, n + 1)', o)
        /\ Cardinality({p \in 1 .. (n + 1) - 1 : Holding(A(t, p)') = o}) \in Nat
    BY <1>1, <1>2, CountTopNext
  <2> QED
    BY <1>2, <2>1
<1>4. \A p \in 1 .. n : Holding(A(t, p)') = Holding(A(t, p))
  <2>1. ASSUME NEW p \in 1 .. n PROVE Holding(A(t, p)') = Holding(A(t, p))
    <3>1. CASE p = n
      BY <1>1, <3>1
    <3>2. CASE p \in 1 .. n - 1
      BY <1>1, <3>2, SameHolding
    <3> QED
      BY <3>1, <3>2
  <2> QED
    BY <2>1
<1>5. {p \in 1 .. n : Holding(A(t, p)') = o} = {p \in 1 .. n : Holding(A(t, p)) = o}
  BY <1>4
<1>6. Bit(A(t, n + 1)', o) = 0
  BY <1>1 DEF Bit
<1>7. Count(t, o)' = Count(t, o)
  BY <1>3, <1>5, <1>6 DEF Count
<1>8. \A u \in Threads : u # t => Count(u, o)' = Count(u, o)
  BY CountOthers DEF Calls
<1> QED
  BY <1>7, <1>8

(* How often t should have lock o.                                         *)
Stake(t, o) == Count(t, o) + Extra(t, o)

(* Locks, with the sum named.                                              *)
LEMMA LocksIs == Locks <=> \A t \in Threads : \A o \in 0 .. MaxObjects : Depth(LockOf(o), t) = Stake(t, o)
  BY DEF Locks, Stake

(* Every lock is in a state of LockStates.                                 *)
LEMMA LockOfType == ASSUME Typed, NEW o \in 0 .. MaxObjects PROVE LockOf(o) \in LockStates
  BY PropertiesAssumption DEF Typed, LockOf, Objects

(* Locks stays when no lock and no stake changes,                          *)
LEMMA LocksSame ==
  ASSUME Locks, \A o \in 0 .. MaxObjects : LockOf(o)' = LockOf(o),
         \A u \in Threads : \A o \in 0 .. MaxObjects : Stake(u, o)' = Stake(u, o)
  PROVE  Locks'
<1>1. ASSUME NEW u \in Threads, NEW o \in 0 .. MaxObjects PROVE Depth(LockOf(o), u)' = Stake(u, o)'
  <2>1. Depth(LockOf(o), u) = Stake(u, o)
    BY LocksIs
  <2>2. Depth(LockOf(o), u)' = Depth(LockOf(o), u)
    BY DEF Depth
  <2> QED
    BY <2>1, <2>2
<1> QED
  BY <1>1 DEF Locks, Stake

(* ... when a lock and the stake in it grow by one,                        *)
LEMMA LocksTake ==
  ASSUME Typed, Locks, NEW t \in Threads, NEW c \in 0 .. MaxObjects, CanTake(LockOf(c), t),
         LockOf(c)' = Taken(LockOf(c), t), Stake(t, c)' = Stake(t, c) + 1,
         \A o \in 0 .. MaxObjects : o # c => LockOf(o)' = LockOf(o),
         \A u \in Threads : \A o \in 0 .. MaxObjects : u # t \/ o # c => Stake(u, o)' = Stake(u, o)
  PROVE  Locks'
<1>1. \A u \in Threads : \A o \in 0 .. MaxObjects : Depth(LockOf(o), u) = Stake(u, o)
  BY LocksIs
<1>2. LockOf(c) \in LockStates
  BY LockOfType
<1>3. /\ Depth(Taken(LockOf(c), t), t) = Depth(LockOf(c), t) + 1
      /\ \A u \in Threads : u # t => Depth(Taken(LockOf(c), t), u) = Depth(LockOf(c), u)
  BY <1>2, Taking
<1>4. \A o, u : Depth(LockOf(o), u)' = Depth(LockOf(o)', u)
  BY DEF Depth
<1>5. ASSUME NEW u \in Threads, NEW o \in 0 .. MaxObjects PROVE Depth(LockOf(o), u)' = Stake(u, o)'
  <2>1. CASE o # c
    BY <1>1, <1>4, <2>1
  <2>2. CASE o = c /\ u # t
    BY <1>1, <1>3, <1>4, <2>2
  <2>3. CASE o = c /\ u = t
    BY <1>1, <1>3, <1>4, <2>3
  <2> QED
    BY <2>1, <2>2, <2>3
<1> QED
  BY <1>5 DEF Locks, Stake

(* ... and when they shrink by one.                                        *)
LEMMA LocksRelease ==
  ASSUME Typed, Locks, NEW t \in Threads, NEW c \in 0 .. MaxObjects,
         LockOf(c)' = Released(LockOf(c)), Stake(t, c)' \in Nat, Stake(t, c)' + 1 = Stake(t, c),
         \A o \in 0 .. MaxObjects : o # c => LockOf(o)' = LockOf(o),
         \A u \in Threads : \A o \in 0 .. MaxObjects : u # t \/ o # c => Stake(u, o)' = Stake(u, o)
  PROVE  Locks'
<1>1. \A u \in Threads : \A o \in 0 .. MaxObjects : Depth(LockOf(o), u) = Stake(u, o)
  BY LocksIs
<1>2. LockOf(c) \in LockStates
  BY LockOfType
<1>6. Depth(LockOf(c), t) >= 1
  BY <1>1
<1>3. /\ Depth(LockOf(c), t) \in Nat
      /\ Depth(Released(LockOf(c)), t) = Depth(LockOf(c), t) - 1
      /\ \A u \in Threads : u # t => Depth(Released(LockOf(c)), u) = Depth(LockOf(c), u)
  BY <1>2, <1>6, Releasing
<1>4. \A o, u : Depth(LockOf(o), u)' = Depth(LockOf(o)', u)
  BY DEF Depth
<1>5. ASSUME NEW u \in Threads, NEW o \in 0 .. MaxObjects PROVE Depth(LockOf(o), u)' = Stake(u, o)'
  <2>1. CASE o # c
    BY <1>1, <1>4, <2>1
  <2>2. CASE o = c /\ u # t
    BY <1>1, <1>3, <1>4, <2>2
  <2>3. CASE o = c /\ u = t
    BY <1>1, <1>3, <1>4, <2>3
  <2> QED
    BY <2>1, <2>2, <2>3
<1> QED
  BY <1>5 DEF Locks, Stake

(* A stake changes only with the calls or with what is held.               *)
LEMMA StakeSame ==
  ASSUME UNCHANGED held, NEW u, NEW o, Count(u, o)' = Count(u, o)
  PROVE  Stake(u, o)' = Stake(u, o)
  BY DEF Stake, Extra

(* No lock changes.                                                        *)
LEMMA LocksStay ==
  ASSUME UNCHANGED SDL_properties_lock, UNCHANGED lock PROVE \A o \in 0 .. MaxObjects : LockOf(o)' = LockOf(o)
  BY DEF LockOf

(* One group's lock changes.                                               *)
LEMMA LockOne ==
  ASSUME Typed, UNCHANGED SDL_properties_lock, NEW c \in Objects, NEW l,
         lock' = [lock EXCEPT ![c] = l]
  PROVE  /\ c \in 0 .. MaxObjects /\ c # 0 /\ LockOf(c) = lock[c] /\ LockOf(c)' = l
         /\ \A o \in 0 .. MaxObjects : o # c => LockOf(o)' = LockOf(o)
  BY PropertiesAssumption DEF Typed, LockOf, Objects

(* The table's lock changes.                                               *)
LEMMA TableOne ==
  ASSUME UNCHANGED lock
  PROVE  /\ 0 \in 0 .. MaxObjects /\ LockOf(0) = SDL_properties_lock /\ LockOf(0)' = SDL_properties_lock'
         /\ \A o \in 0 .. MaxObjects : o # 0 => LockOf(o)' = LockOf(o)
  BY PropertiesAssumption DEF LockOf

(* Moves that change no count.                                             *)
LEMMA CountFree ==
  ASSUME Stacked, NEW t \in Threads, NEW n \in Nat, n = D(t),
         \/ \E f \in Frames : Pushes(t, n, f) /\ Holding(f) = -1
         \/ Pops(t, n) /\ Holding(A(t, n)) = -1
         \/ \E f \in Frames : Turns(t, n, f) /\ Holding(f) = Holding(A(t, n))
         \/ \E f, g \in Frames : Calls(t, n, f, g) /\ Holding(f) = Holding(A(t, n)) /\ Holding(g) = -1
  PROVE  \A u \in Threads : \A o \in 0 .. MaxObjects : Count(u, o)' = Count(u, o)
<1> SUFFICES ASSUME NEW u \in Threads, NEW o \in 0 .. MaxObjects PROVE Count(u, o)' = Count(u, o)
  OBVIOUS
<1>0. o # -1 /\ \A v \in Threads : Count(v, o) \in Nat
  BY CountType
<1>1. CASE \E f \in Frames : Pushes(t, n, f) /\ Holding(f) = -1
  <2>1. PICK f \in Frames : Pushes(t, n, f) /\ Holding(f) = -1
    BY <1>1
  <2>2. Bit(f, o) = 0
    BY <1>0, <2>1 DEF Bit
  <2>4. Pushes(t, n, f)
    BY <2>1
  <2>3. Count(t, o)' = Count(t, o) + Bit(f, o) /\ (\A v \in Threads : v # t => Count(v, o)' = Count(v, o))
    BY <2>4, CountPush
  <2> QED
    BY <1>0, <2>2, <2>3
<1>2. CASE Pops(t, n) /\ Holding(A(t, n)) = -1
  <2>2. Bit(A(t, n), o) = 0
    BY <1>0, <1>2 DEF Bit
  <2>3. Count(t, o) = Count(t, o)' + Bit(A(t, n), o) /\ Count(t, o)' \in Nat /\ (u # t => Count(u, o)' = Count(u, o))
    BY <1>2, CountPop
  <2> QED
    BY <1>0, <2>2, <2>3
<1>3. CASE \E f \in Frames : Turns(t, n, f) /\ Holding(f) = Holding(A(t, n))
  <2>1. PICK f \in Frames : Turns(t, n, f) /\ Holding(f) = Holding(A(t, n))
    BY <1>3
  <2>2. Bit(A(t, n), o) = Bit(f, o) /\ Bit(f, o) \in {0, 1}
    BY <2>1 DEF Bit
  <2>3. Count(t, o)' + Bit(A(t, n), o) = Count(t, o) + Bit(f, o) /\ (u # t => Count(u, o)' = Count(u, o))
    BY <2>1, CountTurn
  <2>4. n >= 1 /\ D(t)' = n
    BY <2>1 DEF Turns
  <2>5. Count(t, o)' \in Nat
    <3>1. {p \in 1 .. D(t)' : Holding(A(t, p)') = o} \in SUBSET (1 .. n)
      BY <2>4
    <3>2. Count(t, o)' = Cardinality({p \in 1 .. D(t)' : Holding(A(t, p)') = o})
      BY DEF Count, Holding, Frees
    <3> QED
      BY <3>1, <3>2, Finite
  <2> QED
    BY <1>0, <2>2, <2>3, <2>5
<1>4. CASE \E f, g \in Frames : Calls(t, n, f, g) /\ Holding(f) = Holding(A(t, n)) /\ Holding(g) = -1
  <2>1. PICK f \in Frames, g \in Frames : Calls(t, n, f, g) /\ Holding(f) = Holding(A(t, n)) /\ Holding(g) = -1
    BY <1>4
  <2>2. Holding(g) # o
    BY <1>0, <2>1
  <2> QED
    BY <2>1, <2>2, CountCalls
<1> QED
  BY <1>1, <1>2, <1>3, <1>4

(* Locks stays when no lock changes and the calls hold what they held.     *)
LEMMA LocksFree ==
  ASSUME Typed, Locks, UNCHANGED <<SDL_properties_lock, lock, held>>,
         NEW t \in Threads, NEW n \in Nat, n = D(t),
         \/ \E f \in Frames : Pushes(t, n, f) /\ Holding(f) = -1
         \/ Pops(t, n) /\ Holding(A(t, n)) = -1
         \/ \E f \in Frames : Turns(t, n, f) /\ Holding(f) = Holding(A(t, n))
         \/ \E f, g \in Frames : Calls(t, n, f, g) /\ Holding(f) = Holding(A(t, n)) /\ Holding(g) = -1
  PROVE  Locks'
<1>1. \A u \in Threads : \A o \in 0 .. MaxObjects : Count(u, o)' = Count(u, o)
  BY CountFree DEF Typed
<1>2. \A u \in Threads : \A o \in 0 .. MaxObjects : Stake(u, o)' = Stake(u, o)
  BY <1>1, StakeSame
<1> QED
  BY <1>2, LocksStay, LocksSame

(* The frame of a call that gives up lock c goes.                          *)
LEMMA StakeReleased ==
  ASSUME Typed, UNCHANGED held, NEW t \in Threads, NEW n \in Nat, n = D(t),
         NEW c \in 0 .. MaxObjects,
         Pops(t, n), Holding(A(t, n)) = c
  PROVE  /\ Stake(t, c)' \in Nat /\ Stake(t, c)' + 1 = Stake(t, c)
         /\ \A u \in Threads : \A o \in 0 .. MaxObjects : u # t \/ o # c => Stake(u, o)' = Stake(u, o)
<1>1. Stacked
  BY DEF Typed
<1>2. Count(t, c) = Count(t, c)' + 1 /\ Count(t, c)' \in Nat
  <2>1. Bit(A(t, n), c) = 1
    BY DEF Bit
  <2> QED
    BY <1>1, <2>1, CountPop
<1>3. ASSUME NEW u \in Threads, NEW o \in 0 .. MaxObjects, u # t \/ o # c PROVE Count(u, o)' = Count(u, o)
  <2>1. CASE u # t
    BY <1>1, <2>1, CountPop
  <2>2. CASE u = t /\ o # c
    <3>1. Bit(A(t, n), o) = 0
      BY <2>2 DEF Bit
    <3>2. Count(t, o) = Count(t, o)' + Bit(A(t, n), o) /\ Count(t, o)' \in Nat
      BY <1>1, CountPop
    <3> QED
      BY <2>2, <3>1, <3>2
  <2> QED
    BY <1>3, <2>1, <2>2
<1>4. Extra(t, c)' = Extra(t, c) /\ Extra(t, c) \in Nat
  BY DEF Extra
<1> QED
  BY <1>2, <1>3, <1>4, StakeSame DEF Stake

(* A call takes lock c and goes on.                                        *)
LEMMA StakeTaken ==
  ASSUME Typed, UNCHANGED held, NEW t \in Threads, NEW n \in Nat, n = D(t),
         NEW c \in 0 .. MaxObjects,
         NEW f, Turns(t, n, f), Holding(f) = c, Holding(A(t, n)) = -1
  PROVE  /\ Stake(t, c)' = Stake(t, c) + 1
         /\ \A u \in Threads : \A o \in 0 .. MaxObjects : u # t \/ o # c => Stake(u, o)' = Stake(u, o)
<1>1. Stacked
  BY DEF Typed
<1>5. ASSUME NEW o \in 0 .. MaxObjects PROVE Count(t, o)' = Count(t, o) + Bit(f, o) /\ Count(t, o) \in Nat
  <2>1. Bit(A(t, n), o) = 0
    BY DEF Bit
  <2>2. Count(t, o)' + Bit(A(t, n), o) = Count(t, o) + Bit(f, o) /\ Count(t, o) \in Nat
    BY <1>1, CountTurn, CountType
  <2>3. Count(t, o)' \in Nat
    <3>1. D(t)' = n
      BY DEF Turns
    <3>3. {p \in 1 .. D(t)' : Holding(A(t, p)') = o} \in SUBSET (1 .. n)
      BY <3>1
    <3>2. Count(t, o)' = Cardinality({p \in 1 .. D(t)' : Holding(A(t, p)') = o})
      BY DEF Count, Holding, Frees
    <3> QED
      BY <3>2, <3>3, Finite
  <2> QED
    BY <2>1, <2>2, <2>3
<1>2. Count(t, c)' = Count(t, c) + 1 /\ Count(t, c) \in Nat
  <2>1. Bit(f, c) = 1
    BY DEF Bit
  <2> QED
    BY <1>5, <2>1
<1>3. ASSUME NEW u \in Threads, NEW o \in 0 .. MaxObjects, u # t \/ o # c PROVE Count(u, o)' = Count(u, o)
  <2>1. CASE u # t
    BY <1>1, <2>1, CountTurn
  <2>2. CASE u = t /\ o # c
    <3>1. Bit(f, o) = 0
      BY <2>2 DEF Bit
    <3> QED
      BY <1>5, <2>2, <3>1
  <2> QED
    BY <1>3, <2>1, <2>2
<1>4. Extra(t, c)' = Extra(t, c) /\ Extra(t, c) \in Nat
  BY DEF Extra
<1> QED
  BY <1>2, <1>3, <1>4, StakeSame DEF Stake

(* What a call holds, by its place.                                        *)
LEMMA AtHolds ==
  ASSUME NEW f \in Frames
  PROVE  /\ f.at \in {"find", "remove", "lock", "unlock", "callback", "sweep"} => Holding(f) = -1
         /\ f.at \in {"change", "insert", "iterate", "enumerated"} => Holding(f) = f.obj
         /\ f.at \in {"nuke", "free"} => Holding(f) = IF f.op = "destroy" THEN 0 ELSE -1
  BY FieldsOf DEF Holding, Frees, FrameOK

(* A call begins with nothing.                                             *)
LEMMA EntersHolds ==
  ASSUME NEW t \in Threads, NEW n \in Nat, NEW f \in Frames, Enters(t, n, f)
  PROVE  Pushes(t, n, f) /\ Holding(f) = -1
<1>1. f.at \in {"find", "remove"}
  BY DEF Enters
<1> QED
  BY <1>1, AtHolds DEF Enters

(* Every action keeps Locks.                                               *)
LEMMA LocksStep ==
  ASSUME Typed, Table, Links, Outer, Locks, Stacked', NEW t \in Threads, NextOf(t), NEW n \in Nat,
         n = D(t)
  PROVE  Locks'
<1> USE DEF table, values
<1>0. Stacked /\ 0 .. MaxObjects = {0} \cup Objects
  BY PropertiesAssumption DEF Typed, Objects
<1>t. n >= 1 => A(t, n) \in Frames /\ n \in 1 .. D(t)
  BY <1>0, FrameType
<1>1. ASSUME NEW f \in Frames, Enters(t, n, f), UNCHANGED <<SDL_properties_lock, lock>> PROVE Locks'
  <2>1. UNCHANGED held /\ Pushes(t, n, f) /\ Holding(f) = -1
    BY <1>1, EntersHolds DEF Enters
  <2> QED
    BY <1>1, <2>1, LocksFree
<1>2. ASSUME NEW id \in IDs, CallSet(t, id) PROVE Locks'
  <2>1. UNCHANGED <<SDL_properties_lock, lock, held>>
    BY <1>2 DEF CallSet
  <2>2. \E v \in Nat : Pushes(t, n, NewFrame("set", "find", id, v))
    <3>1. given \in Nat
      BY PropertiesAssumption DEF Typed
    <3> QED
      BY <1>2, <3>1, CallSetDoes
  <2>3. PICK v \in Nat : Pushes(t, n, NewFrame("set", "find", id, v))
    BY <2>2
  <2> DEFINE f == NewFrame("set", "find", id, v)
  <2>4. f.at = "find" /\ Pushes(t, n, f)
    BY <2>3 DEF NewFrame
  <2>5. f \in Frames
    <3>1. n + 1 \in 1 .. D(t)' /\ A(t, n + 1)' = f
      BY <2>3 DEF Pushes
    <3> QED
      BY <3>1, FrameTypeNext
  <2> HIDE DEF f
  <2>6. Holding(f) = -1
    BY <2>4, <2>5, AtHolds
  <2> QED
    BY <2>1, <2>4, <2>5, <2>6, LocksFree
<1>3. ASSUME NEW id \in IDs, NEW op \in {"lock", "get", "enumerate"},
  CallReader(t, op, id) PROVE Locks'
  <2>1. UNCHANGED <<SDL_properties_lock, lock, held>>
    BY <1>3 DEF CallReader
  <2> DEFINE f == NewFrame(op, "find", id, 0)
  <2>4. f.at = "find" /\ Pushes(t, n, f)
    BY <1>3, CallReaderDoes DEF NewFrame
  <2>5. f \in Frames
    <3>1. n + 1 \in 1 .. D(t)' /\ A(t, n + 1)' = f
      BY <2>4 DEF Pushes
    <3> QED
      BY <3>1, FrameTypeNext
  <2> HIDE DEF f
  <2>6. Holding(f) = -1
    BY <2>4, <2>5, AtHolds
  <2> QED
    BY <2>1, <2>4, <2>5, <2>6, LocksFree
<1>4. ASSUME NEW id \in IDs, CallDestroy(t, id) PROVE Locks'
  <2>1. UNCHANGED <<SDL_properties_lock, lock, held>>
    BY <1>4 DEF CallDestroy
  <2> DEFINE f == NewFrame("destroy", "remove", id, 0)
  <2>4. f.at = "remove" /\ Pushes(t, n, f)
    BY <1>4, CallDestroyDoes DEF NewFrame
  <2>5. f \in Frames
    <3>1. n + 1 \in 1 .. D(t)' /\ A(t, n + 1)' = f
      BY <2>4 DEF Pushes
    <3> QED
      BY <3>1, FrameTypeNext
  <2> HIDE DEF f
  <2>6. Holding(f) = -1
    BY <2>4, <2>5, AtHolds
  <2> QED
    BY <2>1, <2>4, <2>5, <2>6, LocksFree
<1>5. CASE CallUnlock(t)
  <2>1. UNCHANGED <<SDL_properties_lock, lock, held>>
    BY <1>5 DEF CallUnlock
  <2>2. held[t] \in DOMAIN idOf /\ idOf[held[t]] \in IDs
    BY <1>5 DEF Links, HeldLinked, CallUnlock, Table
  <2> DEFINE f == NewFrame("unlock", "find", idOf[held[t]], 0)
  <2>4. f.at = "find" /\ Pushes(t, n, f)
    BY <1>5, <2>2, CallUnlockDoes DEF NewFrame
  <2>5. f \in Frames
    <3>1. n + 1 \in 1 .. D(t)' /\ A(t, n + 1)' = f
      BY <2>4 DEF Pushes
    <3> QED
      BY <3>1, FrameTypeNext
  <2> HIDE DEF f
  <2>6. Holding(f) = -1
    BY <2>4, <2>5, AtHolds
  <2> QED
    BY <2>1, <2>4, <2>5, <2>6, LocksFree
<1>6. CASE SDL_CreateProperties(t)
  <2>1. UNCHANGED <<SDL_properties_lock, lock, held, stack>>
    BY <1>6 DEF SDL_CreateProperties
  <2>2. \A u, o : Count(u, o)' = Count(u, o)
    BY <2>1 DEF Count, D, A, Holding, Frees
  <2>3. \A u \in Threads : \A o \in 0 .. MaxObjects : Stake(u, o)' = Stake(u, o)
    BY <2>1, <2>2, StakeSame
  <2> QED
    BY <2>1, <2>3, LocksStay, LocksSame
<1>7. CASE SDL_QuitProperties(t)
  <2>1. UNCHANGED <<SDL_properties_lock, lock, held>>
    BY <1>7 DEF SDL_QuitProperties
  <2>2. ASSUME NEW u \in Threads, NEW o \in 0 .. MaxObjects PROVE Count(u, o)' = Count(u, o)
    <3>1. D(u) = 0
      BY <1>7, QuitDoes
    <3>2. {p \in 1 .. D(u) : Holding(A(u, p)) = o} = {}
      BY <3>1
    <3>3. {p \in 1 .. D(u)' : Holding(A(u, p)') = o} = {}
      <4>1. SUFFICES ASSUME NEW p \in 1 .. D(u)' PROVE Holding(A(u, p)') # o
        OBVIOUS
      <4>2. D(u)' \in Nat
        BY DepthTypeNext
      <4>3. u = t /\ p \in {1, 2}
        BY <1>7, <4>2, QuitDoes
      <4>4. A(t, 1)' = QuitFrame /\ A(t, 2)' = NewFrame("destroy", "remove", 1, 0)
        BY <1>7, QuitDoes
      <4>5. Holding(QuitFrame) = -1 /\ Holding(NewFrame("destroy", "remove", 1, 0)) = -1
        BY DEF QuitFrame, NewFrame, Holding, Frees
      <4>6. Holding(A(u, p)') = -1
        BY <4>3, <4>4, <4>5
      <4> QED
        BY <4>6
    <3>4. Count(u, o)' = Cardinality({p \in 1 .. D(u)' : Holding(A(u, p)') = o})
      BY DEF Count, Holding, Frees
    <3> QED
      BY <3>2, <3>3, <3>4 DEF Count
  <2>3. \A u \in Threads : \A o \in 0 .. MaxObjects : Stake(u, o)' = Stake(u, o)
    BY <2>1, <2>2, StakeSame
  <2> QED
    BY <2>1, <2>3, LocksStay, LocksSame
<1>8. CASE CallbackReturns(t)
  <2>1. UNCHANGED <<SDL_properties_lock, lock, held>>
    BY <1>8 DEF CallbackReturns
  <2>2. A(t, n).at = "callback" /\ Pops(t, n) /\ n >= 1
    BY <1>8, CallbackReturnsDoes DEF Pops
  <2>3. Holding(A(t, n)) = -1
    BY <1>t, <2>2, AtHolds
  <2> QED
    BY <2>1, <2>2, <2>3, LocksFree
<1>9. CASE Find(t)
  <2>1. UNCHANGED <<SDL_properties_lock, lock, held>>
    BY <1>9, FindDoes DEF Find
  <2>2. n >= 1 /\ A(t, n).at = "find"
    BY <1>9, FindDoes
  <2>3. Holding(A(t, n)) = -1
    BY <1>t, <2>2, AtHolds
  <2>4. Pops(t, n) \/ \E f \in Frames : f.at \in {"unlock", "lock"} /\ Turns(t, n, f)
    BY <1>9, FindDoes
  <2>5. Pops(t, n) \/ \E f \in Frames : Holding(f) = -1 /\ Turns(t, n, f)
    BY <2>4, AtHolds
  <2> QED
    BY <2>1, <2>3, <2>5, LocksFree
<1>10. CASE Acquire(t)
  <2>1. /\ n >= 1 /\ A(t, n).at = "lock" /\ A(t, n).obj \in Objects
        /\ CanTake(lock[A(t, n).obj], t) /\ UNCHANGED SDL_properties_lock
    BY <1>10, AcquireDoes
  <2>2. Holding(A(t, n)) = -1
    BY <1>t, <2>1, AtHolds
  <2>c. PICK c \in Objects : c = A(t, n).obj
    BY <2>1
  <2>3. CASE lock' = [lock EXCEPT ![A(t, n).obj] = Taken(@, t)]
    <3>1. lock' = [lock EXCEPT ![c] = Taken(lock[c], t)] /\ c \in Objects
      BY <2>1, <2>3, <2>c
    <3> QED
      <4>1. /\ c \in 0 .. MaxObjects /\ c # 0 /\ LockOf(c) = lock[c] /\ LockOf(c)' = Taken(lock[c], t)
            /\ \A o \in 0 .. MaxObjects : o # c => LockOf(o)' = LockOf(o)
        BY <2>1, <3>1, LockOne
      <4>2. CASE A(t, n).op = "lock" /\ Pops(t, n) /\ held' = [held EXCEPT ![t] = A(t, n).obj]
        <5>1. held[t] = 0
          BY <1>t, <2>1, <4>2 DEF Outer
        <5>2. held'[t] = c /\ \A u \in Threads : u # t => held'[u] = held[u]
          BY <4>2, <2>c DEF Typed
        <5>3. \A u \in Threads : \A o \in 0 .. MaxObjects : Count(u, o)' = Count(u, o)
          BY <1>0, <2>2, <4>2, CountFree
        <5>4. Extra(t, c)' = 1 /\ Extra(t, c) = 0
          BY <4>1, <5>1, <5>2 DEF Extra
        <5>5. ASSUME NEW u \in Threads, NEW o \in 0 .. MaxObjects,
          u # t \/ o # c PROVE Extra(u, o)' = Extra(u, o)
          BY <4>1, <5>1, <5>2, <5>5 DEF Extra
        <5>6. Stake(t, c)' = Stake(t, c) + 1
          <6>1. Count(t, c) \in Nat
            BY <1>0, CountType
          <6> QED
            BY <4>1, <5>3, <5>4, <6>1 DEF Stake
        <5>7. \A u \in Threads : \A o \in 0 .. MaxObjects : u # t \/ o # c => Stake(u, o)' = Stake(u, o)
          BY <5>3, <5>5 DEF Stake
        <5>8. CanTake(LockOf(c), t)
          BY <2>1, <4>1, <2>c
        <5> QED
          BY <4>1, <5>6, <5>7, <5>8, LocksTake
      <4>3. CASE /\ A(t, n).op \in {"set", "enumerate"} /\ UNCHANGED held
                 /\ Turns(t, n, [A(t, n) EXCEPT !.at = IF A(t, n).op = "set" THEN "change" ELSE "iterate"])
        <5> DEFINE f == [A(t, n) EXCEPT !.at = IF A(t, n).op = "set" THEN "change" ELSE "iterate"]
        <5>1. f \in Frames /\ f.at \in {"change", "iterate"} /\ f.obj = A(t, n).obj
          BY <1>t, <2>1, <4>3, MovedType
        <5>2. Holding(f) = c
          BY <5>1, <2>c, AtHolds
        <5>3. Turns(t, n, f)
          BY <4>3
        <5> HIDE DEF f
        <5>4. /\ Stake(t, c)' = Stake(t, c) + 1
              /\ \A u \in Threads : \A o \in 0 .. MaxObjects : u # t \/ o # c => Stake(u, o)' = Stake(u, o)
          BY <2>2, <4>1, <4>3, <5>2, <5>3, StakeTaken
        <5>8. CanTake(LockOf(c), t)
          BY <2>1, <4>1, <2>c
        <5> QED
          BY <4>1, <5>4, <5>8, LocksTake
      <4>4. CASE A(t, n).op = "get" /\ Pops(t, n) /\ UNCHANGED <<lock, held>>
        BY <2>1, <2>2, <4>4, LocksFree
      <4> QED
        BY <1>10, <4>2, <4>3, <4>4, AcquireDoes
  <2>4. CASE A(t, n).op = "get" /\ Pops(t, n) /\ UNCHANGED <<lock, held>>
    BY <2>1, <2>2, <2>4, LocksFree
  <2> QED
    BY <1>10, <2>3, <2>4, AcquireDoes
<1>11. ASSUME NEW c \in Objects, Pops(t, n), Holding(A(t, n)) = c,
  lock' = [lock EXCEPT ![c] = Released(@)],
              UNCHANGED <<SDL_properties_lock, held>>
       PROVE  Locks'
  <2>1. lock' = [lock EXCEPT ![c] = Released(lock[c])]
    BY <1>11
  <2>2. /\ c \in 0 .. MaxObjects /\ LockOf(c) = lock[c] /\ LockOf(c)' = Released(lock[c])
        /\ \A o \in 0 .. MaxObjects : o # c => LockOf(o)' = LockOf(o)
    BY <1>11, <2>1, LockOne
  <2>3. /\ Stake(t, c)' \in Nat /\ Stake(t, c)' + 1 = Stake(t, c)
        /\ \A u \in Threads : \A o \in 0 .. MaxObjects : u # t \/ o # c => Stake(u, o)' = Stake(u, o)
    BY <1>11, <2>2, StakeReleased
  <2> QED
    BY <2>2, <2>3, LocksRelease
<1>12. CASE SDL_UnlockProperties(t)
  <2>1. /\ A(t, n).at = "unlock" /\ A(t, n).op = "unlock" /\ A(t, n).obj \in Objects
        /\ Pops(t, n) /\ lock' = [lock EXCEPT ![A(t, n).obj] = Released(@)]
        /\ UNCHANGED SDL_properties_lock /\ n >= 1
    BY <1>12, UnlockDoes DEF SDL_UnlockProperties, Pops
  <2>2. held'[t] = 0 /\ \A u \in Threads : u # t => held'[u] = held[u]
    BY <1>12 DEF SDL_UnlockProperties, Typed
  <2>c. PICK c \in Objects : c = A(t, n).obj
    BY <2>1
  <2>3. held[t] # 0 /\ A(t, n).id = idOf[held[t]]
    BY <1>t, <2>1 DEF Outer
  <2>4. held[t] = c
    BY <1>t, <2>1, <2>3, <2>c DEF Links, HeldLinked, FrameLinked, Linked, Using
  <2>5. Holding(A(t, n)) = -1
    BY <1>t, <2>1, AtHolds
  <2>6. lock' = [lock EXCEPT ![c] = Released(lock[c])] /\ c \in Objects
    BY <2>1, <2>c
  <2>7. /\ c \in 0 .. MaxObjects /\ c # 0 /\ LockOf(c) = lock[c] /\ LockOf(c)' = Released(lock[c])
        /\ \A o \in 0 .. MaxObjects : o # c => LockOf(o)' = LockOf(o)
    BY <2>1, <2>6, LockOne
  <2>8. \A u \in Threads : \A o \in 0 .. MaxObjects : Count(u, o)' = Count(u, o)
    BY <1>0, <2>1, <2>5, CountFree
  <2>9. Extra(t, c)' = 0 /\ Extra(t, c) = 1
    BY <2>2, <2>4, <2>7 DEF Extra
  <2>10. ASSUME NEW u \in Threads, NEW o \in 0 .. MaxObjects,
    u # t \/ o # c PROVE Extra(u, o)' = Extra(u, o)
    BY <2>2, <2>4, <2>7, <2>10 DEF Extra
  <2>11. Stake(t, c)' \in Nat /\ Stake(t, c)' + 1 = Stake(t, c)
    <3>1. Count(t, c) \in Nat
      BY <1>0, CountType
    <3> QED
      BY <2>7, <2>8, <2>9, <3>1 DEF Stake
  <2>12. \A u \in Threads : \A o \in 0 .. MaxObjects : u # t \/ o # c => Stake(u, o)' = Stake(u, o)
    BY <2>8, <2>10 DEF Stake
  <2> QED
    BY <2>7, <2>11, <2>12, LocksRelease
<1>13. CASE RemoveOld(t)
  <2>1. UNCHANGED <<SDL_properties_lock, lock, held>>
    BY <1>13 DEF RemoveOld
  <2>2. n >= 1 /\ A(t, n).at = "change" /\ A(t, n).obj \in Objects
    BY <1>13, RemoveOldDoes
  <2> DEFINE f == [A(t, n) EXCEPT !.at = "insert"]
             g == CallbackFrame(A(t, n).obj, CleanupMay)
  <2>3. f \in Frames /\ f.at = "insert" /\ f.obj = A(t, n).obj
    BY <1>t, <2>2, MovedType
  <2>4. g \in Frames /\ g.at = "callback"
    BY <2>2, CallbackType, CleanupMayType DEF CallbackFrame
  <2>5. Holding(f) = Holding(A(t, n)) /\ Holding(g) = -1
    BY <1>t, <2>2, <2>3, <2>4, AtHolds
  <2>6. Turns(t, n, f) \/ Calls(t, n, f, g)
    BY <1>13, RemoveOldDoes
  <2> HIDE DEF f, g
  <2> QED
    BY <2>1, <2>3, <2>4, <2>5, <2>6, LocksFree
<1>14. CASE InsertNew(t)
  <2>1. /\ A(t, n).at = "insert" /\ A(t, n).obj \in Objects /\ n >= 1
        /\ Pops(t, n) /\ lock' = [lock EXCEPT ![A(t, n).obj] = Released(@)]
        /\ UNCHANGED <<SDL_properties_lock, held>>
    BY <1>14, InsertNewDoes DEF InsertNew, Pops
  <2>2. Holding(A(t, n)) = A(t, n).obj
    BY <1>t, <2>1, AtHolds
  <2>3. PICK c \in Objects : c = A(t, n).obj
    BY <2>1
  <2>4. lock' = [lock EXCEPT ![c] = Released(@)] /\ Holding(A(t, n)) = c
    BY <2>1, <2>2, <2>3
  <2> QED
    BY <1>11, <2>1, <2>4
<1>15. CASE Iterate(t)
  <2>1. UNCHANGED <<SDL_properties_lock, lock, held>>
    BY <1>15, IterateDoes DEF Iterate
  <2>2. n >= 1 /\ A(t, n).at = "iterate" /\ A(t, n).obj \in Objects
    BY <1>15, IterateDoes
  <2> DEFINE g == CallbackFrame(A(t, n).obj, {"get"})
  <2>4. g \in Frames /\ g.at = "callback"
    BY <2>2, CallbackType DEF CallbackFrame
  <2>3. \E f \in Frames : f.at = "enumerated" /\ f.obj = A(t, n).obj /\ (Turns(t, n, f) \/ Calls(t, n, f, g))
    <3>1. [A(t, n) EXCEPT !.at = "enumerated"] \in Frames /\ [A(t, n) EXCEPT !.at = "enumerated"].at = "enumerated"
          /\ [A(t, n) EXCEPT !.at = "enumerated"].obj = A(t, n).obj
      BY <1>t, <2>2, MovedType
    <3> QED
      BY <1>15, <3>1, IterateDoes
  <2> HIDE DEF g
  <2>5. PICK f \in Frames : f.at = "enumerated" /\ f.obj = A(t, n).obj /\ (Turns(t, n, f) \/ Calls(t, n, f, g))
    BY <2>3
  <2>6. Holding(f) = Holding(A(t, n)) /\ Holding(g) = -1
    BY <1>t, <2>2, <2>4, <2>5, AtHolds
  <2> QED
    BY <2>1, <2>4, <2>5, <2>6, LocksFree
<1>16. CASE EndEnumerate(t)
  <2>1. /\ A(t, n).at = "enumerated" /\ A(t, n).obj \in Objects /\ n >= 1
        /\ Pops(t, n) /\ lock' = [lock EXCEPT ![A(t, n).obj] = Released(@)]
        /\ UNCHANGED <<SDL_properties_lock, held>>
    BY <1>16, EndEnumerateDoes DEF EndEnumerate, Pops
  <2>2. Holding(A(t, n)) = A(t, n).obj
    BY <1>t, <2>1, AtHolds
  <2>3. PICK c \in Objects : c = A(t, n).obj
    BY <2>1
  <2>4. lock' = [lock EXCEPT ![c] = Released(@)] /\ Holding(A(t, n)) = c
    BY <2>1, <2>2, <2>3
  <2> QED
    BY <1>11, <2>1, <2>4
<1>17. CASE RemoveGroup(t)
  <2>1. UNCHANGED <<lock, held>>
    BY <1>17 DEF RemoveGroup
  <2>2. n >= 1 /\ A(t, n).at = "remove"
    BY <1>0, <1>17, InIs DEF RemoveGroup
  <2>3. A(t, n).op = "destroy"
    BY <1>t, <2>2, FieldsOf DEF FrameOK, Records, Using
  <2>4. A(t, n).id \in DOMAIN SDL_properties
    BY <1>t, <2>2, <2>3 DEF Links, FrameLinked
  <2>5. CanTake(SDL_properties_lock, t) /\ SDL_properties_lock' = Taken(SDL_properties_lock, t)
    BY <1>17, <2>4, RemoveGroupDoes
  <2>6. PICK f \in Frames : f.op = "destroy" /\ f.at = "nuke" /\ Turns(t, n, f)
    BY <1>17, <2>4, RemoveGroupDoes
  <2>7. Holding(f) = 0 /\ Holding(A(t, n)) = -1
    BY <1>t, <2>2, <2>6, AtHolds
  <2>8. /\ 0 \in 0 .. MaxObjects /\ LockOf(0) = SDL_properties_lock /\ LockOf(0)' = SDL_properties_lock'
        /\ \A o \in 0 .. MaxObjects : o # 0 => LockOf(o)' = LockOf(o)
    BY <2>1, TableOne
  <2>9. /\ Stake(t, 0)' = Stake(t, 0) + 1
        /\ \A u \in Threads : \A o \in 0 .. MaxObjects : u # t \/ o # 0 => Stake(u, o)' = Stake(u, o)
    BY <2>1, <2>6, <2>7, <2>8, StakeTaken
  <2> QED
    BY <2>5, <2>8, <2>9, LocksTake
<1>18. CASE Nuke(t)
  <2>1. UNCHANGED <<SDL_properties_lock, lock, held>>
    BY <1>18 DEF Nuke
  <2>2. n >= 1 /\ A(t, n).at = "nuke" /\ A(t, n).obj \in Objects
    BY <1>18, NukeDoes
  <2> DEFINE f == [A(t, n) EXCEPT !.at = "free"]
             g == CallbackFrame(A(t, n).obj, CleanupMay)
  <2>3. f \in Frames /\ f.at = "free" /\ f.op = A(t, n).op
    BY <1>t, <2>2, MovedType
  <2>4. g \in Frames /\ g.at = "callback"
    BY <2>2, CallbackType, CleanupMayType DEF CallbackFrame
  <2>5. Holding(f) = Holding(A(t, n)) /\ Holding(g) = -1
    BY <1>t, <2>2, <2>3, <2>4, AtHolds
  <2>6. Turns(t, n, f) \/ Calls(t, n, f, g)
    BY <1>18, NukeDoes
  <2> HIDE DEF f, g
  <2> QED
    BY <2>1, <2>3, <2>4, <2>5, <2>6, LocksFree
<1>19. CASE FreeProperties(t)
  <2>1. UNCHANGED <<lock, held>>
    BY <1>19 DEF FreeProperties
  <2>2. /\ A(t, n).at = "free" /\ A(t, n).op \in {"destroy", "nuke"} /\ n >= 1 /\ Pops(t, n)
        /\ SDL_properties_lock' = IF A(t, n).op = "destroy" THEN Released(SDL_properties_lock)
                                   ELSE SDL_properties_lock
    BY <1>19, FreeDoes DEF Pops
  <2>3. Holding(A(t, n)) = IF A(t, n).op = "destroy" THEN 0 ELSE -1
    BY <1>t, <2>2, AtHolds
  <2>4. CASE A(t, n).op = "nuke"
    BY <2>1, <2>2, <2>3, <2>4, LocksFree
  <2>5. CASE A(t, n).op = "destroy"
    <3>1. /\ 0 \in 0 .. MaxObjects /\ LockOf(0) = SDL_properties_lock /\ LockOf(0)' = SDL_properties_lock'
          /\ \A o \in 0 .. MaxObjects : o # 0 => LockOf(o)' = LockOf(o)
      BY <2>1, TableOne
    <3>2. /\ Stake(t, 0)' \in Nat /\ Stake(t, 0)' + 1 = Stake(t, 0)
          /\ \A u \in Threads : \A o \in 0 .. MaxObjects : u # t \/ o # 0 => Stake(u, o)' = Stake(u, o)
      BY <2>1, <2>2, <2>3, <2>5, <3>1, StakeReleased
    <3> QED
      BY <2>2, <2>5, <3>1, <3>2, LocksRelease
  <2> QED
    BY <2>2, <2>4, <2>5
<1>20. CASE DestroyHashTable(t)
  <2>1. UNCHANGED <<SDL_properties_lock, lock, held>>
    BY <1>20 DEF DestroyHashTable
  <2>2. n >= 1 /\ A(t, n).at = "sweep"
    BY <1>20, SweepDoes
  <2>3. Holding(A(t, n)) = -1
    BY <1>t, <2>2, AtHolds
  <2>4. Pops(t, n) \/ \E f \in Frames : f.op = "nuke" /\ f.at = "nuke" /\ Pushes(t, n, f)
    BY <1>20, SweepDoes
  <2>5. Pops(t, n) \/ \E f \in Frames : Holding(f) = -1 /\ Pushes(t, n, f)
    BY <2>4, AtHolds
  <2> QED
    BY <2>1, <2>3, <2>5, LocksFree
<1> QED
  BY <1>2, <1>3, <1>4, <1>5, <1>6, <1>7, <1>8, <1>9, <1>10, <1>12, <1>13,
     <1>14, <1>15, <1>16, <1>17, <1>18, <1>19, <1>20 DEF NextOf, Step

(* Who has a lock is its owner.                                            *)
LEMMA OwnerOf ==
  ASSUME NEW l \in LockStates, NEW t \in Threads, Depth(l, t) >= 1
  PROVE  l.owner = {t} /\ l # Free
  BY DEF LockStates, Depth, Free

(* Who should have a lock has it.                                          *)
LEMMA Holder ==
  ASSUME Typed, Locks, NEW t \in Threads, NEW o \in 0 .. MaxObjects,
         \/ o # 0 /\ held[t] = o
         \/ \E p \in 1 .. D(t) : Holding(A(t, p)) = o
  PROVE  Depth(LockOf(o), t) >= 1 /\ LockOf(o).owner = {t} /\ LockOf(o) # Free
<1>0. Stacked /\ D(t) \in Nat /\ LockOf(o) \in LockStates
  BY DepthType, LockOfType DEF Typed
<1>1. Depth(LockOf(o), t) = Count(t, o) + Extra(t, o) /\ Count(t, o) \in Nat /\ Extra(t, o) \in Nat
  BY <1>0, CountType DEF Locks, Extra
<1>2. CASE o # 0 /\ held[t] = o
  <2>1. Extra(t, o) = 1
    BY <1>2 DEF Extra
  <2> QED
    BY <1>0, <1>1, <2>1, OwnerOf
<1>3. CASE \E p \in 1 .. D(t) : Holding(A(t, p)) = o
  <2> DEFINE S == {p \in 1 .. D(t) : Holding(A(t, p)) = o}
  <2>1. IsFiniteSet(S) /\ S # {}
    <3>1. IsFiniteSet(1 .. D(t))
      BY <1>0, FS_Interval
    <3>2. S \subseteq 1 .. D(t) /\ S # {}
      BY <1>3
    <3> QED
      BY <3>1, <3>2, FS_Subset
  <2>2. Cardinality(S) \in Nat /\ Cardinality(S) # 0
    BY <2>1, FS_CardinalityType, FS_EmptySet
  <2>3. Count(t, o) >= 1
    BY <2>2 DEF Count
  <2> QED
    BY <1>0, <1>1, <2>3, OwnerOf
<1> QED
  BY <1>2, <1>3

(* A group that a thread holds has its lock taken.                         *)
LEMMA HeldIsLocked == ASSUME Typed, Locks PROVE HeldLocked
<1> SUFFICES ASSUME NEW t \in Threads, held[t] # 0 PROVE lock[held[t]] # Free
  BY DEF HeldLocked
<1>1. held[t] \in 0 .. MaxObjects
  BY DEF Typed
<1> QED
  BY <1>1, Holder DEF LockOf

(* A lock has one owner.                                                   *)
LEMMA OneHolder ==
  ASSUME Typed, Locks, NEW t \in Threads, NEW u \in Threads, NEW o \in 0 .. MaxObjects,
         (o # 0 /\ held[t] = o) \/ \E p \in 1 .. D(t) : Holding(A(t, p)) = o,
         (o # 0 /\ held[u] = o) \/ \E p \in 1 .. D(u) : Holding(A(u, p)) = o
  PROVE  t = u
<1>1. LockOf(o).owner = {t}
  BY Holder
<1>2. LockOf(o).owner = {u}
  BY Holder
<1> QED
  BY <1>1, <1>2

(* A lock that is taken keeps its type.                                    *)
LEMMA TakenType ==
  ASSUME NEW c \in Objects, lock \in [Objects -> LockStates], NEW t \in Threads,
         CanTake(lock[c], t),
         lock' = [lock EXCEPT ![c] = Taken(@, t)]
  PROVE  lock' \in [Objects -> LockStates]
<1>1. lock[c] \in LockStates
  OBVIOUS
<1>2. Taken(lock[c], t) \in LockStates
  BY <1>1, Taking
<1> QED
  BY <1>2

(* A lock that is released keeps its type.                                 *)
LEMMA ReleasedType ==
  ASSUME Typed, Locks, NEW t \in Threads, NEW n \in Nat, n = D(t), n >= 1, NEW c \in Objects,
         Holding(A(t, n)) = c \/ held[t] = c, lock' = [lock EXCEPT ![c] = Released(@)]
  PROVE  lock' \in [Objects -> LockStates]
<1>0. c \in 0 .. MaxObjects /\ c # 0 /\ LockOf(c) = lock[c] /\ lock[c] \in LockStates
  BY PropertiesAssumption DEF Objects, LockOf, Typed
<1>1. Depth(lock[c], t) >= 1
  BY <1>0, Holder
<1>2. Released(lock[c]) \in LockStates
  BY <1>0, <1>1, Releasing
<1> QED
  BY <1>2 DEF Typed

-----------------------------------------------------------------------------
(* What a set has yet to put is among what was given.                      *)
Pending(f) == f.op = "set" => f.v <= given
AllPending == \A t \in Threads : \A p \in 1 .. D(t) : Pending(A(t, p))

(* The next ID is an ID: the counter skips 0.                              *)
LEMMA NextIDType == ASSUME Typed PROVE NextID \in IDs
  BY PropertiesAssumption DEF NextID, IDs, Typed

(* The last call's frame.                                                  *)
LEMMA LastIs ==
  ASSUME Stacked, NEW t \in Threads, NEW n \in Nat, n = D(t), n >= 1
  PROVE  n \in 1 .. D(t) /\ A(t, n) \in Frames
  BY FrameType

(* Every action keeps the types.                                           *)
LEMMA TypedStep ==
  ASSUME Typed, Table, Links, Outer, Locks, AllPending, NEW t \in Threads, NextOf(t),
         NEW n \in Nat, n = D(t)
  PROVE  Typed'
<1>0. Stacked' /\ Stacked
  BY NextMoves DEF Typed
<1>1. ASSUME NEW id \in IDs, CallSet(t, id) PROVE Typed'
  <2>1. given' \in given .. MaxValues
    <3>1. given' = given \/ (given < MaxValues /\ given' = given + 1)
      BY <1>1 DEF CallSet
    <3> QED
      BY <3>1, PropertiesAssumption DEF Typed
  <2>2. given' \in 0 .. MaxValues /\ accepted \subseteq 1 .. given'
    BY <2>1 DEF Typed
  <2> QED
    BY <1>0, <1>1, <2>2 DEF CallSet, Typed, table, LockStates
<1>2. ASSUME NEW id \in IDs, NEW op \in {"lock", "get", "enumerate"},
  CallReader(t, op, id) PROVE Typed'
  BY <1>0, <1>2 DEF CallReader, Typed, table, values, LockStates
<1>3. ASSUME NEW id \in IDs, CallDestroy(t, id) PROVE Typed'
  BY <1>0, <1>3 DEF CallDestroy, Typed, table, values, LockStates
<1>4. CASE CallUnlock(t)
  BY <1>0, <1>4 DEF CallUnlock, Typed, table, values, LockStates
<1>5. CASE SDL_CreateProperties(t)
  <2>1. SDL_last_properties_id' \in IDs
    BY <1>5, NextIDType DEF SDL_CreateProperties
  <2>2. made' \in 1 .. MaxObjects /\ freed' \subseteq 1 .. made'
    <3>1. made' = made + 1 /\ made + 1 \in 1 .. MaxObjects /\ made \in Nat
      BY <1>5, PropertiesAssumption DEF SDL_CreateProperties, Typed
    <3>2. 1 .. made \subseteq 1 .. made'
      BY <3>1
    <3>3. freed' \subseteq freed \cup {made'} /\ freed \subseteq 1 .. made
      BY <1>5 DEF SDL_CreateProperties, Typed
    <3> QED
      BY <3>1, <3>2, <3>3
  <2> QED
    BY <1>0, <1>5, <2>1, <2>2 DEF SDL_CreateProperties, Typed, values, LockStates
<1>6. CASE SDL_QuitProperties(t)
  BY <1>0, <1>6 DEF SDL_QuitProperties, Typed, table, values, LockStates
<1>7. CASE CallbackReturns(t)
  BY <1>0, <1>7 DEF CallbackReturns, Typed, table, values, LockStates
<1>8. CASE Find(t)
  <2>1. UNCHANGED SDL_properties_lock
    BY <1>8, FindDoes
  <2> QED
    BY <1>0, <1>8, <2>1 DEF Find, Typed, values, LockStates
<1>9. CASE Acquire(t)
  <2>1. n >= 1 /\ A(t, n).obj \in Objects /\ UNCHANGED SDL_properties_lock /\ CanTake(lock[A(t, n).obj], t)
    BY <1>9, AcquireDoes
  <2>2. UNCHANGED lock \/ lock' = [lock EXCEPT ![A(t, n).obj] = Taken(@, t)]
    BY <1>9, AcquireDoes
  <2>3. lock' \in [Objects -> LockStates]
    BY <2>1, <2>2, TakenType DEF Typed
  <2>4. UNCHANGED held \/ held' = [held EXCEPT ![t] = A(t, n).obj]
    BY <1>9, AcquireDoes
  <2>5. held' \in [Threads -> 0 .. MaxObjects]
    BY <2>1, <2>4, PropertiesAssumption DEF Typed, Objects
  <2> QED
    BY <1>0, <1>9, <2>1, <2>3, <2>5 DEF Acquire, Typed, values, LockStates
<1>10. CASE SDL_UnlockProperties(t)
  <2>1. A(t, n).op = "unlock" /\ A(t, n).at = "unlock" /\ A(t, n).obj \in Objects /\ Pops(t, n)
        /\ lock' = [lock EXCEPT ![A(t, n).obj] = Released(@)]
    BY <1>10, UnlockDoes
  <2>2. n \in 1 .. D(t) /\ n >= 1 /\ A(t, n) \in Frames
    BY <1>0, <2>1, LastIs DEF Pops
  <2>3. held[t] = A(t, n).obj
    <3>1. held[t] # 0 /\ A(t, n).id = idOf[held[t]]
      BY <2>1, <2>2 DEF Outer
    <3>2. SDL_properties[A(t, n).id] = A(t, n).obj
      BY <2>1, <2>2 DEF Links, FrameLinked, Linked, Using
    <3> QED
      BY <3>1, <3>2 DEF Links, HeldLinked
  <2>4. lock' \in [Objects -> LockStates]
    BY <2>1, <2>2, <2>3, ReleasedType
  <2>5. held' \in [Threads -> 0 .. MaxObjects]
    BY <1>10, PropertiesAssumption DEF Typed, SDL_UnlockProperties
  <2> QED
    BY <1>0, <1>10, <2>4, <2>5 DEF SDL_UnlockProperties, Typed, table, values, LockStates
<1>11. CASE RemoveOld(t)
  <2>1. A(t, n).obj \in Objects /\ props[A(t, n).obj] \in 0 .. MaxValues
    BY <1>11, RemoveOldDoes DEF Typed
  <2>2. props' \in [Objects -> 0 .. MaxValues] /\ cleaned' \in [Values -> Nat]
    <3>1. CASE UNCHANGED <<props, cleaned>>
      BY <3>1 DEF Typed
    <3>2. CASE /\ props[A(t, n).obj] # 0 /\ props' = [props EXCEPT ![A(t, n).obj] = 0]
               /\ cleaned' = [cleaned EXCEPT ![props[A(t, n).obj]] = @ + 1]
      BY <2>1, <3>2, PropertiesAssumption DEF Typed, Values
    <3> QED
      BY <1>11, <3>1, <3>2, RemoveOldDoes
  <2> QED
    BY <1>0, <1>11, <2>2 DEF RemoveOld, Typed, table, LockStates
<1>12. CASE InsertNew(t)
  <2>1. A(t, n).at = "insert" /\ A(t, n).op = "set" /\ A(t, n).obj \in Objects /\ Pops(t, n)
        /\ lock' = [lock EXCEPT ![A(t, n).obj] = Released(@)]
    BY <1>12, InsertNewDoes
  <2>2. n \in 1 .. D(t) /\ n >= 1 /\ A(t, n) \in Frames
    BY <1>0, <2>1, LastIs DEF Pops
  <2>3. A(t, n).v \in 0 .. MaxValues /\ A(t, n).v <= given
    BY <2>1, <2>2, FieldsOf DEF AllPending, Pending, Records
  <2>4. props' \in [Objects -> 0 .. MaxValues] /\ accepted' \subseteq 1 .. given
    <3>1. CASE UNCHANGED <<props, accepted>>
      BY <3>1 DEF Typed
    <3>2. CASE /\ A(t, n).v # 0 /\ props' = [props EXCEPT ![A(t, n).obj] = A(t, n).v]
               /\ accepted' = accepted \cup {A(t, n).v}
      <4>1. A(t, n).v \in 1 .. given /\ given \in Nat
        BY <2>3, <3>2 DEF Typed
      <4>2. accepted' \subseteq 1 .. given
        BY <3>2, <4>1 DEF Typed
      <4>3. props' \in [Objects -> 0 .. MaxValues]
        BY <2>1, <2>3, <3>2 DEF Typed
      <4> QED
        BY <4>2, <4>3
    <3> QED
      BY <1>12, <3>1, <3>2, InsertNewDoes
  <2>5. Holding(A(t, n)) = A(t, n).obj
    BY <2>1, <2>2, AtHolds
  <2>6. lock' \in [Objects -> LockStates]
    BY <2>1, <2>2, <2>5, ReleasedType
  <2> QED
    BY <1>0, <1>12, <2>4, <2>6 DEF InsertNew, Typed, table, LockStates
<1>13. CASE Iterate(t)
  <2>1. UNCHANGED lock
    BY <1>13, IterateDoes
  <2> QED
    BY <1>0, <1>13, <2>1 DEF Iterate, Typed, table, values, LockStates
<1>14. CASE EndEnumerate(t)
  <2>1. A(t, n).at = "enumerated" /\ A(t, n).obj \in Objects /\ Pops(t, n)
        /\ lock' = [lock EXCEPT ![A(t, n).obj] = Released(@)]
    BY <1>14, EndEnumerateDoes
  <2>2. n \in 1 .. D(t) /\ n >= 1 /\ A(t, n) \in Frames
    BY <1>0, <2>1, LastIs DEF Pops
  <2>5. Holding(A(t, n)) = A(t, n).obj
    BY <2>1, <2>2, AtHolds
  <2>6. lock' \in [Objects -> LockStates]
    BY <2>1, <2>2, <2>5, ReleasedType
  <2> QED
    BY <1>0, <1>14, <2>6 DEF EndEnumerate, Typed, table, values, LockStates
<1>15. CASE RemoveGroup(t)
  <2>1. n >= 1 /\ A(t, n).at = "remove" /\ A(t, n) \in Frames
    BY <1>0, <1>15, InIs DEF RemoveGroup
  <2>2. A(t, n).id \in DOMAIN SDL_properties
    BY <2>1, FieldsOf DEF FrameOK, Records, Using, Links, FrameLinked
  <2>3. CanTake(SDL_properties_lock, t) /\ SDL_properties_lock' = Taken(SDL_properties_lock, t)
    BY <1>15, <2>2, RemoveGroupDoes
  <2>4. SDL_properties_lock' \in LockStates
    BY <2>3, Taking DEF Typed
  <2> QED
    BY <1>0, <1>15, <2>4 DEF RemoveGroup, Typed, values, LockStates
<1>16. CASE Nuke(t)
  <2>1. A(t, n).obj \in Objects /\ props[A(t, n).obj] \in 0 .. MaxValues
    BY <1>16, NukeDoes DEF Typed
  <2>2. cleaned' \in [Values -> Nat]
    <3>1. CASE UNCHANGED cleaned
      BY <3>1 DEF Typed
    <3>2. CASE /\ props[A(t, n).obj] # 0
               /\ cleaned' = [cleaned EXCEPT ![props[A(t, n).obj]] = @ + 1]
      BY <2>1, <3>2, PropertiesAssumption DEF Typed, Values
    <3> QED
      BY <1>16, <3>1, <3>2, NukeDoes
  <2> QED
    BY <1>0, <1>16, <2>2 DEF Nuke, Typed, table, LockStates
<1>17. CASE FreeProperties(t)
  <2>1. A(t, n).at = "free" /\ A(t, n).obj \in Objects /\ Pops(t, n) /\ freed' = freed \cup {A(t, n).obj}
        /\ props' = [props EXCEPT ![A(t, n).obj] = 0] /\ A(t, n).op \in {"destroy", "nuke"}
    BY <1>17, FreeDoes
  <2>2. n \in 1 .. D(t) /\ n >= 1 /\ A(t, n) \in Frames
    BY <1>0, <2>1, LastIs DEF Pops
  <2>3. FrameLinked(A(t, n))
    BY <2>2 DEF Links
  <2>4. A(t, n).obj \in DOMAIN idOf
    BY <2>1, <2>3 DEF FrameLinked, Linked, Table
  <2>5. freed' \subseteq 1 .. made
    BY <2>1, <2>4 DEF Table, Typed
  <2>6. props' \in [Objects -> 0 .. MaxValues]
    BY <2>1, PropertiesAssumption DEF Typed
  <2>7. SDL_properties_lock' \in LockStates
    <3>1. CASE A(t, n).op = "nuke"
      BY <1>17, <3>1, FreeDoes DEF Typed
    <3>2. CASE A(t, n).op = "destroy"
      <4>1. Holding(A(t, n)) = 0 /\ 0 \in 0 .. MaxObjects
        BY <2>1, <2>2, <3>2, AtHolds, PropertiesAssumption
      <4>2. Depth(SDL_properties_lock, t) >= 1
        BY <2>2, <4>1, Holder DEF LockOf
      <4>3. SDL_properties_lock' = Released(SDL_properties_lock)
        BY <1>17, <3>2, FreeDoes
      <4> QED
        BY <4>2, <4>3, Releasing DEF Typed
    <3> QED
      BY <2>1, <3>1, <3>2
  <2> QED
    BY <1>0, <1>17, <2>5, <2>6, <2>7 DEF FreeProperties, Typed, values, LockStates
<1>18. CASE DestroyHashTable(t)
  BY <1>0, <1>18 DEF DestroyHashTable, Typed, values, LockStates
<1> QED
  BY <1>1, <1>2, <1>3, <1>4, <1>5, <1>6, <1>7, <1>8, <1>9, <1>10, <1>11, <1>12, <1>13, <1>14, <1>15,
     <1>16, <1>17, <1>18 DEF NextOf, Step

(* Clause SparesGlobal: SDL_Quit alone destroys the global group.          *)
SparesGlobal ==
  ~quitting => \A t \in Threads : \A p \in 1 .. D(t) : A(t, p).op = "destroy" => A(t, p).id # 1

(* The table without an ID.                                                *)
LEMMA WithoutIs ==
  ASSUME NEW id
  PROVE  /\ DOMAIN TableWithout(id) = DOMAIN SDL_properties \ {id}
         /\ \A i \in DOMAIN TableWithout(id) : TableWithout(id)[i] = SDL_properties[i]
  BY DEF TableWithout

(* Table stays when the table does.                                        *)
LEMMA TableStays ==
  ASSUME Table, UNCHANGED <<SDL_properties, idOf, made, freed>>, quitting => quitting'
  PROVE  Table'
  BY DEF Table

(* What SDL_CreateProperties makes: a group that nobody has, in the table  *)
(* or, if its ID is in use there, freed at once.                           *)
LEMMA CreateDoes ==
  ASSUME Typed, Table, NEW t \in Threads, SDL_CreateProperties(t)
  PROVE  /\ UNCHANGED <<stack, held, quitting, props, lock, SDL_properties_lock>>
         /\ made' = made + 1 /\ made \in Nat /\ made' \notin DOMAIN idOf /\ made' \notin freed
         /\ \A i \in DOMAIN SDL_properties : SDL_properties[i] # made'
         /\ \/ /\ UNCHANGED <<SDL_properties, idOf>> /\ freed' = freed \cup {made'}
            \/ \E id \in IDs \ DOMAIN SDL_properties :
                 /\ SDL_properties' = With(SDL_properties, id, made')
                 /\ idOf' = With(idOf, made', id) /\ UNCHANGED freed
<1>1. made' = made + 1 /\ made \in Nat
  BY DEF SDL_CreateProperties, Typed
<1>2. made' \notin 1 .. made
  BY <1>1
<1>3. \A i \in DOMAIN SDL_properties : SDL_properties[i] # made'
  BY <1>2 DEF Table
<1>4. NextID \in IDs
  BY NextIDType
<1> QED
  BY <1>1, <1>2, <1>3, <1>4 DEF SDL_CreateProperties, CanInsert, Typed, Table

(* Every action keeps Table.                                               *)
LEMMA TableStep ==
  ASSUME Typed, Table, Links, Quit, SparesGlobal, NEW t \in Threads, NextOf(t), NEW n \in Nat,
         n = D(t)
  PROVE  Table'
<1>0. Stacked
  BY DEF Typed
<1>1. CASE SDL_CreateProperties(t)
  <2>1. CASE UNCHANGED <<SDL_properties, idOf>> /\ freed' = freed \cup {made'}
    BY <1>1, <2>1, CreateDoes DEF Table
  <2>2. CASE \E id \in IDs \ DOMAIN SDL_properties :
               /\ SDL_properties' = With(SDL_properties, id, made')
               /\ idOf' = With(idOf, made', id) /\ UNCHANGED freed
    <3>1. PICK id \in IDs \ DOMAIN SDL_properties :
               /\ SDL_properties' = With(SDL_properties, id, made')
               /\ idOf' = With(idOf, made', id) /\ UNCHANGED freed
      BY <2>2
    <3>2. made' = made + 1 /\ made \in Nat /\ made' \notin DOMAIN idOf /\ made' \notin freed /\ UNCHANGED quitting
      BY <1>1, CreateDoes
    <3>3. /\ DOMAIN SDL_properties' = DOMAIN SDL_properties \cup {id} /\ SDL_properties'[id] = made'
          /\ \A i \in DOMAIN SDL_properties : SDL_properties'[i] = SDL_properties[i]
      BY <3>1 DEF With
    <3>4. /\ DOMAIN idOf' = DOMAIN idOf \cup {made'} /\ idOf'[made'] = id
          /\ \A o \in DOMAIN idOf : idOf'[o] = idOf[o]
      BY <3>1, <3>2 DEF With
    <3>5. DOMAIN SDL_properties' \subseteq IDs /\ DOMAIN idOf' \subseteq 1 .. made'
      BY <3>2, <3>3, <3>4 DEF Table
    <3>6. \A o \in DOMAIN idOf' : idOf'[o] \in IDs
      BY <3>4 DEF Table
    <3>7. \A i \in DOMAIN SDL_properties' : SDL_properties'[i] \in DOMAIN idOf' /\ idOf'[SDL_properties'[i]] = i
      BY <3>3, <3>4 DEF Table
    <3>8. ~quitting' => /\ \A i \in DOMAIN SDL_properties' : SDL_properties'[i] \notin freed'
                        /\ 1 \in DOMAIN SDL_properties' /\ SDL_properties'[1] = Global
      BY <3>1, <3>2, <3>3 DEF Table
    <3> QED
      BY <3>5, <3>6, <3>7, <3>8 DEF Table
  <2> QED
    BY <1>1, <2>1, <2>2, CreateDoes
<1>2. CASE RemoveGroup(t)
  <2>1. n >= 1 /\ A(t, n).at = "remove" /\ A(t, n) \in Frames /\ n \in 1 .. D(t)
    BY <1>0, <1>2, InIs DEF RemoveGroup
  <2>2. A(t, n).op = "destroy"
    BY <2>1, FieldsOf DEF FrameOK, Records, Using
  <2>3. A(t, n).id \in DOMAIN SDL_properties
    BY <2>1, <2>2 DEF Links, FrameLinked
  <2>4. SDL_properties' = TableWithout(A(t, n).id)
    BY <1>2, <2>3, RemoveGroupDoes
  <2>5. ~quitting => A(t, n).id # 1
    BY <2>1, <2>2 DEF SparesGlobal
  <2>6. UNCHANGED <<idOf, made, freed, quitting>>
    BY <1>2 DEF RemoveGroup
  <2>7. /\ DOMAIN SDL_properties' = DOMAIN SDL_properties \ {A(t, n).id}
        /\ \A i \in DOMAIN SDL_properties' : SDL_properties'[i] = SDL_properties[i]
    BY <2>4, WithoutIs
  <2> QED
    BY <2>5, <2>6, <2>7 DEF Table
<1>3. CASE FreeProperties(t)
  <2>1. A(t, n).at = "free" /\ freed' = freed \cup {A(t, n).obj} /\ A(t, n).op \in {"destroy", "nuke"} /\ Pops(t, n)
    BY <1>3, FreeDoes
  <2>2. n \in 1 .. D(t)
    BY <2>1 DEF Pops
  <2>3. UNCHANGED <<SDL_properties, idOf, made, quitting>>
    BY <1>3 DEF FreeProperties
  <2>4. ~quitting => \A i \in DOMAIN SDL_properties : SDL_properties[i] # A(t, n).obj
    <3>1. ~quitting => A(t, n).op = "destroy"
      BY <2>1, <2>2 DEF Quit
    <3>2. A(t, n).op = "destroy" => idOf[A(t, n).obj] = A(t, n).id /\ A(t, n).id \notin DOMAIN SDL_properties
      BY <2>1, <2>2 DEF Links, FrameLinked
    <3> QED
      BY <3>1, <3>2 DEF Table
  <2> QED
    BY <2>1, <2>3, <2>4 DEF Table
<1>4. CASE DestroyHashTable(t)
  <2>1. UNCHANGED <<idOf, made, freed, quitting>> /\ n >= 1 /\ A(t, n).op = "quit"
    BY <1>4, SweepDoes DEF DestroyHashTable
  <2>2. quitting
    BY <1>0, <2>1, QuitAlone
  <2>3. UNCHANGED SDL_properties \/ SDL_properties' = [id \in {} |-> 0]
    BY <1>4, SweepDoes
  <2> QED
    BY <2>1, <2>2, <2>3 DEF Table
<1>5. CASE SDL_QuitProperties(t)
  BY <1>5, TableStays DEF SDL_QuitProperties, table
<1>6. CASE \/ CallbackReturns(t) \/ Find(t) \/ Acquire(t) \/ SDL_UnlockProperties(t)
           \/ RemoveOld(t) \/ InsertNew(t) \/ Iterate(t) \/ EndEnumerate(t) \/ Nuke(t)
  BY <1>6, TableStays DEF CallbackReturns, Find, Acquire, SDL_UnlockProperties, RemoveOld,
     InsertNew, Iterate,
     EndEnumerate, Nuke, table
<1>7. CASE \/ \E id \in IDs :
                CallSet(t, id) \/ (\E op \in {"lock", "get", "enumerate"} : CallReader(t, op, id))
                \/ CallDestroy(t, id)
           \/ CallUnlock(t)
  BY <1>7, TableStays DEF CallSet, CallReader, CallDestroy, CallUnlock, table
<1> QED
  BY <1>1, <1>2, <1>3, <1>4, <1>5, <1>6, <1>7 DEF NextOf, Step

(* A move keeps SparesGlobal.                                              *)
LEMMA SparesGlobalStep ==
  ASSUME NoQuitCalls, Typed, Table, Links, Quit, SparesGlobal, Stacked',
         NEW t \in Threads, NEW n \in Nat, n = D(t), Move(t, n)
  PROVE  SparesGlobal'
<1> SUFFICES ASSUME ~quitting', NEW u \in Threads, NEW p \in 1 .. D(u)', A(u, p)'.op = "destroy"
             PROVE  A(u, p)'.id # 1
  BY DEF SparesGlobal
<1>0. Stacked
  BY DEF Typed
<1>1. ASSUME NEW f \in Frames, Enters(t, n, f) PROVE A(u, p)'.id # 1
  <2>1. UNCHANGED quitting /\ ~quitting /\ Pushes(t, n, f)
    BY <1>1 DEF Enters
  <2>2. CASE u = t /\ p = n + 1
    <3>1. f.op = "destroy" /\ A(u, p)' = f
      BY <2>1, <2>2 DEF Pushes
    <3>2. SDL_properties[f.id] # Global
      BY <1>1, <3>1 DEF Enters, MayDestroy
    <3> QED
      BY <2>1, <3>1, <3>2 DEF Table
  <2>3. CASE ~(u = t /\ p = n + 1)
    <3>1. p \in 1 .. D(u) /\ (u # t \/ p <= n)
      BY <2>1, <2>3 DEF Pushes, Around
    <3>2. Same(A(u, p)', A(u, p))
      BY <2>1, <3>1, Kept DEF Pushes
    <3> QED
      BY <2>1, <3>1, <3>2 DEF SparesGlobal, Same
  <2> QED
    BY <2>2, <2>3
<1>2. ASSUME NEW f \in Frames, GoesOn(t, n, f) PROVE A(u, p)'.id # 1
  <2>1. UNCHANGED quitting /\ ~quitting /\ Turns(t, n, f) /\ f.op = A(t, n).op /\ f.id = A(t, n).id
    BY <1>2 DEF GoesOn
  <2>2. n \in 1 .. D(t) /\ A(t, n)' = f
    BY <2>1 DEF Turns
  <2>3. p \in 1 .. D(u) /\ (u # t \/ p <= n - 1 \/ p = n)
    BY <2>1 DEF Turns, Around
  <2>4. CASE u = t /\ p = n
    BY <2>1, <2>2, <2>4 DEF SparesGlobal
  <2>5. CASE u # t \/ p <= n - 1
    <3>2. Same(A(u, p)', A(u, p))
      BY <2>1, <2>3, <2>5, Kept DEF Turns
    <3> QED
      BY <2>1, <2>3, <3>2 DEF SparesGlobal, Same
  <2> QED
    BY <2>3, <2>4, <2>5
<1>3. ASSUME NEW f \in Frames, NEW g \in Frames, CallsBack(t, n, f, g) PROVE A(u, p)'.id # 1
  <2>1. UNCHANGED quitting /\ ~quitting /\ Calls(t, n, f, g) /\ f.op = A(t, n).op /\ f.id = A(t, n).id /\ g.op = "callback"
    BY <1>3 DEF CallsBack
  <2>2. n \in 1 .. D(t) /\ A(t, n)' = f /\ A(t, n + 1)' = g
    BY <2>1 DEF Calls
  <2>3. (p \in 1 .. D(u) /\ (u # t \/ p <= n - 1 \/ p = n)) \/ (u = t /\ p = n + 1)
    BY <2>1 DEF Calls, Around
  <2>6. CASE u = t /\ p = n + 1
    BY <2>1, <2>2, <2>6
  <2>4. CASE u = t /\ p = n
    BY <2>1, <2>2, <2>4 DEF SparesGlobal
  <2>5. CASE p \in 1 .. D(u) /\ (u # t \/ p <= n - 1)
    <3>2. Same(A(u, p)', A(u, p))
      BY <2>1, <2>5, Kept DEF Calls
    <3> QED
      BY <2>1, <2>5, <3>2 DEF SparesGlobal, Same
  <2> QED
    BY <2>3, <2>4, <2>5, <2>6
<1>4. CASE Finishes(t, n)
  <2>1. UNCHANGED quitting /\ ~quitting /\ Pops(t, n)
    BY <1>4 DEF Finishes
  <2>2. p \in 1 .. D(u) /\ (u # t \/ p <= n - 1)
    BY <2>1 DEF Pops, Around
  <2>3. Same(A(u, p)', A(u, p))
    BY <2>1, <2>2, Kept DEF Pops
  <2> QED
    BY <2>1, <2>2, <2>3 DEF SparesGlobal, Same
<1>5. ASSUME NEW f \in Frames, Sweeps(t, n, f) PROVE A(u, p)'.id # 1
  BY <1>0, <1>5, QuitAlone DEF Sweeps
<1>6. CASE Quits(t)
  BY <1>6 DEF Quits
<1>7. CASE UNCHANGED <<stack, held, quitting>>
  BY <1>7 DEF SparesGlobal, A, D
<1> QED
  BY <1>1, <1>2, <1>3, <1>4, <1>5, <1>6, <1>7 DEF Move

-----------------------------------------------------------------------------
(* The calls that free a group.                                            *)
Ends(f) == f.op \in {"destroy", "nuke"}

(* BeingDestroyedIs in the next state.                                     *)
LEMMA BeingDestroyedNext ==
  ASSUME Stacked', NEW o
  PROVE  BeingDestroyed(o)' <=>
           \E v \in Threads : \E q \in 1 .. D(v)' :
             A(v, q)'.obj = o /\ A(v, q)'.op \in {"destroy", "nuke"}
<1>1. \A v \in Threads : stack'[v] \in Seq(Frames)
  BY DEF Stacked
<1>2. ASSUME NEW v \in Threads
      PROVE  /\ \A i \in DOMAIN stack'[v] : \E q \in 1 .. D(v)' : A(v, q)' = stack'[v][i]
             /\ \A q \in 1 .. D(v)' : \E i \in DOMAIN stack'[v] : A(v, q)' = stack'[v][i]
  <2> DEFINE s == stack'[v]
  <2>1. s \in Seq(Frames) /\ Len(s) = D(v)' /\ Len(s) \in Nat /\ DOMAIN s = 1 .. Len(s)
    BY <1>1 DEF D
  <2>2. \A q : A(v, q)' = s[Len(s) + 1 - q]
    BY DEF A
  <2> HIDE DEF s
  <2>3. ASSUME NEW i \in DOMAIN s PROVE \E q \in 1 .. D(v)' : A(v, q)' = s[i]
    <3>1. Len(s) + 1 - i \in 1 .. Len(s) /\ Len(s) + 1 - (Len(s) + 1 - i) = i
      BY <2>1
    <3> QED
      BY <2>1, <2>2, <3>1
  <2>4. ASSUME NEW q \in 1 .. D(v)' PROVE \E i \in DOMAIN s : A(v, q)' = s[i]
    <3>1. Len(s) + 1 - q \in DOMAIN s
      BY <2>1
    <3> QED
      BY <2>2, <3>1
  <2> QED
    BY <2>3, <2>4 DEF s
<1> QED
  BY <1>2 DEF BeingDestroyed

(* Destruction goes on until its frame goes.                               *)
LEMMA StillDestroyed ==
  ASSUME Stacked, Stacked', NEW t \in Threads, NEW n \in Nat, n = D(t), NEW o, BeingDestroyed(o),
         \/ \E f \in Frames : Pushes(t, n, f)
         \/ Pops(t, n) /\ (Ends(A(t, n)) => A(t, n).obj # o)
         \/ \E f \in Frames : Turns(t, n, f) /\ (Ends(A(t, n)) /\ A(t, n).obj = o => f.op = A(t, n).op /\ f.obj = o)
         \/ \E f, g \in Frames : Calls(t, n, f, g) /\ f.op = A(t, n).op /\ f.obj = A(t, n).obj
  PROVE  BeingDestroyed(o)'
<1>9. PICK u \in Threads : \E p \in 1 .. D(u) : A(u, p).obj = o /\ Ends(A(u, p))
  BY BeingDestroyedIs DEF Ends
<1>1. PICK p \in 1 .. D(u) : A(u, p).obj = o /\ Ends(A(u, p))
  BY <1>9
<1>0. D(u) \in Nat
  BY DepthType
<1> SUFFICES \E q \in 1 .. D(u)' : A(u, q)'.obj = o /\ Ends(A(u, q)')
  BY BeingDestroyedNext DEF Ends
<1>2. ASSUME Same(A(u, p)', A(u, p)), p \in 1 .. D(u)' PROVE \E q \in 1 .. D(u)' : A(u, q)'.obj = o /\ Ends(A(u, q)')
  BY <1>1, <1>2 DEF Same, Ends
<1>3. CASE \E f \in Frames : Pushes(t, n, f)
  <2>1. PICK f \in Frames : Pushes(t, n, f)
    BY <1>3
  <2>2. u # t \/ p <= n
    BY <1>1
  <2>3. Same(A(u, p)', A(u, p)) /\ (u # t => D(u)' = D(u))
    BY <2>1, <2>2, Kept DEF Pushes
  <2> QED
    BY <1>0, <1>2, <2>1, <2>3 DEF Pushes
<1>4. CASE Pops(t, n) /\ (Ends(A(t, n)) => A(t, n).obj # o)
  <2>2. u # t \/ p <= n - 1
    BY <1>0, <1>1, <1>4 DEF Pops
  <2>3. Same(A(u, p)', A(u, p)) /\ (u # t => D(u)' = D(u))
    BY <1>4, <2>2, Kept DEF Pops
  <2> QED
    BY <1>0, <1>2, <1>4, <2>2, <2>3 DEF Pops
<1>5. CASE \E f \in Frames : Turns(t, n, f) /\ (Ends(A(t, n)) /\ A(t, n).obj = o => f.op = A(t, n).op /\ f.obj = o)
  <2>1. PICK f \in Frames : Turns(t, n, f) /\ (Ends(A(t, n)) /\ A(t, n).obj = o => f.op = A(t, n).op /\ f.obj = o)
    BY <1>5
  <2>2. CASE u = t /\ p = n
    BY <1>0, <1>1, <2>1, <2>2 DEF Turns, Ends
  <2>3. CASE u # t \/ p <= n - 1
    <3>1. Same(A(u, p)', A(u, p)) /\ (u # t => D(u)' = D(u))
      BY <2>1, <2>3, Kept DEF Turns
    <3> QED
      BY <1>0, <1>2, <2>1, <3>1 DEF Turns
  <2> QED
    BY <1>0, <2>2, <2>3
<1>6. CASE \E f, g \in Frames : Calls(t, n, f, g) /\ f.op = A(t, n).op /\ f.obj = A(t, n).obj
  <2>1. PICK f \in Frames, g \in Frames : Calls(t, n, f, g) /\ f.op = A(t, n).op /\ f.obj = A(t, n).obj
    BY <1>6
  <2>2. CASE u = t /\ p = n
    <3>1. n \in 1 .. D(t)' /\ A(t, n)' = f
      BY <2>1 DEF Calls
    <3> QED
      BY <1>1, <2>1, <2>2, <3>1 DEF Ends
  <2>3. CASE u # t \/ p <= n - 1
    <3>1. Same(A(u, p)', A(u, p)) /\ (u # t => D(u)' = D(u))
      BY <2>1, <2>3, Kept DEF Calls
    <3> QED
      BY <1>0, <1>2, <2>1, <3>1 DEF Calls
  <2> QED
    BY <1>0, <2>2, <2>3
<1> QED
  BY <1>3, <1>4, <1>5, <1>6

(* FoundByID stays when the table does.                                    *)
LEMMA FoundStays ==
  ASSUME FoundByID, UNCHANGED <<SDL_properties, idOf>>, freed \subseteq freed',
         \A o \in DOMAIN idOf \ freed' : BeingDestroyed(o) => BeingDestroyed(o)'
  PROVE  FoundByID'
<1> SUFFICES ASSUME NEW o \in DOMAIN idOf' \ freed'
             PROVE  BeingDestroyed(o)' \/ (idOf'[o] \in DOMAIN SDL_properties' /\ SDL_properties'[idOf'[o]] = o)
  BY DEF FoundByID
<1>1. BeingDestroyed(o) \/ (idOf[o] \in DOMAIN SDL_properties /\ SDL_properties[idOf[o]] = o)
  BY DEF FoundByID
<1> QED
  BY <1>1

(* Every action keeps FoundByID: a group leaves the table as its           *)
(* destruction begins.                                                     *)
LEMMA FoundStep ==
  ASSUME Typed, Table, Links, Quit, FoundByID, NEW t \in Threads, NextOf(t), NEW n \in Nat, n = D(t)
  PROVE  FoundByID'
<1>0. Stacked /\ Stacked'
  BY NextMoves DEF Typed
<1>a. DOMAIN idOf \subseteq Objects
  <2>1. made \in 1 .. MaxObjects /\ DOMAIN idOf \subseteq 1 .. made
    BY DEF Table, Typed
  <2> QED
    BY <2>1, PropertiesAssumption DEF Objects
<1>b. ASSUME UNCHANGED <<SDL_properties, idOf, freed>>,
             \A o \in Objects : BeingDestroyed(o) => BeingDestroyed(o)'
      PROVE  FoundByID'
  BY <1>a, <1>b, FoundStays
<1>c. ASSUME NEW f \in Frames, Pushes(t, n, f) PROVE \A o \in Objects : BeingDestroyed(o) => BeingDestroyed(o)'
  BY <1>0, <1>c, StillDestroyed
<1>d. ASSUME Pops(t, n), A(t, n).at \notin {"nuke", "free", "remove"}
      PROVE  \A o \in Objects : BeingDestroyed(o) => BeingDestroyed(o)'
  <2>1. n \in 1 .. D(t)
    BY <1>d DEF Pops
  <2>2. A(t, n) \in Frames
    BY <1>0, <2>1, FrameType
  <2>3. ~Ends(A(t, n))
    BY <1>d, <2>2 DEF Ends, Frames, FrameOK
  <2> QED
    BY <1>0, <1>d, <2>3, StillDestroyed
<1>e. ASSUME NEW f \in Frames, Turns(t, n, f), A(t, n).at \notin {"nuke", "free"}
      PROVE  \A o \in Objects : BeingDestroyed(o) => BeingDestroyed(o)'
  <2>1. n \in 1 .. D(t)
    BY <1>e DEF Turns
  <2>2. A(t, n) \in Frames
    BY <1>0, <2>1, FrameType
  <2>3. \A o \in Objects : ~(Ends(A(t, n)) /\ A(t, n).obj = o)
    BY <1>e, <2>2, PropertiesAssumption DEF Ends, Frames, FrameOK, Objects
  <2> QED
    BY <1>0, <1>e, <2>3, StillDestroyed
<1>1. CASE SDL_CreateProperties(t)
  <2>1. ASSUME NEW o PROVE BeingDestroyed(o)' <=> BeingDestroyed(o)
    BY <1>1 DEF SDL_CreateProperties, BeingDestroyed
  <2>2. CASE UNCHANGED <<SDL_properties, idOf>> /\ freed' = freed \cup {made'}
    BY <2>1, <2>2, FoundStays
  <2>3. CASE \E id \in IDs \ DOMAIN SDL_properties :
               /\ SDL_properties' = With(SDL_properties, id, made')
               /\ idOf' = With(idOf, made', id) /\ UNCHANGED freed
    <3>1. PICK id \in IDs \ DOMAIN SDL_properties :
               /\ SDL_properties' = With(SDL_properties, id, made')
               /\ idOf' = With(idOf, made', id) /\ UNCHANGED freed
      BY <2>3
    <3>2. made' \notin DOMAIN idOf
      BY <1>1, CreateDoes
    <3>3. /\ DOMAIN SDL_properties' = DOMAIN SDL_properties \cup {id} /\ SDL_properties'[id] = made'
          /\ \A i \in DOMAIN SDL_properties : SDL_properties'[i] = SDL_properties[i]
      BY <3>1 DEF With
    <3>4. /\ DOMAIN idOf' = DOMAIN idOf \cup {made'} /\ idOf'[made'] = id
          /\ \A o \in DOMAIN idOf : idOf'[o] = idOf[o]
      BY <3>1, <3>2 DEF With
    <3> SUFFICES ASSUME NEW o \in DOMAIN idOf' \ freed'
                 PROVE  BeingDestroyed(o)' \/ (idOf'[o] \in DOMAIN SDL_properties' /\ SDL_properties'[idOf'[o]] = o)
      BY DEF FoundByID
    <3>5. CASE o = made'
      BY <3>3, <3>4, <3>5
    <3>6. CASE o \in DOMAIN idOf
      <4>1. BeingDestroyed(o) \/ (idOf[o] \in DOMAIN SDL_properties /\ SDL_properties[idOf[o]] = o)
        BY <3>1, <3>6 DEF FoundByID
      <4> QED
        BY <2>1, <3>3, <3>4, <3>6, <4>1
    <3> QED
      BY <3>4, <3>5, <3>6
  <2> QED
    BY <1>1, <2>2, <2>3, CreateDoes
<1>2. CASE RemoveGroup(t)
  <2>1. n >= 1 /\ A(t, n).at = "remove" /\ A(t, n) \in Frames /\ n \in 1 .. D(t)
    BY <1>0, <1>2, InIs DEF RemoveGroup
  <2>2. A(t, n).op = "destroy"
    BY <2>1, FieldsOf DEF FrameOK, Records, Using
  <2>3. A(t, n).id \in DOMAIN SDL_properties
    BY <2>1, <2>2 DEF Links, FrameLinked
  <2>4. SDL_properties' = TableWithout(A(t, n).id)
    BY <1>2, <2>3, RemoveGroupDoes
  <2>5. PICK f \in Frames : f.op = "destroy" /\ f.obj = SDL_properties[A(t, n).id] /\ Turns(t, n, f)
    BY <1>2, <2>3, RemoveGroupDoes
  <2>6. UNCHANGED <<idOf, freed>>
    BY <1>2 DEF RemoveGroup
  <2>7. /\ DOMAIN SDL_properties' = DOMAIN SDL_properties \ {A(t, n).id}
        /\ \A i \in DOMAIN SDL_properties' : SDL_properties'[i] = SDL_properties[i]
    BY <2>4, WithoutIs
  <2>8. \A o \in Objects : BeingDestroyed(o) => BeingDestroyed(o)'
    BY <1>e, <2>1, <2>5
  <2> SUFFICES ASSUME NEW o \in DOMAIN idOf' \ freed'
               PROVE  BeingDestroyed(o)' \/ (idOf'[o] \in DOMAIN SDL_properties' /\ SDL_properties'[idOf'[o]] = o)
    BY DEF FoundByID
  <2>10. BeingDestroyed(o) \/ (idOf[o] \in DOMAIN SDL_properties /\ SDL_properties[idOf[o]] = o)
    BY <2>6 DEF FoundByID
  <2>11. CASE idOf[o] = A(t, n).id /\ o = SDL_properties[A(t, n).id]
    <3>1. n \in 1 .. D(t)' /\ A(t, n)'.obj = o /\ A(t, n)'.op = "destroy"
      BY <2>5, <2>11 DEF Turns
    <3>2. BeingDestroyed(o)'
      BY <1>0, <3>1, BeingDestroyedNext
    <3> QED
      BY <3>2
  <2> QED
    BY <1>a, <2>6, <2>7, <2>8, <2>10, <2>11
<1>3. CASE FreeProperties(t)
  <2>1. A(t, n).at = "free" /\ freed' = freed \cup {A(t, n).obj} /\ Pops(t, n)
    BY <1>3, FreeDoes
  <2>2. UNCHANGED <<SDL_properties, idOf>>
    BY <1>3 DEF FreeProperties
  <2>3. \A o \in DOMAIN idOf \ freed' : BeingDestroyed(o) => BeingDestroyed(o)'
    BY <1>0, <2>1, StillDestroyed
  <2> QED
    BY <2>1, <2>2, <2>3, FoundStays
<1>4. CASE DestroyHashTable(t)
  <2>1. UNCHANGED <<idOf, freed>> /\ n >= 1 /\ A(t, n).op = "quit"
    BY <1>4, SweepDoes DEF DestroyHashTable
  <2>2. n = 1 /\ \A u \in Threads : u # t => D(u) = 0
    BY <1>0, <2>1, QuitAlone
  <2>3. CASE \A id \in DOMAIN SDL_properties : SDL_properties[id] \in freed
    <3>1. ASSUME NEW o PROVE ~BeingDestroyed(o)
      <4>1. ASSUME NEW u \in Threads, NEW p \in 1 .. D(u) PROVE u = t /\ p = n
        <5>1. D(u) \in Nat /\ D(u) # 0
          BY <1>0, DepthType
        <5>2. u = t
          BY <2>2, <5>1
        <5>3. D(u) = 1
          BY <2>2, <5>2
        <5> QED
          BY <2>2, <5>2, <5>3
      <4> QED
        BY <1>0, <2>1, <4>1, BeingDestroyedIs
    <3>2. \A o \in DOMAIN idOf \ freed : FALSE
      BY <2>3, <3>1 DEF FoundByID
    <3> QED
      BY <2>1, <3>2 DEF FoundByID
  <2>4. CASE UNCHANGED SDL_properties /\ \E f \in Frames : Pushes(t, n, f)
    BY <1>b, <1>c, <2>1, <2>4
  <2> QED
    BY <1>4, <2>3, <2>4, SweepDoes
<1>5. CASE SDL_QuitProperties(t)
  <2>1. \A u \in Threads : D(u) = 0
    BY <1>5, QuitDoes
  <2>2. \A o \in Objects : ~BeingDestroyed(o)
    BY <1>0, <2>1, BeingDestroyedIs
  <2> QED
    BY <1>5, <1>b, <2>2 DEF SDL_QuitProperties, table
<1>6. CASE CallbackReturns(t)
  BY <1>6, <1>b, <1>d, CallbackReturnsDoes DEF CallbackReturns, table
<1>7. CASE Find(t)
  <2>1. n >= 1 /\ A(t, n).at = "find" /\ (Pops(t, n) \/ \E f \in Frames : Turns(t, n, f))
    BY <1>7, FindDoes
  <2> QED
    BY <1>7, <1>b, <1>d, <1>e, <2>1 DEF Find
<1>8. CASE Acquire(t)
  <2>1. n >= 1 /\ A(t, n).at = "lock" /\ n \in 1 .. D(t) /\ A(t, n) \in Frames
    BY <1>0, <1>8, AcquireDoes, LastIs
  <2>2. CASE Pops(t, n)
    BY <1>8, <1>b, <1>d, <2>1, <2>2 DEF Acquire
  <2>3. CASE /\ A(t, n).op \in {"set", "enumerate"}
             /\ Turns(t, n, [A(t, n) EXCEPT !.at = IF A(t, n).op = "set" THEN "change" ELSE "iterate"])
    <3>1. PICK g : g = [A(t, n) EXCEPT !.at = IF A(t, n).op = "set" THEN "change" ELSE "iterate"]
      OBVIOUS
    <3>2. g \in Frames
      BY <2>1, <2>3, <3>1, MovedType
    <3> QED
      BY <1>8, <1>b, <1>e, <2>1, <2>3, <3>1, <3>2 DEF Acquire
  <2> QED
    BY <1>8, <2>2, <2>3, AcquireDoes
<1>9. CASE SDL_UnlockProperties(t)
  BY <1>9, <1>b, <1>d, UnlockDoes DEF SDL_UnlockProperties, table
<1>10. CASE RemoveOld(t)
  <2>1. n >= 1 /\ A(t, n).at = "change" /\ A(t, n).obj \in Objects /\ n \in 1 .. D(t) /\ A(t, n) \in Frames
    BY <1>0, <1>10, RemoveOldDoes, LastIs
  <2>2. PICK f : f = [A(t, n) EXCEPT !.at = "insert"]
    OBVIOUS
  <2>3. f \in Frames /\ f.op = A(t, n).op /\ f.obj = A(t, n).obj
    BY <2>1, <2>2, MovedType
  <2>4. PICK g : g = CallbackFrame(A(t, n).obj, CleanupMay)
    OBVIOUS
  <2>5. g \in Frames
    BY <2>1, <2>4, CallbackType, CleanupMayType
  <2>6. Turns(t, n, f) \/ Calls(t, n, f, g)
    BY <1>10, <2>2, <2>4, RemoveOldDoes
  <2>7. \A o \in Objects : BeingDestroyed(o) => BeingDestroyed(o)'
    BY <1>0, <2>3, <2>5, <2>6, StillDestroyed
  <2> QED
    BY <1>10, <1>b, <2>7 DEF RemoveOld, table
<1>11. CASE InsertNew(t)
  BY <1>11, <1>b, <1>d, InsertNewDoes DEF InsertNew, table
<1>12. CASE Iterate(t)
  <2>1. n >= 1 /\ A(t, n).at = "iterate" /\ A(t, n).obj \in Objects /\ n \in 1 .. D(t) /\ A(t, n) \in Frames
        /\ A(t, n).op = "enumerate"
    BY <1>0, <1>12, IterateDoes, LastIs
  <2>2. CASE Turns(t, n, [A(t, n) EXCEPT !.at = "enumerated"])
    <3>1. PICK f : f = [A(t, n) EXCEPT !.at = "enumerated"]
      OBVIOUS
    <3>2. f \in Frames /\ Turns(t, n, f)
      BY <2>1, <2>2, <3>1, MovedType
    <3> QED
      BY <1>12, <1>b, <1>e, <2>1, <3>2 DEF Iterate, table
  <2>3. CASE \E f \in Frames : /\ f.op = "enumerate" /\ f.obj = A(t, n).obj
                               /\ Calls(t, n, f, CallbackFrame(A(t, n).obj, {"get"}))
    <3>1. CallbackFrame(A(t, n).obj, {"get"}) \in Frames
      BY <2>1, CallbackType
    <3>2. \A o \in Objects : BeingDestroyed(o) => BeingDestroyed(o)'
      BY <1>0, <2>1, <2>3, <3>1, StillDestroyed
    <3> QED
      BY <1>12, <1>b, <3>2 DEF Iterate, table
  <2> QED
    BY <1>12, <2>2, <2>3, IterateDoes
<1>13. CASE EndEnumerate(t)
  BY <1>13, <1>b, <1>d, EndEnumerateDoes DEF EndEnumerate, table
<1>14. CASE Nuke(t)
  <2>1. n >= 1 /\ A(t, n).at = "nuke" /\ A(t, n).obj \in Objects /\ n \in 1 .. D(t) /\ A(t, n) \in Frames
    BY <1>0, <1>14, NukeDoes, LastIs
  <2>2. PICK f : f = [A(t, n) EXCEPT !.at = "free"]
    OBVIOUS
  <2>3. f \in Frames /\ f.op = A(t, n).op /\ f.obj = A(t, n).obj
    BY <2>1, <2>2, MovedType
  <2>4. PICK g : g = CallbackFrame(A(t, n).obj, CleanupMay)
    OBVIOUS
  <2>5. g \in Frames
    BY <2>1, <2>4, CallbackType, CleanupMayType
  <2>6. Turns(t, n, f) \/ Calls(t, n, f, g)
    BY <1>14, <2>2, <2>4, NukeDoes
  <2>7. \A o \in Objects : BeingDestroyed(o) => BeingDestroyed(o)'
    BY <1>0, <2>3, <2>5, <2>6, StillDestroyed
  <2> QED
    BY <1>14, <1>b, <2>7 DEF Nuke, table
<1>15. ASSUME NEW id \in IDs, CallSet(t, id) PROVE FoundByID'
  <2>1. PICK v \in 0 .. MaxValues : Pushes(t, n, NewFrame("set", "find", id, v))
    <3>1. given + 1 \in 0 .. MaxValues \/ ~(given < MaxValues)
      BY PropertiesAssumption DEF Typed
    <3>2. 0 \in 0 .. MaxValues
      BY PropertiesAssumption
    <3> QED
      BY <1>15, <3>1, <3>2, CallSetDoes
  <2>2. NewFrame("set", "find", id, v) \in Frames
    BY NewFrameType
  <2> QED
    BY <1>15, <1>b, <1>c, <2>1, <2>2 DEF CallSet, table
<1>16. ASSUME NEW id \in IDs, NEW op \in {"lock", "get", "enumerate"},
  CallReader(t, op, id) PROVE FoundByID'
  <2>1. Pushes(t, n, NewFrame(op, "find", id, 0))
    BY <1>16, CallReaderDoes
  <2>2. NewFrame(op, "find", id, 0) \in Frames
    BY NewFrameType, PropertiesAssumption
  <2> QED
    BY <1>16, <1>b, <1>c, <2>1, <2>2 DEF CallReader, table
<1>17. ASSUME NEW id \in IDs, CallDestroy(t, id) PROVE FoundByID'
  <2>1. Pushes(t, n, NewFrame("destroy", "remove", id, 0))
    BY <1>17, CallDestroyDoes
  <2>2. NewFrame("destroy", "remove", id, 0) \in Frames
    BY NewFrameType, PropertiesAssumption
  <2> QED
    BY <1>17, <1>b, <1>c, <2>1, <2>2 DEF CallDestroy, table
<1>18. CASE CallUnlock(t)
  <2>0. held[t] # 0 /\ held[t] \in DOMAIN idOf /\ idOf[held[t]] \in IDs
    BY <1>18 DEF CallUnlock, Links, HeldLinked, Table
  <2>1. Pushes(t, n, NewFrame("unlock", "find", idOf[held[t]], 0))
    BY <1>18, <2>0, CallUnlockDoes
  <2>2. NewFrame("unlock", "find", idOf[held[t]], 0) \in Frames
    BY <2>0, NewFrameType, PropertiesAssumption
  <2> QED
    BY <1>18, <1>b, <1>c, <2>1, <2>2 DEF CallUnlock, table
<1> QED
  BY <1>1, <1>2, <1>3, <1>4, <1>5, <1>6, <1>7, <1>8, <1>9, <1>10, <1>11, <1>12, <1>13, <1>14, <1>15,
     <1>16, <1>17, <1>18 DEF NextOf, Step

(* What an iteration has shown is still there,                             *)
Enumerated(f) == f.at = "enumerated" => props[f.obj] = f.v
(* ... and what is to be destroyed has not been freed.                     *)
Present(f) == f.op = "destroy" /\ f.at = "remove" => SDL_properties[f.id] \notin freed
(* Clause AllGood: what a call relies on is as it was when it looked.      *)
Good(f) == FrameLinked(f) /\ Pending(f) /\ Enumerated(f) /\ Present(f)
AllGood == \A t \in Threads : \A p \in 1 .. D(t) : Good(A(t, p))

(* AllGood, by the calls that stay and those that are new.                 *)
LEMMA GoodStep ==
  ASSUME Stacked, Stacked', NEW t \in Threads, NEW n \in Nat, n = D(t), NEW k \in {n - 1, n},
         Around(t, k),
         D(t)' >= k,
         \A u \in Threads : \A p \in 1 .. D(u) : u # t \/ p <= k => \A f \in Frames : f = A(u, p) => Good(f)',
         \A q \in k + 1 .. D(t)' : Good(A(t, q))'
  PROVE  AllGood'
<1> SUFFICES ASSUME NEW u \in Threads, NEW p \in 1 .. D(u)' PROVE Good(A(u, p))'
  BY DEF AllGood
<1>0. D(u) \in Nat /\ D(t)' \in Nat /\ D(u)' \in Nat
  BY DepthType, DepthTypeNext
<1>1. CASE u = t /\ p >= k + 1
  BY <1>0, <1>1
<1>2. CASE u # t \/ p <= k
  <2>1. p \in 1 .. D(u)
    <3>1. CASE u # t
      BY <1>0, <3>1 DEF Around
    <3>2. CASE u = t
      BY <1>0, <1>2, <3>2
    <3> QED
      BY <3>1, <3>2
  <2>2. PICK f \in Frames : f = A(u, p)
    BY <2>1, FrameType
  <2>3. Same(A(u, p)', f)
    BY <1>2, <2>1, <2>2, Kept
  <2>4. Good(f)'
    BY <1>2, <2>1, <2>2
  <2>5. A(u, p)'.op = f.op /\ A(u, p)'.at = f.at /\ A(u, p)'.id = f.id /\ A(u, p)'.obj = f.obj /\ A(u, p)'.v = f.v
    BY <2>3 DEF Same
  <2>6. FrameLinked(A(u, p))' <=> FrameLinked(f)'
    BY <2>5 DEF FrameLinked, Linked
  <2>7. (Pending(A(u, p))' <=> Pending(f)') /\ (Enumerated(A(u, p))' <=> Enumerated(f)') /\ (Present(A(u, p))' <=> Present(f)')
    BY <2>5 DEF Pending, Enumerated, Present
  <2> QED
    BY <2>4, <2>6, <2>7 DEF Good
<1> QED
  BY <1>0, <1>1, <1>2

(* A call stays good when the table and its item do.                       *)
LEMMA GoodStays ==
  ASSUME Table, NEW f \in Frames, Good(f), UNCHANGED <<SDL_properties, freed>>, Grows,
         given' >= given, given \in Nat, given' \in Nat,
         f.at = "enumerated" => props'[f.obj] = props[f.obj]
  PROVE  Good(f)'
<1>1. FrameLinked(f)'
  BY DEF Good, FrameLinked, Linked, Grows
<1>2. Pending(f)'
  BY DEF Good, Pending, Frames, Records
<1>3. Enumerated(f)' /\ Present(f)'
  BY DEF Good, Enumerated, Present
<1> QED
  BY <1>1, <1>2, <1>3 DEF Good

(* No other call enumerates a group that a set changes: both hold its      *)
(* lock, and an enumeration calls no set.                                  *)
LEMMA NotEnumerating ==
  ASSUME Typed, Locks, Outer, NEW t \in Threads, NEW n \in Nat, n = D(t), n >= 1,
         A(t, n).op = "set",
         A(t, n).at \in {"change", "insert"},
         NEW u \in Threads, NEW p \in 1 .. D(u), u # t \/ p <= n - 1, A(u, p).at = "enumerated"
  PROVE  A(u, p).obj # A(t, n).obj
<1> SUFFICES ASSUME A(u, p).obj = A(t, n).obj PROVE FALSE
  OBVIOUS
<1>0. Stacked /\ n \in 1 .. D(t) /\ A(t, n) \in Frames /\ A(u, p) \in Frames
  BY LastIs, FrameType DEF Typed
<1>1. A(t, n).obj \in 0 .. MaxObjects
  BY <1>0, FieldsOf, PropertiesAssumption DEF FrameOK, Objects
<1>2. Holding(A(t, n)) = A(t, n).obj /\ Holding(A(u, p)) = A(t, n).obj
  BY <1>0, AtHolds
<1>3. t = u
  BY <1>0, <1>1, <1>2, OneHolder
<1>4. A(u, p).op = "enumerate"
  BY <1>0, FieldsOf DEF FrameOK, Records, Using
<1>5. n \in p + 1 .. D(t)
  BY <1>3
<1>6. A(t, n).op \in {"callback", "get"}
  BY <1>0, <1>3, <1>4, <1>5 DEF Outer
<1> QED
  BY <1>6

(* Every call's group has got the call's ID.                               *)
LEMMA ObjectHasID ==
  ASSUME Typed, Table, Nested, Links, NEW u \in Threads, NEW p \in 1 .. D(u),
         A(u, p).op # "callback", A(u, p).obj # 0
  PROVE  A(u, p).obj \in DOMAIN idOf /\ idOf[A(u, p).obj] = A(u, p).id
<1>0. Stacked /\ A(u, p) \in Frames /\ FrameLinked(A(u, p))
  BY FrameType DEF Typed, Links
<1>1. FrameOK(A(u, p)) /\ A(u, p) \in Records
  BY <1>0, FieldsOf
<1>2. A(u, p).at \notin {"find", "remove", "sweep"}
  BY <1>1 DEF FrameOK
<1>3. A(u, p).op \in Using \cup {"destroy", "nuke"}
  BY <1>1, <1>2 DEF FrameOK, Records
<1>4. CASE A(u, p).op = "destroy"
  BY <1>0, <1>2, <1>4 DEF FrameLinked
<1>5. CASE A(u, p).op \in Using \cup {"nuke"}
  <2>1. Linked(A(u, p))
    BY <1>0, <1>2, <1>5 DEF FrameLinked
  <2> QED
    BY <2>1 DEF Linked, Table
<1> QED
  BY <1>3, <1>4, <1>5

(* No other call uses a group that is freed.                               *)
LEMMA OthersElsewhere ==
  ASSUME Typed, Table, Nested, Links, Destroying, Quit, NEW t \in Threads, NEW n \in Nat, n = D(t),
         n >= 1,
         A(t, n).at \in {"nuke", "free"}, NEW u \in Threads, NEW p \in 1 .. D(u), u # t \/ p <= n - 1
  PROVE  /\ A(u, p).obj # A(t, n).obj
         /\ A(u, p).op = "destroy" /\ A(u, p).at = "remove" => SDL_properties[A(u, p).id] # A(t, n).obj
<1>0. Stacked /\ n \in 1 .. D(t) /\ A(t, n) \in Frames /\ A(u, p) \in Frames
  BY LastIs, FrameType DEF Typed
<1>1. A(t, n).obj \in Objects /\ A(t, n).op \in {"destroy", "nuke"} /\ A(t, n).obj # 0
  BY <1>0, FieldsOf DEF FrameOK, Records, Using, Objects
<1>2. A(t, n).obj \in DOMAIN idOf /\ idOf[A(t, n).obj] = A(t, n).id
  BY <1>0, <1>1, ObjectHasID
<1>3. CASE A(t, n).op = "destroy"
  <2>1. ASSUME NEW q \in 1 .. D(u), u # t \/ q <= n - 1 PROVE A(u, q).id # A(t, n).id
    BY <1>0, <1>3, <2>1 DEF Destroying
  <2>2. ASSUME NEW q \in 1 .. D(u), u # t \/ q <= n - 1, A(u, q).op # "callback" PROVE A(u, q).obj # A(t, n).obj
    BY <1>1, <1>2, <2>1, <2>2, ObjectHasID
  <2>3. CASE A(u, p).op = "callback"
    <3>0. D(u) \in Nat
      BY <1>0, DepthType
    <3>1. p - 1 \in 1 .. D(u) /\ (u # t \/ p - 1 <= n - 1) /\ A(u, p - 1).at \in Below /\ A(u, p - 1).obj = A(u, p).obj
      BY <2>3, <3>0 DEF Nested
    <3>2. A(u, p - 1).op # "callback"
      BY <1>0, <3>1, FrameType, FieldsOf DEF FrameOK, Below
    <3> QED
      BY <2>2, <2>3, <3>1, <3>2
  <2>4. ASSUME A(u, p).op = "destroy", A(u, p).at = "remove" PROVE SDL_properties[A(u, p).id] # A(t, n).obj
    <3>1. A(u, p).id \in DOMAIN SDL_properties
      BY <2>4 DEF Links, FrameLinked
    <3> QED
      BY <1>2, <2>1, <3>1 DEF Table
  <2> QED
    BY <2>2, <2>3, <2>4
<1>4. CASE A(t, n).op = "nuke"
  <2>1. quitting /\ D(t) > 0
    BY <1>0, <1>4 DEF Quit
  <2>2. u = t
    <3>1. D(u) \in Nat /\ D(u) > 0
      BY <1>0, DepthType
    <3> QED
      BY <2>1, <3>1 DEF Quit
  <2>3. n <= 3 /\ (n = 1 => A(t, n).op = "quit") /\ (n = 3 => A(t, n).op = "callback")
    BY <1>0, <2>1 DEF Quit
  <2>4. n = 2
    BY <1>4, <2>3
  <2>5. p = 1 /\ A(u, p).op = "quit"
    <3>1. p <= n - 1 /\ D(t) = n /\ D(u) = n
      BY <2>2
    <3>2. p = 1
      BY <2>4, <3>1
    <3> QED
      BY <2>1, <3>2 DEF Quit
  <2>6. A(u, p).obj = 0
    BY <1>0, <2>5, FieldsOf DEF FrameOK
  <2> QED
    BY <1>1, <2>5, <2>6
<1> QED
  BY <1>1, <1>3, <1>4

(* Every group that is at hand was made.                                   *)
LEMMA ObjectMade ==
  ASSUME Typed, Table, Nested, Links, NEW u \in Threads, NEW p \in 1 .. D(u)
  PROVE  A(u, p).obj = 0 \/ A(u, p).obj \in DOMAIN idOf
<1>0. Stacked /\ A(u, p) \in Frames
  BY FrameType DEF Typed
<1>1. CASE A(u, p).op # "callback"
  BY <1>1, ObjectHasID
<1>2. CASE A(u, p).op = "callback"
  <2>0. D(u) \in Nat
    BY <1>0, DepthType
  <2>1. p - 1 \in 1 .. D(u) /\ A(u, p - 1).at \in Below /\ A(u, p - 1).obj = A(u, p).obj
    BY <1>2, <2>0 DEF Nested
  <2>2. A(u, p - 1).op # "callback"
    BY <1>0, <2>1, FrameType, FieldsOf DEF FrameOK, Below
  <2> QED
    BY <2>1, <2>2, ObjectHasID
<1> QED
  BY <1>1, <1>2

(* SDL_CreateProperties keeps what the calls rely on.                      *)
LEMMA GoodCreates ==
  ASSUME Typed, Table, Nested, Links, Locks, AllGood, NEW t \in Threads, SDL_CreateProperties(t),
         Stacked'
  PROVE  AllGood' /\ HeldLinked'
<1>0. Stacked /\ given \in Nat /\ UNCHANGED <<stack, held, props, given>>
  BY CreateDoes DEF Typed, SDL_CreateProperties, values
<1>1. /\ made' \notin DOMAIN idOf /\ made' \notin freed /\ made' # 0
      /\ \A i \in DOMAIN SDL_properties : SDL_properties[i] # made'
  BY CreateDoes
<1>2. stack[t] = <<>> /\ CanTake(SDL_properties_lock, t)
  BY DEF SDL_CreateProperties
<1>3. D(t) = 0
  BY <1>2 DEF D
<1>4. ASSUME NEW u \in Threads, NEW p \in 1 .. D(u) PROVE ~Frees(A(u, p))
  <2> SUFFICES ASSUME Frees(A(u, p)) PROVE FALSE
    OBVIOUS
  <2>1. Holding(A(u, p)) = 0 /\ 0 \in 0 .. MaxObjects
    BY PropertiesAssumption DEF Holding
  <2>2. SDL_properties_lock.owner = {u}
    BY <2>1, Holder DEF LockOf
  <2>3. u = t
    BY <1>2, <2>2 DEF CanTake
  <2> QED
    BY <1>3, <2>3
<1>5. CASE UNCHANGED <<SDL_properties, idOf>> /\ freed' = freed \cup {made'}
  <2>1. ASSUME NEW u \in Threads, NEW p \in 1 .. D(u) PROVE Good(A(u, p))'
    <3>1. A(u, p)' = A(u, p)
      BY <1>0 DEF A
    <3>2. Good(A(u, p))
      BY DEF AllGood
    <3>3. A(u, p).obj \notin freed'
      BY <1>1, <1>5, <3>2, ObjectMade DEF Good, FrameLinked
    <3>4. FrameLinked(A(u, p))'
      BY <1>5, <3>1, <3>2, <3>3 DEF Good, FrameLinked, Linked
    <3>5. Pending(A(u, p))' /\ Enumerated(A(u, p))'
      BY <1>0, <3>1, <3>2 DEF Good, Pending, Enumerated
    <3>6. Present(A(u, p))'
      BY <1>1, <1>5, <3>1, <3>2 DEF Good, Present, FrameLinked
    <3> QED
      BY <3>4, <3>5, <3>6 DEF Good
  <2>2. AllGood'
    BY <1>0, <2>1 DEF AllGood, D
  <2> QED
    BY <1>0, <1>5, <2>2 DEF Links, HeldLinked
<1>6. CASE \E id \in IDs \ DOMAIN SDL_properties :
               /\ SDL_properties' = With(SDL_properties, id, made')
               /\ idOf' = With(idOf, made', id) /\ UNCHANGED freed
  <2>1. PICK id \in IDs \ DOMAIN SDL_properties :
               /\ SDL_properties' = With(SDL_properties, id, made')
               /\ idOf' = With(idOf, made', id) /\ UNCHANGED freed
    BY <1>6
  <2>2. /\ DOMAIN SDL_properties' = DOMAIN SDL_properties \cup {id}
        /\ \A i \in DOMAIN SDL_properties : SDL_properties'[i] = SDL_properties[i]
    BY <2>1 DEF With
  <2>3. DOMAIN idOf \subseteq DOMAIN idOf' /\ \A o \in DOMAIN idOf : idOf'[o] = idOf[o]
    BY <1>1, <2>1 DEF With
  <2>4. ASSUME NEW u \in Threads, NEW p \in 1 .. D(u) PROVE Good(A(u, p))'
    <3>1. A(u, p)' = A(u, p)
      BY <1>0 DEF A
    <3>2. Good(A(u, p)) /\ FrameLinked(A(u, p)) /\ ~Frees(A(u, p))
      BY <1>4 DEF AllGood, Good
    <3>4. FrameLinked(A(u, p))'
      BY <2>1, <2>2, <3>1, <3>2 DEF FrameLinked, Linked, Frees
    <3>5. Pending(A(u, p))' /\ Enumerated(A(u, p))'
      BY <1>0, <3>1, <3>2 DEF Good, Pending, Enumerated
    <3>6. Present(A(u, p))'
      BY <2>1, <2>2, <3>1, <3>2 DEF Good, Present, FrameLinked
    <3> QED
      BY <3>4, <3>5, <3>6 DEF Good
  <2>5. AllGood'
    BY <1>0, <2>4 DEF AllGood, D
  <2> QED
    BY <1>0, <2>2, <2>3, <2>5 DEF Links, HeldLinked
<1> QED
  BY <1>5, <1>6, CreateDoes

(* Every action keeps HeldLinked.                                          *)
LEMMA HeldLinkedStep ==
  ASSUME Typed, Table, Nested, Links, Locks, AllGood, Destroying, Quit, Stacked',
         NEW t \in Threads, NextOf(t),
         NEW n \in Nat, n = D(t)
  PROVE  HeldLinked'
<1>0. Stacked /\ HeldLinked
  BY DEF Typed, Links
<1>1. CASE SDL_CreateProperties(t)
  BY <1>1, GoodCreates
<1>2. CASE RemoveGroup(t)
  <2>1. n >= 1 /\ A(t, n).at = "remove" /\ A(t, n) \in Frames /\ n \in 1 .. D(t)
    BY <1>0, <1>2, InIs DEF RemoveGroup
  <2>2. A(t, n).op = "destroy"
    BY <2>1, FieldsOf DEF FrameOK, Records, Using
  <2>3. A(t, n).id \in DOMAIN SDL_properties
    BY <2>1, <2>2 DEF Links, FrameLinked
  <2>4. /\ DOMAIN SDL_properties' = DOMAIN SDL_properties \ {A(t, n).id}
        /\ \A i \in DOMAIN SDL_properties' : SDL_properties'[i] = SDL_properties[i]
    <3>1. SDL_properties' = TableWithout(A(t, n).id)
      BY <1>2, <2>3, RemoveGroupDoes
    <3> QED
      BY <3>1, WithoutIs
  <2>5. \A u \in Threads : held[u] # 0 => idOf[held[u]] # A(t, n).id
    BY <2>1, <2>2 DEF Destroying
  <2>6. UNCHANGED <<held, idOf>>
    BY <1>2 DEF RemoveGroup
  <2> QED
    BY <1>0, <2>4, <2>5, <2>6 DEF HeldLinked
<1>3. CASE DestroyHashTable(t)
  <2>1. n >= 1 /\ A(t, n).op = "quit" /\ UNCHANGED held
    BY <1>3, SweepDoes DEF DestroyHashTable
  <2>2. \A u \in Threads : held[u] = 0
    BY <1>0, <2>1, QuitAlone DEF Quit
  <2> QED
    BY <2>1, <2>2 DEF HeldLinked
<1>4. CASE Acquire(t)
  <2>0. UNCHANGED <<SDL_properties, idOf>>
    BY <1>4 DEF Acquire
  <2>1. n >= 1 /\ A(t, n).at = "lock" /\ n \in 1 .. D(t) /\ A(t, n) \in Frames
    BY <1>0, <1>4, AcquireDoes, LastIs
  <2>2. CASE held' = [held EXCEPT ![t] = A(t, n).obj]
    <3>1. A(t, n).op \in Using
      BY <2>1, FieldsOf DEF FrameOK, Records, Using
    <3>2. Linked(A(t, n))
      BY <2>1, <3>1 DEF Links, FrameLinked
    <3>3. \A u \in Threads : held'[u] = IF u = t THEN A(t, n).obj ELSE held[u]
      BY <2>2 DEF Typed
    <3> QED
      BY <1>0, <2>0, <3>2, <3>3 DEF HeldLinked, Linked, Table
  <2> QED
    BY <1>0, <1>4, <2>0, <2>2, AcquireDoes DEF HeldLinked
<1>5. CASE SDL_UnlockProperties(t)
  <2>1. \A u \in Threads : held'[u] = IF u = t THEN 0 ELSE held[u]
    BY <1>5 DEF SDL_UnlockProperties, Typed
  <2> QED
    BY <1>0, <1>5, <2>1 DEF HeldLinked, SDL_UnlockProperties, table
<1>6. CASE \/ CallbackReturns(t) \/ Find(t) \/ RemoveOld(t) \/ InsertNew(t) \/ Iterate(t) \/ EndEnumerate(t)
           \/ Nuke(t) \/ FreeProperties(t) \/ SDL_QuitProperties(t)
  BY <1>0, <1>6 DEF HeldLinked, CallbackReturns, Find, RemoveOld, InsertNew, Iterate, EndEnumerate,
     Nuke, FreeProperties, SDL_QuitProperties, table
<1>7. CASE \/ \E id \in IDs :
                CallSet(t, id) \/ (\E op \in {"lock", "get", "enumerate"} : CallReader(t, op, id))
                \/ CallDestroy(t, id)
           \/ CallUnlock(t)
  BY <1>0, <1>7 DEF HeldLinked, CallSet, CallReader, CallDestroy, CallUnlock, table
<1> QED
  BY <1>1, <1>2, <1>3, <1>4, <1>5, <1>6, <1>7 DEF NextOf, Step

(* A call begins good.                                                     *)
LEMMA NewGood ==
  ASSUME Typed, UNCHANGED <<SDL_properties, freed>>, given \in Nat, given' \in Nat, given' >= given,
         NEW op, NEW at \in {"find", "remove"}, NEW id, NEW v, op = "set" => v <= given',
         op \in Using => at = "find", op \in Using \cup {"destroy", "quit"},
         op = "destroy" => at = "remove" /\ id \in DOMAIN SDL_properties /\ SDL_properties[id] \notin freed
  PROVE  Good(NewFrame(op, at, id, v))'
<1>1. 0 \notin freed
  BY DEF Typed
<1> QED
  BY <1>1 DEF Good, FrameLinked, Pending, Enumerated, Present, NewFrame, Linked, Using

(* Every action keeps AllGood.                                             *)
LEMMA GoodAllStep ==
  ASSUME NoQuitCalls, Typed, Table, Nested, Outer, Links, Locks, AllGood, Destroying, Quit, Typed',
         NEW t \in Threads, NextOf(t), NEW n \in Nat, n = D(t)
  PROVE  AllGood'
<1>0. Stacked /\ Stacked' /\ given \in Nat /\ given' \in Nat
  BY DEF Typed
<1>a. UNCHANGED idOf => Grows
  BY SameIdOf
<1>b. ASSUME UNCHANGED <<SDL_properties, freed, idOf>>, given' >= given, NEW k \in {n - 1, n},
  Around(t, k), D(t)' >= k,
             \A u \in Threads : \A p \in 1 .. D(u) :
               (u # t \/ p <= k) /\ A(u, p).at = "enumerated" => props'[A(u, p).obj] = props[A(u, p).obj],
             \A q \in k + 1 .. D(t)' : Good(A(t, q))'
      PROVE  AllGood'
  <2>1. ASSUME NEW u \in Threads, NEW p \in 1 .. D(u), u # t \/ p <= k, NEW f \in Frames,
    f = A(u, p) PROVE Good(f)'
    BY <1>0, <1>a, <1>b, <2>1, GoodStays DEF AllGood
  <2> QED
    BY <1>0, <1>b, <2>1, GoodStep
<1>c. ASSUME UNCHANGED <<SDL_properties, freed, idOf, props>>, given' >= given,
             NEW f \in Frames, Pushes(t, n, f), Good(f)'
      PROVE  AllGood'
  <2>1. \A q \in n + 1 .. D(t)' : A(t, q)' = f
    BY <1>c DEF Pushes
  <2>2. \A q \in n + 1 .. D(t)' : Good(A(t, q))'
    BY <1>c, <2>1 DEF Good, FrameLinked, Linked, Pending, Enumerated, Present
  <2> QED
    BY <1>b, <1>c, <2>2 DEF Pushes
<1>d. ASSUME UNCHANGED <<SDL_properties, freed, idOf, given>>, Pops(t, n),
             \A u \in Threads : \A p \in 1 .. D(u) :
               (u # t \/ p <= n - 1) /\ A(u, p).at = "enumerated" => props'[A(u, p).obj] = props[A(u, p).obj]
      PROVE  AllGood'
  <2>1. D(t)' = n - 1 /\ \A q \in n - 1 + 1 .. D(t)' : FALSE
    BY <1>d DEF Pops
  <2>2. Around(t, n - 1)
    BY <1>d DEF Pops
  <2> QED
    BY <1>0, <1>b, <1>d, <2>1, <2>2
<1>e. ASSUME UNCHANGED <<SDL_properties, freed, idOf, given>>, NEW f \in Frames, Turns(t, n, f),
  Good(f)',
             \A u \in Threads : \A p \in 1 .. D(u) :
               (u # t \/ p <= n - 1) /\ A(u, p).at = "enumerated" => props'[A(u, p).obj] = props[A(u, p).obj]
      PROVE  AllGood'
  <2>1. \A q \in n - 1 + 1 .. D(t)' : A(t, q)' = f
    BY <1>e DEF Turns
  <2>2. \A q \in n - 1 + 1 .. D(t)' : Good(A(t, q))'
    BY <1>e, <2>1 DEF Good, FrameLinked, Linked, Pending, Enumerated, Present
  <2>3. Around(t, n - 1) /\ D(t)' >= n - 1
    BY <1>e DEF Turns
  <2> QED
    BY <1>0, <1>b, <1>e, <2>2, <2>3
<1>f. ASSUME UNCHANGED <<SDL_properties, freed, idOf, given>>, NEW f \in Frames, NEW g \in Frames,
  Calls(t, n, f, g),
             Good(f)', g.op = "callback", g.at = "callback", g.obj = f.obj,
             \A u \in Threads : \A p \in 1 .. D(u) :
               (u # t \/ p <= n - 1) /\ A(u, p).at = "enumerated" => props'[A(u, p).obj] = props[A(u, p).obj]
      PROVE  AllGood'
  <2>1. \A q \in n - 1 + 1 .. D(t)' : (q = n /\ A(t, q)' = f) \/ (q = n + 1 /\ A(t, q)' = g)
    BY <1>f DEF Calls
  <2>2. ASSUME NEW q \in n - 1 + 1 .. D(t)' PROVE Good(A(t, q))'
    <3>1. CASE A(t, q)' = f
      BY <1>f, <3>1 DEF Good, FrameLinked, Linked, Pending, Enumerated, Present
    <3>2. CASE A(t, q)' = g
      <4>1. f.obj \notin freed'
        BY <1>f DEF Good, FrameLinked
      <4> QED
        BY <1>f, <3>2, <4>1 DEF Good, FrameLinked, Linked, Pending, Enumerated, Present, Using
    <3> QED
      BY <2>1, <3>1, <3>2
  <2>3. Around(t, n - 1) /\ D(t)' >= n - 1
    BY <1>f DEF Calls
  <2> QED
    BY <1>0, <1>b, <1>f, <2>2, <2>3
<1>g. ASSUME n >= 1 PROVE n \in 1 .. D(t) /\ A(t, n) \in Frames /\ Good(A(t, n)) /\ FrameOK(A(t, n)) /\ A(t, n) \in Records
  BY <1>0, <1>g, LastIs, FieldsOf DEF AllGood
<1>1. CASE SDL_CreateProperties(t)
  BY <1>0, <1>1, GoodCreates
<1>2. CASE RemoveGroup(t)
  <2>1. n >= 1 /\ A(t, n).at = "remove"
    BY <1>0, <1>2, InIs DEF RemoveGroup
  <2>2. A(t, n).op = "destroy" /\ n \in 1 .. D(t)
    BY <1>g, <2>1 DEF FrameOK, Records, Using
  <2>3. A(t, n).id \in DOMAIN SDL_properties /\ SDL_properties[A(t, n).id] \notin freed
    BY <1>g, <2>1, <2>2 DEF Good, FrameLinked, Present
  <2>4. SDL_properties' = TableWithout(A(t, n).id)
    BY <1>2, <2>3, RemoveGroupDoes
  <2>5. /\ DOMAIN SDL_properties' = DOMAIN SDL_properties \ {A(t, n).id}
        /\ \A i \in DOMAIN SDL_properties' : SDL_properties'[i] = SDL_properties[i]
    BY <2>4, WithoutIs
  <2>6. UNCHANGED <<idOf, freed, given, props>>
    BY <1>2 DEF RemoveGroup, values
  <2>7. PICK f \in Frames : /\ f.op = "destroy" /\ f.at = "nuke" /\ f.id = A(t, n).id
                           /\ f.obj = SDL_properties[A(t, n).id] /\ Turns(t, n, f)
    BY <1>2, <2>3, RemoveGroupDoes
  <2>8. ASSUME NEW u \in Threads, NEW p \in 1 .. D(u), u # t \/ p <= n - 1, NEW f1 \in Frames,
    f1 = A(u, p)
        PROVE  Good(f1)'
    <3>1. f1.id # A(t, n).id
      BY <2>2, <2>8 DEF Destroying
    <3>2. Good(f1)
      BY <2>8 DEF AllGood
    <3>3. FrameLinked(f1)'
      BY <2>5, <2>6, <3>1, <3>2 DEF Good, FrameLinked, Linked
    <3>4. Pending(f1)' /\ Enumerated(f1)'
      BY <2>6, <3>2 DEF Good, Pending, Enumerated
    <3>5. Present(f1)'
      BY <2>5, <2>6, <3>1, <3>2 DEF Good, Present, FrameLinked
    <3> QED
      BY <3>3, <3>4, <3>5 DEF Good
  <2>9. Good(f)'
    <3>1. f.obj \in DOMAIN idOf /\ idOf[f.obj] = f.id
      BY <2>3, <2>7 DEF Table
    <3> QED
      BY <2>3, <2>5, <2>6, <2>7, <3>1 DEF Good, FrameLinked, Linked, Pending, Enumerated, Present,
         Using
  <2>10. \A q \in n - 1 + 1 .. D(t)' : A(t, q)' = f
    BY <2>7 DEF Turns
  <2>11. \A q \in n - 1 + 1 .. D(t)' : Good(A(t, q))'
    BY <2>9, <2>10 DEF Good, FrameLinked, Linked, Pending, Enumerated, Present
  <2>12. Around(t, n - 1) /\ D(t)' >= n - 1 /\ n - 1 \in {n - 1, n}
    BY <2>7 DEF Turns
  <2> QED
    BY <1>0, <2>8, <2>11, <2>12, GoodStep
<1>3. CASE FreeProperties(t)
  <2>1. A(t, n).at = "free" /\ freed' = freed \cup {A(t, n).obj} /\ Pops(t, n) /\ A(t, n).obj \in Objects
        /\ props' = [props EXCEPT ![A(t, n).obj] = 0]
    BY <1>3, FreeDoes
  <2>2. n >= 1 /\ D(t)' = n - 1 /\ Around(t, n - 1)
    BY <2>1 DEF Pops
  <2>3. UNCHANGED <<SDL_properties, idOf, given>>
    BY <1>3 DEF FreeProperties, values
  <2>4. ASSUME NEW u \in Threads, NEW p \in 1 .. D(u), u # t \/ p <= n - 1, NEW f \in Frames,
    f = A(u, p)
        PROVE  Good(f)'
    <3>1. f.obj # A(t, n).obj /\ (f.op = "destroy" /\ f.at = "remove" => SDL_properties[f.id] # A(t, n).obj)
      BY <2>1, <2>2, <2>4, OthersElsewhere
    <3>2. Good(f)
      BY <2>4 DEF AllGood
    <3>3. f.at = "enumerated" => props'[f.obj] = props[f.obj]
      <4>1. f.at = "enumerated" => f.obj \in Objects
        BY FieldsOf DEF FrameOK
      <4> QED
        BY <2>1, <3>1, <4>1 DEF Typed
    <3>4. FrameLinked(f)' /\ Pending(f)' /\ Enumerated(f)' /\ Present(f)'
      BY <2>1, <2>3, <3>1, <3>2, <3>3 DEF Good, FrameLinked, Linked, Pending, Enumerated, Present
    <3> QED
      BY <3>4 DEF Good
  <2>5. \A q \in n - 1 + 1 .. D(t)' : FALSE
    BY <2>2
  <2>6. D(t)' >= n - 1 /\ n - 1 \in {n - 1, n}
    BY <2>2
  <2> QED
    BY <1>0, <2>2, <2>4, <2>5, <2>6, GoodStep
<1>4. CASE DestroyHashTable(t)
  <2>1. UNCHANGED <<idOf, freed, given, props>> /\ n >= 1 /\ A(t, n).op = "quit"
    BY <1>4, SweepDoes DEF DestroyHashTable, values
  <2>2. n = 1 /\ \A u \in Threads : u # t => D(u) = 0
    BY <1>0, <2>1, QuitAlone
  <2>3. CASE Pops(t, n)
    <3>1. D(t)' = 0 /\ \A u \in Threads : u # t => D(u)' = 0
      BY <2>2, <2>3 DEF Pops, Around
    <3>2. \A u \in Threads : D(u)' = 0
      BY <3>1
    <3> QED
      BY <3>2 DEF AllGood
  <2>4. CASE /\ UNCHANGED SDL_properties
             /\ \E id \in DOMAIN SDL_properties, f \in Frames :
                    /\ SDL_properties[id] \notin freed
                    /\ f.op = "nuke" /\ f.at = "nuke" /\ f.id = id /\ f.obj = SDL_properties[id]
                    /\ Pushes(t, n, f)
    <3>1. PICK id \in DOMAIN SDL_properties, f \in Frames :
                    /\ SDL_properties[id] \notin freed
                    /\ f.op = "nuke" /\ f.at = "nuke" /\ f.id = id /\ f.obj = SDL_properties[id]
                    /\ Pushes(t, n, f)
      BY <2>4
    <3>2. Good(f)'
      BY <2>1, <2>4, <3>1 DEF Good, FrameLinked, Linked, Pending, Enumerated, Present, Using
    <3> QED
      BY <1>0, <1>c, <2>1, <2>4, <3>1, <3>2
  <2> QED
    BY <1>4, <2>3, <2>4, SweepDoes
<1>5. CASE SDL_QuitProperties(t)
  <2>1. UNCHANGED <<SDL_properties, freed, given, idOf, props>>
    BY <1>5 DEF SDL_QuitProperties, table, values
  <2>2. /\ ~quitting /\ \A u \in Threads : u # t => D(u)' = 0
        /\ D(t)' = 2 /\ A(t, 1)' = QuitFrame /\ A(t, 2)' = NewFrame("destroy", "remove", 1, 0)
    BY <1>5, QuitDoes
  <2>3. 1 \in DOMAIN SDL_properties /\ SDL_properties[1] \notin freed
    BY <2>2 DEF Table
  <2>4. Good(NewFrame("destroy", "remove", 1, 0))'
    BY <1>0, <2>1, <2>3, NewGood DEF Using
  <2>5. 0 \notin freed
    BY DEF Typed
  <2>6. Good(A(t, 1))'
    BY <2>1, <2>2, <2>5 DEF QuitFrame, NewFrame, Good, FrameLinked, Linked, Pending, Enumerated,
       Present, Using
  <2>7. Good(A(t, 2))'
    BY <2>2, <2>4 DEF NewFrame, Good, FrameLinked, Linked, Pending, Enumerated, Present, Using
  <2> SUFFICES ASSUME NEW u \in Threads, NEW p \in 1 .. D(u)' PROVE Good(A(u, p))'
    BY DEF AllGood
  <2>8. u = t
    BY <2>2
  <2>9. p = 1 \/ p = 2
    BY <2>2, <2>8
  <2> QED
    BY <2>6, <2>7, <2>8, <2>9
<1>6. CASE CallbackReturns(t)
  <2>1. UNCHANGED <<SDL_properties, freed, given, idOf, props>>
    BY <1>6 DEF CallbackReturns, table, values
  <2> QED
    BY <1>6, <1>d, <2>1, CallbackReturnsDoes
<1>7. CASE Find(t)
  <2>1. UNCHANGED <<SDL_properties, freed, given, idOf, props, quitting, accepted>>
    BY <1>7 DEF Find, values
  <2>2. n >= 1 /\ A(t, n).at = "find"
    BY <1>7, FindDoes
  <2>3. CASE Pops(t, n)
    BY <1>d, <2>1, <2>3
  <2>4. CASE A(t, n).id \in DOMAIN SDL_properties
    <3>1. PICK f \in Frames :
              /\ f.op = A(t, n).op /\ f.id = A(t, n).id /\ f.obj = SDL_properties[A(t, n).id]
              /\ f.v = A(t, n).v /\ f.at = IF f.op = "unlock" THEN "unlock" ELSE "lock"
              /\ Turns(t, n, f)
      BY <1>7, <2>4, FindDoes
    <3>2. A(t, n).op \in Using
      BY <1>g, <2>2 DEF FrameOK, Records, Using
    <3>3. ~quitting
      <4>1. n \in 1 .. D(t) /\ n \in Nat
        BY <1>g, <2>2
      <4>2. quitting => n \in 1 .. 3 /\ A(t, n).op \in {"quit", "destroy", "nuke", "callback"}
        BY <4>1 DEF Quit
      <4> QED
        BY <3>2, <4>2 DEF Using
    <3>4. f.obj \notin freed
      BY <2>4, <3>1, <3>3 DEF Table
    <3>5. Good(f)'
      BY <1>g, <2>1, <2>2, <2>4, <3>1, <3>2, <3>4 DEF Good, FrameLinked, Linked, Pending,
         Enumerated, Present, Using
    <3> QED
      BY <1>e, <2>1, <3>1, <3>5
  <2> QED
    BY <1>7, <2>3, <2>4, FindDoes
<1>8. CASE Acquire(t)
  <2>1. UNCHANGED <<SDL_properties, freed, given, idOf, props>>
    BY <1>8 DEF Acquire, values
  <2>2. n >= 1 /\ A(t, n).at = "lock"
    BY <1>8, AcquireDoes
  <2>3. CASE Pops(t, n)
    BY <1>d, <2>1, <2>3
  <2>4. CASE /\ A(t, n).op \in {"set", "enumerate"}
             /\ Turns(t, n, [A(t, n) EXCEPT !.at = IF A(t, n).op = "set" THEN "change" ELSE "iterate"])
    <3>1. PICK f : f = [A(t, n) EXCEPT !.at = IF A(t, n).op = "set" THEN "change" ELSE "iterate"]
      OBVIOUS
    <3>2. f \in Frames /\ f.op = A(t, n).op /\ f.at \in {"change", "iterate"} /\ f.id = A(t, n).id
          /\ f.obj = A(t, n).obj /\ f.v = A(t, n).v
      BY <1>g, <2>2, <2>4, <3>1, MovedType
    <3>3. Good(f)'
      BY <1>g, <2>1, <2>2, <2>4, <3>2 DEF Good, FrameLinked, Linked, Pending, Enumerated, Present,
         Using
    <3> QED
      BY <1>e, <2>1, <2>4, <3>1, <3>2, <3>3
  <2> QED
    BY <1>8, <2>3, <2>4, AcquireDoes
<1>9. CASE SDL_UnlockProperties(t)
  <2>1. UNCHANGED <<SDL_properties, freed, given, idOf, props>>
    BY <1>9 DEF SDL_UnlockProperties, table, values
  <2> QED
    BY <1>9, <1>d, <2>1, UnlockDoes
<1>10. CASE RemoveOld(t)
  <2>1. UNCHANGED <<SDL_properties, freed, given, idOf>>
    BY <1>10 DEF RemoveOld, table
  <2>2. n >= 1 /\ A(t, n).at = "change" /\ A(t, n).op = "set" /\ A(t, n).obj \in Objects
    BY <1>10, RemoveOldDoes
  <2>3. UNCHANGED props \/ props' = [props EXCEPT ![A(t, n).obj] = 0]
    BY <1>10, RemoveOldDoes
  <2>4. ASSUME NEW u \in Threads, NEW p \in 1 .. D(u), u # t \/ p <= n - 1,
    A(u, p).at = "enumerated"
        PROVE  props'[A(u, p).obj] = props[A(u, p).obj]
    <3>1. A(u, p).obj # A(t, n).obj
      BY <2>2, <2>4, NotEnumerating
    <3>2. A(u, p).obj \in Objects
      BY <1>0, <2>4, FrameType, FieldsOf DEF FrameOK
    <3> QED
      BY <2>3, <3>1, <3>2 DEF Typed
  <2>5. PICK f : f = [A(t, n) EXCEPT !.at = "insert"]
    OBVIOUS
  <2>6. f \in Frames /\ f.op = "set" /\ f.at = "insert" /\ f.id = A(t, n).id
          /\ f.obj = A(t, n).obj /\ f.v = A(t, n).v
    BY <1>g, <2>2, <2>5, MovedType
  <2>7. Good(f)'
    BY <1>g, <2>1, <2>2, <2>6 DEF Good, FrameLinked, Linked, Pending, Enumerated, Present, Using
  <2>8. PICK g : g = CallbackFrame(A(t, n).obj, CleanupMay)
    OBVIOUS
  <2>9. g \in Frames /\ g.op = "callback" /\ g.at = "callback" /\ g.obj = f.obj
    BY <2>2, <2>6, <2>8, CallbackType, CleanupMayType DEF CallbackFrame
  <2>10. Turns(t, n, f) \/ Calls(t, n, f, g)
    BY <1>10, <2>5, <2>8, RemoveOldDoes
  <2>11. CASE Turns(t, n, f)
    BY <1>e, <2>1, <2>4, <2>6, <2>7, <2>11
  <2>12. CASE Calls(t, n, f, g)
    BY <1>f, <2>1, <2>4, <2>6, <2>7, <2>9, <2>12
  <2> QED
    BY <2>10, <2>11, <2>12
<1>11. CASE InsertNew(t)
  <2>1. UNCHANGED <<SDL_properties, freed, given, idOf>>
    BY <1>11 DEF InsertNew, table
  <2>2. A(t, n).at = "insert" /\ A(t, n).op = "set" /\ A(t, n).obj \in Objects /\ Pops(t, n) /\ n >= 1
    BY <1>11, InsertNewDoes DEF Pops
  <2>3. UNCHANGED props \/ props' = [props EXCEPT ![A(t, n).obj] = A(t, n).v]
    BY <1>11, InsertNewDoes
  <2>4. ASSUME NEW u \in Threads, NEW p \in 1 .. D(u), u # t \/ p <= n - 1,
    A(u, p).at = "enumerated"
        PROVE  props'[A(u, p).obj] = props[A(u, p).obj]
    <3>1. A(u, p).obj # A(t, n).obj
      BY <2>2, <2>4, NotEnumerating
    <3>2. A(u, p).obj \in Objects
      BY <1>0, <2>4, FrameType, FieldsOf DEF FrameOK
    <3> QED
      BY <2>3, <3>1, <3>2 DEF Typed
  <2> QED
    BY <1>d, <2>1, <2>2, <2>4
<1>12. CASE Iterate(t)
  <2>1. UNCHANGED <<SDL_properties, freed, given, idOf, props>>
    BY <1>12 DEF Iterate, table, values
  <2>2. n >= 1 /\ A(t, n).at = "iterate" /\ A(t, n).op = "enumerate" /\ A(t, n).obj \in Objects
    BY <1>12, IterateDoes
  <2>3. CASE props[A(t, n).obj] = 0 /\ Turns(t, n, [A(t, n) EXCEPT !.at = "enumerated"])
    <3>1. PICK f : f = [A(t, n) EXCEPT !.at = "enumerated"]
      OBVIOUS
    <3>2. f \in Frames /\ f.op = A(t, n).op /\ f.at = "enumerated" /\ f.id = A(t, n).id
          /\ f.obj = A(t, n).obj /\ f.v = A(t, n).v
      BY <1>g, <2>2, <3>1, MovedType
    <3>3. A(t, n).v = 0
      BY <1>g, <2>2 DEF FrameOK
    <3>4. Good(f)'
      BY <1>g, <2>1, <2>2, <2>3, <3>2, <3>3 DEF Good, FrameLinked, Linked, Pending, Enumerated,
         Present, Using
    <3> QED
      BY <1>e, <2>1, <2>3, <3>1, <3>2, <3>4
  <2>4. CASE \E f \in Frames :
                    /\ f.op = "enumerate" /\ f.at = "enumerated" /\ f.id = A(t, n).id
                    /\ f.obj = A(t, n).obj /\ f.v = props[A(t, n).obj]
                    /\ Calls(t, n, f, CallbackFrame(A(t, n).obj, {"get"}))
    <3>1. PICK f \in Frames :
                    /\ f.op = "enumerate" /\ f.at = "enumerated" /\ f.id = A(t, n).id
                    /\ f.obj = A(t, n).obj /\ f.v = props[A(t, n).obj]
                    /\ Calls(t, n, f, CallbackFrame(A(t, n).obj, {"get"}))
      BY <2>4
    <3>2. PICK g : g = CallbackFrame(A(t, n).obj, {"get"})
      OBVIOUS
    <3>3. g \in Frames /\ g.op = "callback" /\ g.at = "callback" /\ g.obj = f.obj
      BY <2>2, <3>1, <3>2, CallbackType DEF CallbackFrame
    <3>4. Good(f)'
      BY <1>g, <2>1, <2>2, <3>1 DEF Good, FrameLinked, Linked, Pending, Enumerated, Present, Using
    <3> QED
      BY <1>f, <2>1, <3>1, <3>2, <3>3, <3>4
  <2> QED
    BY <1>12, <2>3, <2>4, IterateDoes
<1>13. CASE EndEnumerate(t)
  <2>1. UNCHANGED <<SDL_properties, freed, given, idOf, props>>
    BY <1>13 DEF EndEnumerate, table, values
  <2> QED
    BY <1>13, <1>d, <2>1, EndEnumerateDoes
<1>14. CASE Nuke(t)
  <2>1. UNCHANGED <<SDL_properties, freed, given, idOf, props>>
    BY <1>14 DEF Nuke, table
  <2>2. n >= 1 /\ A(t, n).at = "nuke" /\ A(t, n).op \in {"destroy", "nuke"} /\ A(t, n).obj \in Objects
    BY <1>14, NukeDoes
  <2>5. PICK f : f = [A(t, n) EXCEPT !.at = "free"]
    OBVIOUS
  <2>6. f \in Frames /\ f.op = A(t, n).op /\ f.at = "free" /\ f.id = A(t, n).id
          /\ f.obj = A(t, n).obj /\ f.v = A(t, n).v
    BY <1>g, <2>2, <2>5, MovedType
  <2>7. Good(f)'
    BY <1>g, <2>1, <2>2, <2>6 DEF Good, FrameLinked, Linked, Pending, Enumerated, Present, Using
  <2>8. PICK g : g = CallbackFrame(A(t, n).obj, CleanupMay)
    OBVIOUS
  <2>9. g \in Frames /\ g.op = "callback" /\ g.at = "callback" /\ g.obj = f.obj
    BY <2>2, <2>6, <2>8, CallbackType, CleanupMayType DEF CallbackFrame
  <2>10. Turns(t, n, f) \/ Calls(t, n, f, g)
    BY <1>14, <2>5, <2>8, NukeDoes
  <2>11. CASE Turns(t, n, f)
    BY <1>e, <2>1, <2>6, <2>7, <2>11
  <2>12. CASE Calls(t, n, f, g)
    BY <1>f, <2>1, <2>6, <2>7, <2>9, <2>12
  <2> QED
    BY <2>10, <2>11, <2>12
<1>15. ASSUME NEW id \in IDs, CallSet(t, id) PROVE AllGood'
  <2>1. UNCHANGED <<SDL_properties, freed, idOf, props>>
    BY <1>15 DEF CallSet, table
  <2>2. PICK v \in 0 .. MaxValues : Pushes(t, n, NewFrame("set", "find", id, v)) /\ v <= given' /\ given' >= given
    <3>1. given < MaxValues => given + 1 \in 0 .. MaxValues /\ given + 1 <= given + 1 /\ given + 1 >= given
      BY PropertiesAssumption DEF Typed
    <3>2. 0 \in 0 .. MaxValues /\ 0 <= given /\ given >= given
      BY PropertiesAssumption DEF Typed
    <3> QED
      BY <1>15, <3>1, <3>2, CallSetDoes
  <2>3. NewFrame("set", "find", id, v) \in Frames
    BY NewFrameType
  <2>4. Good(NewFrame("set", "find", id, v))'
    BY <1>0, <2>1, <2>2, NewGood DEF Using
  <2> QED
    BY <1>c, <2>1, <2>2, <2>3, <2>4
<1>16. ASSUME NEW id \in IDs, NEW op \in {"lock", "get", "enumerate"},
  CallReader(t, op, id) PROVE AllGood'
  <2>1. UNCHANGED <<SDL_properties, freed, idOf, props, given>>
    BY <1>16 DEF CallReader, table, values
  <2>2. Pushes(t, n, NewFrame(op, "find", id, 0)) /\ given' >= given
    BY <1>0, <1>16, <2>1, CallReaderDoes
  <2>3. NewFrame(op, "find", id, 0) \in Frames
    BY NewFrameType, PropertiesAssumption
  <2>4. Good(NewFrame(op, "find", id, 0))'
    BY <1>0, <2>1, <2>2, NewGood DEF Using
  <2> QED
    BY <1>c, <2>1, <2>2, <2>3, <2>4
<1>17. ASSUME NEW id \in IDs, CallDestroy(t, id) PROVE AllGood'
  <2>1. UNCHANGED <<SDL_properties, freed, idOf, props, given, quitting>>
    BY <1>17 DEF CallDestroy, table, values
  <2>2. Pushes(t, n, NewFrame("destroy", "remove", id, 0)) /\ given' >= given /\ MayDestroy(id) /\ Caller(t, n, "destroy")
    BY <1>0, <1>17, <2>1, CallDestroyDoes
  <2>3. NewFrame("destroy", "remove", id, 0) \in Frames
    BY NewFrameType, PropertiesAssumption
  <2>5. ~quitting
    <3>1. CASE n = 0
      BY <2>2, <3>1 DEF Caller
    <3>2. CASE n >= 1
      <4>1. A(t, n).at = "callback" /\ "destroy" \in A(t, n).calls
        BY <2>2, <3>2 DEF Caller
      <4>2. A(t, n).op = "callback"
        BY <1>g, <3>2, <4>1 DEF FrameOK, Records, Using
      <4>3. quitting => n \in 1 .. 3 /\ (A(t, n).op = "callback" => A(t, n).calls = {})
        BY <1>g, <3>2 DEF Quit
      <4> QED
        BY <4>1, <4>2, <4>3
    <3> QED
      BY <3>1, <3>2
  <2>6. id \in DOMAIN SDL_properties /\ SDL_properties[id] \notin freed
    BY <2>2, <2>5 DEF MayDestroy, Table
  <2>4. Good(NewFrame("destroy", "remove", id, 0))'
    BY <1>0, <2>1, <2>2, <2>6, NewGood DEF Using
  <2> QED
    BY <1>c, <2>1, <2>2, <2>3, <2>4
<1>18. CASE CallUnlock(t)
  <2>0. held[t] # 0 /\ held[t] \in DOMAIN idOf /\ idOf[held[t]] \in IDs
    BY <1>18 DEF CallUnlock, Links, HeldLinked, Table
  <2>1. UNCHANGED <<SDL_properties, freed, idOf, props, given>>
    BY <1>18 DEF CallUnlock, table, values
  <2>2. Pushes(t, n, NewFrame("unlock", "find", idOf[held[t]], 0)) /\ given' >= given
    BY <1>0, <1>18, <2>0, <2>1, CallUnlockDoes
  <2>5. PICK id : id = idOf[held[t]]
    OBVIOUS
  <2>3. NewFrame("unlock", "find", id, 0) \in Frames
    BY <2>0, <2>5, NewFrameType, PropertiesAssumption
  <2>4. Good(NewFrame("unlock", "find", id, 0))'
    BY <1>0, <2>1, <2>2, NewGood DEF Using
  <2> QED
    BY <1>c, <2>1, <2>2, <2>3, <2>4, <2>5
<1> QED
  BY <1>1, <1>2, <1>3, <1>4, <1>5, <1>6, <1>7, <1>8, <1>9, <1>10, <1>11, <1>12, <1>13, <1>14, <1>15,
     <1>16, <1>17, <1>18 DEF NextOf, Step

-----------------------------------------------------------------------------
(* The action of LockProtects.                                             *)
LockProtected == \A t \in Threads : held[t] # 0 /\ stack'[t] = stack[t] => props'[held[t]] = props[held[t]]

(* No step of another thread changes a group that is held: it would hold   *)
(* the group's lock, or destroy the group.                                 *)
LEMMA LockProtectsStep ==
  ASSUME Typed, Table, Nested, Links, Locks, Quit, Stacked', NEW t \in Threads, NextOf(t),
         NEW n \in Nat, n = D(t)
  PROVE  LockProtected
<1> SUFFICES ASSUME NEW u \in Threads, held[u] # 0, stack'[u] = stack[u], held[u] \in Objects,
                    props'[held[u]] # props[held[u]]
             PROVE  FALSE
  BY DEF LockProtected, Typed, Objects
<1>0. Stacked
  BY DEF Typed
<1>1. D(u)' = D(u) /\ \A q : A(u, q)' = A(u, q)
  BY DEF D, A
<1>2. held[u] \in 0 .. MaxObjects
  BY DEF Objects
<1>3. CASE RemoveOld(t)
  <2>1. n >= 1 /\ A(t, n).at = "change" /\ A(t, n).op = "set" /\ A(t, n).obj \in Objects
    BY <1>3, RemoveOldDoes
  <2>2. n \in 1 .. D(t) /\ A(t, n) \in Frames
    BY <1>0, <2>1, LastIs
  <2>11. UNCHANGED props \/ props' = [props EXCEPT ![A(t, n).obj] = 0]
    BY <1>3, RemoveOldDoes
  <2>3. A(t, n).obj = held[u]
    BY <2>1, <2>11 DEF Typed
  <2>4. Holding(A(t, n)) = held[u]
    BY <2>1, <2>2, <2>3, AtHolds
  <2>5. t = u
    BY <1>2, <2>2, <2>4, OneHolder
  <2>6. PICK f : f = [A(t, n) EXCEPT !.at = "insert"]
    OBVIOUS
  <2>7. f.at = "insert"
    BY <2>2, <2>6, <2>1, MovedType
  <2>8. PICK g : g = CallbackFrame(A(t, n).obj, CleanupMay)
    OBVIOUS
  <2>9. Turns(t, n, f) \/ Calls(t, n, f, g)
    BY <1>3, <2>6, <2>8, RemoveOldDoes
  <2>10. A(t, n)' = f
    BY <2>9 DEF Turns, Calls
  <2> QED
    BY <1>1, <2>1, <2>5, <2>7, <2>10
<1>4. CASE InsertNew(t)
  <2>1. A(t, n).at = "insert" /\ A(t, n).op = "set" /\ A(t, n).obj \in Objects /\ Pops(t, n) /\ n >= 1
    BY <1>4, InsertNewDoes DEF Pops
  <2>2. n \in 1 .. D(t) /\ A(t, n) \in Frames
    BY <1>0, <2>1, LastIs
  <2>3. A(t, n).obj = held[u]
    BY <1>4, <2>1, InsertNewDoes DEF Typed
  <2>4. Holding(A(t, n)) = held[u]
    BY <2>1, <2>2, <2>3, AtHolds
  <2>5. t = u
    BY <1>2, <2>2, <2>4, OneHolder
  <2> QED
    BY <1>1, <2>1, <2>5 DEF Pops
<1>5. CASE FreeProperties(t)
  <2>1. A(t, n).at = "free" /\ A(t, n).op \in {"destroy", "nuke"} /\ A(t, n).obj \in Objects /\ Pops(t, n) /\ n >= 1
        /\ props' = [props EXCEPT ![A(t, n).obj] = 0]
    BY <1>5, FreeDoes DEF Pops
  <2>2. n \in 1 .. D(t) /\ A(t, n) \in Frames
    BY <1>0, <2>1, LastIs
  <2>3. A(t, n).obj = held[u]
    BY <2>1 DEF Typed
  <2>4. A(t, n).op = "destroy"
    BY <2>1, <2>2 DEF Quit
  <2>5. idOf[A(t, n).obj] = A(t, n).id /\ A(t, n).id \notin DOMAIN SDL_properties
    BY <2>1, <2>2, <2>4 DEF Links, FrameLinked
  <2> QED
    BY <2>3, <2>5 DEF Links, HeldLinked
<1>6. CASE SDL_CreateProperties(t) \/ SDL_QuitProperties(t)
  BY <1>6 DEF SDL_CreateProperties, SDL_QuitProperties
<1>7. CASE \/ CallbackReturns(t) \/ Find(t) \/ Acquire(t) \/ SDL_UnlockProperties(t)
           \/ Iterate(t) \/ EndEnumerate(t) \/ Nuke(t) \/ RemoveGroup(t) \/ DestroyHashTable(t)
  BY <1>7 DEF CallbackReturns, Find, Acquire, SDL_UnlockProperties, Iterate, EndEnumerate, Nuke,
     RemoveGroup,
     DestroyHashTable
<1>8. CASE \/ \E id \in IDs :
                CallSet(t, id) \/ (\E op \in {"lock", "get", "enumerate"} : CallReader(t, op, id))
                \/ CallDestroy(t, id)
           \/ CallUnlock(t)
  BY <1>8 DEF CallSet, CallReader, CallDestroy, CallUnlock
<1> QED
  BY <1>3, <1>4, <1>5, <1>6, <1>7, <1>8 DEF NextOf, Step

(* who owns a lock has a call that holds it, or has locked the group *)
LEMMA HolderIs ==
  ASSUME Typed, Locks, NEW t \in Threads, NEW o \in 0 .. MaxObjects, t \in LockOf(o).owner
  PROVE  /\ LockOf(o).owner = {t}
         /\ (o # 0 /\ held[t] = o) \/ \E p \in 1 .. D(t) : Holding(A(t, p)) = o
<1>0. Stacked /\ D(t) \in Nat /\ LockOf(o) \in LockStates
  BY DepthType, LockOfType DEF Typed
<1>1. LockOf(o).owner = {t} /\ LockOf(o).depth > 0
  BY <1>0 DEF LockStates, Free
<1>2. Depth(LockOf(o), t) > 0 /\ Depth(LockOf(o), t) \in Nat
  BY <1>0, <1>1 DEF Depth, LockStates
<1>3. Depth(LockOf(o), t) = Count(t, o) + Extra(t, o) /\ Count(t, o) \in Nat
  BY <1>0, CountType DEF Locks
<1>4. CASE Extra(t, o) # 0
  BY <1>1, <1>4 DEF Extra
<1>5. CASE Extra(t, o) = 0
  <2>1. Count(t, o) # 0
    BY <1>2, <1>3, <1>5
  <2> DEFINE S == {p \in 1 .. D(t) : Holding(A(t, p)) = o}
  <2>2. S # {}
    BY <2>1, FS_EmptySet DEF Count
  <2> QED
    BY <1>1, <2>2
<1> QED
  BY <1>4, <1>5

(* What a thread waits for, by its last call.                              *)
LEMMA WaitsIs ==
  ASSUME Stacked, NEW t \in Threads, NEW n \in Nat, n = D(t), WaitsFor(t) # {}
  PROVE  /\ n \in 1 .. D(t) /\ A(t, n) \in Frames
         /\ \/ A(t, n).at \in {"find", "remove"} /\ WaitsFor(t) = SDL_properties_lock.owner \ {t}
            \/ A(t, n).at = "lock" /\ WaitsFor(t) = lock[A(t, n).obj].owner \ {t}
<1>1. In(t, "find") \/ In(t, "remove") \/ In(t, "lock")
  BY DEF WaitsFor
<1>2. stack[t] # <<>>
  BY <1>1 DEF In
<1>3. n >= 1 /\ Top(t) = A(t, n) /\ A(t, n) \in Frames
  BY <1>2, TopIs
<1>4. \A at : In(t, at) <=> A(t, n).at = at
  BY <1>2, <1>3 DEF In, Top
<1> QED
  BY <1>1, <1>3, <1>4 DEF WaitsFor

(* The invariant rules out a cycle.  Who has the table's lock waits for    *)
(* nobody: it takes no group's lock.  Of the others, one that waits for a  *)
(* group's lock has no lock of another group, so its holder waits for the  *)
(* table's at most.                                                        *)
LEMMA NoDeadlockHolds ==
  ASSUME Typed, Table, Nested, Links, Locks, WhileFreeing, SameGroup, HeldGroup
  PROVE  NoDeadlock
<1> SUFFICES ASSUME NEW S \in SUBSET Threads, S # {}, \A t \in S : WaitsFor(t) \cap S # {}
             PROVE  FALSE
  BY DEF NoDeadlock
<1>0. Stacked /\ \A t \in Threads : D(t) \in Nat
  BY DepthType DEF Typed
(* nobody waits for the table: its owner takes no other lock *)
<1>1. ASSUME NEW t \in S, NEW n \in Nat, n = D(t), A(t, n).at \in {"find", "remove"},
             WaitsFor(t) = SDL_properties_lock.owner \ {t}
      PROVE  FALSE
  <2>1. PICK u \in S : u \in SDL_properties_lock.owner
    BY <1>1
  <2>2. 0 \in 0 .. MaxObjects /\ LockOf(0) = SDL_properties_lock
    BY PropertiesAssumption DEF LockOf
  <2>3. SDL_properties_lock.owner = {u} /\ \E p \in 1 .. D(u) : Holding(A(u, p)) = 0
    BY <2>1, <2>2, HolderIs
  <2>4. PICK p \in 1 .. D(u) : Holding(A(u, p)) = 0
    BY <2>3
  <2>5. A(u, p) \in Frames /\ FrameOK(A(u, p)) /\ A(u, p) \in Records
    BY <1>0, FrameType, FieldsOf
  <2>6. Frees(A(u, p))
    <3>1. A(u, p).at \in {"change", "insert", "iterate", "enumerated"} => A(u, p).obj # 0
      BY <2>5, PropertiesAssumption DEF FrameOK, Objects
    <3> QED
      BY <2>4, <3>1 DEF Holding
  <2>7. A(u, p).at \in {"nuke", "free"}
    BY <2>5, <2>6 DEF FrameOK, Frees
  <2>8. PICK m \in Nat : m = D(u)
    BY <1>0
  <2>9. WaitsFor(u) # {}
    BY <2>1
  <2>10. m \in 1 .. D(u) /\ A(u, m).at \in {"find", "remove", "lock"}
    BY <1>0, <2>8, <2>9, WaitsIs
  <2>11. p < m
    BY <2>7, <2>8, <2>10
  <2>12. A(u, m).at # "lock"
    BY <2>6, <2>10, <2>11 DEF WhileFreeing
  <2>13. WaitsFor(u) = SDL_properties_lock.owner \ {u}
    BY <1>0, <2>8, <2>9, <2>10, <2>12, WaitsIs
  <2> QED
    BY <2>3, <2>9, <2>13
(* who waits for a group and owns another's lock uses two groups *)
<1>2. PICK t \in S : TRUE
  OBVIOUS
<1>3. PICK n \in Nat : n = D(t)
  BY <1>0
<1>4. n \in 1 .. D(t) /\ A(t, n) \in Frames /\ A(t, n).at = "lock" /\ WaitsFor(t) = lock[A(t, n).obj].owner \ {t}
  BY <1>0, <1>1, <1>2, <1>3, WaitsIs
<1>5. PICK o : o = A(t, n).obj
  OBVIOUS
<1>6. o \in Objects /\ o \in 0 .. MaxObjects /\ o # 0 /\ LockOf(o) = lock[o]
  <2>1. o \in Objects
    BY <1>4, <1>5, FieldsOf DEF FrameOK
  <2> QED
    BY <2>1, PropertiesAssumption DEF Objects, LockOf
<1>7. PICK u \in S : u \in lock[o].owner
  BY <1>4, <1>5
<1>8. /\ lock[o].owner = {u}
      /\ held[u] = o \/ \E p \in 1 .. D(u) : Holding(A(u, p)) = o
  BY <1>6, <1>7, HolderIs
<1>9. PICK m \in Nat : m = D(u)
  BY <1>0
<1>10. m \in 1 .. D(u) /\ A(u, m) \in Frames /\ A(u, m).at = "lock" /\ WaitsFor(u) = lock[A(u, m).obj].owner \ {u}
  BY <1>0, <1>1, <1>9, WaitsIs
<1>11. A(u, m).op \in Using /\ Linked(A(u, m))
  BY <1>10, FieldsOf DEF FrameOK, Records, Using, Links, FrameLinked
(* it is not in a destruction *)
<1>12. ASSUME NEW r \in 1 .. m PROVE A(u, r).op # "destroy"
  <2> SUFFICES ASSUME A(u, r).op = "destroy" PROVE FALSE
    OBVIOUS
  <2>1. r < m /\ r \in 1 .. D(u)
    BY <1>9, <1>11 DEF Using
  <2>2. Frees(A(u, r))
    BY <1>0, <1>9, <2>1, Gone DEF Frees
  <2> QED
    BY <1>10, <2>1, <2>2 DEF WhileFreeing
<1>13. A(u, m).obj = o
  <2>1. CASE held[u] = o
    <3>1. A(u, m).id = idOf[held[u]]
      BY <1>6, <1>10, <1>11, <1>12, <2>1 DEF HeldGroup
    <3>2. SDL_properties[idOf[held[u]]] = held[u]
      BY <1>6, <2>1 DEF Links, HeldLinked
    <3> QED
      BY <1>11, <2>1, <3>1, <3>2 DEF Linked
  <2>2. CASE \E p \in 1 .. D(u) : Holding(A(u, p)) = o
    <3>1. PICK p \in 1 .. D(u) : Holding(A(u, p)) = o
      BY <2>2
    <3>2. A(u, p) \in Frames /\ FrameOK(A(u, p)) /\ A(u, p) \in Records
      BY <1>0, FrameType, FieldsOf
    <3>3. A(u, p).at \in {"change", "insert", "iterate", "enumerated"} /\ A(u, p).obj = o
      BY <1>6, <3>1, PropertiesAssumption DEF Holding, Objects
    <3>4. A(u, p).op \in Using /\ p < m /\ p \in 1 .. m
      BY <1>9, <1>10, <3>2, <3>3 DEF FrameOK, Records, Using
    <3>5. A(u, p).id = A(u, m).id
      <4>1. \A r \in p .. m : A(u, r).op # "destroy"
        BY <1>12, <3>4
      <4> QED
        BY <1>10, <1>11, <3>4, <4>1 DEF SameGroup
    <3>6. Linked(A(u, p))
      BY <3>3, <3>4 DEF Links, FrameLinked
    <3> QED
      BY <1>11, <3>3, <3>5, <3>6 DEF Linked
  <2> QED
    BY <1>8, <2>1, <2>2
<1> QED
  BY <1>7, <1>8, <1>10, <1>13

-----------------------------------------------------------------------------
(* Group o has been cleaned up and not yet freed.                          *)
FreesIt(f, o) == f.at = "free" /\ f.obj = o
Freeing(o) == \E t \in Threads : \E p \in 1 .. D(t) : FreesIt(A(t, p), o)

(* The call sets value v.                                                  *)
Sets(f, v) == f.op = "set" /\ f.v = v

(* Clause ValuesOK: values that groups have, and those on their way, are   *)
(* all different, and a value has been cleaned up once if no group has it  *)
(* any more.                                                               *)
ValuesKept ==
  /\ \A o \in Objects : props[o] = 0 \/ props[o] \in accepted
  /\ \A o1, o2 \in Objects : props[o1] = props[o2] /\ props[o1] # 0 => o1 = o2
ValuesPending ==
  \A v \in Values : \A t \in Threads : \A p \in 1 .. D(t) :
    Sets(A(t, p), v) =>
      /\ v \notin accepted
      /\ \A u \in Threads : \A q \in 1 .. D(u) : Sets(A(u, q), v) => u = t /\ q = p
CleanedWhenGone ==
  \A v \in Values :
    cleaned[v] = IF v \in accepted /\ \A o \in Objects : props[o] = v => Freeing(o) THEN 1 ELSE 0

(* Where the frames of the next state were.                                *)
LEMMA WasKept ==
  ASSUME Stacked, Stacked', NEW t \in Threads, NEW k \in Int, Around(t, k), NEW u \in Threads,
         NEW q \in 1 .. D(u)',
         u # t \/ (q <= k /\ q \in 1 .. D(u))
  PROVE  q \in 1 .. D(u) /\ Same(A(u, q)', A(u, q))
<1>1. CASE u # t
  <2>1. q \in 1 .. D(u)
    BY <1>1 DEF Around
  <2> QED
    BY <1>1, <2>1, Kept
<1>2. CASE u = t
  BY <1>2, Kept
<1> QED
  BY <1>1, <1>2

(* Moves that leave a group's destruction where it is.                     *)
LEMMA FreeingSame ==
  ASSUME Stacked, Stacked', NEW t \in Threads, NEW n \in Nat, n = D(t), NEW o,
         \/ \E f \in Frames : Pushes(t, n, f) /\ ~FreesIt(f, o)
         \/ Pops(t, n) /\ ~FreesIt(A(t, n), o)
         \/ \E f \in Frames : Turns(t, n, f) /\ (FreesIt(A(t, n), o) <=> FreesIt(f, o))
         \/ \E f, g \in Frames :
              Calls(t, n, f, g) /\ (FreesIt(A(t, n), o) <=> FreesIt(f, o)) /\ ~FreesIt(g, o)
  PROVE  Freeing(o)' <=> Freeing(o)
<1>0. \A u \in Threads : D(u) \in Nat /\ D(u)' \in Nat
  BY DepthType, DepthTypeNext
<1>1. ASSUME NEW u \in Threads, NEW q \in 1 .. D(u)', q \in 1 .. D(u), Same(A(u, q)', A(u, q))
      PROVE  FreesIt(A(u, q)', o) <=> FreesIt(A(u, q), o)
  BY <1>1 DEF Same, FreesIt
<1>2. CASE \E f \in Frames : Pushes(t, n, f) /\ ~FreesIt(f, o)
  <2>1. PICK f \in Frames : Pushes(t, n, f) /\ ~FreesIt(f, o)
    BY <1>2
  <2>2. Around(t, n) /\ D(t)' = n + 1 /\ A(t, n + 1)' = f /\ \A u \in Threads : u # t => D(u)' = D(u)
    BY <2>1 DEF Pushes, Around
  <2>3. ASSUME NEW u \in Threads, NEW q \in 1 .. D(u)', ~(u = t /\ q = n + 1)
        PROVE  q \in 1 .. D(u) /\ (FreesIt(A(u, q)', o) <=> FreesIt(A(u, q), o))
    <3>1. u # t \/ (q <= n /\ q \in 1 .. D(u))
      BY <2>2, <2>3
    <3>2. q \in 1 .. D(u) /\ Same(A(u, q)', A(u, q))
      BY <2>2, <3>1, WasKept
    <3> QED
      BY <1>1, <3>2
  <2>4. ASSUME NEW u \in Threads, NEW q \in 1 .. D(u) PROVE q \in 1 .. D(u)' /\ ~(u = t /\ q = n + 1)
    BY <1>0, <2>2
  <2>5. ASSUME Freeing(o)' PROVE Freeing(o)
    <3>1. PICK u \in Threads : \E q \in 1 .. D(u)' : FreesIt(A(u, q)', o)
      BY <2>5 DEF Freeing, FreesIt
    <3>2. PICK q \in 1 .. D(u)' : FreesIt(A(u, q)', o)
      BY <3>1
    <3>3. ~(u = t /\ q = n + 1)
      BY <2>1, <2>2, <3>2
    <3> QED
      BY <2>3, <3>2, <3>3 DEF Freeing
  <2>6. ASSUME Freeing(o) PROVE Freeing(o)'
    <3>1. PICK u \in Threads : \E q \in 1 .. D(u) : FreesIt(A(u, q), o)
      BY <2>6 DEF Freeing
    <3>2. PICK q \in 1 .. D(u) : FreesIt(A(u, q), o)
      BY <3>1
    <3>3. q \in 1 .. D(u)' /\ FreesIt(A(u, q)', o)
      BY <2>3, <2>4, <3>2
    <3> QED
      BY <3>3 DEF Freeing, FreesIt
  <2> QED
    BY <2>5, <2>6
<1>3. CASE Pops(t, n) /\ ~FreesIt(A(t, n), o)
  <2>2. Around(t, n - 1) /\ D(t)' = n - 1 /\ n >= 1 /\ \A u \in Threads : u # t => D(u)' = D(u)
    BY <1>3 DEF Pops, Around
  <2>3. ASSUME NEW u \in Threads, NEW q \in 1 .. D(u)'
        PROVE  q \in 1 .. D(u) /\ (FreesIt(A(u, q)', o) <=> FreesIt(A(u, q), o))
    <3>1. u # t \/ (q <= n - 1 /\ q \in 1 .. D(u))
      BY <2>2, <2>3
    <3>2. q \in 1 .. D(u) /\ Same(A(u, q)', A(u, q))
      BY <2>2, <3>1, WasKept
    <3> QED
      BY <1>1, <3>2
  <2>4. ASSUME NEW u \in Threads, NEW q \in 1 .. D(u), FreesIt(A(u, q), o) PROVE q \in 1 .. D(u)'
    <3>1. ~(u = t /\ q = n)
      BY <1>3, <2>4
    <3> QED
      BY <1>0, <2>2, <3>1
  <2>5. ASSUME Freeing(o)' PROVE Freeing(o)
    <3>1. PICK u \in Threads : \E q \in 1 .. D(u)' : FreesIt(A(u, q)', o)
      BY <2>5 DEF Freeing, FreesIt
    <3>2. PICK q \in 1 .. D(u)' : FreesIt(A(u, q)', o)
      BY <3>1
    <3> QED
      BY <2>3, <3>2 DEF Freeing
  <2>6. ASSUME Freeing(o) PROVE Freeing(o)'
    <3>1. PICK u \in Threads : \E q \in 1 .. D(u) : FreesIt(A(u, q), o)
      BY <2>6 DEF Freeing
    <3>2. PICK q \in 1 .. D(u) : FreesIt(A(u, q), o)
      BY <3>1
    <3>3. q \in 1 .. D(u)' /\ FreesIt(A(u, q)', o)
      BY <2>3, <2>4, <3>2
    <3> QED
      BY <3>3 DEF Freeing, FreesIt
  <2> QED
    BY <2>5, <2>6
(* the top goes on, maybe under a callback *)
<1>4. ASSUME n >= 1, Around(t, n - 1), D(t)' \in {n, n + 1}, FreesIt(A(t, n)', o) <=> FreesIt(A(t, n), o),
             D(t)' = n + 1 => ~FreesIt(A(t, n + 1)', o)
      PROVE  Freeing(o)' <=> Freeing(o)
  <2>2. \A u \in Threads : u # t => D(u)' = D(u)
    BY <1>4 DEF Around
  <2>3. ASSUME NEW u \in Threads, NEW q \in 1 .. D(u)', ~(u = t /\ q = n + 1)
        PROVE  q \in 1 .. D(u) /\ (FreesIt(A(u, q)', o) <=> FreesIt(A(u, q), o))
    <3>1. CASE u = t /\ q = n
      BY <1>4, <3>1
    <3>2. CASE ~(u = t /\ q = n)
      <4>1. u # t \/ (q <= n - 1 /\ q \in 1 .. D(u))
        BY <1>4, <2>3, <3>2
      <4>2. q \in 1 .. D(u) /\ Same(A(u, q)', A(u, q))
        BY <1>4, <4>1, WasKept
      <4> QED
        BY <1>1, <4>2
    <3> QED
      BY <3>1, <3>2
  <2>4. ASSUME NEW u \in Threads, NEW q \in 1 .. D(u) PROVE q \in 1 .. D(u)' /\ ~(u = t /\ q = n + 1)
    BY <1>0, <1>4, <2>2
  <2>5. ASSUME Freeing(o)' PROVE Freeing(o)
    <3>1. PICK u \in Threads : \E q \in 1 .. D(u)' : FreesIt(A(u, q)', o)
      BY <2>5 DEF Freeing, FreesIt
    <3>2. PICK q \in 1 .. D(u)' : FreesIt(A(u, q)', o)
      BY <3>1
    <3>3. ~(u = t /\ q = n + 1)
      BY <1>4, <3>2
    <3> QED
      BY <2>3, <3>2, <3>3 DEF Freeing
  <2>6. ASSUME Freeing(o) PROVE Freeing(o)'
    <3>1. PICK u \in Threads : \E q \in 1 .. D(u) : FreesIt(A(u, q), o)
      BY <2>6 DEF Freeing
    <3>2. PICK q \in 1 .. D(u) : FreesIt(A(u, q), o)
      BY <3>1
    <3>3. q \in 1 .. D(u)' /\ FreesIt(A(u, q)', o)
      BY <2>3, <2>4, <3>2
    <3> QED
      BY <3>3 DEF Freeing, FreesIt
  <2> QED
    BY <2>5, <2>6
<1>5. CASE \E f \in Frames : Turns(t, n, f) /\ (FreesIt(A(t, n), o) <=> FreesIt(f, o))
  BY <1>4, <1>5 DEF Turns
<1>6. CASE \E f, g \in Frames :
              Calls(t, n, f, g) /\ (FreesIt(A(t, n), o) <=> FreesIt(f, o)) /\ ~FreesIt(g, o)
  BY <1>4, <1>6 DEF Calls
<1> QED
  BY <1>2, <1>3, <1>5, <1>6

(* The sets of the next state were there with their values.                *)
Inherits ==
  \A u \in Threads : \A q \in 1 .. D(u)' : \A v \in Values :
    Sets(A(u, q)', v) => q \in 1 .. D(u) /\ Sets(A(u, q), v)

(* Moves that bring no new value.                                          *)
LEMMA InheritsIf ==
  ASSUME Stacked, Stacked', NEW t \in Threads, NEW n \in Nat, n = D(t),
         \/ \E f \in Frames : Pushes(t, n, f) /\ (f.op # "set" \/ f.v = 0)
         \/ Pops(t, n)
         \/ \E f \in Frames : Turns(t, n, f) /\ (f.op = "set" => A(t, n).op = "set" /\ f.v = A(t, n).v)
         \/ \E f, g \in Frames :
              Calls(t, n, f, g) /\ (f.op = "set" => A(t, n).op = "set" /\ f.v = A(t, n).v) /\ g.op # "set"
  PROVE  Inherits
<1> SUFFICES ASSUME NEW u \in Threads, NEW q \in 1 .. D(u)', NEW v \in Values, Sets(A(u, q)', v)
             PROVE  q \in 1 .. D(u) /\ Sets(A(u, q), v)
  BY DEF Inherits
<1>0. v # 0 /\ D(u) \in Nat
  BY DepthType DEF Values
<1>1. ASSUME NEW k \in Int, Around(t, k), u # t \/ (q <= k /\ q \in 1 .. D(u)) PROVE q \in 1 .. D(u) /\ Sets(A(u, q), v)
  <2>1. q \in 1 .. D(u) /\ Same(A(u, q)', A(u, q))
    BY <1>1, WasKept
  <2> QED
    BY <2>1 DEF Same, Sets
<1>2. CASE \E f \in Frames : Pushes(t, n, f) /\ (f.op # "set" \/ f.v = 0)
  <2>1. Around(t, n) /\ D(t)' = n + 1 /\ ~Sets(A(t, n + 1)', v)
    BY <1>0, <1>2 DEF Pushes, Sets
  <2>2. u # t \/ (q <= n /\ q \in 1 .. D(u))
    BY <2>1
  <2> QED
    BY <1>1, <2>1, <2>2
<1>3. CASE Pops(t, n)
  <2>1. Around(t, n - 1) /\ D(t)' = n - 1
    BY <1>3 DEF Pops
  <2>2. u # t \/ (q <= n - 1 /\ q \in 1 .. D(u))
    BY <2>1
  <2> QED
    BY <1>1, <2>1, <2>2
<1>4. ASSUME n >= 1, Around(t, n - 1), D(t)' \in {n, n + 1}, Sets(A(t, n)', v) => Sets(A(t, n), v),
             D(t)' = n + 1 => ~Sets(A(t, n + 1)', v)
      PROVE  q \in 1 .. D(u) /\ Sets(A(u, q), v)
  <2>1. CASE u = t /\ q = n
    BY <1>4, <2>1
  <2>2. CASE ~(u = t /\ q = n)
    <3>1. u # t \/ (q <= n - 1 /\ q \in 1 .. D(u))
      BY <1>4, <2>2
    <3> QED
      BY <1>1, <1>4, <3>1
  <2> QED
    BY <2>1, <2>2
<1>5. CASE \E f \in Frames : Turns(t, n, f) /\ (f.op = "set" => A(t, n).op = "set" /\ f.v = A(t, n).v)
  BY <1>4, <1>5 DEF Turns, Sets
<1>6. CASE \E f, g \in Frames :
              Calls(t, n, f, g) /\ (f.op = "set" => A(t, n).op = "set" /\ f.v = A(t, n).v) /\ g.op # "set"
  BY <1>4, <1>6 DEF Calls, Sets
<1> QED
  BY <1>2, <1>3, <1>5, <1>6

(* ValuesPending stays when no value comes.                                *)
LEMMA PendingInherited ==
  ASSUME ValuesPending, Inherits, UNCHANGED accepted PROVE ValuesPending'
<1> SUFFICES ASSUME NEW v \in Values, NEW t \in Threads, NEW p \in 1 .. D(t)', Sets(A(t, p)', v)
             PROVE  /\ v \notin accepted'
                    /\ \A u \in Threads : \A q \in 1 .. D(u)' : Sets(A(u, q)', v) => u = t /\ q = p
  BY DEF ValuesPending, Sets
<1>1. p \in 1 .. D(t) /\ Sets(A(t, p), v)
  BY DEF Inherits
<1>2. v \notin accepted
  BY <1>1 DEF ValuesPending
<1>3. ASSUME NEW u \in Threads, NEW q \in 1 .. D(u)', Sets(A(u, q)', v) PROVE u = t /\ q = p
  <2>1. q \in 1 .. D(u) /\ Sets(A(u, q), v)
    BY <1>3 DEF Inherits
  <2> QED
    BY <1>1, <2>1 DEF ValuesPending
<1> QED
  BY <1>2, <1>3

(* A group that is used is not being freed.                                *)
LEMMA NotFreeing ==
  ASSUME Typed, Table, Nested, Links, Quit, NEW t \in Threads, NEW p \in 1 .. D(t),
         A(t, p).op = "set",
         A(t, p).at # "find"
  PROVE  ~Freeing(A(t, p).obj)
<1> SUFFICES ASSUME NEW u \in Threads, NEW q \in 1 .. D(u), A(u, q).at = "free", A(u, q).obj = A(t, p).obj
             PROVE  FALSE
  BY DEF Freeing, FreesIt
<1>0. Stacked /\ A(t, p) \in Frames /\ A(u, q) \in Frames
  BY FrameType DEF Typed
<1>1. Linked(A(t, p))
  BY DEF Links, FrameLinked, Using
<1>2. ~quitting
  <2>1. p \in Nat
    OBVIOUS
  <2>2. quitting => p \in 1 .. 3 /\ A(t, p).op \in {"quit", "destroy", "nuke", "callback"}
    BY <2>1 DEF Quit
  <2> QED
    BY <2>2
<1>3. A(u, q).op \in {"destroy", "nuke"}
  BY <1>0, FieldsOf DEF FrameOK, Records, Using
<1>4. A(u, q).op = "destroy"
  BY <1>2, <1>3 DEF Quit
<1>5. A(u, q).obj \in DOMAIN idOf /\ idOf[A(u, q).obj] = A(u, q).id /\ A(u, q).id \notin DOMAIN SDL_properties
  BY <1>4 DEF Links, FrameLinked
<1> QED
  BY <1>1, <1>5 DEF Linked, Table

(* ValuesOK stays when values, groups and sets do.                         *)
LEMMA ValuesStay ==
  ASSUME ValuesKept, ValuesPending, CleanedWhenGone, UNCHANGED <<props, accepted, cleaned>>,
         Inherits,
         \A o \in Objects : Freeing(o)' <=> Freeing(o)
  PROVE  ValuesKept' /\ ValuesPending' /\ CleanedWhenGone'
<1>1. ValuesKept'
  BY DEF ValuesKept
<1>2. ValuesPending'
  BY PendingInherited
<1>3. CleanedWhenGone'
  <2> SUFFICES ASSUME NEW v \in Values
               PROVE  cleaned'[v] = IF v \in accepted' /\ \A o \in Objects : props'[o] = v => Freeing(o)' THEN 1 ELSE 0
    BY DEF CleanedWhenGone
  <2> QED
    BY DEF CleanedWhenGone
<1> QED
  BY <1>1, <1>2, <1>3

ValuesOK == ValuesKept /\ ValuesPending /\ CleanedWhenGone

(* Every action keeps ValuesOK: a value is taken from its group as its     *)
(* cleanup is called.                                                      *)
LEMMA ValuesStep ==
  ASSUME NoQuitCalls, Typed, Table, Nested, Outer, Links, Locks, AllGood, Destroying, Quit,
         ValuesOK, Typed',
         NEW t \in Threads, NextOf(t), NEW n \in Nat, n = D(t)
  PROVE  ValuesOK'
<1>0. Stacked /\ Stacked' /\ given \in Nat /\ given' \in Nat
  BY DEF Typed
<1>a. ASSUME UNCHANGED <<props, accepted, cleaned>>, Inherits,
  \A o \in Objects : Freeing(o)' <=> Freeing(o)
      PROVE  ValuesOK'
  BY <1>a, ValuesStay DEF ValuesOK
<1>b. ASSUME UNCHANGED <<props, accepted, cleaned>>, NEW f \in Frames, Pushes(t, n, f),
  f.at # "free", f.op # "set" \/ f.v = 0
      PROVE  ValuesOK'
  <2>1. Inherits
    BY <1>0, <1>b, InheritsIf
  <2>2. \A o \in Objects : Freeing(o)' <=> Freeing(o)
    BY <1>0, <1>b, FreeingSame DEF FreesIt
  <2> QED
    BY <1>a, <1>b, <2>1, <2>2
<1>c. ASSUME UNCHANGED <<props, accepted, cleaned>>, Pops(t, n), A(t, n).at # "free"
      PROVE  ValuesOK'
  <2>1. Inherits
    BY <1>0, <1>c, InheritsIf
  <2>2. \A o \in Objects : Freeing(o)' <=> Freeing(o)
    BY <1>0, <1>c, FreeingSame DEF FreesIt
  <2> QED
    BY <1>a, <1>c, <2>1, <2>2
<1>d. ASSUME UNCHANGED <<props, accepted, cleaned>>, NEW f \in Frames, Turns(t, n, f),
  f.at # "free", A(t, n).at # "free",
             f.op = "set" => A(t, n).op = "set" /\ f.v = A(t, n).v
      PROVE  ValuesOK'
  <2>1. Inherits
    BY <1>0, <1>d, InheritsIf
  <2>2. \A o \in Objects : Freeing(o)' <=> Freeing(o)
    BY <1>0, <1>d, FreeingSame DEF FreesIt
  <2> QED
    BY <1>a, <1>d, <2>1, <2>2
<1>g. ASSUME n >= 1 PROVE n \in 1 .. D(t) /\ A(t, n) \in Frames /\ FrameOK(A(t, n)) /\ A(t, n) \in Records
  BY <1>0, <1>g, LastIs, FieldsOf
<1>h. \A v \in Values : cleaned[v] \in Nat /\ v # 0
  <2>1. \A v \in Values : v # 0
    BY PropertiesAssumption DEF Values
  <2> QED
    BY <2>1 DEF Typed
<1>1. CASE SDL_CreateProperties(t)
  <2>1. UNCHANGED <<props, accepted, cleaned, stack>>
    BY <1>1 DEF SDL_CreateProperties, values
  <2>2. Inherits /\ \A o \in Objects : Freeing(o)' <=> Freeing(o)
    BY <2>1 DEF Inherits, Freeing, D, A
  <2> QED
    BY <1>a, <2>1, <2>2
<1>2. CASE RemoveGroup(t)
  <2>1. n >= 1 /\ A(t, n).at = "remove"
    BY <1>0, <1>2, InIs DEF RemoveGroup
  <2>2. A(t, n).op = "destroy" /\ n \in 1 .. D(t)
    BY <1>g, <2>1 DEF FrameOK, Records, Using
  <2>3. A(t, n).id \in DOMAIN SDL_properties
    BY <2>1, <2>2 DEF Links, FrameLinked
  <2>4. \E f \in Frames : f.op = "destroy" /\ f.at = "nuke" /\ Turns(t, n, f)
    BY <1>2, <2>3, RemoveGroupDoes
  <2> QED
    BY <1>2, <1>d, <2>1, <2>4 DEF RemoveGroup, values
<1>3. CASE FreeProperties(t)
  <2>1. A(t, n).at = "free" /\ A(t, n).op \in {"destroy", "nuke"} /\ Pops(t, n) /\ A(t, n).obj \in Objects
        /\ props' = [props EXCEPT ![A(t, n).obj] = 0]
    BY <1>3, FreeDoes
  <2>2. UNCHANGED <<accepted, cleaned>>
    BY <1>3 DEF FreeProperties, values
  <2>3. PICK c \in Objects : c = A(t, n).obj
    BY <2>1
  <2>4. \A o \in Objects : props'[o] = IF o = c THEN 0 ELSE props[o]
    BY <2>1, <2>3 DEF Typed
  <2>5. \A o \in Objects : o # c => (Freeing(o)' <=> Freeing(o))
    BY <1>0, <2>1, <2>3, FreeingSame DEF FreesIt
  <2>6. Freeing(c)
    <3>1. n \in 1 .. D(t)
      BY <2>1 DEF Pops
    <3> QED
      BY <2>1, <2>3, <3>1 DEF Freeing, FreesIt
  <2>7. ValuesKept'
    BY <2>2, <2>4 DEF ValuesOK, ValuesKept
  <2>8. ValuesPending'
    <3>1. Inherits
      BY <1>0, <2>1, InheritsIf
    <3> QED
      BY <2>2, <3>1, PendingInherited DEF ValuesOK
  <2>9. ASSUME NEW v \in Values
        PROVE  cleaned'[v] = IF v \in accepted' /\ \A o \in Objects : props'[o] = v => Freeing(o)' THEN 1 ELSE 0
    <3>1. cleaned[v] = IF v \in accepted /\ \A o \in Objects : props[o] = v => Freeing(o) THEN 1 ELSE 0
      BY DEF ValuesOK, CleanedWhenGone
    <3>2. (\A o \in Objects : props'[o] = v => Freeing(o)') <=> (\A o \in Objects : props[o] = v => Freeing(o))
      BY <1>h, <2>4, <2>5, <2>6
    <3> QED
      BY <2>2, <3>1, <3>2
  <2>10. CleanedWhenGone'
    BY <2>9 DEF CleanedWhenGone
  <2> QED
    BY <2>7, <2>8, <2>10 DEF ValuesOK
<1>4. CASE DestroyHashTable(t)
  <2>1. A(t, n).at = "sweep" /\ (Pops(t, n) \/ \E f \in Frames : f.op = "nuke" /\ f.at = "nuke" /\ Pushes(t, n, f))
    BY <1>4, SweepDoes
  <2> QED
    BY <1>4, <1>b, <1>c, <2>1 DEF DestroyHashTable, values
<1>5. CASE SDL_QuitProperties(t)
  <2>1. UNCHANGED <<props, accepted, cleaned>>
    BY <1>5 DEF SDL_QuitProperties, values
  <2>2. /\ \A u \in Threads : D(u) = 0
        /\ \A u \in Threads : u # t => D(u)' = 0
        /\ D(t)' = 2 /\ A(t, 1)' = QuitFrame /\ A(t, 2)' = NewFrame("destroy", "remove", 1, 0)
    BY <1>5, QuitDoes
  <2>3. ASSUME NEW u \in Threads, NEW q \in 1 .. D(u)'
        PROVE  A(u, q)'.op \in {"quit", "destroy"} /\ A(u, q)'.at \in {"sweep", "remove"}
    <3>1. u = t
      BY <2>2
    <3>2. q = 1 \/ q = 2
      BY <2>2, <3>1
    <3> QED
      BY <2>2, <3>1, <3>2 DEF QuitFrame, NewFrame
  <2>4. Inherits
    BY <2>3 DEF Inherits, Sets
  <2>5. \A o \in Objects : ~Freeing(o)
    BY <2>2 DEF Freeing
  <2>6. \A o \in Objects : ~Freeing(o)'
    BY <2>3 DEF Freeing, FreesIt
  <2> QED
    BY <1>a, <2>1, <2>4, <2>5, <2>6
<1>6. CASE CallbackReturns(t)
  BY <1>6, <1>c, CallbackReturnsDoes DEF CallbackReturns, values
<1>7. CASE Find(t)
  <2>1. A(t, n).at = "find" /\ (Pops(t, n) \/ \E f \in Frames : /\ f.op = A(t, n).op /\ f.v = A(t, n).v /\ f.at \in {"unlock", "lock"}
                                                           /\ Turns(t, n, f))
    BY <1>7, FindDoes
  <2> QED
    BY <1>7, <1>c, <1>d, <2>1 DEF Find, values
<1>8. CASE Acquire(t)
  <2>1. UNCHANGED <<props, accepted, cleaned>>
    BY <1>8 DEF Acquire, values
  <2>2. n >= 1 /\ A(t, n).at = "lock"
    BY <1>8, AcquireDoes
  <2>3. CASE Pops(t, n)
    BY <1>c, <2>1, <2>2, <2>3
  <2>4. CASE /\ A(t, n).op \in {"set", "enumerate"}
             /\ Turns(t, n, [A(t, n) EXCEPT !.at = IF A(t, n).op = "set" THEN "change" ELSE "iterate"])
    <3>1. PICK f : f = [A(t, n) EXCEPT !.at = IF A(t, n).op = "set" THEN "change" ELSE "iterate"]
      OBVIOUS
    <3>2. f \in Frames /\ f.op = A(t, n).op /\ f.at \in {"change", "iterate"} /\ f.v = A(t, n).v
      BY <1>g, <2>2, <2>4, <3>1, MovedType
    <3> QED
      BY <1>d, <2>1, <2>2, <2>4, <3>1, <3>2
  <2> QED
    BY <1>8, <2>3, <2>4, AcquireDoes
<1>9. CASE SDL_UnlockProperties(t)
  BY <1>9, <1>c, UnlockDoes DEF SDL_UnlockProperties, values
<1>12. CASE Iterate(t)
  <2>1. UNCHANGED <<props, accepted, cleaned>>
    BY <1>12 DEF Iterate, values
  <2>2. n >= 1 /\ A(t, n).at = "iterate" /\ A(t, n).op = "enumerate" /\ A(t, n).obj \in Objects
    BY <1>12, IterateDoes
  <2>3. CASE Turns(t, n, [A(t, n) EXCEPT !.at = "enumerated"])
    <3>1. PICK f : f = [A(t, n) EXCEPT !.at = "enumerated"]
      OBVIOUS
    <3>2. f \in Frames /\ f.op = A(t, n).op /\ f.at = "enumerated" /\ f.v = A(t, n).v
      BY <1>g, <2>2, <3>1, MovedType
    <3> QED
      BY <1>d, <2>1, <2>2, <2>3, <3>1, <3>2
  <2>4. CASE \E f \in Frames : /\ f.op = "enumerate" /\ f.at = "enumerated"
                               /\ Calls(t, n, f, CallbackFrame(A(t, n).obj, {"get"}))
    <3>1. PICK f \in Frames : /\ f.op = "enumerate" /\ f.at = "enumerated"
                              /\ Calls(t, n, f, CallbackFrame(A(t, n).obj, {"get"}))
      BY <2>4
    <3>2. PICK g : g = CallbackFrame(A(t, n).obj, {"get"})
      OBVIOUS
    <3>3. g \in Frames /\ g.op = "callback" /\ g.at = "callback"
      BY <2>2, <3>2, CallbackType DEF CallbackFrame
    <3>4. Inherits
      BY <1>0, <3>1, <3>2, <3>3, InheritsIf
    <3>5. \A o \in Objects : Freeing(o)' <=> Freeing(o)
      BY <1>0, <2>2, <3>1, <3>2, <3>3, FreeingSame DEF FreesIt
    <3> QED
      BY <1>a, <2>1, <3>4, <3>5
  <2> QED
    BY <1>12, <2>3, <2>4, IterateDoes
<1>13. CASE EndEnumerate(t)
  BY <1>13, <1>c, EndEnumerateDoes DEF EndEnumerate, values
<1>16. ASSUME NEW id \in IDs, NEW op \in {"lock", "get", "enumerate"},
  CallReader(t, op, id) PROVE ValuesOK'
  <2>2. Pushes(t, n, NewFrame(op, "find", id, 0))
    BY <1>16, CallReaderDoes
  <2>1. PICK f : f = NewFrame(op, "find", id, 0)
    OBVIOUS
  <2>3. f \in Frames /\ f.at = "find" /\ f.op = op
    BY <2>1, NewFrameType, PropertiesAssumption DEF NewFrame
  <2> QED
    BY <1>16, <1>b, <2>1, <2>2, <2>3 DEF CallReader, values
<1>17. ASSUME NEW id \in IDs, CallDestroy(t, id) PROVE ValuesOK'
  <2>2. Pushes(t, n, NewFrame("destroy", "remove", id, 0))
    BY <1>17, CallDestroyDoes
  <2>1. PICK f : f = NewFrame("destroy", "remove", id, 0)
    OBVIOUS
  <2>3. f \in Frames /\ f.at = "remove" /\ f.op = "destroy"
    BY <2>1, NewFrameType, PropertiesAssumption DEF NewFrame
  <2> QED
    BY <1>17, <1>b, <2>1, <2>2, <2>3 DEF CallDestroy, values
<1>18. CASE CallUnlock(t)
  <2>0. held[t] # 0 /\ held[t] \in DOMAIN idOf /\ idOf[held[t]] \in IDs
    BY <1>18 DEF CallUnlock, Links, HeldLinked, Table
  <2>2. Pushes(t, n, NewFrame("unlock", "find", idOf[held[t]], 0))
    BY <1>18, <2>0, CallUnlockDoes
  <2>1. PICK f : f = NewFrame("unlock", "find", idOf[held[t]], 0)
    OBVIOUS
  <2>3. f \in Frames /\ f.at = "find" /\ f.op = "unlock"
    BY <2>0, <2>1, NewFrameType, PropertiesAssumption DEF NewFrame
  <2> QED
    BY <1>18, <1>b, <2>1, <2>2, <2>3 DEF CallUnlock, values
<1>10. CASE RemoveOld(t)
  <2>1. UNCHANGED accepted
    BY <1>10 DEF RemoveOld
  <2>2. n >= 1 /\ A(t, n).at = "change" /\ A(t, n).op = "set" /\ A(t, n).obj \in Objects
    BY <1>10, RemoveOldDoes
  <2>3. PICK c \in Objects : c = A(t, n).obj
    BY <2>2
  <2>4. PICK f : f = [A(t, n) EXCEPT !.at = "insert"]
    OBVIOUS
  <2>5. f \in Frames /\ f.op = "set" /\ f.at = "insert" /\ f.v = A(t, n).v
    BY <1>g, <2>2, <2>4, MovedType
  <2>6. PICK g : g = CallbackFrame(A(t, n).obj, CleanupMay)
    OBVIOUS
  <2>7. g \in Frames /\ g.op = "callback" /\ g.at = "callback"
    BY <2>2, <2>6, CallbackType, CleanupMayType DEF CallbackFrame
  <2>8. Turns(t, n, f) \/ Calls(t, n, f, g)
    BY <1>10, <2>4, <2>6, RemoveOldDoes
  <2>9. Inherits
    BY <1>0, <2>2, <2>5, <2>7, <2>8, InheritsIf
  <2>10. \A o \in Objects : Freeing(o)' <=> Freeing(o)
    BY <1>0, <2>2, <2>5, <2>7, <2>8, FreeingSame DEF FreesIt
  <2>11. CASE UNCHANGED <<props, cleaned>>
    BY <1>a, <2>1, <2>9, <2>10, <2>11
  <2>12. CASE /\ props[c] # 0 /\ props' = [props EXCEPT ![c] = 0]
              /\ cleaned' = [cleaned EXCEPT ![props[c]] = @ + 1]
    <3>1. PICK old \in Values : old = props[c]
      BY <2>12, PropertiesAssumption DEF Typed, Values
    <3>2. \A o \in Objects : props'[o] = IF o = c THEN 0 ELSE props[o]
      BY <2>12 DEF Typed
    <3>3. \A v \in Values : cleaned'[v] = IF v = old THEN cleaned[v] + 1 ELSE cleaned[v]
      BY <2>12, <3>1 DEF Typed
    <3>4. ~Freeing(c)
      BY <1>g, <2>2, <2>3, NotFreeing
    <3>5. ValuesKept'
      BY <2>1, <3>2 DEF ValuesOK, ValuesKept
    <3>6. ValuesPending'
      BY <2>1, <2>9, PendingInherited DEF ValuesOK
    <3>7. ASSUME NEW v \in Values
          PROVE  cleaned'[v] = IF v \in accepted' /\ \A o \in Objects : props'[o] = v => Freeing(o)' THEN 1 ELSE 0
      <4>1. cleaned[v] = IF v \in accepted /\ \A o \in Objects : props[o] = v => Freeing(o) THEN 1 ELSE 0
        BY DEF ValuesOK, CleanedWhenGone
      <4>2. CASE v = old
        <5>1. cleaned[v] = 0
          BY <3>1, <3>4, <4>1, <4>2
        <5>2. old \in accepted
          BY <1>h, <3>1 DEF ValuesOK, ValuesKept
        <5>3. \A o \in Objects : props'[o] # old
          BY <1>h, <3>1, <3>2 DEF ValuesOK, ValuesKept
        <5>4. cleaned'[v] = 1
          BY <3>3, <4>2, <5>1
        <5> QED
          BY <2>1, <4>2, <5>2, <5>3, <5>4
      <4>3. CASE v # old
        <5>1. (\A o \in Objects : props'[o] = v => Freeing(o)') <=> (\A o \in Objects : props[o] = v => Freeing(o))
          BY <1>h, <2>10, <3>1, <3>2, <4>3
        <5> QED
          BY <2>1, <3>3, <4>1, <4>3, <5>1
      <4> QED
        BY <4>2, <4>3
    <3>8. CleanedWhenGone'
      BY <3>7 DEF CleanedWhenGone
    <3> QED
      BY <3>5, <3>6, <3>8 DEF ValuesOK
  <2> QED
    BY <1>10, <2>3, <2>11, <2>12, RemoveOldDoes
<1>11. CASE InsertNew(t)
  <2>1. UNCHANGED cleaned
    BY <1>11 DEF InsertNew
  <2>2. A(t, n).at = "insert" /\ A(t, n).op = "set" /\ A(t, n).obj \in Objects /\ Pops(t, n) /\ n >= 1
    BY <1>11, InsertNewDoes DEF Pops
  <2>3. PICK c \in Objects : c = A(t, n).obj
    BY <2>2
  <2>4. Inherits
    BY <1>0, <2>2, InheritsIf
  <2>5. \A o \in Objects : Freeing(o)' <=> Freeing(o)
    BY <1>0, <2>2, FreeingSame DEF FreesIt
  <2>6. CASE UNCHANGED <<props, accepted>>
    BY <1>a, <2>1, <2>4, <2>5, <2>6
  <2>7. CASE /\ A(t, n).v # 0 /\ props[c] = 0 /\ props' = [props EXCEPT ![c] = A(t, n).v]
             /\ accepted' = accepted \cup {A(t, n).v}
    <3>0. A(t, n).v \in 0 .. MaxValues
      BY <1>g, <2>2 DEF Records
    <3>1. PICK new \in Values : new = A(t, n).v
      BY <2>7, <3>0, PropertiesAssumption DEF Values
    <3>2. \A o \in Objects : props'[o] = IF o = c THEN new ELSE props[o]
      BY <2>7, <3>1 DEF Typed
    <3>3. Sets(A(t, n), new) /\ n \in 1 .. D(t)
      BY <1>g, <2>2, <3>1 DEF Sets
    <3>4. new \notin accepted /\ \A u \in Threads : \A q \in 1 .. D(u) : Sets(A(u, q), new) => u = t /\ q = n
      BY <3>3 DEF ValuesOK, ValuesPending
    <3>5. ~Freeing(c)
      BY <1>g, <2>2, <2>3, NotFreeing
    <3>6. ValuesKept'
      <4>1. \A o \in Objects : props[o] # new
        BY <1>h, <3>4 DEF ValuesOK, ValuesKept
      <4>2. \A o \in Objects : props'[o] = 0 \/ props'[o] \in accepted'
        BY <2>7, <3>1, <3>2 DEF ValuesOK, ValuesKept
      <4>3. \A o1, o2 \in Objects : props'[o1] = props'[o2] /\ props'[o1] # 0 => o1 = o2
        BY <3>2, <4>1 DEF ValuesOK, ValuesKept
      <4> QED
        BY <4>2, <4>3 DEF ValuesKept
    <3>7. ValuesPending'
      <4> SUFFICES ASSUME NEW v \in Values, NEW w \in Threads, NEW p \in 1 .. D(w)', Sets(A(w, p)', v)
                   PROVE  /\ v \notin accepted'
                          /\ \A u \in Threads : \A q \in 1 .. D(u)' : Sets(A(u, q)', v) => u = w /\ q = p
        BY DEF ValuesPending, Sets
      <4>1. p \in 1 .. D(w) /\ Sets(A(w, p), v)
        BY <2>4 DEF Inherits
      <4>2. v \notin accepted
        BY <4>1 DEF ValuesOK, ValuesPending
      <4>3. v # new
        <5>1. D(t)' = n - 1
          BY <2>2 DEF Pops
        <5>2. ~(w = t /\ p = n)
          BY <5>1
        <5> QED
          BY <3>4, <4>1, <5>2
      <4>4. ASSUME NEW u \in Threads, NEW q \in 1 .. D(u)', Sets(A(u, q)', v) PROVE u = w /\ q = p
        <5>1. q \in 1 .. D(u) /\ Sets(A(u, q), v)
          BY <2>4, <4>4 DEF Inherits
        <5> QED
          BY <4>1, <5>1 DEF ValuesOK, ValuesPending
      <4> QED
        BY <2>7, <3>1, <4>2, <4>3, <4>4
    <3>8. ASSUME NEW v \in Values
          PROVE  cleaned'[v] = IF v \in accepted' /\ \A o \in Objects : props'[o] = v => Freeing(o)' THEN 1 ELSE 0
      <4>1. cleaned[v] = IF v \in accepted /\ \A o \in Objects : props[o] = v => Freeing(o) THEN 1 ELSE 0
        BY DEF ValuesOK, CleanedWhenGone
      <4>2. CASE v = new
        <5>1. cleaned'[v] = 0
          BY <2>1, <3>4, <4>1, <4>2
        <5>2. props'[c] = new /\ ~Freeing(c)'
          BY <2>5, <3>2, <3>5
        <5> QED
          BY <4>2, <5>1, <5>2
      <4>3. CASE v # new
        <5>1. (\A o \in Objects : props'[o] = v => Freeing(o)') <=> (\A o \in Objects : props[o] = v => Freeing(o))
          BY <1>h, <2>5, <2>7, <3>2, <4>3
        <5> QED
          BY <2>1, <2>7, <3>1, <4>1, <4>3, <5>1
      <4> QED
        BY <4>2, <4>3
    <3>9. CleanedWhenGone'
      BY <3>8 DEF CleanedWhenGone
    <3> QED
      BY <3>6, <3>7, <3>9 DEF ValuesOK
  <2> QED
    BY <1>11, <2>3, <2>6, <2>7, InsertNewDoes
<1>14. CASE Nuke(t)
  <2>1. UNCHANGED <<props, accepted>>
    BY <1>14 DEF Nuke
  <2>2. n >= 1 /\ A(t, n).at = "nuke" /\ A(t, n).op \in {"destroy", "nuke"} /\ A(t, n).obj \in Objects
    BY <1>14, NukeDoes
  <2>3. PICK c \in Objects : c = A(t, n).obj
    BY <2>2
  <2>4. PICK f : f = [A(t, n) EXCEPT !.at = "free"]
    OBVIOUS
  <2>5. f \in Frames /\ f.op = A(t, n).op /\ f.at = "free" /\ f.v = A(t, n).v /\ f.obj = c
    BY <1>g, <2>2, <2>3, <2>4, MovedType
  <2>6. PICK g : g = CallbackFrame(A(t, n).obj, CleanupMay)
    OBVIOUS
  <2>7. g \in Frames /\ g.op = "callback" /\ g.at = "callback"
    BY <2>2, <2>6, CallbackType, CleanupMayType DEF CallbackFrame
  <2>8. Turns(t, n, f) \/ Calls(t, n, f, g)
    BY <1>14, <2>4, <2>6, NukeDoes
  <2>9. Inherits
    BY <1>0, <2>2, <2>5, <2>7, <2>8, InheritsIf
  <2>10. \A o \in Objects : o # c => (Freeing(o)' <=> Freeing(o))
    BY <1>0, <2>2, <2>5, <2>7, <2>8, FreeingSame DEF FreesIt
  <2>11. Freeing(c)'
    <3>1. A(t, n)' = f /\ D(t)' >= n /\ D(t)' \in {n, n + 1}
      BY <2>8 DEF Turns, Calls
    <3>2. n \in 1 .. D(t)'
      BY <2>2, <3>1
    <3> QED
      BY <2>5, <3>1, <3>2 DEF Freeing, FreesIt
  <2>12. ~Freeing(c)
    <3> SUFFICES ASSUME NEW u \in Threads, NEW p \in 1 .. D(u), A(u, p).at = "free", A(u, p).obj = c PROVE FALSE
      BY DEF Freeing, FreesIt
    <3>1. ~(u = t /\ p = n)
      BY <2>2
    <3>2. u # t \/ p <= n - 1
      BY <3>1
    <3> QED
      BY <2>2, <2>3, <3>2, OthersElsewhere
  <2>13. ValuesKept' /\ ValuesPending'
    BY <2>1, <2>9, PendingInherited DEF ValuesOK, ValuesKept
  <2>14. \/ UNCHANGED cleaned /\ props[c] = 0
         \/ props[c] # 0 /\ cleaned' = [cleaned EXCEPT ![props[c]] = @ + 1]
    BY <1>14, <2>3, NukeDoes
  <2>15. \A v \in Values : cleaned'[v] = IF v = props[c] THEN cleaned[v] + 1 ELSE cleaned[v]
    <3>1. CASE UNCHANGED cleaned /\ props[c] = 0
      BY <1>h, <3>1
    <3>2. CASE props[c] # 0 /\ cleaned' = [cleaned EXCEPT ![props[c]] = @ + 1]
      BY <3>2 DEF Typed
    <3> QED
      BY <2>14, <3>1, <3>2
  <2>16. ASSUME NEW v \in Values
         PROVE  cleaned'[v] = IF v \in accepted' /\ \A o \in Objects : props'[o] = v => Freeing(o)' THEN 1 ELSE 0
    <3>1. cleaned[v] = IF v \in accepted /\ \A o \in Objects : props[o] = v => Freeing(o) THEN 1 ELSE 0
      BY DEF ValuesOK, CleanedWhenGone
    <3>2. CASE v = props[c]
      <4>1. cleaned[v] = 0
        BY <2>12, <3>1, <3>2
      <4>2. v \in accepted /\ \A o \in Objects : props[o] = v => o = c
        BY <1>h, <3>2 DEF ValuesOK, ValuesKept
      <4>3. cleaned'[v] = 1
        BY <2>15, <3>2, <4>1
      <4> QED
        BY <2>1, <2>11, <4>2, <4>3
    <3>3. CASE v # props[c]
      <4>1. (\A o \in Objects : props'[o] = v => Freeing(o)') <=> (\A o \in Objects : props[o] = v => Freeing(o))
        BY <2>1, <2>10, <3>3
      <4> QED
        BY <2>1, <2>15, <3>1, <3>3, <4>1
    <3> QED
      BY <3>2, <3>3
  <2>17. CleanedWhenGone'
    BY <2>16 DEF CleanedWhenGone
  <2> QED
    BY <2>13, <2>17 DEF ValuesOK
<1>15. ASSUME NEW id \in IDs, CallSet(t, id) PROVE ValuesOK'
  <2>1. UNCHANGED <<props, accepted, cleaned>>
    BY <1>15 DEF CallSet
  <2>2. CASE Pushes(t, n, NewFrame("set", "find", id, 0))
    <3>1. PICK f : f = NewFrame("set", "find", id, 0)
      OBVIOUS
    <3>2. f \in Frames /\ f.at = "find" /\ f.v = 0
      BY <3>1, NewFrameType, PropertiesAssumption DEF NewFrame
    <3> QED
      BY <1>b, <2>1, <2>2, <3>1, <3>2
  <2>3. CASE given < MaxValues /\ given' = given + 1 /\ Pushes(t, n, NewFrame("set", "find", id, given + 1))
    <3>1. PICK new \in Values : new = given + 1
      BY <1>0, <2>3, PropertiesAssumption DEF Values
    <3>2. PICK f : f = NewFrame("set", "find", id, new)
      OBVIOUS
    <3>3. new \in 0 .. MaxValues
      BY PropertiesAssumption DEF Values
    <3>4. f \in Frames /\ f.at = "find" /\ f.v = new /\ f.op = "set"
      BY <3>2, <3>3, NewFrameType, PropertiesAssumption DEF NewFrame
    <3>5. Around(t, n) /\ D(t)' = n + 1 /\ A(t, n + 1)' = f /\ Pushes(t, n, f)
      BY <2>3, <3>1, <3>2 DEF Pushes
    <3>6. new \notin accepted
      BY <1>0, <3>1 DEF Typed
    <3>7. ASSUME NEW u \in Threads, NEW q \in 1 .. D(u) PROVE ~Sets(A(u, q), new)
      <4>1. A(u, q).op = "set" => A(u, q).v <= given
        BY DEF AllGood, Good, Pending
      <4> QED
        BY <1>0, <3>1, <4>1 DEF Sets
    <3>8. ASSUME NEW u \in Threads, NEW q \in 1 .. D(u)', ~(u = t /\ q = n + 1)
          PROVE  q \in 1 .. D(u) /\ \A v : Sets(A(u, q)', v) <=> Sets(A(u, q), v)
      <4>1. u # t \/ (q <= n /\ q \in 1 .. D(u))
        BY <3>5, <3>8
      <4>2. q \in 1 .. D(u) /\ Same(A(u, q)', A(u, q))
        BY <1>0, <3>5, <4>1, WasKept
      <4> QED
        BY <4>2 DEF Same, Sets
    <3>9. ValuesPending'
      <4> SUFFICES ASSUME NEW v \in Values, NEW w \in Threads, NEW p \in 1 .. D(w)', Sets(A(w, p)', v)
                   PROVE  /\ v \notin accepted'
                          /\ \A u \in Threads : \A q \in 1 .. D(u)' : Sets(A(u, q)', v) => u = w /\ q = p
        BY DEF ValuesPending, Sets
      <4>1. CASE w = t /\ p = n + 1
        <5>1. v = new
          BY <3>4, <3>5, <4>1 DEF Sets
        <5> QED
          BY <2>1, <3>6, <3>7, <3>8, <4>1, <5>1
      <4>2. CASE ~(w = t /\ p = n + 1)
        <5>1. p \in 1 .. D(w) /\ Sets(A(w, p), v)
          BY <3>8, <4>2
        <5>2. v # new /\ v \notin accepted
          BY <3>7, <5>1 DEF ValuesOK, ValuesPending
        <5>3. ASSUME NEW u \in Threads, NEW q \in 1 .. D(u)', Sets(A(u, q)', v) PROVE u = w /\ q = p
          <6>1. ~(u = t /\ q = n + 1)
            BY <3>4, <3>5, <5>2, <5>3 DEF Sets
          <6>2. q \in 1 .. D(u) /\ Sets(A(u, q), v)
            BY <3>8, <5>3, <6>1
          <6> QED
            BY <5>1, <6>2 DEF ValuesOK, ValuesPending
        <5> QED
          BY <2>1, <5>2, <5>3
      <4> QED
        BY <4>1, <4>2
    <3>10. \A o \in Objects : Freeing(o)' <=> Freeing(o)
      BY <1>0, <3>4, <3>5, FreeingSame DEF FreesIt
    <3>11. ValuesKept'
      BY <2>1 DEF ValuesOK, ValuesKept
    <3>12. ASSUME NEW v \in Values
           PROVE  cleaned'[v] = IF v \in accepted' /\ \A o \in Objects : props'[o] = v => Freeing(o)' THEN 1 ELSE 0
      BY <2>1, <3>10 DEF ValuesOK, CleanedWhenGone
    <3> QED
      BY <3>9, <3>11, <3>12 DEF ValuesOK, CleanedWhenGone
  <2> QED
    BY <1>15, <2>2, <2>3, CallSetDoes
<1> QED
  BY <1>1, <1>2, <1>3, <1>4, <1>5, <1>6, <1>7, <1>8, <1>9, <1>10, <1>11, <1>12, <1>13, <1>14, <1>15,
     <1>16, <1>17, <1>18 DEF NextOf, Step

-----------------------------------------------------------------------------
(* The inductive invariant.                                                *)
IInv ==
  /\ Typed /\ Table /\ Nested /\ Outer /\ Links /\ Destroying /\ Quit /\ SparesGlobal
  /\ Locks /\ FoundByID /\ AllGood /\ ValuesOK
(* What it needs besides for NoDeadlock, under OwnOnly.                    *)
OwnGroups == WhileFreeing /\ SameGroup /\ HeldGroup

(* At first there are no calls.                                            *)
LEMMA InitEmpty ==
  ASSUME Init PROVE \A t \in Threads : D(t) = 0 /\ \A p \in 1 .. D(t) : FALSE
  BY DEF Init, D

(* The invariant holds at first.                                           *)
LEMMA InitIInv == Init => IInv /\ OwnGroups
<1> SUFFICES ASSUME Init PROVE IInv /\ OwnGroups
  OBVIOUS
<1>1. \A t \in Threads : D(t) = 0 /\ \A p \in 1 .. D(t) : FALSE
  BY InitEmpty
<1>2. Free \in LockStates
  BY DEF Free, LockStates
<1>3. Typed
  <2>1. Stacked
    BY DEF Init, Stacked
  <2>2. made \in 1 .. MaxObjects /\ given \in 0 .. MaxValues /\ 0 \in 0 .. MaxObjects /\ 0 \in 0 .. MaxValues /\ 1 \in IDs
    BY PropertiesAssumption DEF Init, IDs
  <2>3. freed \subseteq 1 .. made /\ accepted \subseteq 1 .. given
    BY DEF Init
  <2> QED
    BY <1>2, <2>1, <2>2, <2>3 DEF Init, Typed
<1>4. Table
  <2>1. 1 \in IDs
    BY PropertiesAssumption DEF IDs
  <2> QED
    BY <2>1 DEF Init, Table, Global
<1>5. Nested /\ Outer /\ Destroying /\ Quit /\ SparesGlobal /\ AllGood /\ OwnGroups
  <2>1. \A t \in Threads : held[t] = 0
    BY DEF Init
  <2>2. ~quitting
    BY DEF Init
  <2> QED
    BY <1>1, <2>1, <2>2 DEF Nested, Outer, Destroying, Quit, SparesGlobal, AllGood, OwnGroups,
       WhileFreeing, SameGroup,
       HeldGroup
<1>6. Links
  <2>1. \A t \in Threads : held[t] = 0
    BY DEF Init
  <2> QED
    BY <1>1, <2>1 DEF Links, HeldLinked
<1>7. Locks
  <2> SUFFICES ASSUME NEW t \in Threads, NEW o \in 0 .. MaxObjects PROVE Depth(LockOf(o), t) = Count(t, o) + Extra(t, o)
    BY DEF Locks
  <2>1. LockOf(o) = Free
    BY DEF LockOf, Init, Objects
  <2>2. Depth(LockOf(o), t) = 0
    BY <2>1 DEF Depth, Free
  <2>3. {p \in 1 .. D(t) : Holding(A(t, p)) = o} = {}
    BY <1>1
  <2>4. Count(t, o) = 0
    BY <2>3, FS_EmptySet DEF Count
  <2>5. Extra(t, o) = 0
    BY DEF Extra, Init
  <2> QED
    BY <2>2, <2>4, <2>5
<1>8. FoundByID
  BY DEF Init, FoundByID, Global
<1>9. ValuesOK
  <2>1. ValuesKept /\ ValuesPending
    BY <1>1 DEF Init, ValuesKept, ValuesPending
  <2>2. CleanedWhenGone
    BY DEF Init, CleanedWhenGone
  <2> QED
    BY <2>1, <2>2 DEF ValuesOK
<1> QED
  BY <1>3, <1>4, <1>5, <1>6, <1>7, <1>8, <1>9 DEF IInv

(* Next, by threads.                                                       *)
LEMMA NextIs == Next <=> \E t \in Threads : NextOf(t)
  BY DEF Next, NextOf

(* A step that changes nothing keeps the invariant.                        *)
LEMMA Stutter == ASSUME IInv, UNCHANGED vars PROVE IInv' /\ (OwnGroups => OwnGroups')
<1>0. UNCHANGED <<SDL_properties, SDL_properties_lock, SDL_last_properties_id, made, idOf, props, lock, stack, freed,
                  held, given, accepted, cleaned, quitting>>
  BY DEF vars, table, values
<1>1. \A t : D(t)' = D(t) /\ \A p : A(t, p)' = A(t, p)
  BY <1>0 DEF D, A
<1>2. Typed' /\ Table'
  BY <1>0 DEF IInv, Typed, Table, Stacked, LockStates
<1>3. Nested' /\ Outer'
  BY <1>0, <1>1 DEF IInv, Nested, Outer
<1>4. HeldLinked'
  BY <1>0 DEF IInv, Links, HeldLinked
<1>5. AllGood'
  <2>1. ASSUME NEW t \in Threads, NEW p \in 1 .. D(t) PROVE Good(A(t, p))'
    <3>1. Good(A(t, p))
      BY DEF IInv, AllGood
    <3> QED
      BY <1>0, <1>1, <3>1 DEF Good, FrameLinked, Linked, Pending, Enumerated, Present
  <2> QED
    BY <1>1, <2>1 DEF AllGood
<1>6. Links'
  BY <1>4, <1>5 DEF Links, AllGood, Good
<1>7. Destroying'
  BY <1>0, <1>1 DEF IInv, Destroying
<1>8. Quit' /\ SparesGlobal'
  BY <1>0, <1>1 DEF IInv, Quit, SparesGlobal
<1>9. Locks'
  BY <1>0, <1>1 DEF IInv, Locks, Depth, LockOf, Count, Extra
<1>10. FoundByID'
  BY <1>0 DEF IInv, FoundByID, BeingDestroyed
<1>11. ValuesOK'
  BY <1>0, <1>1 DEF IInv, ValuesOK, ValuesKept, ValuesPending, CleanedWhenGone, Freeing, Sets,
     FreesIt
<1>12. OwnGroups => OwnGroups'
  BY <1>0, <1>1 DEF OwnGroups, WhileFreeing, SameGroup, HeldGroup, Frees
<1> QED
  BY <1>2, <1>3, <1>5, <1>6, <1>7, <1>8, <1>9, <1>10, <1>11, <1>12 DEF IInv

(* Every step keeps the invariant,                                         *)
LEMMA NextIInv ==
  ASSUME NoQuitCalls, IInv, NEW t \in Threads, NextOf(t) PROVE IInv'
<1>0. Typed /\ Table /\ Nested /\ Outer /\ Links /\ Destroying /\ Quit /\ SparesGlobal /\ Locks /\ FoundByID /\ AllGood
      /\ ValuesOK
  BY DEF IInv
<1>1. Stacked
  BY <1>0 DEF Typed
<1>2. PICK n \in Nat : n = D(t)
  BY <1>1, DepthType
<1>3. Move(t, n) /\ Stacked'
  BY <1>0, <1>2, NextMoves
<1>4. AllPending
  BY <1>0 DEF AllGood, Good, AllPending
<1>5. Typed'
  BY <1>0, <1>2, <1>4, TypedStep
<1>6. Table'
  BY <1>0, <1>2, TableStep
<1>7. Nested'
  BY <1>0, <1>1, <1>2, <1>3, NestedStep
<1>8. Outer'
  BY <1>0, <1>1, <1>2, <1>3, OuterStep DEF Links
<1>9. Quit'
  BY <1>0, <1>2, <1>3, QuitStep
<1>10. HeldLocked
  BY <1>0, HeldIsLocked
<1>11. Destroying'
  BY <1>0, <1>2, <1>3, <1>10, DestroyingStep
<1>12. SparesGlobal'
  BY <1>0, <1>2, <1>3, SparesGlobalStep
<1>13. Locks'
  BY <1>0, <1>2, <1>3, LocksStep
<1>14. FoundByID'
  BY <1>0, <1>2, FoundStep
<1>15. AllGood'
  BY <1>0, <1>2, <1>5, GoodAllStep
<1>16. HeldLinked'
  BY <1>0, <1>2, <1>3, HeldLinkedStep
<1>17. Links'
  BY <1>15, <1>16 DEF Links, AllGood, Good
<1>18. ValuesOK'
  BY <1>0, <1>2, <1>5, ValuesStep
<1> QED
  BY <1>5, <1>6, <1>7, <1>8, <1>9, <1>11, <1>12, <1>13, <1>14, <1>15, <1>17, <1>18 DEF IInv

(* ... and OwnGroups.                                                      *)
LEMMA NextOwnGroups ==
  ASSUME NoQuitCalls, OwnOnly, IInv, OwnGroups, NEW t \in Threads, NextOf(t) PROVE OwnGroups'
<1>0. Typed /\ Table /\ Nested /\ Outer /\ Links /\ Quit /\ WhileFreeing /\ SameGroup /\ HeldGroup
  BY DEF IInv, OwnGroups
<1>1. Stacked
  BY <1>0 DEF Typed
<1>2. PICK n \in Nat : n = D(t)
  BY <1>1, DepthType
<1>3. Move(t, n) /\ Stacked'
  BY <1>0, <1>2, NextMoves
<1>4. WhileFreeing'
  BY <1>0, <1>2, <1>3, WhileFreeingStep
<1>5. SameGroup' /\ HeldGroup'
  BY <1>0, <1>2, <1>3, GroupStep
<1> QED
  BY <1>4, <1>5 DEF OwnGroups

(* The invariant implies FoundUntilFreed.                                  *)
LEMMA FoundUntilFreedHolds == ASSUME IInv PROVE FoundUntilFreed
<1>0. Stacked /\ AllGood /\ FoundByID
  BY DEF IInv, Typed
<1>1. ASSUME NEW t \in Threads, NEW i \in DOMAIN stack[t]
      PROVE  stack[t][i].obj \notin freed /\ (stack[t][i].at = "enumerated" => props[stack[t][i].obj] = stack[t][i].v)
  <2>1. PICK p \in 1 .. D(t) : A(t, p) = stack[t][i]
    BY <1>0, Positions
  <2>2. Good(A(t, p))
    BY <1>0 DEF AllGood
  <2> QED
    BY <2>1, <2>2 DEF Good, FrameLinked, Enumerated
<1> QED
  BY <1>0, <1>1 DEF FoundUntilFreed, NoUseAfterFree, EnumeratedStay

(* The invariant implies CleanedOnce.                                      *)
LEMMA CleanedOnceHolds == ASSUME IInv PROVE CleanedOnce
<1>0. Typed /\ Stacked /\ ValuesOK
  BY DEF IInv, Typed
<1> SUFFICES ASSUME NEW v \in Values
             PROVE  \/ cleaned[v] = IF v \in accepted \ Range(props) THEN 1 ELSE 0
                    \/ cleaned[v] = 1 /\ \E o \in Objects : props[o] = v /\ BeingDestroyed(o)
  BY DEF CleanedOnce
<1>1. cleaned[v] = IF v \in accepted /\ \A o \in Objects : props[o] = v => Freeing(o) THEN 1 ELSE 0
  BY <1>0 DEF ValuesOK, CleanedWhenGone
<1>2. v \in Range(props) <=> \E o \in Objects : props[o] = v
  BY <1>0 DEF Range, Typed
<1>3. ASSUME NEW o \in Objects, Freeing(o) PROVE BeingDestroyed(o)
  <2>1. PICK u \in Threads : \E p \in 1 .. D(u) : A(u, p).at = "free" /\ A(u, p).obj = o
    BY <1>3 DEF Freeing, FreesIt
  <2>2. PICK p \in 1 .. D(u) : A(u, p).at = "free" /\ A(u, p).obj = o
    BY <2>1
  <2>3. A(u, p).op \in {"destroy", "nuke"}
    BY <1>0, <2>2, FrameType, FieldsOf DEF FrameOK, Records, Using
  <2> QED
    BY <1>0, <2>2, <2>3, BeingDestroyedIs
<1> QED
  BY <1>1, <1>2, <1>3

(* The invariant implies TypeOK.                                           *)
LEMMA TypeHolds == ASSUME IInv PROVE TypeOK
<1> USE DEF IInv
<1>1. Range(SDL_properties) \subseteq 1 .. made /\ DOMAIN SDL_properties \subseteq IDs
  BY DEF Table, Range
<1>2. ASSUME NEW l \in LockStates
      PROVE  /\ l.owner \subseteq Threads /\ Cardinality(l.owner) <= 1 /\ l.depth \in Nat
             /\ (l.owner = {}) <=> (l.depth = 0)
  <2>1. CASE l = Free
    BY <2>1, FS_EmptySet DEF Free
  <2>2. CASE \E t \in Threads : l.owner = {t} /\ l.depth > 0
    <3> PICK t \in Threads : l.owner = {t} /\ l.depth > 0
      BY <2>2
    <3>1. Cardinality({t}) = 1
      BY FS_Singleton
    <3> QED
      BY <1>2, <3>1 DEF LockStates
  <2> QED
    BY <1>2, <2>1, <2>2 DEF LockStates
<1>3. {SDL_properties_lock} \cup Range(lock) \subseteq LockStates
  BY DEF Typed, Range
<1>4. held \in [Threads -> 0 .. made]
  <2>1. \A t \in Threads : held[t] \in 0 .. made
    BY DEF Typed, Table, Links, HeldLinked
  <2> QED
    BY <2>1 DEF Typed
<1> QED
  BY <1>1, <1>2, <1>3, <1>4 DEF TypeOK, Typed

(* The invariant is one.                                                   *)
LEMMA IInvAlways == ASSUME NoQuitCalls PROVE Spec => []IInv
<1>1. Init => IInv
  BY InitIInv
<1>2. IInv /\ [Next]_vars => IInv'
  BY NextIs, NextIInv, Stutter
<1> QED
  BY <1>1, <1>2, PTL DEF Spec

(* The variables keep their types: the table leads to groups that were     *)
(* made, and a lock has an owner exactly when it has a depth.              *)
THEOREM TypeCorrect == ASSUME NoQuitCalls PROVE Spec => []TypeOK
  BY IInvAlways, TypeHolds, PTL

(* What an ID, a call or an enumeration leads to is there until it is      *)
(* destroyed: nobody uses a group that SDL_FreeProperties has freed, a     *)
(* group is found under the ID that SDL_CreateProperties returned, and an  *)
(* item that SDL_EnumerateProperties has shown is there when it goes on.   *)
THEOREM FoundAlways == ASSUME NoQuitCalls PROVE Spec => []FoundUntilFreed
<1>1. IInv => FoundUntilFreed
  BY FoundUntilFreedHolds
<1> QED
  BY <1>1, IInvAlways, PTL

(* A value's cleanup function is called once, when the value goes, whether *)
(* SDL_PrivateSetProperty replaces it, its group is destroyed or SDL_Quit  *)
(* sweeps it, and never for a value that was not kept.                     *)
THEOREM CleanedOnceAlways == ASSUME NoQuitCalls PROVE Spec => []CleanedOnce
<1>1. IInv => CleanedOnce
  BY CleanedOnceHolds
<1> QED
  BY <1>1, IInvAlways, PTL

(* Between SDL_LockProperties and SDL_UnlockProperties no other thread     *)
(* changes the group.                                                      *)
THEOREM LocksProtect == ASSUME NoQuitCalls PROVE Spec => LockProtects
<1>1. IInv /\ [Next]_vars => [LockProtected]_vars
  <2> SUFFICES ASSUME IInv, NEW t \in Threads, NextOf(t) PROVE LockProtected
    BY NextIs
  <2>0. Typed /\ Table /\ Nested /\ Links /\ Locks /\ Quit /\ Stacked
    BY DEF IInv, Typed
  <2>1. PICK n \in Nat : n = D(t)
    BY <2>0, DepthType
  <2>2. Stacked'
    BY <2>0, <2>1, NextMoves
  <2> QED
    BY <2>0, <2>1, <2>2, LockProtectsStep
<1>2. LockProtects <=> [][LockProtected]_vars
  BY DEF LockProtects, LockProtected
<1> QED
  BY <1>1, <1>2, IInvAlways, PTL DEF Spec

(* No threads wait for each other's locks, the table's and the groups', if *)
(* cleanup functions keep to their own group.                              *)
THEOREM NoDeadlockAlways == ASSUME NoQuitCalls, OwnOnly PROVE Spec => []NoDeadlock
<1>1. Init => IInv /\ OwnGroups
  BY InitIInv
<1>2. IInv /\ OwnGroups /\ [Next]_vars => OwnGroups'
  BY NextIs, NextOwnGroups, Stutter
<1>3. IInv /\ OwnGroups => NoDeadlock
  BY NoDeadlockHolds DEF IInv, OwnGroups
<1> QED
  BY <1>1, <1>2, <1>3, IInvAlways, PTL DEF Spec
=============================================================================
