---------------------------- MODULE TimerProofs ----------------------------
(***************************************************************************)
(* Proofs about the timer thread, for any threads, timers and intervals,   *)
(* and any bounds of IDs and time: its semaphore; its lists, what owns     *)
(* each structure, and the order of dispatch; removal; shutdown.  And, at  *)
(* the end, about SDL_Thread, which the timer thread is one of.            *)
(***************************************************************************)
EXTENDS Timer, Thread, FiniteSetTheorems, WellFoundedInduction, SequenceTheorems, TLAPS

Posting == {a \in Actors : pc[a] = "add_post"}

(* From the moment the thread takes the pending list until it has taken    *)
(* the semaphore again, there is a post, done or to be done, for each      *)
(* timer that has been queued since.  When it starts, nothing is posted.   *)
PostsCover ==
  th.pc \notin {"none", "maintain"} => Len(pending) <= sem + Cardinality(Posting)

IsSequence(s) == \E T : s \in Seq(T)

IInv ==
  /\ sem \in Nat
  /\ pc = [a \in Actors |-> pc[a]]
  /\ IsSequence(pending)
  /\ PostsCover

-----------------------------------------------------------------------------
LEMMA InitIInv == Init => IInv
<1> SUFFICES ASSUME Init PROVE IInv
  OBVIOUS
<1>1. pending \in Seq({}) /\ sem \in Nat /\ th.pc = "none"
      /\ pc = [a \in Actors |-> pc[a]]
  BY DEF Init, NoThread
<1>2. QED
  BY <1>1 DEF IInv, IsSequence, PostsCover

(* The threads that are about to post are finitely many.                   *)
LEMMA PostingFinite == IsFiniteSet(Actors) /\ IsFiniteSet(Posting) /\ Cardinality(Posting) \in Nat
<1>1. IsFiniteSet(Actors)
  BY TimerAssumption, FS_AddElement DEF Actors
<1>2. IsFiniteSet(Posting)
  BY <1>1, FS_Subset DEF Posting
<1>3. QED
  BY <1>1, <1>2, FS_CardinalityType

(* An actor that is not about to post moves, and is not about to post.     *)
LEMMA OtherMove ==
  ASSUME IInv, NEW a \in Actors, NEW l, Goto(a, l), pc[a] # "add_post", l # "add_post"
  PROVE  Posting' = Posting /\ pc' = [b \in Actors |-> pc'[b]]
BY DEF Goto, Posting, IInv

(* What only moves actors that do not post, and queues nothing, keeps the  *)
(* invariant, unless the semaphore or the thread has to do with it.        *)
LEMMA Unconcerned ==
  ASSUME IInv, pending' = pending, Posting' = Posting, pc' = [b \in Actors |-> pc'[b]],
         \/ sem' = sem /\ (th'.pc \notin {"none", "maintain"} => th.pc \notin {"none", "maintain"})
         \/ sem' \in Nat /\ th'.pc \in {"none", "maintain"}
  PROVE  IInv'
BY DEF IInv, IsSequence, PostsCover

LEMMA StepKeepsIInv ==
  ASSUME IInv, NEW a \in Actors, Step(a)
  PROVE  IInv'
<1> USE DEF control, lists
<1>0. UNCHANGED pc => Posting' = Posting /\ pc' = [b \in Actors |-> pc'[b]]
  BY DEF Posting, IInv
<1>1. CASE BeginAdd(a)
  <2>1. /\ pending' = pending
        /\ \/ sem' = sem /\ th' = th
           \/ sem' \in Nat /\ th'.pc = "maintain"
    <3>1. pending' = pending /\ InitTimers
      BY <1>1 DEF BeginAdd
    <3>2. QED
      BY <3>1 DEF InitTimers, NoThread
  <2>2. Posting' = Posting /\ pc' = [b \in Actors |-> pc'[b]]
    BY <1>0, <1>1, OtherMove DEF BeginAdd, MayCall
  <2>3. QED
    BY <2>1, <2>2, Unconcerned
<1>2. CASE AddFill(a)
  BY <1>2, OtherMove, Unconcerned DEF AddFill
<1>3. CASE AddQueue(a)
  <2>1. PICK T : pending \in Seq(T)
    BY DEF IInv, IsSequence
  <2>2. /\ <<hold[a]>> \o pending \in Seq(T \cup {hold[a]})
        /\ Len(<<hold[a]>> \o pending) = Len(pending) + 1
    BY <2>1
  <2>3. IsSequence(pending) /\ IsSequence(<<hold[a]>> \o pending) /\ Len(pending) \in Nat
    BY <2>1, <2>2 DEF IsSequence
  <2>4. Posting' = Posting \cup {a} /\ a \notin Posting /\ pc' = [b \in Actors |-> pc'[b]]
    BY <1>3 DEF AddQueue, Goto, Posting, IInv
  <2>5. Cardinality(Posting') = Cardinality(Posting) + 1 /\ Cardinality(Posting) \in Nat
    BY <2>4, PostingFinite, FS_AddElement
  <2>6. sem' = sem /\ th' = th /\ pending' = <<hold[a]>> \o pending
    BY <1>3 DEF AddQueue
  <2>7. QED
    BY <2>2, <2>3, <2>4, <2>5, <2>6 DEF IInv, PostsCover
<1>4. CASE AddPost(a)
  <2>1. Posting' = Posting \ {a} /\ a \in Posting /\ pc' = [b \in Actors |-> pc'[b]]
    BY <1>4 DEF AddPost, Goto, Posting, IInv
  <2>2. Cardinality(Posting') = Cardinality(Posting) - 1 /\ Cardinality(Posting) \in Nat
    BY <2>1, PostingFinite, FS_RemoveElement
  <2>3. sem' = sem + 1 /\ th' = th /\ pending' = pending
    BY <1>4 DEF AddPost, PostSem
  <2>4. QED
    BY <2>1, <2>2, <2>3 DEF IInv, PostsCover, IsSequence
<1>5. CASE AddReturn(a)
  BY <1>5, OtherMove, Unconcerned DEF AddReturn
<1>6. ASSUME NEW id \in IDs, RemoveFind(a, id) PROVE IInv'
  BY <1>6, OtherMove, Unconcerned DEF RemoveFind, MayCall, AfterRemove
<1>7. CASE RemoveTest(a)
  BY <1>7, OtherMove, Unconcerned DEF RemoveTest, FreeEntry, AfterRemove
<1>8. CASE RemoveSet(a)
  BY <1>8, OtherMove, Unconcerned DEF RemoveSet, FreeEntry, AfterRemove
<1>9. QED
  BY <1>1, <1>2, <1>3, <1>4, <1>5, <1>6, <1>7, <1>8 DEF Step

LEMMA ThreadKeepsIInv ==
  ASSUME IInv, Thread
  PROVE  IInv'
<1> USE DEF control, lists, locals
<1>0. UNCHANGED pc => Posting' = Posting /\ pc' = [b \in Actors |-> pc'[b]]
  BY DEF Posting, IInv
<1>1. CASE ThMaintain
  <2>1. pending' = <<>> /\ sem' = sem /\ UNCHANGED pc
    BY <1>1 DEF ThMaintain, TakePending
  <2>2. Len(pending') = 0 /\ IsSequence(<<>>)
    <3>1. <<>> \in Seq({})
      OBVIOUS
    <3>2. QED
      BY <2>1, <3>1 DEF IsSequence
  <2>3. QED
    BY <1>0, <2>1, <2>2, PostingFinite DEF IInv, PostsCover
<1>2. CASE ThCheck
  BY <1>0, <1>2, Unconcerned DEF ThCheck
<1>3. CASE ThNothingDue
  BY <1>0, <1>3, Unconcerned DEF ThNothingDue
<1>4. CASE ThDropCanceled
  BY <1>0, <1>4, Unconcerned DEF ThDropCanceled
<1>5. CASE ThDispatch
  BY <1>0, <1>5, Unconcerned DEF ThDispatch, HeadDue
<1>6. CASE ThReturn
  BY <1>0, <1>6, Unconcerned DEF ThReturn
<1>7. CASE ThAdjust
  BY <1>0, <1>7, Unconcerned DEF ThAdjust
<1>8. CASE ThSleep
  BY <1>0, <1>8, Unconcerned DEF ThSleep
<1>9. CASE ThWake
  <2>1. sem' \in Nat /\ th'.pc = "maintain" /\ pending' = pending /\ UNCHANGED pc
    BY <1>9 DEF ThWake, NoThread, IInv
  <2>2. QED
    BY <1>0, <2>1, Unconcerned
<1>10. QED
  BY <1>1, <1>2, <1>3, <1>4, <1>5, <1>6, <1>7, <1>8, <1>9 DEF Thread

LEMMA NextKeepsIInv == IInv /\ [Next]_vars => IInv'
<1> SUFFICES ASSUME IInv, [Next]_vars PROVE IInv'
  OBVIOUS
<1> USE TimerAssumption DEF control, lists, locals
<1>0. UNCHANGED pc => Posting' = Posting /\ pc' = [b \in Actors |-> pc'[b]]
  BY DEF Posting, IInv
<1>1. CASE InitSubSystem
  <2>1. /\ pending' = pending /\ UNCHANGED pc
        /\ \/ sem' = sem /\ th' = th
           \/ sem' \in Nat /\ th'.pc = "maintain"
    BY <1>1 DEF InitSubSystem, InitTimers, NoThread
  <2>2. QED
    BY <1>0, <2>1, Unconcerned
<1>2. CASE BeginQuit
  BY <1>2, OtherMove, Unconcerned DEF BeginQuit, MayCall, Actors
<1>3. CASE QuitPost
  <2>1. Posting' = Posting /\ pc' = [b \in Actors |-> pc'[b]]
    BY <1>3, OtherMove DEF QuitPost, Actors
  <2>2. sem' = sem + 1 /\ th' = th /\ pending' = pending
    BY <1>3 DEF QuitPost, PostSem
  <2>3. QED
    BY <2>1, <2>2, PostingFinite DEF IInv, PostsCover, IsSequence
<1>4. CASE QuitJoin
  <2>1. Posting' = Posting /\ pc' = [b \in Actors |-> pc'[b]]
    BY <1>4, OtherMove DEF QuitJoin, Actors
  <2>2. sem' = 0 /\ th'.pc = "none" /\ pending' = pending
    BY <1>4 DEF QuitJoin, NoThread
  <2>3. QED
    BY <2>1, <2>2, Unconcerned
<1>5. CASE Tick
  BY <1>0, <1>5, Unconcerned DEF Tick
<1>6. CASE UNCHANGED vars
  BY <1>0, <1>6, Unconcerned DEF vars
<1>7. QED
  BY <1>1, <1>2, <1>3, <1>4, <1>5, <1>6, StepKeepsIInv, ThreadKeepsIInv DEF Next

(* SDL_AddTimer posts after it queues, and the thread takes the list only  *)
(* after the semaphore: while it waits, every timer in the list has a post *)
(* that will wake it, however many threads and callbacks add timers.       *)
THEOREM WakeupNotLost == Spec => []NoLostWakeup
<1>1. IInv => NoLostWakeup
  BY DEF IInv, PostsCover, NoLostWakeup, Posting
<1>2. QED
  BY InitIInv, NextKeepsIInv, <1>1, PTL DEF Spec

-----------------------------------------------------------------------------
(* A set that has 0 and with each number the next one has them all: if     *)
(* not, the least number outside of it would refute that.                  *)
LEMMA Induction ==
  ASSUME NEW T, 0 \in T, \A n \in Nat : n \in T => n + 1 \in T
  PROVE  Nat \subseteq T
<1>1. SUFFICES ASSUME Nat \ T # {} PROVE FALSE
  OBVIOUS
<1>2. PICK m \in Nat \ T : \A y \in Nat \ T : ~ (<<y, m>> \in OpToRel(<, Nat))
  BY <1>1, NatLessThanWellFounded, WFMin
<1>3. m \in Nat /\ m \notin T
  OBVIOUS
<1>4. m # 0 /\ m - 1 \in Nat
  BY <1>3
<1>7. m - 1 \notin T
  <2>1. (m - 1) + 1 = m
    BY <1>3
  <2>2. QED
  BY <1>3, <1>4, <2>1
<1>5. <<m - 1, m>> \in OpToRel(<, Nat)
  BY <1>3, <1>4 DEF OpToRel
<1>6. QED
  BY <1>2, <1>4, <1>5, <1>7

FoldEq(f, base, seq, n) ==
  f = [s \in SUBSET (1..n) |-> IF s = {} THEN base
                               ELSE InsertTimer(f[s \ {Max(s)}], seq[Max(s)])]

(* What TakePending computes.                                              *)
Inserted(base, seq) == FoldLeft(InsertTimer, base, seq)

(* The fold of the library, unfolded: a function on the parts of 1..n.     *)
LEMMA FoldIs ==
  ASSUME NEW base, NEW seq, NEW n \in Nat, DOMAIN seq = 1..n
  PROVE  Inserted(base, seq) = (CHOOSE f : FoldEq(f, base, seq, n))[1..n]
BY DEF Inserted, FoldLeft, MapThenFoldSet, FoldEq

(* The greatest member of a set is its Max.                                *)
LEMMA MaxIs ==
  ASSUME NEW s, NEW m \in s, s \subseteq Nat, \A x \in s : x <= m
  PROVE  Max(s) = m
<1>1. \A x \in s : (\A y \in s : x >= y) => x = m
  BY Z3
<1>2. m \in s /\ \A y \in s : m >= y
  BY Z3
<1>3. QED
  BY <1>1, <1>2 DEF Max

(* A part of 1..n that is not empty has a greatest member.                 *)
LEMMA MaxOfPart ==
  ASSUME NEW n \in Nat, NEW s \in SUBSET (1..n), s # {}
  PROVE  Max(s) \in s /\ \A x \in s : x <= Max(s)
<1>1. ASSUME NEW k \in Nat, \A t \in SUBSET (1..k) : t # {} => \E m \in t : \A x \in t : x <= m
      PROVE \A t \in SUBSET (1..k+1) : t # {} => \E m \in t : \A x \in t : x <= m
  <2>1. TAKE t \in SUBSET (1..k+1)
  <2>2. CASE k + 1 \in t
    <3>1. \A x \in t : x <= k + 1
      OBVIOUS
    <3>2. QED
      BY <2>2, <3>1
  <2>3. CASE k + 1 \notin t
    <3>1. t \in SUBSET (1..k)
      BY <2>3
    <3>2. QED
      BY <1>1, <3>1
  <2>4. QED
    BY <2>2, <2>3
<1> DEFINE T == {k \in Nat : \A t \in SUBSET (1..k) : t # {} => \E m \in t : \A x \in t : x <= m}
<1>2. 0 \in T
  <2>1. 1..0 = {}
    OBVIOUS
  <2>2. \A t \in SUBSET (1..0) : t = {}
    BY <2>1
  <2>3. QED
    BY <2>2
<1>3. \A k \in Nat : k \in T => k + 1 \in T
  BY <1>1
<1>4. Nat \subseteq T
  <2> HIDE DEF T
  <2> QED BY <1>2, <1>3, Induction
<1>5. PICK m \in s : \A x \in s : x <= m
  BY <1>4
<1>6. Max(s) = m
  <2>1. s \subseteq Nat
    OBVIOUS
  <2>2. QED
    BY <1>5, <2>1, MaxIs
<1>7. QED
  BY <1>5, <1>6

(* There is a function that satisfies the recursion of the fold.           *)
LEMMA FoldExists ==
  ASSUME NEW base, NEW seq, NEW n \in Nat
  PROVE  \E f : FoldEq(f, base, seq, n)
<1> DEFINE T == {k \in Nat : \E f : FoldEq(f, base, seq, k)}
<1>1. 0 \in T
  <2> DEFINE f == [s \in SUBSET (1..0) |-> base]
  <2>1. FoldEq(f, base, seq, 0)
    <3>1. SUBSET (1..0) = {{}}
      OBVIOUS
    <3>2. QED
      BY <3>1 DEF FoldEq
  <2>2. QED
    BY <2>1
<1>2. ASSUME NEW k \in Nat, k \in T PROVE k + 1 \in T
  <2>1. PICK g : FoldEq(g, base, seq, k)
    BY <1>2
  <2> DEFINE f == [s \in SUBSET (1..k+1) |->
                     IF k + 1 \in s THEN InsertTimer(g[s \ {k + 1}], seq[k + 1]) ELSE g[s]]
  <2>2. ASSUME NEW s \in SUBSET (1..k+1)
        PROVE f[s] = IF s = {} THEN base ELSE InsertTimer(f[s \ {Max(s)}], seq[Max(s)])
    <3>1. CASE k + 1 \in s
      <4>1. Max(s) = k + 1
        <5>1. \A x \in s : x <= k + 1
          OBVIOUS
        <5>2. s \subseteq Nat
          OBVIOUS
        <5>3. QED
          BY <3>1, <5>1, <5>2, MaxIs
      <4>2. s \ {k + 1} \in SUBSET (1..k+1) /\ s # {}
        BY <3>1
      <4>3. f[s \ {k + 1}] = g[s \ {k + 1}]
        BY <4>2
      <4>4. f[s] = InsertTimer(g[s \ {k + 1}], seq[k + 1])
        BY <3>1
      <4>5. QED
        BY <4>1, <4>2, <4>3, <4>4
    <3>2. CASE k + 1 \notin s
      <4>1. s \in SUBSET (1..k)
        BY <3>2
      <4>2. f[s] = g[s]
        BY <3>2
      <4>3. g[s] = IF s = {} THEN base ELSE InsertTimer(g[s \ {Max(s)}], seq[Max(s)])
        BY <2>1, <4>1 DEF FoldEq
      <4>4. s \ {Max(s)} \in SUBSET (1..k+1) /\ k + 1 \notin s \ {Max(s)}
        BY <3>2
      <4>5. f[s \ {Max(s)}] = g[s \ {Max(s)}]
        BY <4>4
      <4>6. QED
        BY <4>2, <4>3, <4>5
    <3>3. QED
      BY <3>1, <3>2
  <2>3. FoldEq(f, base, seq, k + 1)
    <3>1. f = [s \in SUBSET (1..k+1) |-> f[s]]
      OBVIOUS
    <3> HIDE DEF f
    <3>2. QED
      BY <2>2, <3>1 DEF FoldEq
  <2>4. QED
    BY <2>3
<1>3. Nat \subseteq T
  <2> HIDE DEF T
  <2> QED BY <1>1, <1>2, Induction
<1>4. QED
  BY <1>3

(* The list after the first k of the timers.                               *)
After(base, seq, k) == (CHOOSE f : FoldEq(f, base, seq, Len(seq)))[1..k]

(* So the pending timers are inserted one after the other.                 *)
LEMMA FoldSteps ==
  ASSUME NEW base, NEW seq, Len(seq) \in Nat, DOMAIN seq = 1..Len(seq)
  PROVE  /\ After(base, seq, 0) = base
         /\ \A k \in 0..Len(seq) - 1 :
              After(base, seq, k + 1) = InsertTimer(After(base, seq, k), seq[k + 1])
         /\ Inserted(base, seq) = After(base, seq, Len(seq))
<1> DEFINE n == Len(seq)
           f == CHOOSE h : FoldEq(h, base, seq, n)
<1>1. FoldEq(f, base, seq, n)
  BY FoldExists
<1>2. Inserted(base, seq) = f[1..n]
  BY FoldIs
<1>3. \A k : After(base, seq, k) = f[1..k]
  BY DEF After
<1> HIDE DEF f, n
<1>4. f[1..0] = base
  <2>1. 1..0 = {} /\ 1..0 \in SUBSET (1..n)
    OBVIOUS
  <2>2. QED
    BY <1>1, <2>1 DEF FoldEq
<1>5. ASSUME NEW k \in 0..n - 1 PROVE f[1..k+1] = InsertTimer(f[1..k], seq[k + 1])
  <2> DEFINE s == 1..k+1
  <2>1. s \in SUBSET (1..n) /\ k + 1 \in s /\ s # {}
    <3>1. k \in Nat /\ k + 1 <= n
      BY DEF n
    <3>2. \A x \in 1..k+1 : x \in 1..n
      BY <3>1 DEF n
    <3>3. s \in SUBSET (1..n)
      BY <3>2
    <3>4. k + 1 \in s
      BY <3>1
    <3>5. QED
      BY <3>3, <3>4
  <2>2. Max(s) = k + 1
    <3>1. \A x \in s : x <= k + 1
      OBVIOUS
    <3>2. s \subseteq Nat
      OBVIOUS
    <3> HIDE DEF s
    <3>3. QED
      BY <2>1, <3>1, <3>2, MaxIs
  <2>3. s \ {k + 1} = 1..k
    BY DEF n
  <2>4. f[s] = InsertTimer(f[s \ {Max(s)}], seq[Max(s)])
    <3> HIDE DEF s
    <3> QED BY <1>1, <2>1 DEF FoldEq
  <2>5. QED
    BY <2>2, <2>3, <2>4
<1>6. QED
  BY <1>2, <1>3, <1>4, <1>5 DEF n

NoRepeat(l) == \A i, j \in DOMAIN l : l[i] = l[j] => i = j

(* Lists without repetition: the empty one, and what is pushed, popped or  *)
(* joined.                                                                 *)
LEMMA EmptyList == <<>> \in Seq(Timers) /\ ToSet(<<>>) = {} /\ NoRepeat(<<>>)
BY DEF ToSet, NoRepeat

(* A new element before the others.                                        *)
LEMMA PushFront ==
  ASSUME NEW S, NEW s \in Seq(S), NEW x \in S, NoRepeat(s), x \notin ToSet(s)
  PROVE  /\ <<x>> \o s \in Seq(S) /\ NoRepeat(<<x>> \o s)
         /\ ToSet(<<x>> \o s) = ToSet(s) \cup {x}
<1> DEFINE r == <<x>> \o s
<1>1. /\ r \in Seq(S) /\ DOMAIN r = 1..Len(s) + 1 /\ DOMAIN s = 1..Len(s) /\ Len(s) \in Nat
      /\ r[1] = x /\ \A i \in 1..Len(s) : r[i + 1] = s[i]
  OBVIOUS
<1> HIDE DEF r
<1>2. \A i \in DOMAIN r : i = 1 \/ (i - 1 \in DOMAIN s /\ r[i] = s[i - 1])
  <2>1. TAKE i \in DOMAIN r
  <2>2. i = 1 \/ i - 1 \in 1..Len(s)
    BY <1>1
  <2>3. (i - 1) + 1 = i
    BY <1>1
  <2>4. QED
    BY <1>1, <2>2, <2>3
<1>3. ToSet(r) = ToSet(s) \cup {x}
  <2>1. ToSet(r) \subseteq ToSet(s) \cup {x}
    BY <1>1, <1>2 DEF ToSet
  <2>2. \A i \in DOMAIN s : s[i] \in ToSet(r)
    <3>1. \A i \in 1..Len(s) : i + 1 \in 1..Len(s) + 1
      BY <1>1
    <3>2. QED
      BY <1>1, <3>1 DEF ToSet
  <2>3. x \in ToSet(r)
    BY <1>1 DEF ToSet
  <2>4. QED
    BY <2>1, <2>2, <2>3 DEF ToSet
<1>4. NoRepeat(r)
  <2>1. SUFFICES ASSUME NEW i \in DOMAIN r, NEW j \in DOMAIN r, r[i] = r[j] PROVE i = j
    BY DEF NoRepeat
  <2>2. CASE i = 1
    BY <1>1, <1>2, <2>1, <2>2 DEF ToSet
  <2>3. CASE j = 1
    BY <1>1, <1>2, <2>1, <2>3 DEF ToSet
  <2>4. CASE i # 1 /\ j # 1
    <3>1. i - 1 \in DOMAIN s /\ j - 1 \in DOMAIN s /\ s[i - 1] = s[j - 1]
      BY <1>2, <2>1, <2>4
    <3>2. i - 1 = j - 1
      BY <3>1 DEF NoRepeat
    <3>3. QED
      BY <1>1, <3>2
  <2>5. QED
    BY <2>2, <2>3, <2>4
<1>5. QED
  BY <1>1, <1>3, <1>4 DEF r

(* A new element behind the others.                                        *)
LEMMA PushBack ==
  ASSUME NEW S, NEW s \in Seq(S), NEW x \in S, NoRepeat(s), x \notin ToSet(s)
  PROVE  /\ Append(s, x) \in Seq(S) /\ NoRepeat(Append(s, x))
         /\ ToSet(Append(s, x)) = ToSet(s) \cup {x}
<1> DEFINE r == Append(s, x)
<1>1. /\ r \in Seq(S) /\ DOMAIN r = 1..Len(s) + 1 /\ DOMAIN s = 1..Len(s) /\ Len(s) \in Nat
      /\ r[Len(s) + 1] = x /\ \A i \in 1..Len(s) : r[i] = s[i]
  OBVIOUS
<1> HIDE DEF r
<1>2. \A i \in DOMAIN r : i = Len(s) + 1 \/ i \in DOMAIN s
  BY <1>1
<1>3. \A i \in DOMAIN s : i \in DOMAIN r
  BY <1>1
<1>4. ToSet(r) = ToSet(s) \cup {x}
  <2>1. Len(s) + 1 \in DOMAIN r
    BY <1>1
  <2>2. QED
    BY <1>1, <1>2, <1>3, <2>1 DEF ToSet
<1>5. NoRepeat(r)
  BY <1>1, <1>2 DEF NoRepeat, ToSet
<1>6. QED
  BY <1>1, <1>4, <1>5 DEF r

(* The list without its first element.                                     *)
LEMMA PopFront ==
  ASSUME NEW S, NEW s \in Seq(S), s # <<>>, NoRepeat(s)
  PROVE  /\ Tail(s) \in Seq(S) /\ NoRepeat(Tail(s))
         /\ Head(s) \in ToSet(s) /\ Head(s) \in S /\ Head(s) = s[1]
         /\ ToSet(Tail(s)) = ToSet(s) \ {Head(s)}
         /\ \A i \in DOMAIN Tail(s) : i + 1 \in DOMAIN s /\ Tail(s)[i] = s[i + 1]
<1> DEFINE r == Tail(s)
<1>1. /\ r \in Seq(S) /\ DOMAIN r = 1..Len(s) - 1 /\ DOMAIN s = 1..Len(s)
      /\ Len(s) \in Nat \ {0}
      /\ Head(s) = s[1] /\ \A i \in 1..Len(s) - 1 : r[i] = s[i + 1]
  OBVIOUS
<1> HIDE DEF r
<1>2. \A i \in DOMAIN s : i = 1 \/ (i - 1 \in DOMAIN r /\ r[i - 1] = s[i])
  <2>1. TAKE i \in DOMAIN s
  <2>2. i = 1 \/ i - 1 \in 1..Len(s) - 1
    BY <1>1
  <2>3. (i - 1) + 1 = i
    BY <1>1
  <2>4. QED
    BY <1>1, <2>2, <2>3
<1>3. \A i \in DOMAIN r : i + 1 \in DOMAIN s /\ i + 1 # 1
  BY <1>1
<1>4. 1 \in DOMAIN s
  BY <1>1
<1>5. Head(s) \in ToSet(s) /\ Head(s) \in S
  BY <1>1, <1>4 DEF ToSet
<1>6. ToSet(r) = ToSet(s) \ {Head(s)}
  <2>1. \A i \in DOMAIN r : r[i] = s[i + 1] /\ r[i] # s[1]
    BY <1>1, <1>3, <1>4 DEF NoRepeat
  <2>2. \A i \in DOMAIN r : r[i] \in ToSet(s) \ {Head(s)}
    BY <1>1, <1>3, <2>1 DEF ToSet
  <2>3. \A i \in DOMAIN s : s[i] # Head(s) => s[i] \in ToSet(r)
    BY <1>1, <1>2 DEF ToSet
  <2>4. QED
    BY <2>2, <2>3 DEF ToSet
<1>7. NoRepeat(r)
  <2>1. SUFFICES ASSUME NEW i \in DOMAIN r, NEW j \in DOMAIN r, r[i] = r[j] PROVE i = j
    BY DEF NoRepeat
  <2>2. i + 1 = j + 1
    BY <1>1, <1>3, <2>1 DEF NoRepeat
  <2>3. QED
    BY <1>1, <2>2
<1>8. QED
  BY <1>1, <1>3, <1>5, <1>6, <1>7 DEF r

(* Two lists that have nothing in common, one behind the other.            *)
LEMMA JoinLists ==
  ASSUME NEW S, NEW s \in Seq(S), NEW u \in Seq(S), NoRepeat(s), NoRepeat(u),
         ToSet(s) \cap ToSet(u) = {}
  PROVE  /\ s \o u \in Seq(S) /\ NoRepeat(s \o u)
         /\ ToSet(s \o u) = ToSet(s) \cup ToSet(u)
<1> DEFINE r == s \o u
<1>1. /\ r \in Seq(S) /\ DOMAIN r = 1..Len(s) + Len(u)
      /\ DOMAIN s = 1..Len(s) /\ Len(s) \in Nat /\ DOMAIN u = 1..Len(u) /\ Len(u) \in Nat
      /\ \A i \in 1..Len(s) : r[i] = s[i]
      /\ \A i \in 1..Len(u) : r[i + Len(s)] = u[i]
  OBVIOUS
<1> HIDE DEF r
<1>2. \A i \in DOMAIN r : \/ i \in DOMAIN s /\ r[i] = s[i]
                          \/ i - Len(s) \in DOMAIN u /\ r[i] = u[i - Len(s)] /\ i \notin DOMAIN s
  <2>1. TAKE i \in DOMAIN r
  <2>2. i \in 1..Len(s) \/ (i - Len(s) \in 1..Len(u) /\ i \notin 1..Len(s))
    BY <1>1
  <2>3. (i - Len(s)) + Len(s) = i
    BY <1>1
  <2>4. QED
    BY <1>1, <2>2, <2>3
<1>3. (\A i \in DOMAIN s : i \in DOMAIN r) /\ (\A i \in DOMAIN u : i + Len(s) \in DOMAIN r)
  BY <1>1
<1>4. ToSet(r) = ToSet(s) \cup ToSet(u)
  BY <1>1, <1>2, <1>3 DEF ToSet
<1>5. NoRepeat(r)
  <2>1. SUFFICES ASSUME NEW i \in DOMAIN r, NEW j \in DOMAIN r, r[i] = r[j] PROVE i = j
    BY DEF NoRepeat
  <2>2. CASE i \in DOMAIN s
    BY <1>2, <2>1, <2>2 DEF ToSet, NoRepeat
  <2>3. CASE j \in DOMAIN s
    BY <1>2, <2>1, <2>3 DEF ToSet, NoRepeat
  <2>4. CASE i \notin DOMAIN s /\ j \notin DOMAIN s
    <3>1. i - Len(s) = j - Len(s)
      BY <1>2, <2>1, <2>4 DEF NoRepeat
    <3>2. QED
      BY <1>1, <3>1
  <2>5. QED
    BY <2>2, <2>3, <2>4
<1>6. QED
  BY <1>1, <1>4, <1>5 DEF r

(* A set of naturals has a least member, and that is its Min.              *)
LEMMA Least ==
  ASSUME NEW I, I \subseteq Nat, I # {}
  PROVE  Min(I) \in I /\ \A i \in I : Min(I) <= i
<1>1. PICK m \in I : \A i \in I : ~ (<<i, m>> \in OpToRel(<, Nat))
  BY NatLessThanWellFounded, WFMin
<1>2. \A i \in I : m <= i
  <2>1. SUFFICES ASSUME NEW i \in I, ~ (m <= i) PROVE FALSE
    OBVIOUS
  <2>2. i \in Nat /\ m \in Nat
    OBVIOUS
  <2>3. i < m
    BY <2>1, <2>2
  <2>4. <<i, m>> \in OpToRel(<, Nat)
    BY <2>2, <2>3 DEF OpToRel
  <2>5. QED
    BY <1>1, <2>4
<1>3. QED
  BY <1>2 DEF Min

LaterIn(list, time) == {i \in 1..Len(list) : tm[list[i]].scheduled > time}

(* Insertion at a place splits a list. *)
LEMMA InsertPlace ==
  ASSUME NEW S, NEW s \in Seq(S), NEW x \in S, NEW p \in 1..Len(s) + 1,
         NoRepeat(s), x \notin ToSet(s), NEW r, r = InsertAt(s, p, x)
  PROVE  /\ r \in Seq(S) /\ NoRepeat(r) /\ ToSet(r) = ToSet(s) \cup {x}
         /\ DOMAIN r = 1..Len(s) + 1
         /\ \A i \in 1..Len(s) + 1 : r[i] = IF i < p THEN s[i] ELSE IF i = p THEN x ELSE s[i - 1]
<1> DEFINE a == SubSeq(s, 1, p - 1)
           b == SubSeq(s, p, Len(s))
<1>0. Len(s) \in Nat /\ DOMAIN s = 1..Len(s) /\ p \in Nat /\ p >= 1 /\ p <= Len(s) + 1
  OBVIOUS
<1>1. /\ a \in Seq(S) /\ Len(a) = p - 1
      /\ \A i \in 1..p - 1 : a[i] = s[i]
  <2>1. \A i \in 1..p - 1 : s[i] \in S
    BY <1>0
  <2>2. QED
    BY <1>0, <2>1, SubSeqProperties
<1>2. /\ b \in Seq(S) /\ Len(b) = Len(s) - p + 1
      /\ \A i \in 1..Len(s) - p + 1 : b[i] = s[p + i - 1]
  <2>1. \A i \in p..Len(s) : s[i] \in S
    BY <1>0
  <2>2. QED
    BY <1>0, <2>1, SubSeqProperties
<1> HIDE DEF a, b
<1>3. r = (a \o <<x>>) \o b
  BY DEF InsertAt, a, b
<1>4. /\ a \o <<x>> \in Seq(S) /\ Len(a \o <<x>>) = p
      /\ \A i \in 1..p : (a \o <<x>>)[i] = IF i < p THEN a[i] ELSE x
  BY <1>0, <1>1
<1>5. /\ r \in Seq(S) /\ Len(r) = Len(s) + 1
      /\ \A i \in 1..Len(s) + 1 : r[i] = IF i <= p THEN (a \o <<x>>)[i] ELSE b[i - p]
  <2> DEFINE c == a \o <<x>>
  <2>1. c \in Seq(S) /\ Len(c) = p /\ r = c \o b
    BY <1>3, <1>4
  <2> HIDE DEF c
  <2>2. /\ c \o b \in Seq(S) /\ Len(c \o b) = Len(c) + Len(b)
        /\ \A i \in 1..Len(c) + Len(b) : (c \o b)[i] = IF i <= Len(c) THEN c[i] ELSE b[i - Len(c)]
    BY <1>2, <2>1, ConcatProperties
  <2>3. Len(c) + Len(b) = Len(s) + 1
    BY <1>0, <1>2, <2>1
  <2>4. QED
    BY <2>1, <2>2, <2>3 DEF c
<1>6. DOMAIN r = 1..Len(s) + 1
  BY <1>5
<1>7. \A i \in 1..Len(s) + 1 : r[i] = IF i < p THEN s[i] ELSE IF i = p THEN x ELSE s[i - 1]
  <2>1. TAKE i \in 1..Len(s) + 1
  <2>2. CASE i < p
    BY <1>0, <1>1, <1>4, <1>5, <2>2
  <2>3. CASE i = p
    BY <1>0, <1>4, <1>5, <2>3
  <2>4. CASE i > p
    <3>1. i - p \in 1..Len(s) - p + 1 /\ p + (i - p) - 1 = i - 1
      BY <1>0, <2>4
    <3>2. r[i] = b[i - p]
      BY <1>0, <1>5, <2>4
    <3>3. QED
      BY <1>0, <1>2, <2>4, <3>1, <3>2
  <2>5. QED
    BY <1>0, <2>2, <2>3, <2>4
<1>8. ToSet(r) = ToSet(s) \cup {x}
  <2>1. ASSUME NEW i \in DOMAIN r PROVE r[i] \in ToSet(s) \cup {x}
    <3>1. CASE i < p
      <4>1. i \in DOMAIN s
        BY <1>0, <1>6, <3>1
      <4>2. QED
        BY <1>6, <1>7, <3>1, <4>1 DEF ToSet
    <3>2. CASE i = p
      BY <1>0, <1>6, <1>7, <3>2
    <3>3. CASE i > p
      <4>1. i - 1 \in DOMAIN s /\ ~ (i < p) /\ i # p
        BY <1>0, <1>6, <3>3
      <4>2. QED
        BY <1>6, <1>7, <4>1 DEF ToSet
    <3>4. QED
      BY <1>0, <1>6, <3>1, <3>2, <3>3
  <2>2. x \in ToSet(r)
    <3>1. r[p] = x /\ p \in DOMAIN r
      BY <1>0, <1>6, <1>7
    <3>2. QED
      BY <3>1 DEF ToSet
  <2>3. ASSUME NEW i \in DOMAIN s PROVE s[i] \in ToSet(r)
    <3>1. CASE i < p
      <4>1. i \in DOMAIN r /\ r[i] = s[i]
        BY <1>0, <1>6, <1>7, <3>1
      <4>2. QED
        BY <4>1 DEF ToSet
    <3>2. CASE ~ (i < p)
      <4>1. i + 1 \in DOMAIN r /\ ~ (i + 1 < p) /\ i + 1 # p /\ (i + 1) - 1 = i
        BY <1>0, <1>6, <3>2
      <4>2. r[i + 1] = s[i]
        BY <1>6, <1>7, <4>1
      <4>3. QED
        BY <4>1, <4>2 DEF ToSet
    <3>3. QED
      BY <3>1, <3>2
  <2>4. QED
    BY <2>1, <2>2, <2>3 DEF ToSet
<1>9. NoRepeat(r)
  <2>1. SUFFICES ASSUME NEW i \in DOMAIN r, NEW j \in DOMAIN r, r[i] = r[j], i < j PROVE FALSE
    BY <1>6 DEF NoRepeat
  <2> DEFINE from(k) == IF k < p THEN k ELSE k - 1
  <2>2. \A k \in DOMAIN r : k # p => from(k) \in DOMAIN s /\ r[k] = s[from(k)]
    BY <1>0, <1>6, <1>7
  <2>3. \A k \in DOMAIN s : s[k] # x
    BY DEF ToSet
  <2>4. r[p] = x
    BY <1>0, <1>7
  <2>5. i # p /\ j # p
    BY <2>1, <2>2, <2>3, <2>4
  <2>6. from(i) = from(j)
    BY <2>1, <2>2, <2>5 DEF NoRepeat
  <2>7. QED
    BY <1>0, <1>6, <2>1, <2>5, <2>6
<1>10. QED
  BY <1>5, <1>6, <1>7, <1>8, <1>9

TimesKnown == \A t \in Timers : tm[t].scheduled \in Nat
Sorted(l) == \A i, j \in DOMAIN l : i <= j => tm[l[i]].scheduled <= tm[l[j]].scheduled

(* The timer goes before the first one that is due later than it.          *)
LEMMA InsertedAtTime ==
  ASSUME NEW s \in Seq(Timers), NEW t \in Timers, NEW time \in Nat,
         NoRepeat(s), t \notin ToSet(s), TimesKnown, Sorted(s)
  PROVE  \E p \in 1..Len(s) + 1 :
           /\ InsertAtTime(s, t, time) = InsertAt(s, p, t)
           /\ \A i \in 1..p - 1 : tm[s[i]].scheduled <= time
           /\ \A i \in p..Len(s) : tm[s[i]].scheduled >= time
<1> DEFINE I == LaterIn(s, time)
           k == SelectInSeq(s, LAMBDA u : tm[u].scheduled > time)
<1>1. Len(s) \in Nat /\ DOMAIN s = 1..Len(s) /\ \A i \in 1..Len(s) : s[i] \in Timers
  OBVIOUS
<1>2. k = IF I = {} THEN 0 ELSE Min(I)
  BY DEF SelectInSeq, LaterIn
<1>3. InsertAtTime(s, t, time) = InsertAt(s, IF k = 0 THEN Len(s) + 1 ELSE k, t)
  BY DEF InsertAtTime
<1> HIDE DEF k
<1>4. \A i \in 1..Len(s) : tm[s[i]].scheduled \in Nat
  BY <1>1 DEF TimesKnown
<1>5. I \subseteq 1..Len(s) /\ \A i \in 1..Len(s) : i \notin I => tm[s[i]].scheduled <= time
  BY <1>4 DEF LaterIn
<1>6. \A i \in I : tm[s[i]].scheduled > time
  BY DEF LaterIn
<1> HIDE DEF I
<1>7. CASE I = {}
  <2>1. InsertAtTime(s, t, time) = InsertAt(s, Len(s) + 1, t)
    BY <1>2, <1>3, <1>7
  <2>2. Len(s) + 1 \in 1..Len(s) + 1 /\ \A i \in 1..Len(s) + 1 - 1 : i \in 1..Len(s)
    BY <1>1
  <2>3. \A i \in Len(s) + 1..Len(s) : FALSE
    BY <1>1
  <2>4. QED
    BY <1>5, <1>7, <2>1, <2>2, <2>3
<1>8. CASE I # {}
  <2>1. Min(I) \in I /\ (\A i \in I : Min(I) <= i) /\ Min(I) \in 1..Len(s) /\ Min(I) \in Nat \ {0}
    <3>1. I \subseteq Nat
      BY <1>1, <1>5
    <3>2. Min(I) \in I /\ (\A i \in I : Min(I) <= i)
      BY <1>8, <3>1, Least
    <3>3. Min(I) \in 1..Len(s)
      BY <1>5, <3>2
    <3>4. QED
      BY <1>1, <3>2, <3>3
  <2>2. InsertAtTime(s, t, time) = InsertAt(s, Min(I), t)
    BY <1>2, <1>3, <1>8, <2>1
  <2>3. \A i \in 1..Min(I) - 1 : i \in 1..Len(s) /\ i \notin I
    BY <1>1, <2>1
  <2>4. \A i \in Min(I)..Len(s) : tm[s[i]].scheduled >= time
    <3>1. TAKE i \in Min(I)..Len(s)
    <3>2. i \in 1..Len(s) /\ Min(I) <= i
      BY <1>1, <2>1
    <3>3. tm[s[Min(I)]].scheduled <= tm[s[i]].scheduled
      BY <1>1, <2>1, <3>2 DEF Sorted
    <3>4. QED
      BY <1>4, <1>6, <2>1, <3>2, <3>3
  <2>5. Min(I) \in 1..Len(s) + 1
    BY <1>1, <2>1
  <2>6. QED
    BY <1>5, <2>2, <2>3, <2>4, <2>5
<1>9. QED
  BY <1>7, <1>8

(* SDL_AddTimerInternal keeps the order of the list, and loses nothing.    *)
LEMMA InsertOne ==
  ASSUME NEW s \in Seq(Timers), NEW t \in Timers,
         NoRepeat(s), t \notin ToSet(s), TimesKnown, Sorted(s)
  PROVE  LET r == InsertTimer(s, t) IN
         r \in Seq(Timers) /\ NoRepeat(r) /\ ToSet(r) = ToSet(s) \cup {t} /\ Sorted(r)
<1> DEFINE r == InsertTimer(s, t)
           time == tm[t].scheduled
<1>1. time \in Nat
  BY DEF TimesKnown
<1>2. PICK p \in 1..Len(s) + 1 :
           /\ r = InsertAt(s, p, t)
           /\ \A i \in 1..p - 1 : tm[s[i]].scheduled <= time
           /\ \A i \in p..Len(s) : tm[s[i]].scheduled >= time
  <2> HIDE DEF time
  <2>1. r = InsertAtTime(s, t, time)
    BY DEF InsertTimer, time
  <2>2. QED
    BY <1>1, <2>1, InsertedAtTime
<1> HIDE DEF r
<1>3. /\ r \in Seq(Timers) /\ NoRepeat(r) /\ ToSet(r) = ToSet(s) \cup {t}
      /\ DOMAIN r = 1..Len(s) + 1
      /\ \A i \in 1..Len(s) + 1 : r[i] = IF i < p THEN s[i] ELSE IF i = p THEN t ELSE s[i - 1]
  <2>1. r = InsertAt(s, p, t)
    BY <1>2
  <2>2. QED
    BY <2>1, InsertPlace
<1>4. Len(s) \in Nat /\ DOMAIN s = 1..Len(s) /\ p \in Nat \ {0} /\ \A i \in 1..Len(s) : s[i] \in Timers
  OBVIOUS
<1>5. Sorted(r)
  <2>1. SUFFICES ASSUME NEW i \in DOMAIN r, NEW j \in DOMAIN r, i < j
                 PROVE  tm[r[i]].scheduled <= tm[r[j]].scheduled
    <3>1. \A i \in DOMAIN r : r[i] \in Timers
      BY <1>3
    <3>2. \A i \in DOMAIN r : i \in Nat /\ tm[r[i]].scheduled \in Nat
      BY <1>3, <1>4, <3>1 DEF TimesKnown
    <3>3. \A i, j \in DOMAIN r : i <= j => i < j \/ i = j
      BY <3>2
    <3>4. \A i \in DOMAIN r : tm[r[i]].scheduled <= tm[r[i]].scheduled
      BY <3>2
    <3>5. QED
      BY <3>3, <3>4 DEF Sorted
  <2> DEFINE sch(k) == tm[s[k]].scheduled
  <2>2. \A k \in 1..Len(s) : sch(k) \in Nat
    BY <1>4 DEF TimesKnown
  <2>3. \A k, l \in 1..Len(s) : k <= l => sch(k) <= sch(l)
    BY <1>4 DEF Sorted
  <2>4. i \in Nat /\ j \in Nat /\ i >= 1 /\ j <= Len(s) + 1
    BY <1>3, <1>4
  <2>5. CASE i < p /\ j < p
    <3>1. i \in 1..Len(s) /\ j \in 1..Len(s) /\ r[i] = s[i] /\ r[j] = s[j]
      BY <1>3, <1>4, <2>1, <2>4, <2>5
    <3>2. QED
      BY <2>1, <2>3, <3>1
  <2>6. CASE i < p /\ j = p
    <3>1. i \in 1..p - 1 /\ r[i] = s[i] /\ r[j] = t
      BY <1>3, <1>4, <2>4, <2>6
    <3>2. QED
      BY <1>2, <3>1
  <2>7. CASE i < p /\ j > p
    <3>1. i \in 1..Len(s) /\ j - 1 \in 1..Len(s) /\ i <= j - 1 /\ r[i] = s[i] /\ r[j] = s[j - 1]
      BY <1>3, <1>4, <2>1, <2>4, <2>7
    <3>2. QED
      BY <2>3, <3>1
  <2>8. CASE i = p /\ j > p
    <3>1. j - 1 \in p..Len(s) /\ r[i] = t /\ r[j] = s[j - 1]
      BY <1>3, <1>4, <2>4, <2>8
    <3>2. tm[s[j - 1]].scheduled >= time
      BY <1>2, <3>1
    <3>3. j - 1 \in 1..Len(s)
      BY <1>4, <3>1
    <3>4. QED
      BY <1>1, <2>2, <3>1, <3>2, <3>3
  <2>9. CASE i > p /\ j > p
    <3>1. /\ i - 1 \in 1..Len(s) /\ j - 1 \in 1..Len(s) /\ i - 1 <= j - 1
          /\ r[i] = s[i - 1] /\ r[j] = s[j - 1]
      BY <1>3, <1>4, <2>1, <2>4, <2>9
    <3>2. QED
      BY <2>3, <3>1
  <2>10. QED
    BY <1>4, <2>1, <2>4, <2>5, <2>6, <2>7, <2>8, <2>9
<1>6. QED
  BY <1>3, <1>5 DEF r

-----------------------------------------------------------------------------
(* The pending timers, sorted into the thread's list one by one.           *)
LEMMA TakenInOrder ==
  ASSUME NEW base \in Seq(Timers), NEW seq \in Seq(Timers), NoRepeat(base), NoRepeat(seq),
         ToSet(base) \cap ToSet(seq) = {}, TimesKnown, Sorted(base)
  PROVE  LET r == Inserted(base, seq) IN
         /\ r \in Seq(Timers) /\ NoRepeat(r) /\ Sorted(r)
         /\ ToSet(r) = ToSet(base) \cup ToSet(seq)
<1> DEFINE n == Len(seq)
<1>1. n \in Nat /\ DOMAIN seq = 1..n /\ \A i \in 1..n : seq[i] \in Timers
  OBVIOUS
<1> DEFINE g(k) == After(base, seq, k)
<1>2. /\ g(0) = base
      /\ \A k \in 0..n - 1 : g(k + 1) = InsertTimer(g(k), seq[k + 1])
      /\ Inserted(base, seq) = g(n)
  BY <1>1, FoldSteps
<1> HIDE DEF g
<1> DEFINE First(k) == {seq[i] : i \in 1..k}
           Fine(k) == /\ g(k) \in Seq(Timers) /\ NoRepeat(g(k)) /\ Sorted(g(k))
                      /\ ToSet(g(k)) = ToSet(base) \cup First(k)
           T == {k \in Nat : k <= n => Fine(k)}
<1> HIDE DEF n
<1>3. 0 \in T
  <2>1. First(0) = {}
    <3>1. 1..0 = {}
      OBVIOUS
    <3>2. QED
      BY <3>1
  <2>2. QED
    BY <1>2, <2>1
<1>4. ASSUME NEW k \in Nat, k \in T PROVE k + 1 \in T
  <2>1. SUFFICES ASSUME k + 1 <= n PROVE Fine(k + 1)
    OBVIOUS
  <2>2. Fine(k) /\ k \in 0..n - 1 /\ k + 1 \in 1..n
    BY <1>1, <1>4, <2>1
  <2>3. g(k + 1) = InsertTimer(g(k), seq[k + 1])
    BY <1>2, <2>2
  <2>4. seq[k + 1] \in Timers
    BY <1>1, <2>2
  <2>5. seq[k + 1] \notin ToSet(g(k))
    <3>1. seq[k + 1] \in ToSet(seq)
      BY <1>1, <2>2 DEF ToSet
    <3>2. \A i \in 1..k : i \in 1..n /\ i # k + 1
      BY <1>1, <2>2
    <3>3. \A i \in 1..k : seq[i] # seq[k + 1]
      BY <1>1, <2>2, <3>2 DEF NoRepeat
    <3>4. QED
      BY <2>2, <3>1, <3>3
  <2>6. /\ g(k + 1) \in Seq(Timers) /\ NoRepeat(g(k + 1)) /\ Sorted(g(k + 1))
        /\ ToSet(g(k + 1)) = ToSet(g(k)) \cup {seq[k + 1]}
    BY <2>2, <2>3, <2>4, <2>5, InsertOne
  <2>7. First(k + 1) = First(k) \cup {seq[k + 1]}
    <3>1. 1..k+1 = 1..k \cup {k + 1}
      OBVIOUS
    <3>2. QED
      BY <3>1
  <2>8. QED
    BY <2>2, <2>6, <2>7
<1>5. Nat \subseteq T
  <2> HIDE DEF T
  <2> QED BY <1>3, <1>4, Induction
<1>6. Fine(n)
  <2>1. n \in Nat /\ n <= n
    BY <1>1
  <2>2. n \in T
    BY <1>5, <2>1
  <2>3. QED
    BY <2>1, <2>2
<1>7. First(n) = ToSet(seq)
  BY <1>1 DEF ToSet
<1>8. QED
  BY <1>2, <1>6, <1>7
-----------------------------------------------------------------------------
(* The lists and their timers.                                             *)
Labels == {"idle", "add_fill", "add_queue", "add_post", "add_return",
           "rm_find", "rm_test", "rm_set", "quit_post", "quit_join"}
ThreadLabels == {"none", "maintain", "check", "process", "callback", "adjust", "sleep",
                 "waiting", "done"}

Typed ==
  /\ active \in BOOLEAN /\ nextID \in Nat \ {0}
  /\ tm \in [Timers -> [timerID : Nat, scheduled : Nat, canceled : BOOLEAN]]
  /\ pending \in Seq(Timers) /\ freelist \in Seq(Timers)
  /\ timers \in Seq(Timers) /\ batch \in Seq(Timers)
  /\ th \in [pc : ThreadLabels, tick : Nat, delay : Nat, deadline : Nat,
             cur : Timers \cup {NoTimer}]
  /\ pc \in [Actors -> Labels]
  /\ hold \in [Actors -> Timers \cup {NoTimer}]
  /\ ref \in [Actors -> Nat]
  /\ now \in Nat /\ size \in Sizes
  /\ entryTimer = [i \in IDs |-> entryTimer[i]]

(* Who can be where: nothing runs between SDL_QuitTimers and the next      *)
(* start; the timer thread is in a call only from a callback.              *)
Phases ==
  /\ ~active /\ ~Quitting => /\ th = NoThread /\ removed = {} /\ timermap = {}
                             /\ \A a \in Actors : pc[a] = "idle"
  /\ Quitting => ~active /\ \A c \in Callers \ {Main} : pc[c] = "idle"
  /\ pc[Worker] # "idle" => th.pc = "callback"
  /\ th.pc = "callback" <=> th.cur # NoTimer
  /\ \A a \in Actors :
       /\ pc[a] \in {"add_fill", "add_queue", "rm_find"} => hold[a] # NoTimer
       /\ pc[a] \in {"idle", "add_post", "add_return", "quit_post", "quit_join"} =>
            hold[a] = NoTimer
       /\ pc[a] \in {"rm_test", "rm_set"} => ref[a] \in IDs \cap 1..nextID - 1
  /\ removed \cup timermap \subseteq 1..nextID - 1 /\ removed \subseteq IDs

Held == {hold[a] : a \in Actors} \ {NoTimer}
Current == {th.cur} \ {NoTimer}

(* M is made of six sets that have nothing in common.                      *)
Split(M, P, F, T, B, H, C) ==
  /\ M = P \cup F \cup T \cup B \cup H \cup C
  /\ P \cap (F \cup T \cup B \cup H \cup C) = {}
  /\ F \cap (T \cup B \cup H \cup C) = {}
  /\ T \cap (B \cup H \cup C) = {}
  /\ B \cap (H \cup C) = {}
  /\ H \cap C = {}

Owners ==
  /\ NoRepeat(pending) /\ NoRepeat(freelist) /\ NoRepeat(timers) /\ NoRepeat(batch)
  /\ \A a, b \in Actors : hold[a] = hold[b] /\ hold[a] # NoTimer => a = b
  /\ Split(heap, ToSet(pending), ToSet(freelist), ToSet(timers), ToSet(batch), Held, Current)

(* A removed timer stays canceled until its structure gets another ID.     *)
Flagged ==
  \A id \in removed :
    LET t == entryTimer[id] IN t \in Timers /\ tm[t].timerID = id => tm[t].canceled

LInv == Typed /\ Phases /\ Owners /\ Sorted(timers) /\ DueTimersServed /\ Flagged

(* The subsystem has not been started: the lists are empty.                *)
LEMMA InitLInv == Init => LInv
<1> SUFFICES ASSUME Init PROVE LInv
  OBVIOUS
<1> USE DEF Init
<1>1. Typed
  <2>1. <<>> \in Seq(Timers)
    BY EmptyList
  <2>2. /\ tm \in [Timers -> [timerID : Nat, scheduled : Nat, canceled : BOOLEAN]]
        /\ th \in [pc : ThreadLabels, tick : Nat, delay : Nat, deadline : Nat,
                   cur : Timers \cup {NoTimer}]
    BY DEF NoFields, NoThread, ThreadLabels
  <2>3. pc \in [Actors -> Labels] /\ hold \in [Actors -> Timers \cup {NoTimer}] /\ ref \in [Actors -> Nat]
    BY DEF Labels
  <2>4. entryTimer = [i \in IDs |-> entryTimer[i]]
    OBVIOUS
  <2>5. active \in BOOLEAN /\ size \in Sizes
    OBVIOUS
  <2>8. nextID \in Nat \ {0} /\ now \in Nat
    OBVIOUS
  <2>6. pending \in Seq(Timers) /\ freelist \in Seq(Timers) /\ timers \in Seq(Timers) /\ batch \in Seq(Timers)
    BY <2>1
  <2> HIDE DEF Init
  <2>7. QED
    BY <2>2, <2>3, <2>4, <2>5, <2>6, <2>8 DEF Typed
<1>2. Phases
  BY DEF Phases, NoThread, Quitting, Actors
<1>3. Owners
  <2>1. Held = {} /\ Current = {}
    BY DEF Held, Current, NoThread
  <2>2. ToSet(<<>>) = {} /\ NoRepeat(<<>>)
    BY EmptyList
  <2>3. QED
    BY <2>1, <2>2 DEF Owners, Split
<1>4. Sorted(timers) /\ DueTimersServed
  BY DEF Sorted, DueTimersServed, NoThread
<1>5. Flagged
  BY DEF Flagged
<1>6. QED
  BY <1>1, <1>2, <1>3, <1>4, <1>5 DEF LInv

-----------------------------------------------------------------------------
(* What a step need not look at.                                           *)
LEMMA SameOwners ==
  ASSUME LInv, UNCHANGED <<lists, heap, hold>>, th'.cur = th.cur
  PROVE  Owners'
<1>1. UNCHANGED <<pending, freelist, timers, batch, heap, hold>>
  BY DEF lists
<1>2. Held' = Held /\ Current' = Current
  BY <1>1 DEF Held, Current
<1>3. Owners
  BY DEF LInv
<1>4. QED
  BY <1>1, <1>2, <1>3 DEF Owners

(* The order depends on the list, the times and where the thread is.       *)
LEMMA SameOrder ==
  ASSUME LInv, timers' = timers,
         \A t \in ToSet(timers) : tm'[t].scheduled = tm[t].scheduled,
         th' = th \/ th'.pc \notin {"adjust", "sleep"}
  PROVE  Sorted(timers)' /\ DueTimersServed'
<1>1. \A i \in DOMAIN timers : tm'[timers[i]].scheduled = tm[timers[i]].scheduled
  BY DEF ToSet
<1>2. Sorted(timers)'
  BY <1>1 DEF LInv, Sorted
<1>3. DueTimersServed'
  BY <1>1 DEF LInv, DueTimersServed
<1>4. QED
  BY <1>2, <1>3

(* A flag stays set as long as the timer has its ID.                       *)
LEMMA SameFlags ==
  ASSUME LInv, removed' = removed, entryTimer' = entryTimer,
         \A t \in Timers : tm'[t].timerID = tm[t].timerID /\ (tm[t].canceled => tm'[t].canceled)
  PROVE  Flagged'
BY DEF LInv, Flagged

(* The holder of a structure changes.                                      *)
LEMMA Takes ==
  ASSUME LInv, NEW a \in Actors, hold[a] = NoTimer, NEW t \in Timers, t \notin Held,
         hold' = [hold EXCEPT ![a] = t]
  PROVE  /\ Held' = Held \cup {t}
         /\ \A b, c \in Actors : hold'[b] = hold'[c] /\ hold'[b] # NoTimer => b = c
<1>1. hold \in [Actors -> Timers \cup {NoTimer}] /\ t # NoTimer
  BY TimerAssumption DEF LInv, Typed
<1>2. \A b \in Actors : hold'[b] = IF b = a THEN t ELSE hold[b]
  BY <1>1
<1>3. \A b \in Actors : hold[b] # NoTimer => hold[b] \in Held
  BY DEF Held
<1>4. Held' = Held \cup {t}
  BY <1>1, <1>2 DEF Held
<1>5. QED
  BY <1>2, <1>3, <1>4 DEF LInv, Owners

(* ... to nobody.                                                          *)
LEMMA Gives ==
  ASSUME LInv, NEW a \in Actors, hold[a] # NoTimer, hold' = [hold EXCEPT ![a] = NoTimer]
  PROVE  /\ Held' = Held \ {hold[a]} /\ hold[a] \in Held /\ hold[a] \in Timers
         /\ \A b, c \in Actors : hold'[b] = hold'[c] /\ hold'[b] # NoTimer => b = c
<1>1. hold \in [Actors -> Timers \cup {NoTimer}]
  BY DEF LInv, Typed
<1>2. \A b \in Actors : hold'[b] = IF b = a THEN NoTimer ELSE hold[b]
  BY <1>1
<1>3. \A b, c \in Actors : hold[b] = hold[c] /\ hold[b] # NoTimer => b = c
  BY DEF LInv, Owners
<1>4. Held' = Held \ {hold[a]}
  BY <1>2, <1>3 DEF Held
<1>5. QED
  BY <1>1, <1>2, <1>3, <1>4 DEF Held

(* Every scheduled time is a number.                                       *)
LEMMA LInvTimes == LInv => TimesKnown
BY DEF LInv, Typed, TimesKnown

-----------------------------------------------------------------------------
(* SDL_AddTimer                                                            *)
LEMMA ThreadStarts ==
  ASSUME LInv, InitTimers, active \/ ~Quitting
  PROVE  /\ th' = th \/ (th = NoThread /\ th'.pc = "maintain" /\ ~active)
         /\ th'.cur = th.cur /\ active' = TRUE
         /\ th' \in [pc : ThreadLabels, tick : Nat, delay : Nat, deadline : Nat,
                     cur : Timers \cup {NoTimer}]
         /\ nextID' \in Nat \ {0}
         /\ ~active => nextID' = 1
         /\ active => nextID' = nextID
<1>1. CASE active
  BY <1>1 DEF LInv, Typed, InitTimers, control
<1>2. CASE ~active
  <2>1. th = NoThread
    BY <1>2 DEF LInv, Phases
  <2>2. QED
    BY <1>2, <2>1 DEF InitTimers, NoThread, ThreadLabels
<1>3. QED
  BY <1>1, <1>2

(* A structure goes from the free list, or from malloc, to the actor.      *)
LEMMA BeginAddKeepsLInv ==
  ASSUME LInv, NEW a \in Actors, BeginAdd(a)
  PROVE  LInv'
<1> USE DEF BeginAdd, MayCall
<1>1. active \/ ~Quitting
  OBVIOUS
<1>2. /\ th' = th \/ (th = NoThread /\ th'.pc = "maintain" /\ ~active)
      /\ th'.cur = th.cur /\ active' = TRUE
      /\ th' \in [pc : ThreadLabels, tick : Nat, delay : Nat, deadline : Nat,
                  cur : Timers \cup {NoTimer}]
      /\ nextID' \in Nat \ {0}
      /\ ~active => nextID' = 1
      /\ active => nextID' = nextID
  BY <1>1, ThreadStarts
<1>3. pc[a] = "idle" /\ hold[a] = NoTimer /\ (Quitting => a = Worker)
  BY TimerAssumption DEF LInv, Phases, Actors
<1>4. /\ UNCHANGED <<timermap, entries, entryTimer, pending, timers, batch, tm, now, size,
                     fired, removed, issued>>
  BY DEF map, clock, history
<1>5. \/ /\ freelist # <<>> /\ freelist' = Tail(freelist) /\ heap' = heap
         /\ hold' = [hold EXCEPT ![a] = Head(freelist)]
         /\ ref' = [ref EXCEPT ![a] = tm[Head(freelist)].timerID]
         /\ pc' = [pc EXCEPT ![a] = "rm_find"]
      \/ /\ freelist' = freelist /\ ref' = ref
         /\ \E t \in Timers \ heap : hold' = [hold EXCEPT ![a] = t] /\ heap' = heap \cup {t}
         /\ pc' = [pc EXCEPT ![a] = "add_fill"]
      \/ UNCHANGED <<freelist, ref, heap, hold, pc>>
  BY TimerAssumption DEF LInv, Typed, Goto
<1>6. ASSUME freelist # <<>> 
      PROVE  /\ Tail(freelist) \in Seq(Timers) /\ NoRepeat(Tail(freelist))
             /\ Head(freelist) \in ToSet(freelist) /\ Head(freelist) \in Timers
             /\ ToSet(Tail(freelist)) = ToSet(freelist) \ {Head(freelist)}
  BY <1>6, PopFront DEF LInv, Typed, Owners
<1>7. Typed'
  <2>1. Typed
    BY DEF LInv
  <2>2. pc' \in [Actors -> Labels]
    BY <1>5, <2>1 DEF Typed, Labels
  <2>3. hold' \in [Actors -> Timers \cup {NoTimer}] /\ freelist' \in Seq(Timers)
    <3>1. hold' = hold \/ \E t \in Timers : hold' = [hold EXCEPT ![a] = t]
      BY <1>5, <1>6
    <3>2. hold' \in [Actors -> Timers \cup {NoTimer}]
      BY <2>1, <3>1 DEF Typed
    <3>3. freelist' \in Seq(Timers)
      BY <1>5, <1>6, <2>1 DEF Typed
    <3>4. QED
      BY <3>2, <3>3
  <2>4. ref' \in [Actors -> Nat]
    <3>1. freelist # <<>> => tm[Head(freelist)].timerID \in Nat
      BY <1>6, <2>1 DEF Typed
    <3>2. QED
      BY <1>5, <2>1, <3>1 DEF Typed
  <2>5. QED
    BY <1>2, <1>4, <2>1, <2>2, <2>3, <2>4 DEF Typed
<1>8. Phases'
  <2>1. removed' \cup timermap' \subseteq 1..nextID' - 1 /\ removed' \subseteq IDs
    BY <1>1, <1>2, <1>4 DEF LInv, Phases
  <2>2. pc' \in [Actors -> Labels] /\ hold' \in [Actors -> Timers \cup {NoTimer}]
    BY <1>7 DEF Typed
  <2>3. \A b \in Actors : b # a => pc'[b] = pc[b] /\ hold'[b] = hold[b] /\ ref'[b] = ref[b]
    BY <1>5 DEF LInv, Typed
  <2>4. \/ pc'[a] \in {"rm_find", "add_fill"} /\ hold'[a] # NoTimer
        \/ pc'[a] = "idle" /\ hold'[a] = NoTimer
    BY <1>3, <1>5, <1>6, TimerAssumption DEF LInv, Typed
  <2>5. active' /\ ~ Quitting'
    BY <1>2, <1>3, <2>3, <2>4, TimerAssumption DEF LInv, Phases, Quitting, Actors
  <2>6. pc'[Worker] # "idle" => th'.pc = "callback"
    BY <1>2, <1>3, <2>3, TimerAssumption DEF LInv, Phases, NoThread, Actors
  <2>7. th'.pc = "callback" <=> th'.cur # NoTimer
    BY <1>2 DEF LInv, Phases, NoThread
  <2>8. \A b \in Actors : pc'[b] \in {"rm_test", "rm_set"} => ref'[b] \in IDs \cap 1..nextID' - 1
    BY <1>2, <1>1, <2>3, <2>4 DEF LInv, Phases
  <2>9. QED
    BY <2>1, <2>3, <2>4, <2>5, <2>6, <2>7, <2>8 DEF LInv, Phases
<1>9. Owners'
  <2>1. CASE UNCHANGED <<freelist, ref, heap, hold, pc>>
    BY <1>2, <1>4, <2>1, SameOwners DEF lists
  <2>2. Current' = Current
    BY <1>2 DEF Current
  <2>3. Split(heap, ToSet(pending), ToSet(freelist), ToSet(timers), ToSet(batch), Held, Current)
    BY DEF LInv, Owners
  <2>4. CASE /\ freelist # <<>> /\ freelist' = Tail(freelist) /\ heap' = heap
             /\ hold' = [hold EXCEPT ![a] = Head(freelist)]
    <3>1. Head(freelist) \notin Held
      BY <1>6, <2>3, <2>4 DEF Split
    <3>2. /\ Held' = Held \cup {Head(freelist)}
          /\ \A b, c \in Actors : hold'[b] = hold'[c] /\ hold'[b] # NoTimer => b = c
      BY <1>3, <1>6, <2>4, <3>1, Takes
    <3>3. Split(heap, ToSet(pending), ToSet(freelist)', ToSet(timers), ToSet(batch), Held', Current)
      BY <1>6, <2>3, <2>4, <3>2 DEF Split
    <3>4. QED
      BY <1>4, <1>6, <2>2, <2>4, <3>2, <3>3 DEF LInv, Owners
  <2>5. ASSUME NEW t \in Timers \ heap, hold' = [hold EXCEPT ![a] = t], heap' = heap \cup {t},
               freelist' = freelist
        PROVE  Owners'
    <3>1. t \notin Held
      BY <2>3, <2>5 DEF Split
    <3>2. /\ Held' = Held \cup {t}
          /\ \A b, c \in Actors : hold'[b] = hold'[c] /\ hold'[b] # NoTimer => b = c
      BY <1>3, <2>5, <3>1, Takes
    <3>3. Split(heap', ToSet(pending), ToSet(freelist), ToSet(timers), ToSet(batch), Held', Current)
      BY <2>3, <2>5, <3>2 DEF Split
    <3>4. QED
      BY <1>4, <2>2, <2>5, <3>2, <3>3 DEF LInv, Owners
  <2>6. QED
    BY <1>5, <2>1, <2>4, <2>5
<1>10. Sorted(timers)' /\ DueTimersServed'
  BY <1>2, <1>4, SameOrder
<1>11. Flagged'
  BY <1>4, SameFlags
<1>12. QED
  BY <1>7, <1>8, <1>9, <1>10, <1>11 DEF LInv

(* An actor that is in a call, or may begin one, goes on to l.             *)
LEMMA MoveKeepsPhases ==
  ASSUME LInv, NEW a \in Actors, NEW l \in Labels \ {"quit_post", "quit_join"},
         pc' = [pc EXCEPT ![a] = l], pc[a] \notin {"quit_post", "quit_join"},
         pc[a] # "idle" \/ MayCall(a),
         ~active /\ ~Quitting => l = "idle" /\ timermap' = timermap /\ removed' = removed,
         th' = th, active' = active, nextID' \in Nat, nextID' >= nextID,
         \A b \in Actors \ {a} : hold'[b] = hold[b] /\ ref'[b] = ref[b],
         l \in {"add_fill", "add_queue", "rm_find"} => hold'[a] # NoTimer,
         l \in {"idle", "add_post", "add_return"} => hold'[a] = NoTimer,
         l \in {"rm_test", "rm_set"} => ref'[a] \in IDs \cap 1..nextID - 1,
         removed' \cup timermap' \subseteq 1..nextID' - 1 /\ removed' \subseteq IDs
  PROVE  Phases' /\ pc' \in [Actors -> Labels]
<1>1. /\ pc' \in [Actors -> Labels] /\ pc'[a] = l
      /\ \A b \in Actors \ {a} : pc'[b] = pc[b]
  BY DEF LInv, Typed
<1>2. Main \in Actors /\ Worker \in Actors /\ Main # Worker /\ Callers \subseteq Actors
  BY TimerAssumption DEF Actors
<1>3. Quitting' <=> Quitting
  BY <1>1, <1>2 DEF Quitting
<1>4. nextID \in Nat /\ 1..nextID - 1 \subseteq 1..nextID' - 1
  BY DEF LInv, Typed
<1>5. ~active' /\ ~Quitting' => /\ th' = NoThread /\ removed' = {} /\ timermap' = {}
                               /\ \A b \in Actors : pc'[b] = "idle"
  BY <1>1, <1>3 DEF LInv, Phases
<1>6. Quitting' => ~active' /\ \A c \in Callers \ {Main} : pc'[c] = "idle"
  <2>1. Quitting' => Quitting
    BY <1>3
  <2>2. ASSUME Quitting, NEW c \in Callers \ {Main} PROVE pc'[c] = "idle"
    <3>1. pc[c] = "idle"
      BY <2>2 DEF LInv, Phases
    <3>2. c # a
      BY <1>2, <2>2, <3>1, TimerAssumption DEF MayCall
    <3>3. QED
      BY <1>1, <1>2, <3>1, <3>2
  <2>3. Quitting => ~active'
    BY DEF LInv, Phases
  <2>4. QED
    BY <2>1, <2>2, <2>3
<1>7. pc'[Worker] # "idle" => th'.pc = "callback"
  BY <1>1, <1>2 DEF LInv, Phases, MayCall
<1>8. th'.pc = "callback" <=> th'.cur # NoTimer
  BY DEF LInv, Phases
<1>9. ASSUME NEW b \in Actors
      PROVE  /\ pc'[b] \in {"add_fill", "add_queue", "rm_find"} => hold'[b] # NoTimer
             /\ pc'[b] \in {"idle", "add_post", "add_return", "quit_post", "quit_join"} =>
                  hold'[b] = NoTimer
             /\ pc'[b] \in {"rm_test", "rm_set"} => ref'[b] \in IDs \cap 1..nextID' - 1
  <2>1. CASE b = a
    BY <1>1, <1>4, <2>1
  <2>2. CASE b # a
    BY <1>1, <1>4, <2>2 DEF LInv, Phases
  <2>3. QED
    BY <2>1, <2>2
<1>10. QED
  BY <1>1, <1>5, <1>6, <1>7, <1>8, <1>9 DEF Phases

(* The structure gets a new ID, which nobody has removed; or it is freed.  *)
LEMMA AddFillKeepsLInv ==
  ASSUME LInv, NEW a \in Actors, AddFill(a)
  PROVE  LInv'
<1> DEFINE t == hold[a]
<1> USE DEF AddFill
<1>1. /\ pc[a] = "add_fill" /\ t \in Timers /\ t # NoTimer
      /\ active' = active /\ nextID' = nextID + 1
      /\ UNCHANGED <<pending, freelist, timers, batch, th, now, size, fired, removed, issued>>
  BY TimerAssumption DEF LInv, Typed, Phases, lists, clock, history
<1>2. PICK i \in Nat : tm' = [tm EXCEPT ![t] = [timerID |-> nextID, scheduled |-> now + i,
                                                canceled |-> FALSE]]
  BY TimerAssumption
<1>3. \/ /\ timermap' = timermap \cup {nextID} /\ entryTimer' = [entryTimer EXCEPT ![nextID] = t]
         /\ ref' = [ref EXCEPT ![a] = nextID] /\ pc' = [pc EXCEPT ![a] = "add_queue"]
         /\ heap' = heap /\ hold' = hold
      \/ /\ heap' = heap \ {t} /\ hold' = [hold EXCEPT ![a] = NoTimer]
         /\ pc' = [pc EXCEPT ![a] = "idle"]
         /\ UNCHANGED <<timermap, entryTimer, ref>>
  BY DEF Goto, Free, map
<1>4. Typed /\ Phases /\ Owners /\ nextID \in Nat \ {0}
  BY DEF LInv, Typed
<1>5. Typed'
  <2>1. now + i \in Nat
    BY <1>4 DEF Typed
  <2>2. tm' \in [Timers -> [timerID : Nat, scheduled : Nat, canceled : BOOLEAN]]
    BY <1>1, <1>2, <1>4, <2>1 DEF Typed
  <2>3. pc' \in [Actors -> Labels] /\ hold' \in [Actors -> Timers \cup {NoTimer}] /\ ref' \in [Actors -> Nat]
    <3>1. pc' \in [Actors -> Labels]
      BY <1>3, <1>4 DEF Typed, Labels
    <3>2. hold' \in [Actors -> Timers \cup {NoTimer}]
      BY <1>3, <1>4 DEF Typed
    <3>3. ref' \in [Actors -> Nat]
      BY <1>3, <1>4 DEF Typed
    <3>4. QED
      BY <3>1, <3>2, <3>3
  <2>4. entryTimer' = [j \in IDs |-> entryTimer'[j]]
    BY <1>3, <1>4 DEF Typed
  <2>5. nextID' \in Nat \ {0}
    BY <1>1, <1>4
  <2> HIDE DEF t
  <2>6. QED
    BY <1>1, <1>4, <2>2, <2>3, <2>4, <2>5 DEF Typed
<1>6. Phases'
  <2>1. removed' \cup timermap' \subseteq 1..nextID' - 1 /\ removed' \subseteq IDs
    BY <1>1, <1>3, <1>4 DEF Phases
  <2>2. active \/ Quitting
    BY <1>1, <1>4 DEF Phases
  <2>3. nextID' \in Nat /\ nextID' >= nextID
    BY <1>1, <1>4
  <2>4. \A b \in Actors \ {a} : hold'[b] = hold[b] /\ ref'[b] = ref[b]
    BY <1>3, <1>4 DEF Typed
  <2>5. CASE pc' = [pc EXCEPT ![a] = "add_queue"] /\ hold' = hold
    BY <1>1, <2>1, <2>2, <2>3, <2>4, <2>5, MoveKeepsPhases DEF Labels
  <2>6. CASE pc' = [pc EXCEPT ![a] = "idle"] /\ hold' = [hold EXCEPT ![a] = NoTimer]
    <3>1. hold'[a] = NoTimer
      BY <1>4, <2>6 DEF Typed
    <3>2. QED
      BY <1>1, <2>1, <2>2, <2>3, <2>4, <2>6, <3>1, MoveKeepsPhases DEF Labels
  <2>7. QED
    BY <1>3, <2>5, <2>6
<1>7. Owners'
  <2>1. CASE heap' = heap /\ hold' = hold
    BY <1>1, <2>1, SameOwners DEF lists
  <2>2. CASE heap' = heap \ {t} /\ hold' = [hold EXCEPT ![a] = NoTimer]
    <3>1. /\ Held' = Held \ {t} /\ t \in Held
          /\ \A b, c \in Actors : hold'[b] = hold'[c] /\ hold'[b] # NoTimer => b = c
      BY <1>1, <2>2, Gives
    <3>2. Split(heap', ToSet(pending), ToSet(freelist), ToSet(timers), ToSet(batch), Held', Current)
      BY <1>4, <2>2, <3>1 DEF Owners, Split
    <3>3. Current' = Current
      BY <1>1 DEF Current
    <3>4. QED
      BY <1>1, <1>4, <3>1, <3>2, <3>3 DEF Owners
  <2>3. QED
    BY <1>3, <2>1, <2>2
<1>8. Sorted(timers)' /\ DueTimersServed'
  <2>1. t \notin ToSet(timers)
    <3>1. t \in Held
      BY <1>1 DEF Held
    <3>2. QED
      BY <1>4, <3>1 DEF Owners, Split
  <2>2. \A u \in ToSet(timers) : tm'[u].scheduled = tm[u].scheduled
    <3>1. \A u \in ToSet(timers) : u \in Timers
      BY <1>4 DEF Typed, ToSet
    <3>2. QED
      BY <1>2, <1>4, <2>1, <3>1 DEF Typed
  <2>3. QED
    BY <1>1, <2>2, SameOrder
<1>9. Flagged'
  <2>1. SUFFICES ASSUME NEW id \in removed, entryTimer'[id] \in Timers,
                        tm'[entryTimer'[id]].timerID = id
                 PROVE  tm'[entryTimer'[id]].canceled
    BY <1>1 DEF Flagged
  <2>2. id # nextID
    BY <1>4 DEF Phases
  <2>3. entryTimer'[id] = entryTimer[id]
    <3>1. id \in IDs
      BY <1>4 DEF Phases
    <3>2. QED
      BY <1>3, <1>4, <2>2, <3>1 DEF Typed
  <2>4. entryTimer[id] # t
    BY <1>1, <1>2, <1>4, <2>1, <2>2, <2>3 DEF Typed
  <2>5. tm'[entryTimer[id]] = tm[entryTimer[id]]
    BY <1>2, <1>4, <2>1, <2>3, <2>4 DEF Typed
  <2>6. QED
    BY <2>1, <2>3, <2>5 DEF LInv, Flagged
<1>10. QED
  BY <1>5, <1>6, <1>7, <1>8, <1>9 DEF LInv

(* The structure goes from the actor to the pending list.                  *)
LEMMA AddQueueKeepsLInv ==
  ASSUME LInv, NEW a \in Actors, AddQueue(a)
  PROVE  LInv'
<1> DEFINE t == hold[a]
<1> USE DEF AddQueue
<1>0. Typed /\ Phases /\ Owners /\ nextID \in Nat \ {0}
  BY DEF LInv, Typed
<1>1. /\ pc[a] = "add_queue" /\ t \in Timers /\ t # NoTimer
      /\ pc' = [pc EXCEPT ![a] = "add_post"] /\ hold' = [hold EXCEPT ![a] = NoTimer]
      /\ pending' = <<t>> \o pending
      /\ UNCHANGED <<active, nextID, timermap, entries, entryTimer, freelist, timers, batch,
                     heap, tm, th, ref, now, size, fired, removed, issued>>
  BY <1>0 DEF Typed, Phases, Goto, control, map, memory, clock, history
<1>2. /\ Held' = Held \ {t} /\ t \in Held
      /\ \A b, c \in Actors : hold'[b] = hold'[c] /\ hold'[b] # NoTimer => b = c
  BY <1>1, Gives
<1>3. t \notin ToSet(pending)
  BY <1>0, <1>2 DEF Owners, Split
<1>4. pending' \in Seq(Timers) /\ NoRepeat(pending') /\ ToSet(pending') = ToSet(pending) \cup {t}
  BY <1>0, <1>1, <1>3, PushFront DEF Typed, Owners
<1> HIDE DEF t, AddQueue
<1>5. hold' \in [Actors -> Timers \cup {NoTimer}] /\ hold'[a] = NoTimer
      /\ \A b \in Actors \ {a} : hold'[b] = hold[b] /\ ref'[b] = ref[b]
  BY <1>0, <1>1 DEF Typed
<1>6. Phases' /\ pc' \in [Actors -> Labels]
  <2>1. active \/ Quitting
    BY <1>0, <1>1 DEF Phases
  <2>2. removed' \cup timermap' \subseteq 1..nextID' - 1 /\ removed' \subseteq IDs
    BY <1>0, <1>1 DEF Phases
  <2>3. nextID' \in Nat /\ nextID' >= nextID
    BY <1>0, <1>1
  <2>4. "add_post" \in Labels \ {"quit_post", "quit_join"}
    BY DEF Labels
  <2>5. QED
    BY <1>1, <1>5, <2>1, <2>2, <2>3, <2>4, MoveKeepsPhases
<1>7. Typed'
  BY <1>0, <1>1, <1>4, <1>5, <1>6 DEF Typed
<1>8. Owners'
  <2>1. Current' = Current
    BY <1>1 DEF Current
  <2>2. Split(heap, ToSet(pending'), ToSet(freelist), ToSet(timers), ToSet(batch), Held', Current)
    BY <1>0, <1>2, <1>4 DEF Owners, Split
  <2>3. QED
    BY <1>0, <1>1, <1>2, <1>4, <2>1, <2>2 DEF Owners
<1>9. Sorted(timers)' /\ DueTimersServed'
  BY <1>1, SameOrder
<1>10. Flagged'
  BY <1>1, SameFlags
<1>11. QED
  BY <1>6, <1>7, <1>8, <1>9, <1>10 DEF LInv

(* A move that changes none of the lists, and no timer but for a flag set. *)
LEMMA MoveKeepsLInv ==
  ASSUME LInv, NEW a \in Actors, NEW l \in Labels \ {"quit_post", "quit_join"},
         pc' = [pc EXCEPT ![a] = l], pc[a] \notin {"quit_post", "quit_join"},
         pc[a] # "idle" \/ MayCall(a),
         ~active /\ ~Quitting => l = "idle" /\ timermap' = timermap /\ removed' = removed,
         ref' \in [Actors -> Nat], \A b \in Actors \ {a} : ref'[b] = ref[b],
         l \in {"add_fill", "add_queue", "rm_find"} => hold[a] # NoTimer,
         l \in {"idle", "add_post", "add_return"} => hold[a] = NoTimer,
         l \in {"rm_test", "rm_set"} => ref'[a] \in IDs \cap 1..nextID - 1,
         removed' \cup timermap' \subseteq 1..nextID - 1, removed' \subseteq IDs,
         tm' \in [Timers -> [timerID : Nat, scheduled : Nat, canceled : BOOLEAN]],
         \A t \in Timers : tm'[t].scheduled = tm[t].scheduled,
         UNCHANGED <<active, nextID, lists, heap, th, hold, entryTimer, now, size>>
  PROVE  Typed' /\ Phases' /\ Owners' /\ Sorted(timers)' /\ DueTimersServed'
<1>1. Typed /\ Phases /\ nextID \in Nat
  BY DEF LInv, Typed
<1>2. UNCHANGED <<pending, freelist, timers, batch>>
  BY DEF lists
<1>3. Phases' /\ pc' \in [Actors -> Labels]
  <2>1. nextID' \in Nat /\ nextID' >= nextID
    BY <1>1
  <2>2. removed' \cup timermap' \subseteq 1..nextID' - 1 /\ removed' \subseteq IDs
    OBVIOUS
  <2>3. \A b \in Actors \ {a} : hold'[b] = hold[b] /\ ref'[b] = ref[b]
    OBVIOUS
  <2>4. /\ l \in {"add_fill", "add_queue", "rm_find"} => hold'[a] # NoTimer
        /\ l \in {"idle", "add_post", "add_return"} => hold'[a] = NoTimer
    OBVIOUS
  <2>5. QED
    BY <2>1, <2>2, <2>3, <2>4, MoveKeepsPhases
<1>4. Typed'
  BY <1>1, <1>2, <1>3 DEF Typed
<1>5. Owners'
  BY SameOwners
<1>6. Sorted(timers)' /\ DueTimersServed'
  <2>1. \A t \in ToSet(timers) : t \in Timers
    BY <1>1 DEF Typed, ToSet
  <2>2. QED
    BY <1>2, <2>1, SameOrder
<1>7. QED
  BY <1>3, <1>4, <1>5, <1>6

(* The other steps of an actor move no structure; RemoveSet sets a flag.   *)
LEMMA OtherActorStepsKeepLInv ==
  ASSUME LInv, NEW a \in Actors,
         AddPost(a) \/ AddReturn(a) \/ (\E id \in IDs : RemoveFind(a, id)) \/ RemoveTest(a) \/ RemoveSet(a)
  PROVE  LInv'
<1>0. /\ Typed /\ Phases /\ Flagged /\ nextID \in Nat \ {0}
      /\ removed \cup timermap \subseteq 1..nextID - 1 /\ removed \subseteq IDs
      /\ pc[a] # "idle" => active \/ Quitting
      /\ tm \in [Timers -> [timerID : Nat, scheduled : Nat, canceled : BOOLEAN]]
      /\ ref \in [Actors -> Nat]
  BY DEF LInv, Typed, Phases
<1> USE DEF control, map, memory, clock, history, Goto, Labels
<1>1. CASE AddPost(a)
  <2> USE DEF AddPost
  <2>1. hold[a] = NoTimer
    BY <1>0, <1>1 DEF Phases
  <2>2. Typed' /\ Phases' /\ Owners' /\ Sorted(timers)' /\ DueTimersServed'
    BY <1>0, <1>1, <2>1, MoveKeepsLInv
  <2>3. Flagged'
    BY <1>1, SameFlags
  <2>4. QED
    BY <2>2, <2>3 DEF LInv
<1>2. CASE AddReturn(a)
  <2> USE DEF AddReturn
  <2>1. hold[a] = NoTimer
    BY <1>0, <1>2 DEF Phases
  <2>2. ref' \in [Actors -> Nat] /\ \A b \in Actors \ {a} : ref'[b] = ref[b]
    BY <1>0, <1>2
  <2>3. Typed' /\ Phases' /\ Owners' /\ Sorted(timers)' /\ DueTimersServed'
    BY <1>0, <1>2, <2>1, <2>2, MoveKeepsLInv
  <2>4. Flagged'
    BY <1>2, SameFlags
  <2>5. QED
    BY <2>3, <2>4 DEF LInv
<1>3. ASSUME NEW id \in IDs, RemoveFind(a, id) PROVE LInv'
  <2> USE DEF RemoveFind
  <2>1. /\ pc[a] = "rm_find" \/ (pc[a] = "idle" /\ MayCall(a))
        /\ UNCHANGED <<active, nextID, entries, entryTimer, lists, heap, tm, th, hold, now, size, removed>>
    BY <1>3 DEF MayCall
  <2>2. id \in Nat
    BY TimerAssumption DEF IDs
  <2>3. CASE id \in timermap
    <3>1. /\ timermap' = timermap \ {id} /\ ref' = [ref EXCEPT ![a] = id]
          /\ pc' = [pc EXCEPT ![a] = "rm_test"]
      BY <1>3, <2>3
    <3>2. /\ ref' \in [Actors -> Nat] /\ ref'[a] = id
          /\ \A b \in Actors \ {a} : ref'[b] = ref[b]
      BY <1>0, <2>2, <3>1
    <3>3. active \/ Quitting
      BY <1>0, <2>3 DEF Phases
    <3>4. id \in IDs \cap 1..nextID - 1
      BY <1>0, <2>3
    <3>5. Typed' /\ Phases' /\ Owners' /\ Sorted(timers)' /\ DueTimersServed'
      BY <1>0, <2>1, <3>1, <3>2, <3>3, <3>4, MoveKeepsLInv
    <3>6. Flagged'
      BY <2>1, SameFlags
    <3>7. QED
      BY <3>5, <3>6 DEF LInv
  <2>4. CASE id \notin timermap
    <3>1. /\ timermap' = timermap /\ ref' = [ref EXCEPT ![a] = 0]
          /\ pc' = [pc EXCEPT ![a] = AfterRemove(a)]
      BY <1>3, <2>4
    <3>2. /\ ref' \in [Actors -> Nat]
          /\ \A b \in Actors \ {a} : ref'[b] = ref[b]
      BY <1>0, <2>2, <3>1
    <3>3. ~active /\ ~Quitting => AfterRemove(a) = "idle"
      BY <1>0 DEF Phases, AfterRemove
    <3>4. /\ AfterRemove(a) \in {"idle", "add_fill"}
          /\ AfterRemove(a) = "idle" <=> hold[a] = NoTimer
      BY DEF AfterRemove
    <3>5. Typed' /\ Phases' /\ Owners' /\ Sorted(timers)' /\ DueTimersServed'
      BY <1>0, <2>1, <3>1, <3>2, <3>3, <3>4, MoveKeepsLInv
    <3>6. Flagged'
      BY <2>1, SameFlags
    <3>7. QED
      BY <3>5, <3>6 DEF LInv
  <2>5. QED
    BY <2>3, <2>4
<1>4. CASE RemoveTest(a)
  <2> USE DEF RemoveTest
  <2>1. /\ pc[a] = "rm_test"
        /\ UNCHANGED <<active, nextID, timermap, entryTimer, lists, heap, tm, th, hold, now, size, removed>>
        /\ \/ ref' = [ref EXCEPT ![a] = 0] /\ pc' = [pc EXCEPT ![a] = AfterRemove(a)]
           \/ ref' = ref /\ pc' = [pc EXCEPT ![a] = "rm_set"]
    BY <1>4 DEF FreeEntry
  <2>2. /\ ref' \in [Actors -> Nat]
        /\ \A b \in Actors \ {a} : ref'[b] = ref[b]
    BY <1>0, <2>1
  <2>3. /\ AfterRemove(a) \in {"idle", "add_fill"}
        /\ AfterRemove(a) = "idle" <=> hold[a] = NoTimer
    BY DEF AfterRemove
  <2>4. ref[a] \in IDs \cap 1..nextID - 1 /\ (active \/ Quitting)
    BY <1>0, <2>1 DEF Phases
  <2>5. Typed' /\ Phases' /\ Owners' /\ Sorted(timers)' /\ DueTimersServed'
    <3>1. CASE ref' = [ref EXCEPT ![a] = 0] /\ pc' = [pc EXCEPT ![a] = AfterRemove(a)]
      BY <1>0, <2>1, <2>2, <2>3, <2>4, <3>1, MoveKeepsLInv
    <3>2. CASE ref' = ref /\ pc' = [pc EXCEPT ![a] = "rm_set"]
      BY <1>0, <2>1, <2>2, <2>4, <3>2, MoveKeepsLInv
    <3>3. QED
      BY <2>1, <3>1, <3>2
  <2>6. Flagged'
    BY <2>1, SameFlags
  <2>7. QED
    BY <2>5, <2>6 DEF LInv
<1>5. CASE RemoveSet(a)
  <2> USE DEF RemoveSet
  <2> DEFINE e == entryTimer[ref[a]]
  <2>1. /\ pc[a] = "rm_set"
        /\ UNCHANGED <<active, nextID, timermap, entryTimer, lists, heap, th, hold, now, size>>
        /\ ref' = [ref EXCEPT ![a] = 0] /\ pc' = [pc EXCEPT ![a] = AfterRemove(a)]
        /\ removed' = removed \cup {ref[a]}
        /\ tm' = [tm EXCEPT ![e].canceled = TRUE]
    BY <1>5 DEF FreeEntry
  <2>2. /\ ref' \in [Actors -> Nat]
        /\ \A b \in Actors \ {a} : ref'[b] = ref[b]
    BY <1>0, <2>1
  <2>3. /\ AfterRemove(a) \in {"idle", "add_fill"}
        /\ AfterRemove(a) = "idle" <=> hold[a] = NoTimer
    BY DEF AfterRemove
  <2>4. ref[a] \in IDs \cap 1..nextID - 1 /\ (active \/ Quitting)
    BY <1>0, <2>1 DEF Phases
  <2> HIDE DEF e
  <2>5. /\ tm' \in [Timers -> [timerID : Nat, scheduled : Nat, canceled : BOOLEAN]]
        /\ \A t \in Timers : /\ tm'[t].scheduled = tm[t].scheduled
                             /\ tm'[t].timerID = tm[t].timerID
                             /\ tm'[t].canceled = IF t = e THEN TRUE ELSE tm[t].canceled
    BY <1>0, <2>1
  <2>6. Typed' /\ Phases' /\ Owners' /\ Sorted(timers)' /\ DueTimersServed'
    BY <1>0, <2>1, <2>2, <2>3, <2>4, <2>5, MoveKeepsLInv
  <2>7. Flagged'
    BY <1>0, <2>1, <2>5 DEF Flagged, e
  <2>8. QED
    BY <2>6, <2>7 DEF LInv
<1>6. QED
  BY <1>1, <1>2, <1>3, <1>4, <1>5

-----------------------------------------------------------------------------
(* The timer thread                                                        *)
LEMMA ThreadMoveKeepsPhases ==
  ASSUME LInv, UNCHANGED <<active, nextID, pc, hold, ref, timermap, removed>>,
         th.pc # "none", pc[Worker] = "idle",
         th'.pc = "callback" <=> th'.cur # NoTimer
  PROVE  Phases'
<1>1. Phases /\ (active \/ Quitting)
  BY DEF LInv, Phases, NoThread
<1>2. Quitting' <=> Quitting
  BY DEF Quitting
<1>3. QED
  BY <1>1, <1>2 DEF Phases

(* Steps that leave the lists and the timers alone.                        *)
LEMMA ThreadMoveKeepsLInv ==
  ASSUME LInv, UNCHANGED <<active, nextID, map, lists, memory, locals, clock, history>>,
         th.pc \notin {"none", "callback"}, th'.pc \notin {"callback", "adjust", "sleep"}, th'.cur = NoTimer,
         th' \in [pc : ThreadLabels, tick : Nat, delay : Nat, deadline : Nat,
                  cur : Timers \cup {NoTimer}]
  PROVE  LInv'
<1> USE DEF map, lists, memory, locals, clock, history
<1>1. Typed /\ Phases
  BY DEF LInv
<1>2. th.cur = NoTimer /\ pc[Worker] = "idle"
  BY <1>1 DEF Phases
<1>3. Typed'
  BY <1>1 DEF Typed
<1>4. Phases'
  BY <1>2, ThreadMoveKeepsPhases
<1>5. Owners'
  BY <1>2, SameOwners
<1>6. Sorted(timers)' /\ DueTimersServed'
  BY SameOrder
<1>7. Flagged'
  BY SameFlags
<1>8. QED
  BY <1>3, <1>4, <1>5, <1>6, <1>7 DEF LInv

(* Pending timers move to the sorted list, finished ones to the free list. *)
LEMMA MaintainKeepsLInv ==
  ASSUME LInv, ThMaintain
  PROVE  LInv'
<1> USE DEF ThMaintain
<1>1. Typed /\ Phases /\ Owners /\ Sorted(timers) /\ TimesKnown
  BY LInvTimes DEF LInv
<1>2. /\ th.pc = "maintain" /\ th' = [th EXCEPT !.pc = "check"]
      /\ timers' = Inserted(timers, pending) /\ pending' = <<>>
      /\ freelist' = batch \o freelist /\ batch' = <<>>
      /\ UNCHANGED <<active, nextID, timermap, entries, entryTimer, heap, tm, pc, hold, ref, now, size, removed>>
  BY DEF TakePending, RecycleBatch, Inserted, control, map, memory, locals, clock, history
<1>3. th.cur = NoTimer /\ pc[Worker] = "idle" /\ th' \in [pc : ThreadLabels, tick : Nat, delay : Nat, deadline : Nat,
                  cur : Timers \cup {NoTimer}] /\ th'.pc = "check" /\ th'.cur = th.cur
  BY <1>1, <1>2 DEF Typed, Phases, ThreadLabels
<1> HIDE DEF ThMaintain
<1>4. /\ pending \in Seq(Timers) /\ freelist \in Seq(Timers) /\ timers \in Seq(Timers) /\ batch \in Seq(Timers)
      /\ NoRepeat(pending) /\ NoRepeat(freelist) /\ NoRepeat(timers) /\ NoRepeat(batch)
      /\ Split(heap, ToSet(pending), ToSet(freelist), ToSet(timers), ToSet(batch), Held, Current)
  BY <1>1 DEF Typed, Owners
<1>5. ToSet(timers) \cap ToSet(pending) = {} /\ ToSet(batch) \cap ToSet(freelist) = {}
  BY <1>4 DEF Split
<1>6. /\ timers' \in Seq(Timers) /\ NoRepeat(timers') /\ ToSet(timers') = ToSet(timers) \cup ToSet(pending)
      /\ Sorted(timers')
  BY <1>1, <1>2, <1>4, <1>5, TakenInOrder
<1>7. /\ freelist' \in Seq(Timers) /\ NoRepeat(freelist') /\ ToSet(freelist') = ToSet(batch) \cup ToSet(freelist)
  BY <1>2, <1>4, <1>5, JoinLists
<1>8. /\ pending' \in Seq(Timers) /\ NoRepeat(pending') /\ ToSet(pending') = {}
      /\ batch' \in Seq(Timers) /\ NoRepeat(batch') /\ ToSet(batch') = {}
  BY <1>2, EmptyList
<1>9. Typed'
  BY <1>1, <1>2, <1>3, <1>6, <1>7, <1>8 DEF Typed
<1>10. Phases'
  BY <1>2, <1>3, ThreadMoveKeepsPhases
<1>11. Owners'
  <2>1. Held' = Held /\ Current' = Current
    BY <1>2, <1>3 DEF Held, Current
  <2>2. Split(heap, ToSet(pending'), ToSet(freelist'), ToSet(timers'), ToSet(batch'), Held, Current)
    BY <1>4, <1>6, <1>7, <1>8 DEF Split
  <2>3. QED
    BY <1>1, <1>2, <1>6, <1>7, <1>8, <2>1, <2>2 DEF Owners
<1>12. Sorted(timers)' /\ DueTimersServed'
  BY <1>2, <1>3, <1>6 DEF Sorted, DueTimersServed
<1>13. Flagged'
  BY <1>2, SameFlags
<1>14. QED
  BY <1>9, <1>10, <1>11, <1>12, <1>13 DEF LInv

(* The head of a sorted list is the earliest: if it is not due, none is.   *)
LEMMA NothingDueKeepsLInv ==
  ASSUME LInv, ThNothingDue
  PROVE  LInv'
<1> USE DEF ThNothingDue
<1>1. Typed /\ Phases /\ Owners /\ Sorted(timers) /\ TimesKnown
  BY LInvTimes DEF LInv
<1> DEFINE d == IF timers = <<>> THEN Forever ELSE tm[Head(timers)].scheduled - th.tick
<1>2. /\ th.pc = "process" /\ th' = [th EXCEPT !.pc = "adjust", !.delay = d]
      /\ timers # <<>> => th.tick < tm[Head(timers)].scheduled
      /\ UNCHANGED <<active, nextID, map, lists, memory, locals, clock, history>>
  BY DEF control
<1>3. th.tick \in Nat /\ Forever \in Nat
  BY <1>1, TimerAssumption DEF Typed, Forever
<1>4. timers # <<>> => /\ tm[Head(timers)].scheduled \in Nat /\ Head(timers) = timers[1]
                      /\ 1 \in DOMAIN timers /\ d = tm[timers[1]].scheduled - th.tick
  <2>1. timers # <<>> => Head(timers) = timers[1] /\ 1 \in DOMAIN timers /\ timers[1] \in Timers
    BY <1>1 DEF Typed
  <2>2. QED
    BY <1>1, <2>1 DEF TimesKnown
<1>5. d \in Nat
  BY <1>2, <1>3, <1>4
<1> HIDE DEF d, ThNothingDue
<1>6. /\ th' \in [pc : ThreadLabels, tick : Nat, delay : Nat, deadline : Nat, cur : Timers \cup {NoTimer}]
      /\ th'.pc = "adjust" /\ th'.cur = th.cur /\ th'.tick = th.tick /\ th'.delay = d
  BY <1>1, <1>2, <1>5 DEF Typed, ThreadLabels
<1>7. th.cur = NoTimer /\ pc[Worker] = "idle"
  BY <1>1, <1>2 DEF Phases
<1>8. Typed'
  BY <1>1, <1>2, <1>6 DEF Typed, map, lists, memory, locals, clock, history
<1>9. Phases'
  BY <1>2, <1>6, <1>7, ThreadMoveKeepsPhases DEF map, locals, history
<1>10. Owners'
  BY <1>2, <1>6, SameOwners DEF memory, locals
<1>11. Sorted(timers)'
  BY <1>1, <1>2 DEF Sorted, lists, memory
<1>12. DueTimersServed'
  <2>1. SUFFICES ASSUME NEW i \in DOMAIN timers
                 PROVE  tm[timers[i]].scheduled > th.tick /\ th.tick + d <= tm[timers[i]].scheduled
    BY <1>2, <1>6 DEF DueTimersServed, lists, memory
  <2>2. timers # <<>> /\ 1 <= i /\ timers[i] \in Timers
    BY <1>1 DEF Typed
  <2>3. tm[timers[1]].scheduled <= tm[timers[i]].scheduled /\ tm[timers[i]].scheduled \in Nat
    BY <1>1, <1>4, <2>2 DEF Sorted, TimesKnown
  <2>4. QED
    BY <1>2, <1>3, <1>4, <2>2, <2>3
<1>13. Flagged'
  BY <1>2, SameFlags DEF map, memory, history
<1>14. QED
  BY <1>8, <1>9, <1>10, <1>11, <1>12, <1>13 DEF LInv

(* The first of the list leaves it, for the batch or for its callback.     *)
LEMMA HeadLeaves ==
  ASSUME LInv, timers # <<>>
  PROVE  /\ Tail(timers) \in Seq(Timers) /\ NoRepeat(Tail(timers)) /\ Sorted(Tail(timers))
         /\ Head(timers) \in Timers /\ Head(timers) \in ToSet(timers)
         /\ ToSet(Tail(timers)) = ToSet(timers) \ {Head(timers)}
<1>1. Typed /\ Owners /\ Sorted(timers)
  BY DEF LInv
<1>2. timers \in Seq(Timers) /\ NoRepeat(timers)
  BY <1>1 DEF Typed, Owners
<1>3. /\ Tail(timers) \in Seq(Timers) /\ NoRepeat(Tail(timers))
      /\ Head(timers) \in Timers /\ Head(timers) \in ToSet(timers)
      /\ ToSet(Tail(timers)) = ToSet(timers) \ {Head(timers)}
      /\ \A i \in DOMAIN Tail(timers) : i + 1 \in DOMAIN timers /\ Tail(timers)[i] = timers[i + 1]
  BY <1>2, PopFront
<1>4. \A i, j \in DOMAIN Tail(timers) : i <= j => i + 1 <= j + 1
  BY <1>3
<1>5. Sorted(Tail(timers))
  BY <1>1, <1>3, <1>4 DEF Sorted
<1>6. QED
  BY <1>3, <1>5

(* Finish sets the flag of a timer.                                        *)
LEMMA FlagSet ==
  ASSUME Typed, NEW t \in Timers, tm' = [tm EXCEPT ![t].canceled = TRUE]
  PROVE  /\ tm' \in [Timers -> [timerID : Nat, scheduled : Nat, canceled : BOOLEAN]]
         /\ \A u \in Timers : /\ tm'[u].scheduled = tm[u].scheduled
                              /\ tm'[u].timerID = tm[u].timerID
                              /\ tm[u].canceled => tm'[u].canceled
<1>1. tm \in [Timers -> [timerID : Nat, scheduled : Nat, canceled : BOOLEAN]]
  BY DEF Typed
<1>2. /\ tm' \in [Timers -> [timerID : Nat, scheduled : Nat, canceled : BOOLEAN]]
      /\ \A u \in Timers : /\ tm'[u].scheduled = tm[u].scheduled
                           /\ tm'[u].timerID = tm[u].timerID
                           /\ tm'[u].canceled = IF u = t THEN TRUE ELSE tm[u].canceled
  BY <1>1
<1>3. QED
  BY <1>2

(* The head moves to the batch.                                            *)
LEMMA DropCanceledKeepsLInv ==
  ASSUME LInv, ThDropCanceled
  PROVE  LInv'
<1> DEFINE t == Head(timers)
<1>1. Typed /\ Phases /\ Owners
  BY DEF LInv
<1>2. /\ th.pc = "process" /\ timers # <<>> /\ timers' = Tail(timers)
      /\ batch' = Append(batch, t) /\ tm' = [tm EXCEPT ![t].canceled = TRUE]
      /\ UNCHANGED <<active, nextID, timermap, entries, entryTimer, pending, freelist, heap, th, pc, hold, ref,
                     now, size, removed>>
  BY DEF ThDropCanceled, HeadDue, Finish, control, map, locals, clock, history
<1>3. /\ timers' \in Seq(Timers) /\ NoRepeat(timers') /\ Sorted(timers')
      /\ t \in Timers /\ t \in ToSet(timers) /\ ToSet(timers') = ToSet(timers) \ {t}
  <2>1. /\ Tail(timers) \in Seq(Timers) /\ NoRepeat(Tail(timers)) /\ Sorted(Tail(timers))
        /\ Head(timers) \in Timers /\ Head(timers) \in ToSet(timers)
        /\ ToSet(Tail(timers)) = ToSet(timers) \ {Head(timers)}
    BY <1>2, HeadLeaves
  <2>2. QED
    BY <1>2, <2>1
<1> HIDE DEF t
<1>4. Split(heap, ToSet(pending), ToSet(freelist), ToSet(timers), ToSet(batch), Held, Current)
  BY <1>1 DEF Owners
<1>5. t \notin ToSet(batch)
  BY <1>3, <1>4 DEF Split
<1>6. batch' \in Seq(Timers) /\ NoRepeat(batch') /\ ToSet(batch') = ToSet(batch) \cup {t}
  BY <1>1, <1>2, <1>3, <1>5, PushBack DEF Typed, Owners
<1>7. /\ tm' \in [Timers -> [timerID : Nat, scheduled : Nat, canceled : BOOLEAN]]
      /\ \A u \in Timers : /\ tm'[u].scheduled = tm[u].scheduled
                           /\ tm'[u].timerID = tm[u].timerID
                           /\ tm[u].canceled => tm'[u].canceled
  BY <1>1, <1>2, <1>3, FlagSet
<1>8. Typed'
  BY <1>1, <1>2, <1>3, <1>6, <1>7 DEF Typed
<1>9. Phases'
  <2>1. pc[Worker] = "idle"
    BY <1>1, <1>2 DEF Phases
  <2>2. QED
    BY <1>1, <1>2, <2>1, ThreadMoveKeepsPhases DEF Phases
<1>10. Owners'
  <2>1. Held' = Held /\ Current' = Current
    BY <1>2 DEF Held, Current
  <2>2. Split(heap, ToSet(pending), ToSet(freelist), ToSet(timers'), ToSet(batch'), Held, Current)
    BY <1>3, <1>4, <1>6 DEF Split
  <2>3. QED
    BY <1>1, <1>2, <1>3, <1>6, <2>1, <2>2 DEF Owners
<1>11. Sorted(timers)' /\ DueTimersServed'
  <2>1. \A i \in DOMAIN timers' : timers'[i] \in Timers
    BY <1>3
  <2>2. QED
    BY <1>2, <1>3, <1>7, <2>1 DEF Sorted, DueTimersServed
<1>12. Flagged'
  BY <1>2, <1>7, SameFlags
<1>13. QED
  BY <1>8, <1>9, <1>10, <1>11, <1>12 DEF LInv

(* The head becomes the timer that is being called back.                   *)
LEMMA DispatchKeepsLInv ==
  ASSUME LInv, ThDispatch
  PROVE  LInv'
<1> DEFINE t == Head(timers)
<1>1. Typed /\ Phases /\ Owners
  BY DEF LInv
<1>2. /\ th.pc = "process" /\ timers # <<>> /\ timers' = Tail(timers)
      /\ th' = [th EXCEPT !.pc = "callback", !.cur = t]
      /\ UNCHANGED <<active, nextID, timermap, entries, entryTimer, pending, freelist, batch, heap, tm, pc, hold,
                     ref, now, size, removed>>
  BY DEF ThDispatch, HeadDue, control, map, memory, locals, clock
<1>3. /\ timers' \in Seq(Timers) /\ NoRepeat(timers') /\ Sorted(timers')
      /\ t \in Timers /\ t \in ToSet(timers) /\ ToSet(timers') = ToSet(timers) \ {t}
  <2>1. /\ Tail(timers) \in Seq(Timers) /\ NoRepeat(Tail(timers)) /\ Sorted(Tail(timers))
        /\ Head(timers) \in Timers /\ Head(timers) \in ToSet(timers)
        /\ ToSet(Tail(timers)) = ToSet(timers) \ {Head(timers)}
    BY <1>2, HeadLeaves
  <2>2. QED
    BY <1>2, <2>1
<1> HIDE DEF t
<1>4. /\ th' \in [pc : ThreadLabels, tick : Nat, delay : Nat, deadline : Nat, cur : Timers \cup {NoTimer}]
      /\ th'.pc = "callback" /\ th'.cur = t /\ t # NoTimer
  BY <1>1, <1>2, <1>3, TimerAssumption DEF Typed, ThreadLabels
<1>5. pc[Worker] = "idle" /\ th.cur = NoTimer
  BY <1>1, <1>2 DEF Phases
<1>6. Typed'
  BY <1>1, <1>2, <1>3, <1>4 DEF Typed
<1>7. Phases'
  BY <1>2, <1>4, <1>5, ThreadMoveKeepsPhases
<1>8. Owners'
  <2>1. Held' = Held /\ Current = {} /\ Current' = {t}
    BY <1>2, <1>4, <1>5 DEF Held, Current
  <2>2. Split(heap, ToSet(pending), ToSet(freelist), ToSet(timers'), ToSet(batch), Held, {t})
    BY <1>1, <1>3, <2>1 DEF Owners, Split
  <2>3. QED
    BY <1>1, <1>2, <1>3, <2>1, <2>2 DEF Owners
<1>9. Sorted(timers)' /\ DueTimersServed'
  BY <1>2, <1>3, <1>4 DEF Sorted, DueTimersServed
<1>10. Flagged'
  BY <1>2, SameFlags
<1>11. QED
  BY <1>6, <1>7, <1>8, <1>9, <1>10 DEF LInv

(* That timer moves to the batch, or to its new place in the list.         *)
LEMMA ReturnKeepsLInv ==
  ASSUME LInv, ThReturn
  PROVE  LInv'
<1> DEFINE t == th.cur
<1>1. Typed /\ Phases /\ Owners /\ Sorted(timers) /\ TimesKnown
  BY LInvTimes DEF LInv
<1>2. /\ th.pc = "callback" /\ pc[Worker] = "idle"
      /\ th' = [th EXCEPT !.pc = "process", !.cur = NoTimer]
      /\ UNCHANGED <<active, nextID, timermap, entries, entryTimer, pending, freelist, heap, pc, hold,
                     ref, now, size, removed>>
  BY DEF ThReturn, control, map, locals, clock, history
<1>3. \/ /\ batch' = Append(batch, t) /\ tm' = [tm EXCEPT ![t].canceled = TRUE] /\ timers' = timers
      \/ /\ batch' = batch
         /\ \E i \in Intervals \ {0} : /\ tm' = [tm EXCEPT ![t].scheduled = th.tick + i]
                                       /\ timers' = InsertAtTime(timers, t, th.tick + i)
  BY DEF ThReturn, Finish
<1>4. /\ th' \in [pc : ThreadLabels, tick : Nat, delay : Nat, deadline : Nat, cur : Timers \cup {NoTimer}]
      /\ th'.pc = "process" /\ th'.cur = NoTimer
  BY <1>1, <1>2 DEF Typed, ThreadLabels
<1>5. t \in Timers /\ Current = {t} /\ Current' = {}
  BY <1>1, <1>2, <1>4 DEF Typed, Phases, Current
<1> HIDE DEF t
<1>6. /\ Split(heap, ToSet(pending), ToSet(freelist), ToSet(timers), ToSet(batch), Held, {t})
      /\ Held' = Held /\ timers \in Seq(Timers) /\ batch \in Seq(Timers) /\ NoRepeat(timers) /\ NoRepeat(batch)
  BY <1>1, <1>2, <1>5 DEF Owners, Typed, Held
<1>7. t \notin ToSet(timers) /\ t \notin ToSet(batch)
  BY <1>6 DEF Split
<1>8. Phases'
  BY <1>2, <1>4, ThreadMoveKeepsPhases
<1>9. CASE batch' = Append(batch, t) /\ tm' = [tm EXCEPT ![t].canceled = TRUE] /\ timers' = timers
  <2>1. batch' \in Seq(Timers) /\ NoRepeat(batch') /\ ToSet(batch') = ToSet(batch) \cup {t}
    BY <1>5, <1>6, <1>7, <1>9, PushBack
  <2>2. /\ tm' \in [Timers -> [timerID : Nat, scheduled : Nat, canceled : BOOLEAN]]
        /\ \A u \in Timers : /\ tm'[u].scheduled = tm[u].scheduled
                             /\ tm'[u].timerID = tm[u].timerID
                             /\ tm[u].canceled => tm'[u].canceled
    BY <1>1, <1>5, <1>9, FlagSet
  <2>3. Typed'
    BY <1>1, <1>2, <1>4, <1>9, <2>1, <2>2 DEF Typed
  <2>4. Split(heap, ToSet(pending), ToSet(freelist), ToSet(timers), ToSet(batch'), Held, {})
    BY <1>6, <2>1 DEF Split
  <2>5. Owners'
    BY <1>1, <1>2, <1>5, <1>6, <1>9, <2>1, <2>4 DEF Owners
  <2>6. Sorted(timers)' /\ DueTimersServed'
    <3>1. ToSet(timers) \subseteq Timers
      BY <1>6 DEF ToSet
    <3>2. QED
      BY <1>4, <1>9, <2>2, <3>1, SameOrder
  <2>7. Flagged'
    BY <1>2, <2>2, SameFlags
  <2>8. QED
    BY <1>8, <2>3, <2>5, <2>6, <2>7 DEF LInv
<1>10. ASSUME NEW s \in Nat, batch' = batch, tm' = [tm EXCEPT ![t].scheduled = s],
              timers' = InsertAtTime(timers, t, s)
       PROVE  LInv'
  <2>1. PICK p \in 1..Len(timers) + 1 :
          /\ timers' = InsertAt(timers, p, t)
          /\ \A i \in 1..p - 1 : tm[timers[i]].scheduled <= s
          /\ \A i \in p..Len(timers) : tm[timers[i]].scheduled >= s
    BY <1>1, <1>5, <1>6, <1>7, <1>10, InsertedAtTime
  <2>2. /\ timers' \in Seq(Timers) /\ NoRepeat(timers') /\ ToSet(timers') = ToSet(timers) \cup {t}
        /\ DOMAIN timers' = 1..Len(timers) + 1
        /\ \A i \in 1..Len(timers) + 1 :
             timers'[i] = IF i < p THEN timers[i] ELSE IF i = p THEN t ELSE timers[i - 1]
    BY <1>5, <1>6, <1>7, <2>1, InsertPlace
  <2>3. tm \in [Timers -> [timerID : Nat, scheduled : Nat, canceled : BOOLEAN]]
    BY <1>1 DEF Typed
  <2>4. /\ tm' \in [Timers -> [timerID : Nat, scheduled : Nat, canceled : BOOLEAN]]
        /\ \A u \in Timers : /\ tm'[u].scheduled = IF u = t THEN s ELSE tm[u].scheduled
                             /\ tm'[u].timerID = tm[u].timerID
                             /\ tm'[u].canceled = tm[u].canceled
    BY <1>5, <1>10, <2>3
  <2>5. Typed'
    BY <1>1, <1>2, <1>4, <1>10, <2>2, <2>4 DEF Typed
  <2>6. Split(heap, ToSet(pending), ToSet(freelist), ToSet(timers'), ToSet(batch), Held, {})
    BY <1>6, <2>2 DEF Split
  <2>7. Owners'
    BY <1>1, <1>2, <1>5, <1>6, <1>10, <2>2, <2>6 DEF Owners
  <2>8. Sorted(timers)'
    <3>1. \A i \in 1..Len(timers) : timers[i] \in Timers /\ timers[i] # t
      BY <1>6, <1>7 DEF ToSet
    <3>2. \A i \in 1..Len(timers) : tm'[timers[i]].scheduled = tm[timers[i]].scheduled
      BY <2>4, <3>1
    <3>3. SUFFICES ASSUME NEW i \in 1..Len(timers) + 1, NEW j \in 1..Len(timers) + 1, i <= j
                   PROVE  tm'[timers'[i]].scheduled <= tm'[timers'[j]].scheduled
      BY <2>2 DEF Sorted
    <3>4. \A k, l \in 1..Len(timers) : k <= l => tm[timers[k]].scheduled <= tm[timers[l]].scheduled
      BY <1>1, <1>6 DEF Sorted
    <3> DEFINE v(k) == IF k < p THEN tm[timers[k]].scheduled
                       ELSE IF k = p THEN s ELSE tm[timers[k - 1]].scheduled
    <3>5. Len(timers) \in Nat
      BY <1>6
    <3>6. ASSUME NEW k \in 1..Len(timers) + 1 PROVE tm'[timers'[k]].scheduled = v(k)
      <4>1. CASE k < p
        <5>1. k \in 1..Len(timers) /\ timers'[k] = timers[k]
          BY <2>2, <3>5, <4>1
        <5>2. QED
          BY <3>2, <4>1, <5>1
      <4>2. CASE k = p
        BY <1>5, <2>2, <2>4, <4>2
      <4>3. CASE k > p
        <5>1. k - 1 \in 1..Len(timers) /\ timers'[k] = timers[k - 1] /\ ~(k < p) /\ k # p
          BY <2>2, <3>5, <4>3
        <5>2. QED
          BY <3>2, <5>1
      <4>4. QED
        BY <3>5, <4>1, <4>2, <4>3
    <3>7. v(i) <= v(j)
      <4>1. \A k \in 1..Len(timers) : tm[timers[k]].scheduled \in Nat
        BY <1>1, <3>1 DEF TimesKnown
      <4>2. CASE j < p
        <5>1. i \in 1..Len(timers) /\ j \in 1..Len(timers) /\ i < p
          BY <3>3, <3>5, <4>2
        <5>2. QED
          BY <3>3, <3>4, <4>2, <5>1
      <4>3. CASE j = p
        <5>1. i < p => i \in 1..p - 1
          BY <3>3, <3>5, <4>3
        <5>2. i = p \/ i < p
          BY <3>3, <3>5, <4>3
        <5>3. v(j) = s
          BY <4>3, <3>5
        <5>4. v(i) <= s
          BY <1>10, <2>1, <5>1, <5>2
        <5>5. QED
          BY <5>3, <5>4
      <4>4. CASE j > p
        <5>1. j - 1 \in 1..Len(timers) /\ j - 1 \in p..Len(timers)
          BY <3>5, <4>4
        <5>2. v(j) = tm[timers[j - 1]].scheduled
          BY <3>5, <4>4
        <5>3. CASE i < p
          <6>1. i \in 1..Len(timers) /\ i <= j - 1 /\ v(i) = tm[timers[i]].scheduled
            BY <3>5, <4>4, <5>3
          <6>2. QED
            BY <3>4, <5>1, <5>2, <6>1
        <5>4. CASE i = p
          <6>1. v(i) = s
            BY <3>5, <5>4
          <6>2. QED
            BY <2>1, <4>1, <5>1, <5>2, <6>1
        <5>5. CASE i > p
          <6>1. i - 1 \in 1..Len(timers) /\ i - 1 <= j - 1 /\ v(i) = tm[timers[i - 1]].scheduled
            BY <3>3, <3>5, <5>5
          <6>2. QED
            BY <3>4, <5>1, <5>2, <6>1
        <5>6. QED
          BY <3>5, <5>3, <5>4, <5>5
      <4>5. QED
        BY <3>5, <4>2, <4>3, <4>4
    <3>8. QED
      BY <3>6, <3>7
  <2>9. DueTimersServed'
    BY <1>4 DEF DueTimersServed
  <2>10. Flagged'
    BY <1>2, <2>4, SameFlags
  <2>11. QED
    BY <1>8, <2>5, <2>7, <2>8, <2>9, <2>10 DEF LInv
<1>11. \A i \in Intervals : th.tick + i \in Nat
  BY <1>1, TimerAssumption DEF Typed
<1>12. QED
  BY <1>3, <1>9, <1>10, <1>11

(* All steps of the timer thread.                                          *)
LEMMA ThreadStepKeepsLInv ==
  ASSUME LInv, Thread
  PROVE  LInv'
<1>1. Typed /\ Phases /\ Owners /\ Sorted(timers) /\ TimesKnown
  BY LInvTimes DEF LInv
<1>2. th.pc \notin {"none", "callback"} => th.cur = NoTimer /\ pc[Worker] = "idle"
  BY <1>1 DEF Phases
<1>3. CASE ThCheck
  <2>1. /\ th.pc = "check" /\ UNCHANGED <<active, nextID, map, lists, memory, locals, clock, history>>
        /\ \/ th' = [th EXCEPT !.pc = "process", !.tick = now, !.delay = Forever]
           \/ th' = [th EXCEPT !.pc = "done"]
    BY <1>3 DEF ThCheck, control
  <2>2. now \in Nat /\ Forever \in Nat
    BY <1>1, TimerAssumption DEF Typed, Forever
  <2>3. /\ th' \in [pc : ThreadLabels, tick : Nat, delay : Nat, deadline : Nat, cur : Timers \cup {NoTimer}]
        /\ th'.pc \in {"process", "done"} /\ th'.cur = th.cur
    BY <1>1, <2>1, <2>2 DEF Typed, ThreadLabels
  <2>4. QED
    BY <1>2, <2>1, <2>3, ThreadMoveKeepsLInv
<1>4. CASE ThAdjust
  <2> DEFINE d == Remaining(th.delay, now - th.tick)
  <2>1. /\ th.pc = "adjust" /\ UNCHANGED <<active, nextID, map, lists, memory, locals, clock, history>>
        /\ th' = [th EXCEPT !.pc = "sleep", !.delay = d]
    BY <1>4 DEF ThAdjust, control
  <2>2. now \in Nat /\ Forever \in Nat /\ th.delay \in Nat /\ th.tick \in Nat
    BY <1>1, TimerAssumption DEF Typed, Forever
  <2>3. d \in Nat
    BY <2>2 DEF Remaining
  <2> HIDE DEF d
  <2>4. /\ th' \in [pc : ThreadLabels, tick : Nat, delay : Nat, deadline : Nat, cur : Timers \cup {NoTimer}]
        /\ th'.pc = "sleep" /\ th'.cur = th.cur /\ th'.tick = th.tick
    BY <1>1, <2>1, <2>3 DEF Typed, ThreadLabels
  <2>5. Typed'
    BY <1>1, <2>1, <2>4 DEF Typed, map, lists, memory, locals, clock
  <2>6. Phases'
    BY <1>2, <2>1, <2>4, ThreadMoveKeepsPhases DEF map, locals, history
  <2>7. Owners'
    BY <2>1, <2>4, SameOwners DEF memory, locals
  <2>8. Sorted(timers)' /\ DueTimersServed'
    BY <2>1, <2>4 DEF LInv, Sorted, DueTimersServed, lists, memory
  <2>9. Flagged'
    BY <2>1, SameFlags DEF map, memory, history
  <2>10. QED
    BY <2>5, <2>6, <2>7, <2>8, <2>9 DEF LInv
<1>5. CASE ThSleep
  <2> DEFINE d == IF th.delay = Forever THEN Forever
                  ELSE IF now + th.delay > size.time THEN size.time
                  ELSE now + th.delay
  <2>1. /\ th.pc = "sleep" /\ UNCHANGED <<active, nextID, map, lists, memory, locals, clock, history>>
        /\ th' = [NoThread EXCEPT !.pc = "waiting", !.deadline = d]
    BY <1>5 DEF ThSleep, control
  <2>2. now \in Nat /\ Forever \in Nat /\ th.delay \in Nat /\ size.time \in Nat
    BY <1>1, TimerAssumption DEF Typed, Forever
  <2>3. d \in Nat
    BY <2>2
  <2> HIDE DEF d
  <2>4. /\ th' \in [pc : ThreadLabels, tick : Nat, delay : Nat, deadline : Nat, cur : Timers \cup {NoTimer}]
        /\ th'.pc = "waiting" /\ th'.cur = NoTimer
    BY <2>1, <2>3 DEF NoThread, ThreadLabels
  <2>5. QED
    BY <2>1, <2>4, ThreadMoveKeepsLInv
<1>6. CASE ThWake
  <2>1. /\ th.pc = "waiting" /\ UNCHANGED <<active, nextID, map, lists, memory, locals, clock, history>>
        /\ th' = [NoThread EXCEPT !.pc = "maintain"]
    BY <1>6 DEF ThWake
  <2>2. /\ th' \in [pc : ThreadLabels, tick : Nat, delay : Nat, deadline : Nat, cur : Timers \cup {NoTimer}]
        /\ th'.pc = "maintain" /\ th'.cur = NoTimer
    BY <2>1 DEF NoThread, ThreadLabels
  <2>3. QED
    BY <2>1, <2>2, ThreadMoveKeepsLInv
<1>7. QED
  BY <1>3, <1>4, <1>5, <1>6, MaintainKeepsLInv, NothingDueKeepsLInv, DropCanceledKeepsLInv,
     DispatchKeepsLInv, ReturnKeepsLInv DEF Thread

-----------------------------------------------------------------------------
(* Start and shutdown                                                      *)
LEMMA StartKeepsLInv ==
  ASSUME LInv, InitSubSystem
  PROVE  LInv'
<1>1. Typed /\ Phases
  BY DEF LInv
<1>2. /\ ~active /\ ~Quitting /\ InitTimers
      /\ UNCHANGED <<map, lists, memory, locals, clock, history>>
  BY TimerAssumption DEF InitSubSystem, MayCall
<1>3. /\ th = NoThread /\ th'.pc = "maintain" /\ th'.cur = th.cur /\ active' = TRUE /\ nextID' = 1
      /\ th' \in [pc : ThreadLabels, tick : Nat, delay : Nat, deadline : Nat, cur : Timers \cup {NoTimer}]
  <2>1. th = NoThread
    BY <1>1, <1>2 DEF Phases
  <2>2. th' = [NoThread EXCEPT !.pc = "maintain"] /\ active' = TRUE /\ nextID' = 1
    BY <1>2 DEF InitTimers
  <2>3. QED
    BY <2>1, <2>2 DEF NoThread, ThreadLabels
<1> USE DEF map, lists, memory, locals, clock, history
<1>4. Typed'
  BY <1>1, <1>2, <1>3 DEF Typed
<1>5. Phases'
  <2>1. \A a \in Actors : pc[a] = "idle" /\ hold[a] = NoTimer
    BY <1>1, <1>2 DEF Phases
  <2>2. removed = {} /\ timermap = {} /\ ~Quitting'
    BY <1>1, <1>2 DEF Phases, Quitting
  <2>3. Worker \in Actors
    BY DEF Actors
  <2>4. th'.pc # "callback" /\ th'.cur = NoTimer
    BY <1>3 DEF NoThread
  <2>5. QED
    BY <1>2, <1>3, <2>1, <2>2, <2>3, <2>4 DEF Phases
<1>6. Owners'
  BY <1>2, <1>3, SameOwners
<1>7. Sorted(timers)' /\ DueTimersServed'
  BY <1>2, <1>3, SameOrder
<1>8. Flagged'
  BY <1>2, SameFlags
<1>9. QED
  BY <1>4, <1>5, <1>6, <1>7, <1>8 DEF LInv

(* Shutdown begins when no application thread is in a call.                *)
LEMMA QuitBeginsKeepsLInv ==
  ASSUME LInv, BeginQuit \/ QuitPost
  PROVE  LInv'
<1>1. Typed /\ Phases
  BY DEF LInv
<1>2. /\ UNCHANGED <<nextID, map, lists, memory, th, hold, ref, clock, history>>
      /\ \/ /\ active /\ active' = FALSE /\ pc[Main] = "idle" /\ \A c \in Callers : pc[c] = "idle"
            /\ pc' = [pc EXCEPT ![Main] = "quit_post"]
         \/ /\ pc[Main] = "quit_post" /\ active' = active
            /\ pc' = [pc EXCEPT ![Main] = "quit_join"]
  BY DEF BeginQuit, QuitPost, MayCall, Goto
<1>3. Main \in Actors /\ Worker \in Actors /\ Main # Worker /\ Callers \subseteq Actors /\ Main \in Callers
  BY TimerAssumption DEF Actors
<1>4. /\ pc' \in [Actors -> Labels] /\ pc'[Main] \in {"quit_post", "quit_join"}
      /\ \A a \in Actors \ {Main} : pc'[a] = pc[a]
  BY <1>1, <1>2, <1>3 DEF Typed, Labels
<1> USE DEF map, lists, memory, clock, history
<1>5. Typed'
  BY <1>1, <1>2, <1>4 DEF Typed
<1>6. Phases'
  <2>1. Quitting' /\ ~active' /\ \A c \in Callers \ {Main} : pc'[c] = "idle"
    <3>1. ~active' /\ \A c \in Callers \ {Main} : pc[c] = "idle"
      BY <1>1, <1>2 DEF Phases, Quitting
    <3>2. QED
      BY <1>3, <1>4, <3>1 DEF Quitting
  <2>2. hold[Main] = NoTimer
    BY <1>1, <1>2, <1>3 DEF Phases
  <2>3. QED
    BY <1>1, <1>2, <1>3, <1>4, <2>1, <2>2 DEF Phases
<1>7. Owners'
  BY <1>2, SameOwners
<1>8. Sorted(timers)' /\ DueTimersServed'
  BY <1>2, SameOrder
<1>9. Flagged'
  BY <1>2, SameFlags
<1>10. QED
  BY <1>5, <1>6, <1>7, <1>8, <1>9 DEF LInv

(* SDL_QuitTimers frees two lists; nobody holds a structure then.          *)
LEMMA QuitEndsKeepsLInv ==
  ASSUME LInv, QuitJoin
  PROVE  LInv'
<1>1. Typed /\ Phases /\ Owners
  BY DEF LInv
<1>2. /\ pc[Main] = "quit_join" /\ th.pc = "done" /\ th' = NoThread
      /\ heap' = heap \ (ToSet(timers) \cup ToSet(freelist))
      /\ timers' = <<>> /\ freelist' = <<>> /\ timermap' = {} /\ removed' = {}
      /\ entryTimer' = [i \in IDs |-> NoTimer]
      /\ tm' = [t \in Timers |-> IF t \in heap' THEN tm[t] ELSE NoFields]
      /\ pc' = [pc EXCEPT ![Main] = "idle"]
      /\ UNCHANGED <<active, nextID, pending, batch, hold, ref, now, size>>
  BY DEF QuitJoin, Free, Goto, clock
<1>3. Main \in Actors /\ Worker \in Actors /\ Main # Worker /\ Actors = Callers \cup {Worker}
  BY TimerAssumption DEF Actors
<1>4. /\ pc' \in [Actors -> Labels] /\ pc'[Main] = "idle"
      /\ \A a \in Actors \ {Main} : pc'[a] = pc[a]
  BY <1>1, <1>2, <1>3 DEF Typed, Labels
<1>5. ~active /\ pc[Worker] = "idle" /\ \A a \in Actors : pc'[a] = "idle"
  BY <1>1, <1>2, <1>3, <1>4 DEF Phases, Quitting
<1>6. \A a \in Actors : hold[a] = NoTimer
  BY <1>1, <1>2, <1>3, <1>4, <1>5 DEF Phases
<1>7. timers' \in Seq(Timers) /\ freelist' \in Seq(Timers) /\ ToSet(timers') = {} /\ ToSet(freelist') = {}
      /\ NoRepeat(timers') /\ NoRepeat(freelist')
  BY <1>2, EmptyList
<1>8. Typed'
  <2>1. tm' \in [Timers -> [timerID : Nat, scheduled : Nat, canceled : BOOLEAN]]
    <3>1. NoFields \in [timerID : Nat, scheduled : Nat, canceled : BOOLEAN]
      BY DEF NoFields
    <3>2. tm \in [Timers -> [timerID : Nat, scheduled : Nat, canceled : BOOLEAN]]
      BY <1>1 DEF Typed
    <3>3. QED
      BY <1>2, <3>1, <3>2
  <2>2. th' \in [pc : ThreadLabels, tick : Nat, delay : Nat, deadline : Nat, cur : Timers \cup {NoTimer}]
    BY <1>2 DEF NoThread, ThreadLabels
  <2>3. entryTimer' = [i \in IDs |-> entryTimer'[i]]
    BY <1>2
  <2>4. QED
    BY <1>1, <1>2, <1>4, <1>7, <2>1, <2>2, <2>3 DEF Typed
<1>9. Phases'
  <2>1. th'.pc = "none" /\ th'.cur = NoTimer
    BY <1>2 DEF NoThread
  <2>2. ~active' /\ ~Quitting'
    BY <1>2, <1>4, <1>5 DEF Quitting
  <2>3. QED
    BY <1>2, <1>3, <1>5, <1>6, <2>1, <2>2 DEF Phases
<1>10. Owners'
  <2>1. Held' = {} /\ Held = {} /\ Current' = {} /\ Current = {}
    BY <1>1, <1>2, <1>6 DEF Held, Current, NoThread, Phases
  <2>2. Split(heap, ToSet(pending), ToSet(freelist), ToSet(timers), ToSet(batch), {}, {})
    BY <1>1, <2>1 DEF Owners
  <2>3. Split(heap', ToSet(pending), {}, {}, ToSet(batch), {}, {})
    BY <1>2, <2>2 DEF Split
  <2>4. QED
    BY <1>1, <1>2, <1>7, <2>1, <2>3 DEF Owners
<1>11. Sorted(timers)' /\ DueTimersServed'
  BY <1>2 DEF Sorted, DueTimersServed, NoThread
<1>12. Flagged'
  BY <1>2 DEF Flagged
<1>13. QED
  BY <1>8, <1>9, <1>10, <1>11, <1>12 DEF LInv

(* All steps.                                                              *)
LEMMA NextKeepsLInv ==
  ASSUME LInv, [Next]_vars
  PROVE  LInv'
<1>1. ASSUME NEW a \in Actors, Step(a) PROVE LInv'
  <2>1. CASE \E id \in IDs : RemoveFind(a, id)
    BY <1>1, <2>1, OtherActorStepsKeepLInv
  <2>2. QED
    BY <1>1, <2>1, BeginAddKeepsLInv, AddFillKeepsLInv, AddQueueKeepsLInv, OtherActorStepsKeepLInv DEF Step
<1>2. CASE Tick \/ UNCHANGED vars
  <2>1. /\ UNCHANGED <<size, active, nextID, map, lists, memory, th, locals, history>>
        /\ now' = now \/ now' = now + 1
    BY <1>2 DEF Tick, vars, control, clock
  <2> USE DEF map, lists, memory, locals, history
  <2>2. Typed'
    <3>1. Typed
      BY DEF LInv
    <3>2. now' \in Nat
      BY <2>1, <3>1 DEF Typed
    <3>3. QED
      BY <2>1, <3>1, <3>2 DEF Typed
  <2>3. Phases'
    BY <2>1 DEF LInv, Phases, Quitting
  <2>4. Owners'
    BY <2>1, SameOwners
  <2>5. Sorted(timers)' /\ DueTimersServed'
    BY <2>1, SameOrder
  <2>6. Flagged'
    BY <2>1, SameFlags
  <2>7. QED
    BY <2>2, <2>3, <2>4, <2>5, <2>6 DEF LInv
<1>3. QED
  BY <1>1, <1>2, ThreadStepKeepsLInv, StartKeepsLInv, QuitBeginsKeepsLInv, QuitEndsKeepsLInv DEF Next

-----------------------------------------------------------------------------
(* What the invariant says of the properties the runs check.               *)
LEMMA FitsTimers ==
  ASSUME NEW l \in Seq(Timers), NoRepeat(l)
  PROVE  Len(l) <= Cardinality(Timers) /\ Cardinality(Timers) \in Nat
<1>1. l \in Injection(1..Len(l), Timers)
  BY DEF NoRepeat, Injection, IsInjective
<1>2. IsFiniteSet(Timers)
  BY TimerAssumption
<1>3. Cardinality(1..Len(l)) = Len(l)
  <2>1. Len(l) \in Int /\ 1 \in Int /\ (1 > Len(l) => Len(l) = 0) /\ Len(l) - 1 + 1 = Len(l)
    OBVIOUS
  <2>2. Cardinality(1..Len(l)) = IF 1 > Len(l) THEN 0 ELSE Len(l) - 1 + 1
    BY <2>1, FS_Interval
  <2>3. QED
    BY <2>1, <2>2
<1>4. QED
  BY <1>1, <1>2, <1>3, FS_Injection, FS_CardinalityType

(* Six sets without a common member, and lists without repetition, give    *)
(* each structure one place.                                               *)
LEMMA LInvOneOwner == LInv => OneOwner
<1> SUFFICES ASSUME LInv, NEW t \in heap
             PROVE  LET places == {p \in {1, 2, 3, 4} \X (1..Cardinality(Timers) + 1) :
                                     LET list == <<pending, freelist, timers, batch>>[p[1]]
                                     IN p[2] <= Len(list) /\ list[p[2]] = t}
                    IN Cardinality(places) + Cardinality({a \in Actors : hold[a] = t})
                         + (IF th.cur = t THEN 1 ELSE 0) = 1
  BY DEF OneOwner
<1> DEFINE lst == <<pending, freelist, timers, batch>>
           places == {p \in {1, 2, 3, 4} \X (1..Cardinality(Timers) + 1) :
                        p[2] <= Len(lst[p[1]]) /\ lst[p[1]][p[2]] = t}
           holders == {a \in Actors : hold[a] = t}
<1>1. /\ Split(heap, ToSet(pending), ToSet(freelist), ToSet(timers), ToSet(batch), Held, Current)
      /\ \A k \in {1, 2, 3, 4} : lst[k] \in Seq(Timers) /\ NoRepeat(lst[k])
      /\ \A a, b \in Actors : hold[a] = hold[b] /\ hold[a] # NoTimer => a = b
      /\ hold \in [Actors -> Timers \cup {NoTimer}] /\ th.cur \in Timers \cup {NoTimer}
  BY DEF LInv, Typed, Owners
<1>2. t # NoTimer
  <2>1. heap \subseteq Timers
    BY <1>1 DEF Split, ToSet, Held, Current
  <2>2. QED
    BY <2>1, TimerAssumption
<1>3. lst[1] = pending /\ lst[2] = freelist /\ lst[3] = timers /\ lst[4] = batch
  OBVIOUS
<1>4. t \in Held <=> holders # {}
  BY <1>2 DEF Held
<1>5. t \in Current <=> th.cur = t
  BY <1>2 DEF Current
<1>6. /\ \A j, k \in {1, 2, 3, 4} : t \in ToSet(lst[j]) /\ t \in ToSet(lst[k]) => j = k
      /\ \A k \in {1, 2, 3, 4} : t \in ToSet(lst[k]) => t \notin Held /\ t \notin Current
      /\ ~(t \in Held /\ t \in Current)
      /\ t \in Held \/ t \in Current \/ \E k \in {1, 2, 3, 4} : t \in ToSet(lst[k])
  BY <1>1, <1>3 DEF Split
<1> HIDE DEF lst
<1>7. \A p \in places : p[1] \in {1, 2, 3, 4} /\ t \in ToSet(lst[p[1]]) /\ p[2] \in 1..Len(lst[p[1]])
  BY <1>1 DEF ToSet
<1>8. Cardinality({}) = 0 /\ \A x : Cardinality({x}) = 1
  BY FS_EmptySet, FS_Singleton
<1>9. Cardinality(places) = IF \E k \in {1, 2, 3, 4} : t \in ToSet(lst[k]) THEN 1 ELSE 0
  <2>1. CASE \A k \in {1, 2, 3, 4} : t \notin ToSet(lst[k])
    <3>1. places = {}
      BY <1>7, <2>1
    <3>2. QED
      BY <1>8, <2>1, <3>1
  <2>2. ASSUME NEW k \in {1, 2, 3, 4}, t \in ToSet(lst[k]) PROVE Cardinality(places) = 1
    <3>1. PICK i \in 1..Len(lst[k]) : lst[k][i] = t
      BY <1>1, <2>2 DEF ToSet
    <3>2. i \in 1..Cardinality(Timers) + 1
      BY <1>1, FitsTimers
    <3>3. <<k, i>> \in places
      BY <3>1, <3>2
    <3>4. ASSUME NEW p \in places PROVE p = <<k, i>>
      <4>1. p[1] = k
        BY <1>6, <1>7, <2>2
      <4>2. p[2] \in 1..Len(lst[k]) /\ lst[k][p[2]] = t
        BY <1>7, <4>1
      <4>3. p[2] = i
        BY <1>1, <3>1, <4>2 DEF NoRepeat
      <4>4. p \in {1, 2, 3, 4} \X (1..Cardinality(Timers) + 1)
        OBVIOUS
      <4>5. QED
        BY <4>1, <4>3, <4>4
    <3>5. places = {<<k, i>>}
      BY <3>3, <3>4
    <3>6. QED
      BY <1>8, <3>5
  <2>3. QED
    BY <2>1, <2>2
<1>10. Cardinality(holders) = IF t \in Held THEN 1 ELSE 0
  <2>1. CASE holders = {}
    BY <1>4, <1>8, <2>1
  <2>2. ASSUME NEW a \in holders PROVE holders = {a}
    BY <1>1, <1>2, <2>2
  <2>3. QED
    BY <1>4, <1>8, <2>1, <2>2
<1>11. Cardinality(places) + Cardinality(holders) + (IF th.cur = t THEN 1 ELSE 0) = 1
  BY <1>5, <1>6, <1>9, <1>10
<1>12. QED
  BY <1>11 DEF lst

(* The invariant of the lists.                                             *)
LEMMA LInvAlways == Spec => []LInv
<1>1. LInv /\ [Next]_vars => LInv'
  BY NextKeepsLInv
<1>2. QED
  BY <1>1, InitLInv, PTL DEF Spec

(* No structure is lost or shared, and the thread does not fall asleep     *)
(* over a timer that is due.                                               *)
THEOREM ListsStayInOrder == Spec => []ListsInOrder
<1>1. LInv => ListsInOrder
  BY LInvOneOwner DEF ListsInOrder, LInv
<1>2. QED
  BY <1>1, LInvAlways, PTL

(* No callback of a timer whose removal has returned SDL_TRUE is entered,  *)
(* while its structure is the one the map entry named.                     *)
THEOREM RemovedStaysSilent == Spec => RemovedNeverDispatched
<1>1. ASSUME LInv, ThDispatch, tm[Head(timers)].timerID \in removed,
             entryTimer[tm[Head(timers)].timerID] = Head(timers)
      PROVE  FALSE
  <2>1. timers # <<>> /\ ~tm[Head(timers)].canceled
    BY <1>1 DEF ThDispatch, HeadDue, Live
  <2>2. Head(timers) \in Timers
    BY <1>1, <2>1, HeadLeaves
  <2>3. QED
    BY <1>1, <2>1, <2>2 DEF LInv, Flagged
<1>2. LInv => (ThDispatch => LET t == Head(timers) IN
                 ~ (tm[t].timerID \in removed /\ entryTimer[tm[t].timerID] = t))
  BY <1>1
<1>3. LInv => [ThDispatch => LET t == Head(timers) IN
                 ~ (tm[t].timerID \in removed /\ entryTimer[tm[t].timerID] = t)]_vars
  BY <1>2
<1>4. QED
  BY <1>3, LInvAlways, PTL DEF RemovedNeverDispatched

(* The thread dispatches in the order of the scheduled times.              *)
THEOREM ListStaysSorted == Spec => []Sorted(timers)
<1>1. LInv => Sorted(timers)
  BY DEF LInv
<1>2. QED
  BY <1>1, LInvAlways, PTL

-----------------------------------------------------------------------------
(* Shutdown.  An allocated map entry is linked, or an actor is removing    *)
(* it; the finished timers have been given back when the thread ends;      *)
(* nothing but pending timers outlives it.                                 *)
Removing(id) == \E a \in Actors : pc[a] \in {"rm_test", "rm_set"} /\ ref[a] = id

QInv ==
  /\ \A id \in entries : id \in timermap \/ Removing(id)
  /\ th.pc \in {"none", "check", "done"} => batch = <<>>
  /\ th.pc = "none" => ~active /\ ~Quitting /\ timers = <<>> /\ freelist = <<>>

(* Nothing is allocated at first.                                          *)
LEMMA InitQInv == Init => QInv
BY TimerAssumption DEF Init, QInv, NoThread, Quitting, Actors

(* An actor leaves the map alone.                                          *)
LEMMA StaysCovered ==
  ASSUME LInv, QInv, NEW a \in Actors, NEW l, pc' = [pc EXCEPT ![a] = l], pc[a] \notin {"rm_test", "rm_set"},
         entries' = entries, timermap' = timermap, \A b \in Actors \ {a} : ref'[b] = ref[b]
  PROVE  \A id \in entries' : id \in timermap' \/ Removing(id)'
<1>1. \A b \in Actors \ {a} : pc'[b] = pc[b]
  BY DEF LInv, Typed
<1>2. QED
  BY <1>1 DEF QInv, Removing

(* An entry is unlinked by the actor that frees it later.                  *)
LEMMA StepKeepsQInv ==
  ASSUME LInv, QInv, NEW a \in Actors, Step(a)
  PROVE  QInv'
<1>1. /\ pc \in [Actors -> Labels] /\ ref \in [Actors -> Nat]
      /\ Main \in Actors /\ Worker \in Actors /\ Main # Worker
  BY TimerAssumption DEF LInv, Typed, Actors
<1>2. CASE BeginAdd(a)
  <2>1. /\ UNCHANGED <<entries, timermap, timers, batch>> /\ pc[a] = "idle" /\ InitTimers
        /\ \A b \in Actors \ {a} : ref'[b] = ref[b] /\ pc'[b] = pc[b]
        /\ (\E l : pc' = [pc EXCEPT ![a] = l]) \/ (pc' = pc /\ ref' = ref)
    BY <1>1, <1>2 DEF BeginAdd, MayCall, Goto, map
  <2>2. \A id \in entries' : id \in timermap' \/ Removing(id)'
    BY <2>1 DEF QInv, Removing
  <2>3. th'.pc \notin {"none", "check", "done"} \/ th' = th
    BY <2>1 DEF InitTimers, NoThread
  <2>4. th'.pc # "none"
    BY <2>1 DEF InitTimers, NoThread, QInv
  <2>5. QED
    BY <2>1, <2>2, <2>3, <2>4 DEF QInv
<1>3. ASSUME UNCHANGED <<th, timers, freelist, batch>>, \A id \in entries' : id \in timermap' \/ Removing(id)',
             active' = active, pc'[Main] = pc[Main] \/ pc'[Main] \notin {"quit_post", "quit_join"}
      PROVE  QInv'
  BY <1>3 DEF QInv, Quitting
<1>4. CASE AddFill(a)
  <2>1. /\ UNCHANGED <<active, lists, th>> /\ pc[a] = "add_fill"
        /\ \A b \in Actors \ {a} : ref'[b] = ref[b] /\ pc'[b] = pc[b]
        /\ pc'[a] \in {"add_queue", "idle"}
        /\ \/ entries' = entries \cup {nextID} /\ timermap' = timermap \cup {nextID}
           \/ entries' = entries /\ timermap' = timermap
    BY <1>1, <1>4 DEF AddFill, Goto, map
  <2>2. \A id \in entries' : id \in timermap' \/ Removing(id)'
    BY <2>1 DEF QInv, Removing
  <2>3. QED
    BY <1>1, <1>3, <2>1, <2>2 DEF lists
<1>5. CASE AddQueue(a) \/ AddPost(a) \/ AddReturn(a)
  <2>1. /\ UNCHANGED <<active, entries, timermap, timers, freelist, batch, th>>
        /\ pc[a] \notin {"rm_test", "rm_set"}
        /\ \A b \in Actors \ {a} : ref'[b] = ref[b] /\ pc'[b] = pc[b]
        /\ pc'[a] \in {"add_post", "add_return", "idle"}
    BY <1>1, <1>5 DEF AddQueue, AddPost, AddReturn, Goto, map, control, lists
  <2>2. \A id \in entries' : id \in timermap' \/ Removing(id)'
    BY <2>1 DEF QInv, Removing
  <2>3. QED
    BY <1>1, <1>3, <2>1, <2>2
<1>6. ASSUME NEW id \in IDs, RemoveFind(a, id) PROVE QInv'
  <2>1. /\ UNCHANGED <<active, entries, lists, th>> /\ pc[a] \notin {"rm_test", "rm_set"}
        /\ \A b \in Actors \ {a} : ref'[b] = ref[b] /\ pc'[b] = pc[b]
        /\ pc'[a] \in {"rm_test", "idle", "add_fill"}
        /\ \/ timermap' = timermap
           \/ timermap' = timermap \ {id} /\ pc'[a] = "rm_test" /\ ref'[a] = id
    BY <1>1, <1>6 DEF RemoveFind, MayCall, Goto, AfterRemove, control
  <2>2. \A e \in entries' : e \in timermap' \/ Removing(e)'
    BY <2>1 DEF QInv, Removing
  <2>3. QED
    BY <1>1, <1>3, <2>1, <2>2 DEF lists
<1>7. CASE RemoveTest(a) \/ RemoveSet(a)
  <2>1. /\ UNCHANGED <<active, timermap, lists, th>>
        /\ \A b \in Actors \ {a} : ref'[b] = ref[b] /\ pc'[b] = pc[b]
        /\ \/ entries' = entries \ {ref[a]} /\ pc'[a] \in {"idle", "add_fill"}
           \/ entries' = entries /\ pc'[a] = "rm_set" /\ ref' = ref
    BY <1>1, <1>7 DEF RemoveTest, RemoveSet, FreeEntry, Goto, AfterRemove, control
  <2>2. \A e \in entries' : e \in timermap' \/ Removing(e)'
    BY <2>1 DEF QInv, Removing
  <2>3. QED
    BY <1>1, <1>3, <2>1, <2>2 DEF lists
<1>8. QED
  BY <1>2, <1>4, <1>5, <1>6, <1>7 DEF Step

(* The thread gives the batch back before it looks whether to end.         *)
LEMMA NextKeepsQInv ==
  ASSUME LInv, QInv, [Next]_vars
  PROVE  QInv'
<1>1. Typed /\ Phases
  BY DEF LInv
<1>2. CASE Thread
  <2>1. UNCHANGED <<entries, timermap, active, pc, ref>>
    BY <1>2 DEF Thread, ThMaintain, ThCheck, ThNothingDue, ThDropCanceled, ThDispatch, ThReturn, ThAdjust,
                ThSleep, ThWake, control, map, locals
  <2>2. /\ th.pc = "check" => batch' = batch
        /\ th.pc \notin {"maintain", "check"} => th'.pc \notin {"check", "done"}
        /\ th.pc = "maintain" => batch' = <<>>
        /\ th'.pc # "none" /\ th.pc # "none"
    BY <1>1, <1>2 DEF Thread, ThMaintain, ThCheck, ThNothingDue, ThDropCanceled, ThDispatch, ThReturn, ThAdjust,
                ThSleep, ThWake, lists, RecycleBatch, NoThread, HeadDue, Typed
  <2>3. QED
    BY <2>1, <2>2 DEF QInv, Removing
<1>3. CASE InitSubSystem
  <2>1. UNCHANGED <<map, lists, locals>> /\ th'.pc = "maintain"
    BY <1>3 DEF InitSubSystem, InitTimers, NoThread
  <2>2. QED
    BY <2>1 DEF QInv, Removing, map, lists, locals
<1>4. CASE BeginQuit \/ QuitPost
  <2>1. UNCHANGED <<map, lists, th, ref>>
    BY <1>4 DEF BeginQuit, QuitPost
  <2>2. th.pc # "none"
    BY <1>4 DEF BeginQuit, QuitPost, QInv, Quitting
  <2>3. pc[Main] \in {"idle", "quit_post"} /\ \E l : pc' = [pc EXCEPT ![Main] = l]
    BY <1>4 DEF BeginQuit, QuitPost, MayCall, Goto
  <2>4. \A id \in entries' : id \in timermap' \/ Removing(id)'
    BY <1>1, <2>1, <2>3, StaysCovered, TimerAssumption DEF map, Actors
  <2>5. QED
    BY <2>1, <2>2, <2>4 DEF QInv, lists
<1>5. CASE QuitJoin
  <2>1. /\ pc[Main] = "quit_join" /\ th.pc = "done" /\ timers' = <<>> /\ freelist' = <<>>
        /\ entries' = entries \ timermap /\ batch' = batch /\ active' = active /\ pc'[Main] = "idle"
    BY <1>1, <1>5, TimerAssumption DEF QuitJoin, Goto, Typed, Actors
  <2>2. ~active /\ \A a \in Actors : pc[a] \notin {"rm_test", "rm_set"}
    BY <1>1, <2>1, TimerAssumption DEF Phases, Quitting, Actors
  <2>3. entries' = {}
    BY <2>1, <2>2 DEF QInv, Removing
  <2>4. QED
    BY <2>1, <2>2, <2>3 DEF QInv, Quitting
<1>6. CASE Tick \/ UNCHANGED vars
  BY <1>6 DEF QInv, Removing, Quitting, Tick, vars, control, map, lists, locals
<1>7. QED
  BY <1>2, <1>3, <1>4, <1>5, <1>6, StepKeepsQInv DEF Next

(* SDL_QuitTimers leaves no map entry and no structure but the pending     *)
(* ones, even when a callback was adding or removing a timer as it started.*)
THEOREM ShutdownFrees == Spec => []QuitFreesDispatched
<1>1. ASSUME LInv, QInv, ~active, th.pc = "none" PROVE heap = ToSet(pending) /\ entries = {}
  <2>1. timermap = {} /\ \A a \in Actors : pc[a] = "idle" /\ hold[a] = NoTimer
    BY <1>1 DEF LInv, Phases, QInv
  <2>2. entries = {}
    BY <1>1, <2>1 DEF QInv, Removing
  <2>3. Held = {} /\ Current = {}
    BY <1>1, <2>1 DEF Held, Current, LInv, Phases
  <2>4. ToSet(freelist) = {} /\ ToSet(timers) = {} /\ ToSet(batch) = {}
    BY <1>1, EmptyList DEF QInv
  <2>5. QED
    BY <1>1, <2>2, <2>3, <2>4 DEF LInv, Owners, Split
<1>2. LInv /\ QInv => QuitFreesDispatched
  BY <1>1 DEF QuitFreesDispatched
<1>3. LInv /\ QInv /\ [Next]_vars => QInv'
  BY NextKeepsQInv
<1>4. QED
  BY <1>2, <1>3, InitQInv, LInvAlways, PTL DEF Spec

-----------------------------------------------------------------------------
(* SDL_Thread *)

(* What the new thread's position says about the atomic state: before its  *)
(* second compare-and-swap the owner may still change it, after that it is *)
(* final.                                                                  *)
StateFollowsThread(t) ==
  /\ tpc[t] = "none" => state[t] = "ALIVE"
  /\ tpc[t] \in {"setup", "function", "tls", "mark"} => state[t] \in {"ALIVE", "DETACHED"}
  /\ tpc[t] = "clean" => state[t] = "DETACHED"
  /\ tpc[t] = "free" => state[t] = "CLEANED"
  /\ tpc[t] \in {"exit", "gone"} => state[t] \in {"ZOMBIE", "CLEANED"}

(* What the owner's position says about it.                                *)
StateFollowsOwner(t) ==
  /\ opc[t] = "none" <=> tpc[t] = "none"
  /\ opc[t] \in {"own", "join"} => state[t] \in {"ALIVE", "ZOMBIE"}
  /\ opc[t] \in {"look", "free"} => state[t] = "ZOMBIE"
  /\ opc[t] = "detach" => state[t] \in {"DETACHED", "CLEANED"}
  /\ opc[t] = "done" => state[t] # "ALIVE"

(* The structure is gone exactly when the thread freed itself or the owner *)
(* freed the zombie.                                                       *)
Freed(t) ==
  \/ state[t] = "CLEANED" /\ tpc[t] \in {"exit", "gone"}
  \/ state[t] = "ZOMBIE" /\ opc[t] = "done"

MemoryFollows(t) ==
  mem[t] = IF tpc[t] = "none" THEN "none" ELSE IF Freed(t) THEN "freed" ELSE "allocated"

(* The system's thread ends with SDL_RunThread; only an owner past the     *)
(* join has collected it.                                                  *)
SystemFollows(t) ==
  /\ tpc[t] = "none" => os[t] = "none"
  /\ tpc[t] \notin {"none", "gone"} => os[t] = "running"
  /\ tpc[t] = "gone" =>
       os[t] = IF opc[t] = "free" \/ (opc[t] = "done" /\ state[t] = "ZOMBIE")
               THEN "joined" ELSE "exited"
  /\ opc[t] = "free" \/ (opc[t] = "done" /\ state[t] = "ZOMBIE") => tpc[t] = "gone"

(* What the thread has left behind when it marks its end.                  *)
ResultReady(t) ==
  /\ tpc[t] \in {"tls", "mark", "clean", "free", "exit", "gone"} =>
       status[t] = returned[t] /\ status[t] # Unset
  /\ tpc[t] \in {"mark", "clean", "free", "exit", "gone"} => tls[t] = {}
  /\ opc[t] = "free" => got[t] = status[t]

Consistent(t) ==
  /\ StateFollowsThread(t) /\ StateFollowsOwner(t) /\ MemoryFollows(t)
  /\ SystemFollows(t) /\ ResultReady(t)

ThreadInv == ThreadTypeOK /\ \A t \in Threads : Consistent(t)

-----------------------------------------------------------------------------
LEMMA InitThreadInv == ThreadInit => ThreadInv
BY DEF ThreadInit, ThreadInv, ThreadTypeOK, States, Consistent, StateFollowsThread,
       StateFollowsOwner, Freed,
       MemoryFollows, SystemFollows, ResultReady

(* A step for one thread leaves every other thread's fields alone.         *)
LEMMA ThreadStepIsLocal ==
  ASSUME ThreadTypeOK, NEW t \in Threads, ThreadStep(t) \/ OwnerStep(t) \/ Choice(t),
         NEW u \in Threads, u # t
  PROVE  /\ mem'[u] = mem[u] /\ state'[u] = state[u] /\ status'[u] = status[u]
         /\ tls'[u] = tls[u] /\ os'[u] = os[u] /\ tpc'[u] = tpc[u] /\ opc'[u] = opc[u]
         /\ got'[u] = got[u] /\ returned'[u] = returned[u]
<1> USE DEF ThreadTypeOK, Run, Own, CAS
<1>1. CASE ThreadStep(t)
  BY <1>1 DEF ThreadStep, Setup, Return, CleanupTLS, MarkZombie, MarkCleaned, FreeDetached,
              ThreadFrees, Exit
<1>2. CASE OwnerStep(t)
  BY <1>2 DEF OwnerStep, Join, FreeJoined, SystemDetach, LookAtState
<1>3. CASE Choice(t)
  BY <1>3 DEF Choice, Create, SetTLS, Wait, Detach, Detach_State
<1>4. QED
  BY <1>1, <1>2, <1>3

(* Every step keeps the types.                                             *)
LEMMA ThreadTypeStep ==
  ASSUME ThreadTypeOK, NEW t \in Threads, ThreadStep(t) \/ OwnerStep(t) \/ Choice(t)
  PROVE  ThreadTypeOK'
<1> USE DEF ThreadTypeOK, Run, Own, CAS, States
<1>1. CASE ThreadStep(t)
  <2>1. CASE Setup(t)
    BY <2>1 DEF Setup
  <2>2. CASE CleanupTLS(t)
    BY <2>2 DEF CleanupTLS
  <2>3. CASE Return(t)
    BY <2>3 DEF Return
  <2>4. CASE MarkZombie(t)
    BY <2>4 DEF MarkZombie
  <2>5. CASE MarkCleaned(t) \/ FreeDetached(t)
    BY <2>5 DEF MarkCleaned, FreeDetached, ThreadFrees
  <2>6. CASE Exit(t)
    BY <2>6 DEF Exit
  <2>7. QED
    BY <1>1, <2>1, <2>2, <2>3, <2>4, <2>5, <2>6 DEF ThreadStep
<1>2. CASE OwnerStep(t)
  <2>1. CASE Join(t)
    BY <2>1 DEF Join
  <2>2. CASE FreeJoined(t) \/ SystemDetach(t) \/ LookAtState(t)
    BY <2>2 DEF FreeJoined, SystemDetach, LookAtState
  <2>3. QED
    BY <1>2, <2>1, <2>2 DEF OwnerStep
<1>3. CASE Choice(t)
  <2>1. CASE SetTLS(t)
    BY <2>1 DEF SetTLS, ValidID
  <2>2. CASE Create(t) \/ Wait(t) \/ Detach(t)
    BY <2>2 DEF Create, Wait, Detach, Detach_State
  <2>3. QED
    BY <1>3, <2>1, <2>2 DEF Choice
<1>4. QED
  BY <1>1, <1>2, <1>3

(* A step of the new thread keeps its own fields consistent.               *)
LEMMA ThreadKeeps ==
  ASSUME ThreadTypeOK, NEW t \in Threads, Consistent(t), ThreadStep(t)
  PROVE  Consistent(t)'
<1> USE DEF ThreadTypeOK, Run, CAS, Consistent, StateFollowsThread, StateFollowsOwner, Freed,
            MemoryFollows, SystemFollows, ResultReady
<1>1. CASE Setup(t)
  BY <1>1 DEF Setup
<1>2. CASE Return(t)
  BY <1>2, ThreadAssumption DEF Return
<1>3. CASE CleanupTLS(t)
  BY <1>3 DEF CleanupTLS
<1>4. CASE MarkZombie(t)
  BY <1>4 DEF MarkZombie
<1>5. CASE MarkCleaned(t)
  BY <1>5 DEF MarkCleaned
<1>6. CASE FreeDetached(t)
  BY <1>6 DEF FreeDetached, ThreadFrees
<1>7. CASE Exit(t)
  BY <1>7 DEF Exit
<1>8. QED
  BY <1>1, <1>2, <1>3, <1>4, <1>5, <1>6, <1>7 DEF ThreadStep

(* So does a step of its owner, or of the thread function.                 *)
LEMMA OwnerKeeps ==
  ASSUME ThreadTypeOK, NEW t \in Threads, Consistent(t), OwnerStep(t) \/ Choice(t)
  PROVE  Consistent(t)'
<1> USE DEF ThreadTypeOK, Run, Own, CAS, Consistent, StateFollowsThread, StateFollowsOwner, Freed,
            MemoryFollows, SystemFollows, ResultReady
<1>1. CASE Join(t)
  BY <1>1 DEF Join, Joinable
<1>2. CASE FreeJoined(t)
  BY <1>2 DEF FreeJoined
<1>3. CASE SystemDetach(t)
  BY <1>3 DEF SystemDetach
<1>4. CASE LookAtState(t)
  BY <1>4 DEF LookAtState
<1>5. CASE Create(t)
  BY <1>5 DEF Create
<1>6. CASE SetTLS(t)
  BY <1>6 DEF SetTLS
<1>7. CASE Wait(t)
  BY <1>7 DEF Wait
<1>8. CASE Detach(t)
  BY <1>8 DEF Detach, Detach_State
<1>9. QED
  BY <1>1, <1>2, <1>3, <1>4, <1>5, <1>6, <1>7, <1>8 DEF OwnerStep, Choice

-----------------------------------------------------------------------------
(* The invariant holds in every reachable state.                           *)
THEOREM ThreadInvariance == ThreadSpec => []ThreadInv
<1>1. ThreadInit => ThreadInv
  BY InitThreadInv
<1>2. ThreadInv /\ [ThreadNext]_threadVars => ThreadInv'
  <2> SUFFICES ASSUME ThreadInv, [ThreadNext]_threadVars PROVE ThreadInv'
    OBVIOUS
  <2>1. CASE UNCHANGED threadVars
    BY <2>1 DEF threadVars, ThreadInv, ThreadTypeOK, Consistent, StateFollowsThread,
                StateFollowsOwner, Freed,
                MemoryFollows, SystemFollows, ResultReady
  <2>2. ASSUME NEW t \in Threads, ThreadStep(t) \/ OwnerStep(t) \/ Choice(t)
        PROVE  ThreadInv'
    <3>1. ThreadTypeOK'
      BY <2>2, ThreadTypeStep DEF ThreadInv
    <3>2. Consistent(t)'
      BY <2>2, ThreadKeeps, OwnerKeeps DEF ThreadInv
    <3>3. ASSUME NEW u \in Threads, u # t PROVE Consistent(u)'
      BY <2>2, <3>3, ThreadStepIsLocal DEF ThreadInv, Consistent, StateFollowsThread,
                  StateFollowsOwner,
         Freed, MemoryFollows, SystemFollows, ResultReady
    <3>4. QED
      BY <3>1, <3>2, <3>3 DEF ThreadInv
  <2>3. QED
    BY <2>1, <2>2 DEF ThreadNext
<1>3. QED
  BY <1>1, <1>2, PTL DEF ThreadSpec

(* The variables keep their types.                                         *)
THEOREM ThreadTypeCorrect == ThreadSpec => []ThreadTypeOK
<1>1. ThreadInv => ThreadTypeOK
  BY DEF ThreadInv
<1>2. QED
  BY <1>1, ThreadInvariance, PTL

(* The thread and the owner never both free the structure, and the thread  *)
(* never touches one that is freed.                                        *)
THEOREM FreedOnce == ThreadSpec => []FreedByOne
<1>1. ThreadInv => FreedByOne
  BY DEF ThreadInv, FreedByOne, ThreadTypeOK, Consistent, StateFollowsThread,
         StateFollowsOwner, Freed,
         MemoryFollows
<1>2. QED
  BY <1>1, ThreadInvariance, PTL

(* When both are through with it, it has been freed.                       *)
THEOREM NothingLeaks == ThreadSpec => []NoLeak
<1>1. ThreadInv => NoLeak
  BY DEF ThreadInv, NoLeak, ThreadTypeOK, States, Consistent, StateFollowsThread,
         StateFollowsOwner, Freed,
         MemoryFollows
<1>2. QED
  BY <1>1, ThreadInvariance, PTL

(* A join hands over the value the thread function returned.               *)
THEOREM JoinReturnsResult == ThreadSpec => []JoinSeesResult
<1>1. ThreadInv => JoinSeesResult
  BY DEF ThreadInv, JoinSeesResult, ThreadTypeOK, Consistent, SystemFollows, ResultReady
<1>2. QED
  BY <1>1, ThreadInvariance, PTL
=============================================================================
