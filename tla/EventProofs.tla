---------------------------- MODULE EventProofs ----------------------------
(***************************************************************************)
(* Proofs about the event queue, for any pushers, event types and limit,   *)
(* and about event watchers, for any watchers and depth of nesting.        *)
(***************************************************************************)
EXTENDS EventQueue, EventWatch, WellFoundedInduction, SequenceTheorems, TLAPS

-----------------------------------------------------------------------------
(* A set that has 0 and with each number the next one has them all: if     *)
(* not, the least number outside of it would refute that.                  *)
LEMMA Induction ==
  ASSUME NEW T, 0 \in T, \A n \in Nat : n \in T => n + 1 \in T
  PROVE  Nat \subseteq T
<1>1. SUFFICES ASSUME Nat \ T # {} PROVE FALSE
  OBVIOUS
<1>2. PICK m \in Nat \ T : \A y \in Nat \ T : ~ (<<y, m>> \in OpToRel(<, Nat))
  BY <1>1, NatLessThanWellFounded, WFMin
<1>3. m \in Nat /\ m \notin T
  OBVIOUS
<1>4. m # 0 /\ m - 1 \in Nat
  BY <1>3
<1>7. m - 1 \notin T
  <2>1. (m - 1) + 1 = m
    BY <1>3
  <2>2. QED
  BY <1>3, <1>4, <2>1
<1>5. <<m - 1, m>> \in OpToRel(<, Nat)
  BY <1>3, <1>4 DEF OpToRel
<1>6. QED
  BY <1>2, <1>4, <1>5, <1>7

(* A sequence with n + 1 entries is one with n and an entry.               *)
LEMMA LastApart ==
  ASSUME NEW A, NEW n \in Nat, NEW q \in Seq(A), Len(q) = n + 1
  PROVE  \E p \in Seq(A), e \in A : q = Append(p, e) /\ Len(p) = n
<1> DEFINE p == SubSeq(q, 1, n)
<1>1. p \in Seq(A) /\ Len(p) = n /\ \A i \in 1..n : p[i] = q[i]
  OBVIOUS
<1>2. q[n + 1] \in A
  OBVIOUS
<1>3. q = Append(p, q[n + 1])
  <2> HIDE DEF p
  <2>1. Append(p, q[n + 1]) \in Seq(A) /\ Len(Append(p, q[n + 1])) = n + 1
    BY <1>1, <1>2
  <2>2. \A i \in 1..n + 1 : q[i] = Append(p, q[n + 1])[i]
    BY <1>1, <1>2
  <2> QED
    BY <2>1, <2>2, SeqEqual
<1> QED
  BY <1>1, <1>2, <1>3

(* The recursion of Only, up to entry m.                                   *)
KeptEq(f, m, q, S) ==
  f = [n \in 0..m |-> IF n = 0 THEN <<>> ELSE IF q[n] \in S THEN Append(f[n - 1], q[n]) ELSE f[n - 1]]

(* By induction on the length, the function that Only defines exists.      *)
LEMMA KeptExists ==
  ASSUME NEW q, NEW S PROVE \A m \in Nat : \E f : KeptEq(f, m, q, S)
<1> DEFINE T == {m \in Nat : \E f : KeptEq(f, m, q, S)}
<1>1. 0 \in T
  <2> DEFINE f == [n \in 0..0 |-> <<>>]
  <2>1. KeptEq(f, 0, q, S)
    <3>1. \A n \in 0..0 : n = 0
      OBVIOUS
    <3> QED
      BY <3>1 DEF KeptEq
  <2> QED
    BY <2>1
<1>2. ASSUME NEW m \in Nat, m \in T PROVE m + 1 \in T
  <2>1. PICK g : KeptEq(g, m, q, S)
    BY <1>2
  <2> DEFINE last == IF q[m + 1] \in S THEN Append(g[m], q[m + 1]) ELSE g[m]
             f == [n \in 0..m + 1 |-> IF n = m + 1 THEN last ELSE g[n]]
  <2>2. ASSUME NEW n \in 0..m + 1
        PROVE f[n] = IF n = 0 THEN <<>> ELSE IF q[n] \in S THEN Append(f[n - 1], q[n])
                   ELSE f[n - 1]
    <3>1. CASE n = m + 1
      <4>1. n # 0 /\ n - 1 = m /\ m \in 0..m + 1 /\ m # m + 1
        BY <3>1
      <4>2. f[n] = last /\ f[m] = g[m]
        BY <3>1, <4>1
      <4> HIDE DEF f
      <4> QED
        BY <3>1, <4>1, <4>2
    <3>2. CASE n # m + 1
      <4>1. n \in 0..m /\ (n # 0 => n - 1 \in 0..m /\ n - 1 # m + 1 /\ n - 1 \in 0..m + 1)
        BY <3>2
      <4>2. f[n] = g[n] /\ (n # 0 => f[n - 1] = g[n - 1])
        BY <3>2, <4>1
      <4> HIDE DEF f
      <4> QED
        BY <2>1, <4>1, <4>2 DEF KeptEq
    <3> QED
      BY <3>1, <3>2
  <2>3. f = [n \in 0..m + 1 |-> f[n]]
    OBVIOUS
  <2>4. KeptEq(f, m + 1, q, S)
    <3> HIDE DEF f
    <3> QED
      BY <2>2, <2>3 DEF KeptEq
  <2> QED
    BY <2>4
<1>3. Nat \subseteq T
  <2> HIDE DEF T
  <2> QED
    BY <1>1, <1>2, Induction
<1> QED
  BY <1>3

KeptOf(q, S) == CHOOSE f : KeptEq(f, Len(q), q, S)

(* It is the one that the definition chooses, so that its equation may be  *)
(* used.                                                                   *)
LEMMA KeptIs ==
  ASSUME NEW q, NEW S, Len(q) \in Nat
  PROVE  /\ Only(q, S) = KeptOf(q, S)[Len(q)]
         /\ KeptOf(q, S)[0] = <<>>
         /\ \A n \in 1..Len(q) :
              KeptOf(q, S)[n] = IF q[n] \in S THEN Append(KeptOf(q, S)[n - 1], q[n])
                   ELSE KeptOf(q, S)[n - 1]
<1>1. Only(q, S) = KeptOf(q, S)[Len(q)]
  BY DEF Only, KeptOf, KeptEq
<1> DEFINE f == KeptOf(q, S)
<1>2. KeptEq(f, Len(q), q, S)
  BY KeptExists DEF KeptOf
<1> HIDE DEF f
<1>3. f[0] = <<>>
      /\ \A n \in 1..Len(q) : f[n] = IF q[n] \in S THEN Append(f[n - 1], q[n]) ELSE f[n - 1]
  <2> DEFINE m == Len(q)
  <2>1. KeptEq(f, m, q, S) /\ m \in Nat
    BY <1>2
  <2> HIDE DEF m
  <2>2. \A n \in 0..m :
          f[n] = IF n = 0 THEN <<>> ELSE IF q[n] \in S THEN Append(f[n - 1], q[n]) ELSE f[n - 1]
    BY <2>1 DEF KeptEq
  <2>3. 0 \in 0..m /\ \A n \in 1..m : n \in 0..m /\ n # 0
    BY <2>1
  <2>4. f[0] = <<>>
        /\ \A n \in 1..m : f[n] = IF q[n] \in S THEN Append(f[n - 1], q[n]) ELSE f[n - 1]
    BY <2>2, <2>3
  <2> QED
    BY <2>4 DEF m
<1> QED
  BY <1>1, <1>3 DEF f

(* Only of a sequence, entry by entry.                                     *)
LEMMA OnlyEmpty == ASSUME NEW S PROVE Only(<<>>, S) = <<>>
<1>1. Len(<<>>) = 0
  OBVIOUS
<1> QED
  BY <1>1, KeptIs

(* An entry at the end is kept or not, whatever is before it.              *)
LEMMA OnlyAppend ==
  ASSUME NEW A, NEW q \in Seq(A), NEW e \in A, NEW S
  PROVE  Only(Append(q, e), S) = IF e \in S THEN Append(Only(q, S), e) ELSE Only(q, S)
<1> DEFINE r == Append(q, e)
           f == KeptOf(q, S)
           g == KeptOf(r, S)
<1>1. Len(q) \in Nat /\ Len(r) = Len(q) + 1 /\ r[Len(q) + 1] = e
      /\ \A i \in 1..Len(q) : r[i] = q[i]
  OBVIOUS
<1> HIDE DEF r
<1>2. /\ Only(q, S) = f[Len(q)] /\ f[0] = <<>>
      /\ \A n \in 1..Len(q) : f[n] = IF q[n] \in S THEN Append(f[n - 1], q[n]) ELSE f[n - 1]
  BY <1>1, KeptIs
<1>3. /\ Only(r, S) = g[Len(r)] /\ g[0] = <<>>
      /\ \A n \in 1..Len(r) : g[n] = IF r[n] \in S THEN Append(g[n - 1], r[n]) ELSE g[n - 1]
  BY <1>1, KeptIs
<1> HIDE DEF f, g
<1> DEFINE T == {n \in Nat : n <= Len(q) => f[n] = g[n]}
<1>4. 0 \in T
  BY <1>2, <1>3
<1>5. ASSUME NEW n \in Nat, n \in T PROVE n + 1 \in T
  <2> SUFFICES ASSUME n + 1 <= Len(q) PROVE f[n + 1] = g[n + 1]
    OBVIOUS
  <2>1. n <= Len(q) /\ n + 1 \in 1..Len(q) /\ n + 1 \in 1..Len(r) /\ (n + 1) - 1 = n
    BY <1>1
  <2>2. f[n] = g[n] /\ r[n + 1] = q[n + 1]
    BY <1>1, <1>5, <2>1
  <2> QED
    BY <1>2, <1>3, <2>1, <2>2
<1>6. f[Len(q)] = g[Len(q)]
  <2>1. Nat \subseteq T
    <3> HIDE DEF T
    <3> QED
      BY <1>4, <1>5, Induction
  <2> QED
    BY <1>1, <2>1
<1>7. Len(q) + 1 \in 1..Len(r) /\ (Len(q) + 1) - 1 = Len(q)
  BY <1>1
<1> QED
  BY <1>1, <1>2, <1>3, <1>6, <1>7 DEF r

(* Induction over sequences, for a set of them.                            *)
LEMMA SeqInduction ==
  ASSUME NEW A, NEW T, <<>> \in T, \A p \in Seq(A), e \in A : p \in T => Append(p, e) \in T
  PROVE  \A q \in Seq(A) : q \in T
<1> DEFINE N == {n \in Nat : \A q \in Seq(A) : Len(q) = n => q \in T}
<1>1. 0 \in N
  <2>1. ASSUME NEW q \in Seq(A), Len(q) = 0 PROVE q \in T
    <3>1. q = <<>>
      BY <2>1
    <3> QED
      BY <3>1
  <2> QED
    BY <2>1
<1>2. ASSUME NEW n \in Nat, n \in N PROVE n + 1 \in N
  <2>1. ASSUME NEW q \in Seq(A), Len(q) = n + 1 PROVE q \in T
    <3>1. PICK p \in Seq(A), e \in A : q = Append(p, e) /\ Len(p) = n
      BY <2>1, LastApart
    <3>2. p \in T
      BY <1>2, <3>1
    <3> QED
      BY <3>1, <3>2
  <2> QED
    BY <2>1
<1>3. Nat \subseteq N
  <2> HIDE DEF N
  <2> QED
    BY <1>1, <1>2, Induction
<1>4. \A q \in Seq(A) : Len(q) \in Nat
  OBVIOUS
<1> QED
  BY <1>3, <1>4

(* What Only keeps is of the types it keeps, and no more than there was.   *)
LEMMA OnlyType ==
  ASSUME NEW A, NEW S
  PROVE  \A q \in Seq(A) : Only(q, S) \in Seq(A \cap S) /\ Len(Only(q, S)) <= Len(q)
<1> DEFINE T == {q \in Seq(A) : Only(q, S) \in Seq(A \cap S) /\ Len(Only(q, S)) <= Len(q)}
<1>1. <<>> \in T
  <2>1. Len(<<>>) <= Len(<<>>) /\ <<>> \in Seq(A) /\ <<>> \in Seq(A \cap S)
    BY EmptySeq
  <2> QED
    BY <2>1, OnlyEmpty
<1>2. ASSUME NEW p \in Seq(A), NEW e \in A, p \in T PROVE Append(p, e) \in T
  <2>1. Append(p, e) \in Seq(A) /\ Len(Append(p, e)) = Len(p) + 1 /\ Len(p) \in Nat
    OBVIOUS
  <2>2. Only(p, S) \in Seq(A \cap S) /\ Len(Only(p, S)) <= Len(p) /\ Len(Only(p, S)) \in Nat
    BY <1>2, LenProperties
  <2>3. CASE e \in S
    <3>1. Only(Append(p, e), S) = Append(Only(p, S), e) /\ e \in A \cap S
      BY <2>3, OnlyAppend
    <3>2. Append(Only(p, S), e) \in Seq(A \cap S)
          /\ Len(Append(Only(p, S), e)) = Len(Only(p, S)) + 1
      BY <2>2, <3>1, AppendProperties
    <3> QED
      BY <2>1, <2>2, <3>1, <3>2
  <2>4. CASE e \notin S
    <3>1. Only(Append(p, e), S) = Only(p, S)
      BY <2>4, OnlyAppend
    <3> QED
      BY <2>1, <2>2, <3>1
  <2> QED
    BY <2>3, <2>4
<1>3. \A q \in Seq(A) : q \in T
  <2> HIDE DEF T
  <2> QED
    BY <1>1, <1>2, SeqInduction
<1> QED
  BY <1>3

(* Parts of a sequence can be looked at one by one.                        *)
LEMMA OnlyConcat ==
  ASSUME NEW A, NEW S, NEW a \in Seq(A)
  PROVE  \A b \in Seq(A) : Only(a \o b, S) = Only(a, S) \o Only(b, S)
<1> DEFINE T == {b \in Seq(A) : Only(a \o b, S) = Only(a, S) \o Only(b, S)}
<1>0. Only(a, S) \in Seq(A \cap S)
  BY OnlyType
<1>1. <<>> \in T
  <2>1. a \o <<>> = a /\ Only(a, S) \o <<>> = Only(a, S) /\ <<>> \in Seq(A)
    BY <1>0, ConcatEmptySeq, EmptySeq
  <2> QED
    BY <2>1, OnlyEmpty
<1>2. ASSUME NEW p \in Seq(A), NEW e \in A, p \in T PROVE Append(p, e) \in T
  <2>1. Append(p, e) \in Seq(A) /\ a \o p \in Seq(A)
    BY AppendProperties, ConcatProperties
  <2>2. a \o Append(p, e) = Append(a \o p, e)
    <3>1. <<e>> \in Seq(A)
      OBVIOUS
    <3>2. Append(p, e) = p \o <<e>> /\ Append(a \o p, e) = (a \o p) \o <<e>>
      BY <2>1, AppendIsConcat
    <3> QED
      BY <3>1, <3>2, ConcatAssociative
  <2>3. Only(p, S) \in Seq(A \cap S) /\ Only(a, S) \o Only(p, S) \in Seq(A \cap S)
    BY <1>0, OnlyType, ConcatProperties
  <2>4. CASE e \in S
    <3>1. Only(a \o Append(p, e), S) = Append(Only(a \o p, S), e)
      BY <2>1, <2>2, <2>4, OnlyAppend
    <3>2. Only(Append(p, e), S) = Append(Only(p, S), e)
      BY <2>4, OnlyAppend
    <3>3. Only(a, S) \o Append(Only(p, S), e) = Append(Only(a, S) \o Only(p, S), e)
      <4>1. <<e>> \in Seq(A \cap S) /\ e \in A \cap S
        BY <2>4
      <4>2. Append(Only(p, S), e) = Only(p, S) \o <<e>>
        BY <2>3, <4>1, AppendIsConcat
      <4>3. Append(Only(a, S) \o Only(p, S), e) = (Only(a, S) \o Only(p, S)) \o <<e>>
        BY <2>3, <4>1, AppendIsConcat
      <4> QED
        BY <1>0, <2>3, <4>1, <4>2, <4>3, ConcatAssociative
    <3> QED
      BY <1>2, <2>1, <3>1, <3>2, <3>3
  <2>5. CASE e \notin S
    <3>1. Only(a \o Append(p, e), S) = Only(a \o p, S)
      BY <2>1, <2>2, <2>5, OnlyAppend
    <3>2. Only(Append(p, e), S) = Only(p, S)
      BY <2>5, OnlyAppend
    <3> QED
      BY <1>2, <2>1, <3>1, <3>2
  <2> QED
    BY <2>4, <2>5
<1>3. \A b \in Seq(A) : b \in T
  <2> HIDE DEF T
  <2> QED
    BY <1>1, <1>2, SeqInduction
<1> QED
  BY <1>3

(* Only keeps all when it keeps every type, and nothing exactly when no    *)
(* entry is of a type it keeps.                                            *)
LEMMA OnlyAll == ASSUME NEW S PROVE \A q \in Seq(S) : Only(q, S) = q
<1> DEFINE T == {q \in Seq(S) : Only(q, S) = q}
<1>1. <<>> \in T
  BY OnlyEmpty, EmptySeq
<1>2. ASSUME NEW p \in Seq(S), NEW e \in S, p \in T PROVE Append(p, e) \in T
  BY <1>2, OnlyAppend, AppendProperties
<1>3. \A q \in Seq(S) : q \in T
  <2> HIDE DEF T
  <2> QED
    BY <1>1, <1>2, SeqInduction
<1> QED
  BY <1>3

(* What is left is empty when no entry is of a type in S.                  *)
LEMMA OnlyNone ==
  ASSUME NEW A, NEW S
  PROVE  \A q \in Seq(A) : Only(q, S) = <<>> <=> \A i \in 1..Len(q) : q[i] \notin S
<1> DEFINE T == {q \in Seq(A) : Only(q, S) = <<>> <=> \A i \in 1..Len(q) : q[i] \notin S}
<1>1. <<>> \in T
  <2>1. Len(<<>>) = 0 /\ <<>> \in Seq(A)
    BY EmptySeq
  <2> QED
    BY <2>1, OnlyEmpty
<1>2. ASSUME NEW p \in Seq(A), NEW e \in A, p \in T PROVE Append(p, e) \in T
  <2> DEFINE r == Append(p, e)
  <2>1. r \in Seq(A) /\ Len(r) = Len(p) + 1 /\ Len(p) \in Nat /\ r[Len(p) + 1] = e
        /\ \A i \in 1..Len(p) : r[i] = p[i]
    OBVIOUS
  <2>2. Only(p, S) \in Seq(A \cap S)
    BY OnlyType
  <2>3. Only(r, S) = IF e \in S THEN Append(Only(p, S), e) ELSE Only(p, S)
    BY OnlyAppend
  <2> HIDE DEF r
  <2>4. CASE e \in S
    <3>1. Only(r, S) # <<>>
      BY <2>2, <2>3, <2>4, AppendProperties
    <3>2. Len(p) + 1 \in 1..Len(r) /\ r[Len(p) + 1] \in S
      BY <2>1, <2>4
    <3> QED
      BY <2>1, <3>1, <3>2 DEF r
  <2>5. CASE e \notin S
    <3>1. \A i \in 1..Len(r) : i \in 1..Len(p) \/ i = Len(p) + 1
      BY <2>1
    <3>2. \A i \in 1..Len(p) : i \in 1..Len(r)
      BY <2>1
    <3>3. (\A i \in 1..Len(r) : r[i] \notin S) <=> (\A i \in 1..Len(p) : p[i] \notin S)
      BY <2>1, <2>5, <3>1, <3>2
    <3> QED
      BY <1>2, <2>1, <2>3, <2>5, <3>3 DEF r
  <2> QED
    BY <2>4, <2>5
<1>3. \A q \in Seq(A) : q \in T
  <2> HIDE DEF T
  <2> QED
    BY <1>1, <1>2, SeqInduction
<1> QED
  BY <1>3

(* A single entry.                                                         *)
LEMMA OnlyOne ==
  ASSUME NEW A, NEW e \in A, NEW S PROVE Only(<<e>>, S) = IF e \in S THEN <<e>> ELSE <<>>
<1>1. <<>> \in Seq(A) /\ Append(<<>>, e) = <<e>>
  BY EmptySeq
<1>2. Only(Append(<<>>, e), S) = IF e \in S THEN Append(Only(<<>>, S), e) ELSE Only(<<>>, S)
  BY <1>1, OnlyAppend
<1> QED
  BY <1>1, <1>2, OnlyEmpty

(* The sentinel is a type of its own.                                      *)
LEMMA NothingElse == Types = AllTypes \cap Types /\ Sentinel \in AllTypes
                     /\ Types \subseteq AllTypes
                     /\ Sentinel \notin Types /\ AllTypes \cap Types = Types
BY QueueAssumption DEF AllTypes

(* The events are no more than the entries.                                *)
LEMMA EventsType ==
  ASSUME NEW q \in Seq(AllTypes)
  PROVE  /\ Events(q) \in Seq(Types) /\ Events(q) \in Seq(AllTypes)
         /\ Len(Events(q)) \in Nat /\ Len(Events(q)) <= Len(q) /\ Len(q) \in Nat
<1>1. Only(q, Types) \in Seq(AllTypes \cap Types) /\ Len(Only(q, Types)) <= Len(q)
  BY OnlyType
<1>2. Events(q) \in Seq(Types)
  BY <1>1, NothingElse DEF Events
<1>3. Events(q) \in Seq(AllTypes)
  BY <1>2, NothingElse, SeqMonotonic
<1> QED
  BY <1>1, <1>2, <1>3, LenProperties DEF Events

(* The events of two parts.                                                *)
LEMMA EventsConcat ==
  ASSUME NEW a \in Seq(AllTypes), NEW b \in Seq(AllTypes)
  PROVE  Events(a \o b) = Events(a) \o Events(b)
BY OnlyConcat DEF Events

(* Without sentinels every entry is an event.                              *)
LEMMA EventsAll == ASSUME NEW q \in Seq(Types) PROVE Events(q) = q
BY OnlyAll DEF Events

(* The events of a single entry.                                           *)
LEMMA EventsOne ==
  ASSUME NEW e \in AllTypes PROVE Events(<<e>>) = IF e = Sentinel THEN <<>> ELSE <<e>>
<1>1. e \in Types <=> e # Sentinel
  BY QueueAssumption DEF AllTypes
<1> QED
  BY <1>1, OnlyOne DEF Events

(* There is no event when every entry is a sentinel.                       *)
LEMMA EventsNone ==
  ASSUME NEW q \in Seq(AllTypes)
  PROVE  Events(q) = <<>> <=> \A i \in 1..Len(q) : q[i] = Sentinel
<1>1. \A i \in 1..Len(q) : q[i] = Sentinel <=> q[i] \notin Types
  BY QueueAssumption, ElementOfSeq DEF AllTypes
<1>2. Only(q, Types) = <<>> <=> \A i \in 1..Len(q) : q[i] \notin Types
  BY OnlyNone
<1> QED
  BY <1>1, <1>2 DEF Events

(* How many sentinels there are in a part of the queue.                    *)
LEMMA SentinelsNat ==
  ASSUME NEW q \in Seq(AllTypes) PROVE SentinelsIn(q) \in Nat
<1>1. Len(Events(q)) \in Nat /\ Len(Events(q)) <= Len(q) /\ Len(q) \in Nat
  BY EventsType
<1> QED
  BY <1>1 DEF SentinelsIn

(* The sentinels of two parts.                                             *)
LEMMA SentinelsConcat ==
  ASSUME NEW a \in Seq(AllTypes), NEW b \in Seq(AllTypes)
  PROVE  SentinelsIn(a \o b) = SentinelsIn(a) + SentinelsIn(b)
<1>1. /\ Len(Events(a)) \in Nat /\ Len(Events(b)) \in Nat /\ Len(a) \in Nat /\ Len(b) \in Nat
      /\ Events(a) \in Seq(Types) /\ Events(b) \in Seq(Types)
  BY EventsType
<1>2. Len(a \o b) = Len(a) + Len(b)
  BY ConcatProperties
<1>3. Len(Events(a \o b)) = Len(Events(a)) + Len(Events(b))
  BY <1>1, EventsConcat, ConcatProperties
<1> QED
  BY <1>1, <1>2, <1>3 DEF SentinelsIn

(* There is no sentinel among the events.                                  *)
LEMMA SentinelsOfEvents ==
  ASSUME NEW q \in Seq(Types) PROVE SentinelsIn(q) = 0
BY EventsAll, LenProperties DEF SentinelsIn

(* The sentinels in a single entry.                                        *)
LEMMA SentinelsOne ==
  ASSUME NEW e \in AllTypes PROVE SentinelsIn(<<e>>) = IF e = Sentinel THEN 1 ELSE 0
<1>1. Len(<<e>>) = 1 /\ Len(<<>>) = 0
  OBVIOUS
<1>2. Events(<<e>>) = IF e = Sentinel THEN <<>> ELSE <<e>>
  BY EventsOne
<1>3. CASE e = Sentinel
  BY <1>1, <1>2, <1>3 DEF SentinelsIn
<1>4. CASE e # Sentinel
  BY <1>1, <1>2, <1>4 DEF SentinelsIn
<1> QED
  BY <1>3, <1>4

(* Adding an entry counts as a sentinel or as an event.                    *)
LEMMA SentinelsAppend ==
  ASSUME NEW q \in Seq(AllTypes), NEW e \in AllTypes
  PROVE  /\ SentinelsIn(Append(q, e)) = SentinelsIn(q) + (IF e = Sentinel THEN 1 ELSE 0)
         /\ Events(Append(q, e)) = IF e = Sentinel THEN Events(q) ELSE Append(Events(q), e)
<1>1. Append(q, e) = q \o <<e>> /\ <<e>> \in Seq(AllTypes)
  BY AppendIsConcat
<1>2. SentinelsIn(Append(q, e)) = SentinelsIn(q) + SentinelsIn(<<e>>)
  BY <1>1, SentinelsConcat
<1>3. SentinelsIn(Append(q, e)) = SentinelsIn(q) + (IF e = Sentinel THEN 1 ELSE 0)
  BY <1>2, SentinelsOne
<1>4. e \in Types <=> e # Sentinel
  BY QueueAssumption DEF AllTypes
<1>5. Only(Append(q, e), Types) = IF e \in Types THEN Append(Only(q, Types), e)
           ELSE Only(q, Types)
  BY OnlyAppend
<1> QED
  BY <1>3, <1>4, <1>5 DEF Events

(* Taking types out takes no sentinel in.                                  *)
LEMMA SentinelsOnly ==
  ASSUME NEW K PROVE \A q \in Seq(AllTypes) : SentinelsIn(Only(q, K)) <= SentinelsIn(q)
<1> DEFINE T == {q \in Seq(AllTypes) : SentinelsIn(Only(q, K)) <= SentinelsIn(q)}
<1>1. <<>> \in T
  <2>1. <<>> \in Seq(AllTypes) /\ SentinelsIn(<<>>) \in Nat
    BY EmptySeq, SentinelsNat
  <2> QED
    BY <2>1, OnlyEmpty
<1>2. ASSUME NEW p \in Seq(AllTypes), NEW e \in AllTypes, p \in T PROVE Append(p, e) \in T
  <2>1. Append(p, e) \in Seq(AllTypes) /\ Only(p, K) \in Seq(AllTypes)
    <3>1. AllTypes \cap K \subseteq AllTypes
      OBVIOUS
    <3>2. Only(p, K) \in Seq(AllTypes \cap K)
      BY OnlyType
    <3>3. Only(p, K) \in Seq(AllTypes)
      BY <3>1, <3>2, SeqMonotonic
    <3> QED
      BY <3>3, AppendProperties
  <2> DEFINE d == IF e = Sentinel THEN 1 ELSE 0
  <2>2. SentinelsIn(Append(p, e)) = SentinelsIn(p) + d /\ d \in Nat
    BY SentinelsAppend
  <2>3. SentinelsIn(Only(p, K)) \in Nat /\ SentinelsIn(p) \in Nat
        /\ SentinelsIn(Only(p, K)) <= SentinelsIn(p)
    BY <1>2, <2>1, SentinelsNat
  <2>4. SentinelsIn(Only(Append(p, e), K)) <= SentinelsIn(Only(p, K)) + d
    <3>1. CASE e \in K
      <4>1. Only(Append(p, e), K) = Append(Only(p, K), e)
        BY <3>1, OnlyAppend
      <4>2. SentinelsIn(Append(Only(p, K), e)) = SentinelsIn(Only(p, K)) + d
        BY <2>1, SentinelsAppend
      <4> QED
        BY <2>2, <2>3, <4>1, <4>2
    <3>2. CASE e \notin K
      <4>1. Only(Append(p, e), K) = Only(p, K)
        BY <3>2, OnlyAppend
      <4> QED
        BY <2>2, <2>3, <4>1
    <3> QED
      BY <3>1, <3>2
  <2>5. Only(Append(p, e), K) \in Seq(AllTypes)
    <3>1. Only(Append(p, e), K) \in Seq(AllTypes \cap K)
      BY <2>1, OnlyType
    <3> QED
      BY <3>1, SeqMonotonic
  <2> HIDE DEF d
  <2>6. SentinelsIn(Only(Append(p, e), K)) <= SentinelsIn(Append(p, e))
    BY <2>2, <2>3, <2>4, <2>5, SentinelsNat
  <2> QED
    BY <2>1, <2>6
<1>3. \A q \in Seq(AllTypes) : q \in T
  <2> HIDE DEF T
  <2> QED
    BY <1>1, <1>2, SeqInduction
<1> QED
  BY <1>3

-----------------------------------------------------------------------------
(* A set of numbers that is not empty has a least one.                     *)
LEMMA LeastIs ==
  ASSUME NEW P, P \subseteq Nat, P # {}
  PROVE  Min(P) \in P /\ \A j \in P : Min(P) <= j
<1>1. PICK m \in P : \A y \in P : ~ (<<y, m>> \in OpToRel(<, Nat))
  BY NatLessThanWellFounded, WFMin
<1>2. \A y \in P : m <= y
  <2> TAKE y \in P
  <2>1. y \in Nat /\ m \in Nat
    OBVIOUS
  <2>2. ~(y < m)
    BY <1>1, <2>1 DEF OpToRel
  <2> QED
    BY <2>1, <2>2
<1> QED
  BY <1>2 DEF Min

Place(S, include) == {i \in DOMAIN queue : queue[i] \in S /\ Counts(i, include)}

(* Find is the first place that counts, or 0 if none does.                 *)
LEMMA FindIs ==
  ASSUME queue \in Seq(AllTypes), NEW S, NEW include
  PROVE  \/ /\ Find(S, include) = 0
            /\ \A i \in 1..Len(queue) : ~(queue[i] \in S /\ Counts(i, include))
         \/ /\ Find(S, include) \in 1..Len(queue)
            /\ queue[Find(S, include)] \in S /\ Counts(Find(S, include), include)
            /\ \A i \in 1..Find(S, include) - 1 : ~(queue[i] \in S /\ Counts(i, include))
<1> DEFINE P == Place(S, include)
<1>1. Len(queue) \in Nat /\ DOMAIN queue = 1..Len(queue)
  BY LenProperties
<1>2. Find(S, include) = IF P = {} THEN 0 ELSE Min(P)
  BY DEF Find, Place
<1>3. \A i : i \in P <=> i \in 1..Len(queue) /\ queue[i] \in S /\ Counts(i, include)
  BY <1>1 DEF Place
<1> HIDE DEF P
<1>4. CASE P = {}
  BY <1>2, <1>3, <1>4
<1>5. CASE P # {}
  <2>1. P \subseteq Nat
    BY <1>3
  <2>2. Min(P) \in P /\ \A j \in P : Min(P) <= j
    BY <1>5, <2>1, LeastIs
  <2>3. \A i \in 1..Min(P) - 1 : i \notin P /\ i \in 1..Len(queue)
    BY <1>1, <1>3, <2>1, <2>2
  <2> QED
    BY <1>2, <1>3, <1>5, <2>2, <2>3
<1> QED
  BY <1>4, <1>5

(* A sequence in three parts, at one of its places.                        *)
LEMMA CutAt ==
  ASSUME NEW A, NEW q \in Seq(A), NEW k \in 1..Len(q)
  PROVE  /\ SubSeq(q, 1, k - 1) \in Seq(A) /\ SubSeq(q, k + 1, Len(q)) \in Seq(A)
         /\ SubSeq(q, 1, k) = SubSeq(q, 1, k - 1) \o <<q[k]>>
         /\ q = SubSeq(q, 1, k) \o SubSeq(q, k + 1, Len(q))
         /\ q[k] \in A /\ Len(SubSeq(q, 1, k - 1)) = k - 1
         /\ \A i \in 1..k - 1 : SubSeq(q, 1, k - 1)[i] = q[i]
<1>1. Len(q) \in Nat /\ k \in Nat /\ k >= 1 /\ k <= Len(q) /\ \A i \in 1..Len(q) : q[i] \in A
  BY LenProperties
<1>2. SubSeq(q, 1, k - 1) \in Seq(A) /\ Len(SubSeq(q, 1, k - 1)) = k - 1
      /\ \A i \in 1..k - 1 : SubSeq(q, 1, k - 1)[i] = q[i]
  <2>1. \A i \in 1..k - 1 : q[i] \in A
    BY <1>1
  <2>2. k - 1 \in Int /\ 1 \in Int
    BY <1>1
  <2>3. /\ SubSeq(q, 1, k - 1) \in Seq(A)
        /\ Len(SubSeq(q, 1, k - 1)) = IF 1 <= k - 1 THEN (k - 1) - 1 + 1 ELSE 0
        /\ \A i \in 1..(k - 1) - 1 + 1 : SubSeq(q, 1, k - 1)[i] = q[1 + i - 1]
    BY <2>1, <2>2, SubSeqProperties
  <2>4. \A i \in 1..k - 1 : i \in 1..(k - 1) - 1 + 1 /\ 1 + i - 1 = i
    BY <1>1
  <2> QED
    BY <1>1, <2>3, <2>4
<1>3. SubSeq(q, k + 1, Len(q)) \in Seq(A)
  <2>1. \A i \in k + 1..Len(q) : q[i] \in A
    BY <1>1
  <2>2. k + 1 \in Int /\ Len(q) \in Int
    BY <1>1
  <2> QED
    BY <2>1, <2>2, SubSeqProperties
<1>4. SubSeq(q, 1, k) = SubSeq(q, 1, k - 1) \o <<q[k]>>
  <2>1. 1 \in 1..Len(q) /\ k \in 1..Len(q)
    BY <1>1
  <2> QED
    BY <2>1, SubSeqRecursiveSecond
<1>5. q = SubSeq(q, 1, k) \o SubSeq(q, k + 1, Len(q))
  <2>1. 1 \in 1..Len(q) + 1 /\ k \in 1 - 1..Len(q) /\ Len(q) \in k..Len(q)
    BY <1>1
  <2>2. SubSeq(q, 1, k) \o SubSeq(q, k + 1, Len(q)) = SubSeq(q, 1, Len(q))
    BY <2>1, ConcatAdjacentSubSeq
  <2> QED
    BY <2>2, SubSeqFull
<1> QED
  BY <1>1, <1>2, <1>3, <1>4, <1>5

(* What AfterGet leaves: of the entries before the one found the sentinels *)
(* go, if they are of a type looked for, and all entries after it stay.    *)
Passed(S, a) == IF Sentinel \in S THEN Events(a) ELSE a

Parts(S, include, a, b) ==
  LET k == Find(S, include)
  IN /\ queue = (a \o <<queue[k]>>) \o b /\ SubSeq(queue, 1, k) = a \o <<queue[k]>>
     /\ queue[k] \in AllTypes /\ queue[k] \in S /\ Len(a) = k - 1
     /\ Counts(k, include)
     /\ \A i \in 1..k - 1 : a[i] = queue[i] /\ ~(queue[i] \in S /\ Counts(i, include))
     /\ AfterGet(S, include) = Passed(S, a) \o b

(* The queue around the entry that is found, and what is left of it.       *)
LEMMA AfterGetIs ==
  ASSUME queue \in Seq(AllTypes), NEW S, NEW include
  PROVE  \/ /\ Find(S, include) = 0 /\ AfterGet(S, include) = Passed(S, queue)
            /\ \A i \in 1..Len(queue) : ~(queue[i] \in S /\ Counts(i, include))
         \/ /\ Find(S, include) \in 1..Len(queue)
            /\ \E a, b \in Seq(AllTypes) : Parts(S, include, a, b)
<1> DEFINE k == Find(S, include)
           q == queue
<1>0. Len(q) \in Nat /\ q \in Seq(AllTypes)
  BY LenProperties
<1>1. CASE k = 0 /\ \A i \in 1..Len(q) : ~(q[i] \in S /\ Counts(i, include))
  <2>1. SubSeq(q, 1, Len(q)) = q
    BY <1>0, SubSeqFull
  <2>2. AfterGet(S, include) = Passed(S, q)
    BY <1>1, <2>1 DEF AfterGet, Skipped, Passed
  <2> QED
    BY <1>1, <2>2
<1>2. CASE k \in 1..Len(q) /\ q[k] \in S /\ Counts(k, include)
           /\ \A i \in 1..k - 1 : ~(q[i] \in S /\ Counts(i, include))
  <2> DEFINE a == SubSeq(q, 1, k - 1)
             b == SubSeq(q, k + 1, Len(q))
  <2>1. /\ a \in Seq(AllTypes) /\ b \in Seq(AllTypes) /\ SubSeq(q, 1, k) = a \o <<q[k]>>
        /\ q = SubSeq(q, 1, k) \o b /\ q[k] \in AllTypes /\ Len(a) = k - 1
        /\ \A i \in 1..k - 1 : a[i] = q[i]
    <3> HIDE DEF k, q
    <3> QED
      BY <1>0, <1>2, CutAt
  <2>2. k # 0
    BY <1>2
  <2>3. AfterGet(S, include) = Skipped(S, k - 1) \o b
    BY <2>2 DEF AfterGet
  <2>4. Skipped(S, k - 1) = Passed(S, a)
    BY DEF Skipped, Passed
  <2>5. Parts(S, include, a, b)
    <3> HIDE DEF a, b
    <3> QED
      BY <1>2, <2>1, <2>3, <2>4 DEF Parts
  <2> HIDE DEF a, b
  <2> QED
    BY <1>2, <2>1, <2>5
<1> QED
  BY <1>0, <1>1, <1>2, FindIs

(* Of the entries passed over every event stays.                           *)
LEMMA PassedIs ==
  ASSUME NEW S, NEW a \in Seq(AllTypes)
  PROVE  /\ Passed(S, a) \in Seq(AllTypes) /\ Len(Passed(S, a)) \in Nat
         /\ Len(Passed(S, a)) <= Len(a)
         /\ Events(Passed(S, a)) = Events(a) /\ SentinelsIn(Passed(S, a)) <= SentinelsIn(a)
<1>1. CASE Sentinel \in S
  <2>1. Passed(S, a) = Events(a)
    BY <1>1 DEF Passed
  <2>2. Events(a) \in Seq(Types) /\ Events(a) \in Seq(AllTypes) /\ Len(Events(a)) \in Nat
        /\ Len(Events(a)) <= Len(a)
    BY EventsType
  <2>3. Events(Events(a)) = Events(a) /\ SentinelsIn(Events(a)) = 0
    BY <2>2, EventsAll, SentinelsOfEvents
  <2>4. SentinelsIn(a) \in Nat
    BY SentinelsNat
  <2>5. SentinelsIn(Events(a)) <= SentinelsIn(a)
    BY <2>3, <2>4
  <2> QED
    BY <2>1, <2>2, <2>3, <2>5
<1>2. CASE Sentinel \notin S
  <2>1. Passed(S, a) = a
    BY <1>2 DEF Passed
  <2>2. Len(a) \in Nat /\ SentinelsIn(a) \in Nat
    BY SentinelsNat, LenProperties
  <2> QED
    BY <2>1, <2>2
<1> QED
  BY <1>1, <1>2

(* In numbers: what the parts have together.                               *)
One(x) == IF x = Sentinel THEN 1 ELSE 0
Before(a, x) == IF x = Sentinel THEN Events(a) ELSE Events(a) \o <<x>>

Sums(r, x, p, a, b) ==
  /\ r \in Seq(AllTypes) /\ x \in AllTypes
  /\ Len(queue) = Len(a) + 1 + Len(b) /\ Len(r) = Len(p) + Len(b)
  /\ SentinelsIn(queue) = SentinelsIn(a) + One(x) + SentinelsIn(b)
  /\ SentinelsIn(r) = SentinelsIn(p) + SentinelsIn(b)
  /\ Events(queue) = Before(a, x) \o Events(b)
  /\ Events(r) = Events(a) \o Events(b)

(* The events and the sentinels of the parts add up.                       *)
LEMMA PartsAdd ==
  ASSUME queue \in Seq(AllTypes), NEW S, NEW include, NEW a \in Seq(AllTypes),
         NEW b \in Seq(AllTypes),
         Parts(S, include, a, b)
  PROVE  Sums(AfterGet(S, include), queue[Find(S, include)], Passed(S, a), a, b)
<1> DEFINE x == queue[Find(S, include)]
           one == One(x)
           p == Passed(S, a)
<1>1. /\ p \in Seq(AllTypes) /\ Events(p) = Events(a)
  BY PassedIs
<1>2. /\ queue = (a \o <<x>>) \o b /\ x \in AllTypes /\ AfterGet(S, include) = p \o b
  BY DEF Parts
<1> HIDE DEF x, p
<1>3. <<x>> \in Seq(AllTypes) /\ Len(<<x>>) = 1
  BY <1>2
<1>4. a \o <<x>> \in Seq(AllTypes) /\ Len(a \o <<x>>) = Len(a) + 1
  BY <1>3, ConcatProperties
<1>5. p \o b \in Seq(AllTypes) /\ Len(p \o b) = Len(p) + Len(b)
      /\ Len(queue) = Len(a) + 1 + Len(b)
  BY <1>1, <1>2, <1>4, ConcatProperties
<1>6. SentinelsIn(p \o b) = SentinelsIn(p) + SentinelsIn(b)
      /\ Events(p \o b) = Events(a) \o Events(b)
  BY <1>1, SentinelsConcat, EventsConcat
<1>7. SentinelsIn(a \o <<x>>) = SentinelsIn(a) + one
  BY <1>2, <1>3, SentinelsConcat, SentinelsOne DEF One
<1>8. SentinelsIn(queue) = SentinelsIn(a) + one + SentinelsIn(b)
  BY <1>2, <1>4, <1>7, SentinelsConcat
<1>9. Events(a \o <<x>>) = Before(a, x)
  <2>1. Events(a \o <<x>>) = Events(a) \o Events(<<x>>)
    BY <1>3, EventsConcat
  <2>2. Events(a) \o <<>> = Events(a)
    BY EventsType, ConcatEmptySeq
  <2> QED
    BY <1>2, <2>1, <2>2, EventsOne DEF Before
<1>10. Events(queue) = Before(a, x) \o Events(b)
  BY <1>2, <1>4, <1>9, EventsConcat
<1> QED
  BY <1>2, <1>5, <1>6, <1>8, <1>10 DEF Sums, x, p

(* Taking an event takes no sentinel in, and removes no other event.       *)
LEMMA GetTakes ==
  ASSUME queue \in Seq(AllTypes), NEW S, NEW include
  PROVE  /\ AfterGet(S, include) \in Seq(AllTypes) /\ Len(AfterGet(S, include)) <= Len(queue)
         /\ SentinelsIn(AfterGet(S, include)) <= SentinelsIn(queue)
         /\ Len(Events(AfterGet(S, include))) <= Len(Events(queue))
         /\ Find(S, include) = 0 \/ queue[Find(S, include)] = Sentinel =>
              Events(AfterGet(S, include)) = Events(queue)
<1> DEFINE k == Find(S, include)
           r == AfterGet(S, include)
<1>1. CASE k = 0 /\ r = Passed(S, queue)
  <2>1. /\ Passed(S, queue) \in Seq(AllTypes) /\ Len(Passed(S, queue)) <= Len(queue)
        /\ Events(Passed(S, queue)) = Events(queue)
        /\ SentinelsIn(Passed(S, queue)) <= SentinelsIn(queue)
    BY PassedIs
  <2>2. Len(Events(queue)) \in Nat
    BY EventsType
  <2> QED
    BY <1>1, <2>1, <2>2
<1>2. ASSUME k \in 1..Len(queue), NEW a \in Seq(AllTypes), NEW b \in Seq(AllTypes),
             Parts(S, include, a, b)
      PROVE  /\ r \in Seq(AllTypes) /\ Len(r) <= Len(queue)
             /\ SentinelsIn(r) <= SentinelsIn(queue)
             /\ Len(Events(r)) <= Len(Events(queue))
             /\ k = 0 \/ queue[k] = Sentinel => Events(r) = Events(queue)
  <2> DEFINE x == queue[k]
             one == One(x)
             p == Passed(S, a)
  <2>0. Sums(r, x, p, a, b)
    BY <1>2, PartsAdd
  <2>1. /\ r \in Seq(AllTypes) /\ Len(queue) = Len(a) + 1 + Len(b) /\ Len(r) = Len(p) + Len(b)
        /\ SentinelsIn(queue) = SentinelsIn(a) + one + SentinelsIn(b)
        /\ SentinelsIn(r) = SentinelsIn(p) + SentinelsIn(b)
        /\ Events(queue) = (IF x = Sentinel THEN Events(a) ELSE Events(a) \o <<x>>) \o Events(b)
        /\ Events(r) = Events(a) \o Events(b) /\ x \in AllTypes
    <3> HIDE DEF r, x, p
    <3> QED
      BY <2>0 DEF Sums, Before
  <2>2. /\ p \in Seq(AllTypes) /\ Len(p) \in Nat /\ Len(p) <= Len(a)
        /\ SentinelsIn(p) <= SentinelsIn(a)
        /\ SentinelsIn(p) \in Nat /\ SentinelsIn(a) \in Nat /\ SentinelsIn(b) \in Nat
        /\ one \in 0..1
        /\ Len(a) \in Nat /\ Len(b) \in Nat
    BY PassedIs, SentinelsNat, LenProperties DEF One
  <2>3. Len(Events(r)) <= Len(Events(queue))
    <3>1. Events(a) \in Seq(AllTypes) /\ Events(b) \in Seq(AllTypes)
      BY EventsType
    <3>2. CASE x = Sentinel
      <4>1. Events(r) = Events(queue) /\ Len(Events(r)) \in Nat
        BY <2>1, <3>2, EventsType
      <4> QED
        BY <4>1
    <3>3. CASE x # Sentinel
      <4> HIDE DEF x, r
      <4>1. <<x>> \in Seq(AllTypes) /\ Len(<<x>>) = 1
        BY <2>1
      <4>2. Events(a) \o <<x>> \in Seq(AllTypes) /\ Len(Events(a) \o <<x>>) = Len(Events(a)) + 1
        BY <3>1, <4>1, ConcatProperties
      <4>3. Len((Events(a) \o <<x>>) \o Events(b)) = Len(Events(a)) + 1 + Len(Events(b))
        BY <3>1, <4>2, ConcatProperties
      <4>4. Len(Events(a) \o Events(b)) = Len(Events(a)) + Len(Events(b))
        BY <3>1, ConcatProperties
      <4>5. Len(Events(a)) \in Nat /\ Len(Events(b)) \in Nat
        BY EventsType
      <4> QED
        BY <2>1, <3>3, <4>3, <4>4, <4>5
    <3> QED
      BY <3>2, <3>3
  <2>4. SentinelsIn(r) <= SentinelsIn(queue) /\ Len(r) <= Len(queue)
    <3> HIDE DEF one, p, r
    <3> QED
      BY <2>1, <2>2
  <2>5. k # 0
    BY <1>2
  <2>6. x = Sentinel => Events(r) = Events(queue)
    BY <2>1
  <2> QED
    BY <2>1, <2>3, <2>4, <2>5, <2>6
<1> QED
  BY <1>1, <1>2, AfterGetIs

(* Of all types, it takes the oldest event or there was none.              *)
LEMMA GetOldest ==
  ASSUME queue \in Seq(AllTypes), NEW include
  PROVE  /\ Find(AllTypes, include) = 0 =>
              Events(queue) = <<>> /\ Events(AfterGet(AllTypes, include)) = <<>>
         /\ Find(AllTypes, include) # 0 /\ queue[Find(AllTypes, include)] # Sentinel =>
              Events(queue) # <<>> /\ Events(AfterGet(AllTypes, include)) = Tail(Events(queue))
<1> DEFINE k == Find(AllTypes, include)
           r == AfterGet(AllTypes, include)
<1>1. CASE k = 0 /\ \A i \in 1..Len(queue) : ~(queue[i] \in AllTypes /\ Counts(i, include))
  <2>1. \A i \in 1..Len(queue) : queue[i] = Sentinel
    BY <1>1, ElementOfSeq DEF Counts
  <2>2. Events(queue) = <<>>
    BY <2>1, EventsNone
  <2> QED
    BY <1>1, <2>2, GetTakes
<1>2. ASSUME k \in 1..Len(queue), NEW a \in Seq(AllTypes), NEW b \in Seq(AllTypes),
             Parts(AllTypes, include, a, b)
      PROVE  k # 0
             /\ (queue[k] # Sentinel => Events(queue) # <<>> /\ Events(r) = Tail(Events(queue)))
  <2> DEFINE x == queue[k]
  <2> SUFFICES ASSUME x # Sentinel PROVE Events(queue) # <<>> /\ Events(r) = Tail(Events(queue))
    BY <1>2
  <2>1. /\ Events(queue) = (Events(a) \o <<x>>) \o Events(b) /\ Events(r) = Events(a) \o Events(b)
        /\ x \in AllTypes /\ Len(a) = k - 1
        /\ \A i \in 1..k - 1 : a[i] = queue[i] /\ ~(queue[i] \in AllTypes /\ Counts(i, include))
    <3>1. Sums(r, x, Passed(AllTypes, a), a, b)
      BY <1>2, PartsAdd
    <3>2. /\ Events(queue) = (Events(a) \o <<x>>) \o Events(b)
          /\ Events(r) = Events(a) \o Events(b)
          /\ x \in AllTypes
      <4> HIDE DEF r, x
      <4> QED
        BY <3>1 DEF Sums, Before
    <3>3. /\ Len(a) = k - 1
          /\ \A i \in 1..k - 1 : a[i] = queue[i] /\ ~(queue[i] \in AllTypes /\ Counts(i, include))
      BY <1>2 DEF Parts
    <3> QED
      BY <3>2, <3>3
  <2>2. \A i \in 1..Len(a) : a[i] = Sentinel
    BY <2>1, ElementOfSeq DEF Counts
  <2>3. Events(a) = <<>>
    BY <2>2, EventsNone
  <2> DEFINE eb == Events(b)
  <2>4. eb \in Seq(AllTypes)
    BY EventsType
  <2> HIDE DEF x, eb
  <2>5. <<>> \o <<x>> = <<x>> /\ <<>> \o eb = eb /\ <<x>> \in Seq(AllTypes)
    <3>1. <<x>> \in Seq(AllTypes)
      BY <2>1
    <3> QED
      BY <2>4, <3>1, ConcatEmptySeq
  <2>6. Events(queue) = <<x>> \o eb /\ Events(r) = eb
    BY <2>1, <2>3, <2>5 DEF eb
  <2>7. <<x>> \o eb # <<>> /\ Tail(<<x>> \o eb) = eb
    <3>1. <<x>> \o eb \in Seq(AllTypes) /\ Len(<<x>> \o eb) = Len(eb) + 1 /\ Len(eb) \in Nat
          /\ \A i \in 1..Len(eb) + 1 : (<<x>> \o eb)[i] = IF i <= 1 THEN x ELSE eb[i - 1]
      <4>1. Len(<<x>>) = 1 /\ <<x>>[1] = x
        OBVIOUS
      <4>2. /\ <<x>> \o eb \in Seq(AllTypes) /\ Len(<<x>> \o eb) = 1 + Len(eb) /\ Len(eb) \in Nat
            /\ \A i \in 1..1 + Len(eb) : (<<x>> \o eb)[i] = IF i <= 1 THEN <<x>>[i] ELSE eb[i - 1]
        BY <2>4, <2>5, <4>1, ConcatProperties, LenProperties
      <4>3. \A i \in 1..1 + Len(eb) : i <= 1 => i = 1
        BY <4>2
      <4> QED
        BY <4>1, <4>2, <4>3
    <3> DEFINE s == <<x>> \o eb
    <3>2. s # <<>>
      BY <3>1
    <3> HIDE DEF s
    <3>3. Tail(s) \in Seq(AllTypes) /\ Len(Tail(s)) = Len(s) - 1
          /\ \A i \in 1..Len(Tail(s)) : Tail(s)[i] = s[i + 1]
      BY <3>1, <3>2, HeadTailProperties DEF s
    <3>4. Len(Tail(s)) = Len(eb) /\ \A i \in 1..Len(eb) : Tail(s)[i] = eb[i]
      <4>1. Len(s) - 1 = Len(eb)
        BY <3>1 DEF s
      <4>2. \A i \in 1..Len(eb) : i + 1 \in 1..Len(eb) + 1 /\ ~(i + 1 <= 1) /\ (i + 1) - 1 = i
        BY <3>1
      <4> QED
        BY <3>1, <3>3, <4>1, <4>2 DEF s
    <3>5. Tail(s) = eb
      BY <2>4, <3>3, <3>4, SeqEqual
    <3> QED
      BY <3>2, <3>5 DEF s
  <2> QED
    BY <2>6, <2>7
<1> QED
  BY <1>1, <1>2, AfterGetIs

(* Looking for the sentinel takes the pending one.                         *)
LEMMA GetsSentinel ==
  ASSUME queue \in Seq(AllTypes), SentinelsCounted, sentinel_pending > 0
  PROVE  SentinelsIn(AfterGet({Sentinel}, TRUE)) = 0
<1> DEFINE k == Find({Sentinel}, TRUE)
           r == AfterGet({Sentinel}, TRUE)
<1>0. sentinel_pending = 1 /\ SentinelsIn(queue) = 1
  BY SentinelsNat DEF SentinelsCounted
<1>1. CASE k = 0 /\ r = Passed({Sentinel}, queue)
  <2>1. r = Events(queue)
    BY <1>1 DEF Passed
  <2> QED
    BY <2>1, EventsType, SentinelsOfEvents
<1>2. ASSUME NEW a \in Seq(AllTypes), NEW b \in Seq(AllTypes), Parts({Sentinel}, TRUE, a, b)
      PROVE  SentinelsIn(r) = 0
  <2>1. /\ queue[k] = Sentinel
        /\ SentinelsIn(queue) = SentinelsIn(a) + 1 + SentinelsIn(b)
        /\ SentinelsIn(r) = SentinelsIn(Passed({Sentinel}, a)) + SentinelsIn(b)
    <3>1. Sums(r, queue[k], Passed({Sentinel}, a), a, b) /\ queue[k] = Sentinel
      BY <1>2, PartsAdd DEF Parts
    <3>2. One(Sentinel) = 1
      BY DEF One
    <3> HIDE DEF r, k
    <3> QED
      BY <3>1, <3>2 DEF Sums
  <2>2. Passed({Sentinel}, a) = Events(a)
    BY DEF Passed
  <2>3. SentinelsIn(Events(a)) = 0
    BY EventsType, SentinelsOfEvents
  <2>4. SentinelsIn(a) \in Nat /\ SentinelsIn(b) \in Nat
    BY SentinelsNat
  <2> HIDE DEF r, k
  <2> QED
    BY <1>0, <2>1, <2>2, <2>3, <2>4
<1> QED
  BY <1>1, <1>2, AfterGetIs

(* When the first entry is an event, that is the one found.                *)
(* All entries but the first.                                              *)
LEMMA AllButFirst ==
  ASSUME NEW A, NEW q \in Seq(A), Len(q) >= 1
  PROVE  /\ SubSeq(q, 2, Len(q)) \in Seq(A) /\ Len(SubSeq(q, 2, Len(q))) = Len(q) - 1
         /\ \A i \in 1..Len(q) - 1 : SubSeq(q, 2, Len(q))[i] = q[i + 1]
<1> DEFINE n == Len(q)
           r == SubSeq(q, 2, n)
<1>1. n \in Nat /\ n >= 1 /\ \A i \in 2..n : q[i] \in A
  BY ElementOfSeq, LenProperties
<1>2. /\ r \in Seq(A) /\ Len(r) = IF 2 <= n THEN n - 2 + 1 ELSE 0
      /\ \A i \in 1..n - 2 + 1 : r[i] = q[2 + i - 1]
  BY <1>1, SubSeqProperties
<1> HIDE DEF n, r
<1>3. Len(r) = n - 1
  BY <1>1, <1>2
<1>4. ASSUME NEW i \in 1..n - 1 PROVE r[i] = q[i + 1]
  <2>1. i \in 1..n - 2 + 1 /\ 2 + i - 1 = i + 1
    BY <1>1
  <2> QED
    BY <1>2, <2>1
<1> QED
  BY <1>2, <1>3, <1>4 DEF n, r

(* If an event is first it is the one taken.                               *)
LEMMA GetFirst ==
  ASSUME queue \in Seq(AllTypes), NEW include, Len(queue) >= 1, queue[1] # Sentinel
  PROVE  /\ Find(AllTypes, include) = 1 /\ Found(AllTypes, include) = queue[1]
         /\ AfterGet(AllTypes, include) = SubSeq(queue, 2, Len(queue))
         /\ Events(queue) # <<>> /\ Events(AfterGet(AllTypes, include)) = Tail(Events(queue))
<1> DEFINE k == Find(AllTypes, include)
<1>1. Len(queue) \in Nat /\ 1 \in 1..Len(queue) /\ queue[1] \in AllTypes /\ Counts(1, include)
  BY ElementOfSeq, LenProperties DEF Counts
<1>2. k = 1
  <2>1. k # 0
    BY <1>1, FindIs
  <2>2. k \in 1..Len(queue) /\ \A i \in 1..k - 1 : ~(queue[i] \in AllTypes /\ Counts(i, include))
    BY <2>1, FindIs
  <2>3. CASE k > 1
    <3>1. 1 \in 1..k - 1
      BY <2>2, <2>3
    <3> QED
      BY <1>1, <2>2, <3>1
  <2> QED
    BY <2>2, <2>3
<1>3. AfterGet(AllTypes, include) = Skipped(AllTypes, 0) \o SubSeq(queue, 2, Len(queue))
  BY <1>2 DEF AfterGet
<1>4. Skipped(AllTypes, 0) = <<>>
  <2>1. SubSeq(queue, 1, 0) = <<>>
    BY SubSeqEmpty
  <2>2. Events(<<>>) = <<>>
    BY OnlyEmpty DEF Events
  <2> QED
    BY <2>1, <2>2, NothingElse DEF Skipped
<1>5. SubSeq(queue, 2, Len(queue)) \in Seq(AllTypes)
  BY AllButFirst
<1>6. Events(queue) # <<>> /\ Events(AfterGet(AllTypes, include)) = Tail(Events(queue))
  <2>1. k # 0 /\ queue[k] # Sentinel
    BY <1>2
  <2> QED
    BY <2>1, GetOldest
<1> QED
  BY <1>2, <1>3, <1>4, <1>5, <1>6, ConcatEmptySeq DEF Found

Calls == [pc : {"idle", "pump", "get_sentinel", "push_sentinel", "first", "null_peek",
                "null_get", "loop_peep", "device_peep", "device_wait"},
          call : {"none", "pump", "poll", "wait"}, null : BOOLEAN, timed : BOOLEAN,
          found : BOOLEAN, ret : {"idle", "first", "loop_peep", "device_peep"}]

QueueGood ==
  /\ queue \in Seq(AllTypes) /\ Len(queue) <= MaxQueued /\ sentinel_pending \in Nat
  /\ SentinelsCounted
  /\ ~active => queue = <<>>

(* The entries older than the poll loop are the first ones, and no         *)
(* sentinel is among them; without a loop there are none.                  *)
OldFirst ==
  /\ ~polling => old = 0
  /\ old <= Len(queue) /\ \A i \in 1..old : queue[i] # Sentinel

Flags ==
  /\ active \in BOOLEAN /\ sentinelEnabled \in BOOLEAN
  /\ wakeup_window \in BOOLEAN /\ message \in BOOLEAN
  /\ pc \in [Pushers -> {"idle", "wake"}]
  /\ result \in BOOLEAN /\ old \in 0..MaxQueued

(* What the program counter of the main thread says of the call it makes,  *)
(* of the poll loop and of the sentinel.                                   *)
Fits ==
  /\ main \in Calls /\ polling \in BOOLEAN
  /\ main.pc = "push_sentinel" => sentinel_pending = 0
  /\ main.call = "poll" /\ main.pc \in {"pump", "get_sentinel"} => sentinel_pending = 0
  /\ main.call = "pump" => main.pc \in {"idle", "pump"}
  /\ polling /\ main.pc # "idle" => main.call \in {"pump", "poll"} /\ ~main.null
  /\ main.call = "poll" /\ ~main.null /\ main.pc # "idle" => polling
  /\ main.pc \in {"null_peek", "null_get"} => main.null
  /\ main.pc \in {"loop_peep", "device_peep", "device_wait"} => main.call = "wait"
  /\ main.ret \in {"loop_peep", "device_peep"} => main.call = "wait"

(* Asleep, it has asked to be woken or a message is there, and if there is *)
(* an event but no message somebody is about to send it.                   *)
Asked ==
  main.pc = "device_wait" =>
    message \/ (wakeup_window /\ (Events(queue) # <<>> => \E p \in Pushers : pc[p] = "wake"))

EQInv == QueueGood /\ OldFirst /\ Flags /\ Fits /\ Asked

-----------------------------------------------------------------------------
(* Cutting entries keeps the count of sentinels right.                     *)
LEMMA CutKeeps ==
  ASSUME QueueGood, UNCHANGED active,
         NEW rest \in Seq(AllTypes), Len(rest) <= Len(queue),
         SentinelsIn(rest) <= SentinelsIn(queue), Cut(rest)
  PROVE  QueueGood' /\ queue' = rest /\ sentinel_pending' = SentinelsIn(rest)
         /\ sentinel_pending' <= sentinel_pending
<1>1. /\ queue' = rest
      /\ sentinel_pending' = sentinel_pending - (SentinelsIn(queue) - SentinelsIn(rest))
      /\ sentinel_pending = SentinelsIn(queue) /\ sentinel_pending <= 1
  BY DEF Cut, Pending, QueueGood, SentinelsCounted
<1>2. SentinelsIn(rest) \in Nat /\ SentinelsIn(queue) \in Nat /\ Len(rest) \in Nat
      /\ Len(queue) \in Nat
      /\ MaxQueued \in Nat
  BY SentinelsNat, LenProperties, QueueAssumption DEF QueueGood
<1>3. sentinel_pending' = SentinelsIn(rest) /\ sentinel_pending' <= sentinel_pending
  BY <1>1, <1>2
<1>4. SentinelsIn(queue') = SentinelsIn(rest)
  BY <1>1
<1>5. SentinelsCounted'
  BY <1>1, <1>2, <1>3, <1>4 DEF SentinelsCounted
<1>6. Len(queue') <= MaxQueued
  BY <1>1, <1>2 DEF QueueGood
<1>7. ~active => queue' = <<>>
  <2> SUFFICES ASSUME ~active PROVE rest = <<>>
    BY <1>1
  <2>1. Len(queue) = 0
    BY EmptySeq DEF QueueGood
  <2>2. Len(rest) = 0
    BY <1>2, <2>1
  <2> QED
    BY <2>2, EmptySeq
<1> QED
  BY <1>1, <1>2, <1>3, <1>5, <1>6, <1>7 DEF QueueGood

(* So does adding one, if a sentinel comes alone.                          *)
LEMMA AddKeeps ==
  ASSUME QueueGood, UNCHANGED active, HasRoom, NEW e \in AllTypes, AddEvent(e),
         e = Sentinel => sentinel_pending = 0
  PROVE  /\ QueueGood' /\ Len(queue') = Len(queue) + 1 /\ Len(queue) \in Nat
         /\ \A i \in 1..Len(queue) : queue'[i] = queue[i]
         /\ e # Sentinel => sentinel_pending' = sentinel_pending
         /\ Events(queue') = IF e = Sentinel THEN Events(queue) ELSE Append(Events(queue), e)
<1>1. queue' = Append(queue, e)
      /\ sentinel_pending' = sentinel_pending + (IF e = Sentinel THEN 1 ELSE 0)
  BY DEF AddEvent, Link
<1>2. queue \in Seq(AllTypes) /\ Len(queue) < MaxQueued /\ active
      /\ sentinel_pending = SentinelsIn(queue)
      /\ sentinel_pending \in Nat /\ sentinel_pending <= 1 /\ Len(queue) \in Nat
      /\ MaxQueued \in Nat
  BY LenProperties, QueueAssumption DEF HasRoom, QueueGood, SentinelsCounted
<1>3. queue' \in Seq(AllTypes) /\ Len(queue') = Len(queue) + 1
      /\ \A i \in 1..Len(queue) : queue'[i] = queue[i]
  BY <1>1, <1>2, AppendProperties
<1>4. /\ SentinelsIn(queue') = SentinelsIn(queue) + (IF e = Sentinel THEN 1 ELSE 0)
      /\ Events(queue') = IF e = Sentinel THEN Events(queue) ELSE Append(Events(queue), e)
  BY <1>1, <1>2, SentinelsAppend
<1>5. SentinelsCounted' /\ sentinel_pending' \in Nat
  BY <1>1, <1>2, <1>4 DEF SentinelsCounted
<1>6. e # Sentinel => sentinel_pending' = sentinel_pending
  BY <1>1, <1>2
<1>7. Len(queue') <= MaxQueued
  BY <1>2, <1>3
<1> QED
  BY <1>2, <1>3, <1>4, <1>5, <1>6, <1>7 DEF QueueGood

(* An event is added, or was not for want of room.                         *)
LEMMA TryAddKeeps ==
  ASSUME QueueGood, UNCHANGED active, NEW e \in AllTypes, TryAddEvent(e),
         e = Sentinel => sentinel_pending = 0
  PROVE  /\ QueueGood' /\ Len(queue') >= Len(queue) /\ Len(queue) \in Nat /\ Len(queue') \in Nat
         /\ \A i \in 1..Len(queue) : queue'[i] = queue[i]
         /\ e # Sentinel => sentinel_pending' = sentinel_pending
         /\ Events(queue') = IF HasRoom /\ e # Sentinel THEN Append(Events(queue), e)
              ELSE Events(queue)
<1>1. CASE HasRoom
  <2>1. AddEvent(e)
    BY <1>1 DEF TryAddEvent
  <2> QED
    BY <1>1, <2>1, AddKeeps
<1>2. CASE ~HasRoom
  <2>1. UNCHANGED <<queue, sentinel_pending>> /\ Len(queue) \in Nat
    BY <1>2, LenProperties DEF TryAddEvent, queueVars, QueueGood
  <2>2. QueueGood'
    BY <2>1 DEF QueueGood, SentinelsCounted
  <2> QED
    BY <1>2, <2>1, <2>2
<1> QED
  BY <1>1, <1>2

(* The old entries stay first when entries are added.                      *)
LEMMA OldStays ==
  ASSUME OldFirst, Flags, UNCHANGED <<polling, old>>, Len(queue) \in Nat, Len(queue') \in Nat,
         Len(queue') >= Len(queue),
         \A i \in 1..Len(queue) : queue'[i] = queue[i]
  PROVE  OldFirst'
<1>1. old \in Nat
  BY QueueAssumption DEF Flags
<1> QED
  BY <1>1 DEF OldFirst

(* It holds when the program starts.                                       *)
LEMMA InitEQInv == Init => EQInv
<1> SUFFICES ASSUME Init PROVE EQInv
  OBVIOUS
<1>1. queue = <<>> /\ sentinel_pending = 0 /\ <<>> \in Seq(AllTypes) /\ <<>> \in Seq(Types)
      /\ Len(<<>>) = 0
  BY EmptySeq DEF Init
<1>2. SentinelsIn(<<>>) = 0
  BY <1>1, SentinelsOfEvents
<1>3. QueueGood
  BY <1>1, <1>2, QueueAssumption DEF QueueGood, SentinelsCounted
<1>4. Flags
  <2>1. old \in 0..MaxQueued
    BY QueueAssumption DEF Init
  <2>2. pc \in [Pushers -> {"idle", "wake"}]
    BY DEF Init
  <2> QED
    BY <2>1, <2>2 DEF Init, Flags
<1>5. Fits /\ Asked
  BY DEF Init, Fits, Calls, NoCall, Asked
<1>6. OldFirst
  <2>1. old = 0 /\ polling = FALSE /\ Len(queue) = 0
    BY <1>1 DEF Init
  <2> QED
    BY <2>1 DEF OldFirst
<1> QED
  BY <1>3, <1>4, <1>5, <1>6 DEF EQInv

-----------------------------------------------------------------------------
(* The pushers.                                                            *)
LEMMA PushKeeps ==
  ASSUME EQInv, NEW p \in Pushers, Push(p) PROVE EQInv'
<1>1. PICK e \in Types : TryAddEvent(e)
  BY DEF Push
<1>2. /\ pc[p] = "idle" /\ pc' = [pc EXCEPT ![p] = IF HasRoom THEN "wake" ELSE "idle"]
      /\ UNCHANGED <<wakeup_window, message, active, sentinelEnabled, main, polling, old, result>>
  BY DEF Push, wakeVars, config, history
<1>3. e \in AllTypes /\ e # Sentinel
  BY NothingElse
<1>4. /\ QueueGood' /\ Len(queue') >= Len(queue) /\ Len(queue) \in Nat /\ Len(queue') \in Nat
      /\ \A i \in 1..Len(queue) : queue'[i] = queue[i]
      /\ sentinel_pending' = sentinel_pending
      /\ Events(queue') = IF HasRoom THEN Append(Events(queue), e) ELSE Events(queue)
  BY <1>1, <1>2, <1>3, TryAddKeeps DEF EQInv
<1>5. OldFirst'
  BY <1>2, <1>4, OldStays DEF EQInv
<1>6. Flags' /\ Fits'
  BY <1>2, <1>4 DEF EQInv, Flags, Fits
<1>7. Asked'
  <2>1. \A x \in Pushers : pc[x] = "wake" => pc'[x] = "wake"
    BY <1>2 DEF EQInv, Flags
  <2>2. HasRoom => pc'[p] = "wake"
    BY <1>2 DEF EQInv, Flags
  <2>3. ~HasRoom => Events(queue') = Events(queue)
    BY <1>4
  <2> QED
    BY <1>2, <2>1, <2>2, <2>3 DEF EQInv, Asked
<1> QED
  BY <1>4, <1>5, <1>6, <1>7 DEF EQInv

(* A wakeup that finds the window closed has been sent already.            *)
LEMMA WakeKeeps ==
  ASSUME EQInv, NEW p \in Pushers, Wake(p) PROVE EQInv'
<1>1. /\ message' = (message \/ wakeup_window) /\ wakeup_window' = FALSE /\ pc' = [pc EXCEPT ![p] = "idle"]
      /\ UNCHANGED <<queue, sentinel_pending, active, sentinelEnabled, main, polling, old,
                     result>>
  BY DEF Wake, SendWakeup, queueVars, config, history
<1>2. QueueGood' /\ OldFirst'
  BY <1>1 DEF EQInv, QueueGood, SentinelsCounted, OldFirst
<1>3. Flags' /\ Fits'
  BY <1>1 DEF EQInv, Flags, Fits
<1>4. Asked'
  BY <1>1 DEF EQInv, Asked
<1> QED
  BY <1>2, <1>3, <1>4 DEF EQInv

-----------------------------------------------------------------------------
(* Between the calls of the main thread.                                   *)
LEMMA MainPushKeeps ==
  ASSUME EQInv, MainPush PROVE EQInv'
<1>1. PICK e \in Types : AddEvent(e)
  BY DEF MainPush
<1>2. /\ main.pc = "idle" /\ HasRoom
      /\ UNCHANGED <<pc, wakeup_window, message, active, sentinelEnabled, main, polling, old,
                     result>>
  BY DEF MainPush, Idle, wakeVars, config, history
<1>3. e \in AllTypes /\ e # Sentinel
  BY NothingElse
<1>4. /\ QueueGood' /\ Len(queue') = Len(queue) + 1 /\ Len(queue) \in Nat
      /\ \A i \in 1..Len(queue) : queue'[i] = queue[i]
  BY <1>1, <1>2, <1>3, AddKeeps DEF EQInv
<1>5. OldFirst'
  BY <1>2, <1>4, OldStays DEF EQInv
<1>6. Flags' /\ Fits' /\ Asked'
  BY <1>2 DEF EQInv, Flags, Fits, Asked
<1> QED
  BY <1>4, <1>5, <1>6 DEF EQInv

(* The old entries, apart from the others.                                 *)
LEMMA OldApart ==
  ASSUME QueueGood, OldFirst, Flags
  PROVE  \E a \in Seq(Types), b \in Seq(AllTypes) :
           queue = a \o b /\ Len(a) = old /\ SubSeq(Events(queue), 1, old) = a
           /\ a \in Seq(AllTypes)
<1>3. queue \in Seq(AllTypes) /\ Len(queue) \in Nat /\ old \in Nat
  BY LenProperties, QueueAssumption DEF QueueGood, Flags
<1> DEFINE a == SubSeq(queue, 1, old)
           b == SubSeq(queue, old + 1, Len(queue))
<1>7. /\ a \in Seq(Types) /\ a \in Seq(AllTypes) /\ Len(a) = old
      /\ b \in Seq(AllTypes) /\ queue = a \o b
  <2>1. old <= Len(queue) /\ \A i \in 1..old : queue[i] \in Types
    <3>1. old <= Len(queue) /\ \A i \in 1..old : queue[i] # Sentinel /\ queue[i] \in AllTypes
      BY <1>3, ElementOfSeq DEF OldFirst
    <3> QED
      BY <3>1 DEF AllTypes
  <2>2. a \in Seq(Types) /\ Len(a) = IF 1 <= old THEN old - 1 + 1 ELSE 0
    BY <1>3, <2>1, SubSeqProperties
  <2>3. b \in Seq(AllTypes)
    <3>1. \A i \in old + 1..Len(queue) : queue[i] \in AllTypes
      BY <1>3, ElementOfSeq
    <3>2. old + 1 \in Int /\ Len(queue) \in Int
      BY <1>3
    <3> QED
      BY <3>1, <3>2, SubSeqProperties
  <2>4. a \o b = queue
    <3>1. 1 \in 1..Len(queue) + 1 /\ old \in 1 - 1..Len(queue) /\ Len(queue) \in old..Len(queue)
      BY <1>3, <2>1
    <3>2. a \o b = SubSeq(queue, 1, Len(queue))
      BY <1>3, <3>1, ConcatAdjacentSubSeq
    <3> QED
      BY <1>3, <3>2, SubSeqFull
  <2>5. a \in Seq(AllTypes)
    BY <2>2, NothingElse, SeqMonotonic
  <2> HIDE DEF a, b
  <2> QED
    BY <1>3, <2>2, <2>3, <2>4, <2>5
<1> HIDE DEF a, b
<1>8. SubSeq(Events(queue), 1, old) = a
  <2>1. Events(queue) = a \o Events(b) /\ Events(b) \in Seq(AllTypes)
    BY <1>7, EventsConcat, EventsAll, EventsType
  <2>2. CASE old = 0
    <3>1. a = <<>>
      BY <1>7, <2>2, EmptySeq
    <3>2. SubSeq(Events(queue), 1, 0) = <<>>
      BY SubSeqEmpty
    <3> QED
      BY <2>2, <3>1, <3>2
  <2>3. CASE old # 0
    <3>1. 1 \in 1..Len(a) /\ Len(a) \in 1..Len(a)
      BY <1>3, <1>7, <2>3
    <3>2. SubSeq(a \o Events(b), 1, Len(a)) = SubSeq(a, 1, Len(a))
      BY <1>7, <2>1, <3>1, SubSeqOfConcat1
    <3>3. SubSeq(a, 1, Len(a)) = a
      BY <1>7, SubSeqFull
    <3> QED
      BY <1>7, <2>1, <3>2, <3>3
  <2> QED
    BY <2>2, <2>3
<1> QED
  BY <1>7, <1>8

(* The old entries are again first, and no sentinel.                       *)
LEMMA OldAgain ==
  ASSUME NEW c \in Seq(Types), NEW d \in Seq(AllTypes), queue' = c \o d, old' = Len(c),
         ~polling' => old' = 0
  PROVE  OldFirst'
<1>1. c \in Seq(AllTypes) /\ \A i \in 1..Len(c) : c[i] # Sentinel
  BY NothingElse, SeqMonotonic, ElementOfSeq
<1>2. /\ Len(c \o d) = Len(c) + Len(d) /\ Len(c) \in Nat /\ Len(d) \in Nat
      /\ \A i \in 1..Len(c) + Len(d) : (c \o d)[i] = IF i <= Len(c) THEN c[i] ELSE d[i - Len(c)]
  BY <1>1, ConcatProperties, LenProperties
<1>3. \A i \in 1..Len(c) : i \in 1..Len(c) + Len(d) /\ i <= Len(c)
  BY <1>2
<1>4. \A i \in 1..old' : queue'[i] # Sentinel
  BY <1>1, <1>2, <1>3
<1>5. old' <= Len(queue')
  BY <1>2
<1> QED
  BY <1>4, <1>5 DEF OldFirst

(* Discarding types takes them out of the old entries and of the others.   *)
LEMMA FlushKeeps ==
  ASSUME EQInv, Flush PROVE EQInv'
<1>1. PICK S \in SUBSET AllTypes : /\ Cut(Only(queue, AllTypes \ S))
                                   /\ old' = Len(Only(SubSeq(Events(queue), 1, old), AllTypes \ S))
  BY DEF Flush
<1>2. /\ main.pc = "idle"
      /\ UNCHANGED <<pc, wakeup_window, message, active, sentinelEnabled, main, polling, result>>
  BY DEF Flush, Idle, wakeVars, config
<1> DEFINE K == AllTypes \ S
           rest == Only(queue, K)
<1>3. queue \in Seq(AllTypes) /\ Len(queue) \in Nat /\ old \in Nat /\ old <= MaxQueued
      /\ MaxQueued \in Nat
  BY LenProperties, QueueAssumption DEF EQInv, QueueGood, Flags
<1>4. rest \in Seq(AllTypes \cap K) /\ Len(rest) <= Len(queue)
      /\ SentinelsIn(rest) <= SentinelsIn(queue)
  BY <1>3, OnlyType, SentinelsOnly
<1>5. rest \in Seq(AllTypes)
  BY <1>4, SeqMonotonic
<1>6. QueueGood' /\ queue' = rest
  <2> HIDE DEF rest
  <2> QED
    BY <1>1, <1>2, <1>4, <1>5, CutKeeps DEF EQInv, rest
<1>7. PICK a \in Seq(Types), b \in Seq(AllTypes) :
        queue = a \o b /\ Len(a) = old /\ SubSeq(Events(queue), 1, old) = a /\ a \in Seq(AllTypes)
  BY OldApart DEF EQInv
<1> HIDE DEF K
<1> DEFINE ka == Only(a, K)
           kb == Only(b, K)
<1>9. /\ rest = ka \o kb /\ old' = Len(ka) /\ Len(ka) \in Nat /\ Len(ka) <= old
      /\ ka \in Seq(Types) /\ kb \in Seq(AllTypes)
  <2>1. ka \in Seq(Types \cap K) /\ Len(ka) <= Len(a) /\ kb \in Seq(AllTypes \cap K)
    BY <1>7, OnlyType
  <2>2. Types \cap K \subseteq Types /\ AllTypes \cap K \subseteq AllTypes
    OBVIOUS
  <2>3. ka \in Seq(Types) /\ kb \in Seq(AllTypes)
    BY <2>1, <2>2, SeqMonotonic
  <2>4. rest = ka \o kb
    BY <1>7, OnlyConcat
  <2>6. old' = Len(ka)
    BY <1>1, <1>7 DEF K
  <2>7. Len(ka) \in Nat
    BY <2>1, LenProperties
  <2> QED
    BY <1>7, <2>1, <2>3, <2>4, <2>6, <2>7
<1> HIDE DEF ka, kb, rest
<1>11. OldFirst'
  <2>1. ~polling' => old' = 0
    BY <1>2, <1>3, <1>9 DEF EQInv, OldFirst
  <2> QED
    BY <1>6, <1>9, <2>1, OldAgain
<1>13. Flags' /\ Fits' /\ Asked'
  <2>1. old' \in 0..MaxQueued
    BY <1>3, <1>9
  <2> QED
    BY <1>2, <2>1 DEF EQInv, Flags, Fits, Asked
<1> QED
  BY <1>6, <1>11, <1>13 DEF EQInv

(* Events taken out of turn, with no poll loop under way.                  *)
LEMMA GetOneKeeps ==
  ASSUME EQInv, GetOne PROVE EQInv'
<1>1. PICK S \in SUBSET AllTypes : Cut(AfterGet(S, FALSE))
  BY DEF GetOne
<1>2. /\ main.pc = "idle" /\ ~polling
      /\ UNCHANGED <<pc, wakeup_window, message, active, sentinelEnabled, main, polling, old,
                     result>>
  BY DEF GetOne, Idle, wakeVars, config, history
<1>3. QueueGood'
  BY <1>1, <1>2, GetTakes, CutKeeps DEF EQInv, QueueGood
<1>4. OldFirst'
  <2>1. Len(queue') \in Nat
    BY <1>3, LenProperties DEF QueueGood
  <2> QED
    BY <1>2, <2>1 DEF EQInv, OldFirst
<1>5. Flags' /\ Fits' /\ Asked'
  BY <1>2 DEF EQInv, Flags, Fits, Asked
<1> QED
  BY <1>3, <1>4, <1>5 DEF EQInv

(* Disabling the sentinel takes it out and leaves the old entries.         *)
LEMMA SetSentinelKeeps ==
  ASSUME EQInv, SetSentinel PROVE EQInv'
<1>1. /\ main.pc = "idle" /\ sentinelEnabled' = ~sentinelEnabled
      /\ UNCHANGED <<pc, wakeup_window, message, active, main, polling, old, result>>
  BY DEF SetSentinel, Idle, wakeVars, history
<1>2. Flags' /\ Fits' /\ Asked'
  BY <1>1 DEF EQInv, Flags, Fits, Asked
<1>3. CASE sentinelEnabled /\ active
  <2>1. Cut(Events(queue))
    BY <1>3 DEF SetSentinel
  <2>2. queue \in Seq(AllTypes) /\ Events(queue) \in Seq(Types) /\ Events(queue) \in Seq(AllTypes)
        /\ Len(Events(queue)) <= Len(queue)
    BY EventsType DEF EQInv, QueueGood
  <2>3. SentinelsIn(Events(queue)) <= SentinelsIn(queue)
    BY <2>2, SentinelsOnly DEF Events
  <2>4. QueueGood' /\ queue' = Events(queue)
    BY <1>1, <2>1, <2>2, <2>3, CutKeeps DEF EQInv
  <2>5. PICK a \in Seq(Types), b \in Seq(AllTypes) : queue = a \o b /\ Len(a) = old
             /\ a \in Seq(AllTypes)
    BY OldApart DEF EQInv
  <2>6. queue' = a \o Events(b) /\ Events(b) \in Seq(AllTypes)
    BY <2>4, <2>5, EventsConcat, EventsAll, EventsType
  <2>7. old' = Len(a) /\ (~polling' => old' = 0)
    BY <1>1, <2>5 DEF EQInv, OldFirst
  <2>8. OldFirst'
    BY <2>6, <2>7, OldAgain
  <2> QED
    BY <1>2, <2>4, <2>8 DEF EQInv
<1>4. CASE ~(sentinelEnabled /\ active)
  <2>1. UNCHANGED <<queue, sentinel_pending>>
    BY <1>4 DEF SetSentinel, queueVars
  <2> QED
    BY <1>1, <1>2, <2>1 DEF EQInv, QueueGood, SentinelsCounted, OldFirst
<1> QED
  BY <1>3, <1>4

(* The event loop starts.                                                  *)
LEMMA StartKeeps ==
  ASSUME EQInv, StartEventLoop PROVE EQInv'
<1>1. /\ main.pc = "idle" /\ active' = TRUE
      /\ UNCHANGED <<queue, sentinel_pending, pc, wakeup_window, message, sentinelEnabled, main,
                     polling, old, result>>
  BY DEF StartEventLoop, Idle, wakeVars, history, queueVars
<1>2. QueueGood' /\ OldFirst'
  BY <1>1 DEF EQInv, QueueGood, SentinelsCounted, OldFirst
<1> QED
  BY <1>1, <1>2 DEF EQInv, Flags, Fits, Asked

(* The event loop stops: nothing is left.                                  *)
LEMMA StopKeeps ==
  ASSUME EQInv, StopEventLoop PROVE EQInv'
<1>1. /\ main.pc = "idle" /\ active' = FALSE /\ ~polling /\ queue' = <<>>
      /\ sentinel_pending' = 0 /\ sentinelEnabled' = TRUE
      /\ UNCHANGED <<pc, wakeup_window, message, main, polling, old, result>>
  BY DEF StopEventLoop, Idle, wakeVars, history
<1>2. <<>> \in Seq(AllTypes) /\ <<>> \in Seq(Types) /\ Len(<<>>) = 0
  BY EmptySeq
<1>3. SentinelsIn(queue') = 0
  BY <1>1, <1>2, SentinelsOfEvents
<1>4. QueueGood'
  BY <1>1, <1>2, <1>3, QueueAssumption DEF QueueGood, SentinelsCounted
<1>5. OldFirst'
  <2>1. old' = 0 /\ Len(queue') = 0
    BY <1>1, <1>2 DEF EQInv, OldFirst
  <2> QED
    BY <2>1 DEF OldFirst
<1>6. Flags' /\ Fits' /\ Asked'
  BY <1>1 DEF EQInv, Flags, Fits, Asked
<1> QED
  BY <1>4, <1>5, <1>6 DEF EQInv

(* A call begins: the queue stays.                                         *)
LEMMA QueueStays ==
  ASSUME QueueGood, UNCHANGED <<queue, sentinel_pending, active>>
  PROVE  QueueGood' /\ Events(queue') = Events(queue)
BY DEF QueueGood, SentinelsCounted

(* A call that only pumps.                                                 *)
LEMMA BeginPumpKeeps ==
  ASSUME EQInv, BeginPumpEvents PROVE EQInv'
<1>1. /\ main' = [NoCall EXCEPT !.pc = "pump", !.call = "pump"]
      /\ UNCHANGED <<queue, sentinel_pending, active, pc, wakeup_window, message,
                     sentinelEnabled, polling, old, result>>
  BY DEF BeginPumpEvents, wakeVars, history, queueVars, config
<1>2. QueueGood' /\ OldFirst' /\ Flags' /\ Asked'
  BY <1>1, QueueStays DEF EQInv, OldFirst, Flags, Asked, NoCall
<1>3. Fits'
  BY <1>1 DEF EQInv, Fits, Calls, NoCall
<1> QED
  BY <1>2, <1>3 DEF EQInv

(* How a poll or a wait begins.                                            *)
LEMMA BeginCallMain ==
  ASSUME NEW call \in {"poll", "wait"}, NEW null \in BOOLEAN, NEW timed \in BOOLEAN,
         BeginCall(call, null, timed)
  PROVE  /\ main' \in Calls /\ main'.pc = (IF sentinel_pending = 0 THEN "pump" ELSE "first")
         /\ main'.call = call /\ main'.null = null /\ main'.ret = "first"
         /\ UNCHANGED <<queue, sentinel_pending, active, pc, wakeup_window, message,
                        sentinelEnabled, result>>
BY DEF BeginCall, Calls, NoCall, wakeVars, queueVars, config

(* A wait begins, or a poll with no place for an event.                    *)
LEMMA BeginNullKeeps ==
  ASSUME EQInv, BeginPollNull \/ BeginWait PROVE EQInv'
<1>1. PICK call \in {"poll", "wait"}, null \in BOOLEAN, timed \in BOOLEAN :
        BeginCall(call, null, timed) /\ (call = "poll" => null = TRUE)
  BY DEF BeginPollNull, BeginWait
<1>2. ~polling /\ UNCHANGED <<polling, old>>
  BY DEF BeginPollNull, BeginWait
<1>3. /\ main' \in Calls /\ main'.pc = (IF sentinel_pending = 0 THEN "pump" ELSE "first")
      /\ main'.call = call /\ main'.null = null /\ main'.ret = "first"
      /\ UNCHANGED <<queue, sentinel_pending, active, pc, wakeup_window, message,
                     sentinelEnabled, result>>
  BY <1>1, BeginCallMain
<1>4. QueueGood' /\ OldFirst' /\ Flags' /\ Asked'
  BY <1>2, <1>3, QueueStays DEF EQInv, OldFirst, Flags, Asked
<1>5. Fits'
  BY <1>1, <1>2, <1>3 DEF EQInv, Fits
<1> QED
  BY <1>4, <1>5 DEF EQInv

(* A poll loop begins when no sentinel is pending: then all are old.       *)
LEMMA BeginPollKeeps ==
  ASSUME EQInv, BeginPoll PROVE EQInv'
<1>1. /\ polling' = TRUE /\ BeginCall("poll", FALSE, FALSE)
      /\ old' = IF polling THEN old ELSE IF sentinel_pending = 0 THEN Len(Events(queue)) ELSE 0
  BY DEF BeginPoll
<1>2. /\ main' \in Calls /\ main'.pc = (IF sentinel_pending = 0 THEN "pump" ELSE "first")
      /\ main'.call = "poll" /\ main'.null = FALSE /\ main'.ret = "first"
      /\ UNCHANGED <<queue, sentinel_pending, active, pc, wakeup_window, message,
                     sentinelEnabled, result>>
  BY <1>1, BeginCallMain
<1>3. queue \in Seq(AllTypes) /\ Len(queue) \in Nat /\ Len(queue) <= MaxQueued
      /\ old \in 0..MaxQueued /\ MaxQueued \in Nat
  BY LenProperties, QueueAssumption DEF EQInv, QueueGood, Flags
<1>4. \/ polling /\ old' = old
      \/ sentinel_pending = 0 /\ old' = Len(Events(queue))
      \/ old' = 0
  <2>1. polling \/ (~polling /\ sentinel_pending = 0) \/ (~polling /\ sentinel_pending # 0)
    OBVIOUS
  <2> QED
    BY <1>1, <2>1
<1>5. OldFirst' /\ old' \in 0..MaxQueued
  <2>1. CASE polling /\ old' = old
    BY <1>1, <1>2, <1>3, <2>1 DEF EQInv, OldFirst
  <2>2. CASE sentinel_pending = 0 /\ old' = Len(Events(queue))
    <3>1. Len(Events(queue)) = Len(queue) /\ SentinelsIn(queue) = 0
      BY <1>3, <2>2, EventsType DEF EQInv, QueueGood, SentinelsCounted, SentinelsIn
    <3>2. \A i \in 1..Len(queue) : queue[i] # Sentinel
      <4> SUFFICES ASSUME NEW i \in 1..Len(queue), queue[i] = Sentinel PROVE FALSE
        OBVIOUS
      <4> DEFINE c == SubSeq(queue, 1, i - 1)
                 d == SubSeq(queue, i + 1, Len(queue))
      <4>1. c \in Seq(AllTypes) /\ d \in Seq(AllTypes) /\ queue = (c \o <<Sentinel>>) \o d
        BY <1>3, CutAt
      <4> HIDE DEF c, d
      <4>2. <<Sentinel>> \in Seq(AllTypes) /\ c \o <<Sentinel>> \in Seq(AllTypes)
        BY <4>1, NothingElse, ConcatProperties
      <4>3. SentinelsIn(<<Sentinel>>) = 1
        BY NothingElse, SentinelsOne
      <4>4. SentinelsIn(c \o <<Sentinel>>) = SentinelsIn(c) + 1
        BY <4>1, <4>2, <4>3, SentinelsConcat
      <4>5. SentinelsIn(queue) = SentinelsIn(c) + 1 + SentinelsIn(d)
        BY <4>1, <4>2, <4>4, SentinelsConcat
      <4>6. SentinelsIn(c) \in Nat /\ SentinelsIn(d) \in Nat
        BY <4>1, SentinelsNat
      <4> QED
        BY <3>1, <4>5, <4>6
    <3> QED
      BY <1>1, <1>2, <1>3, <2>2, <3>1, <3>2 DEF OldFirst
  <2>3. CASE old' = 0
    BY <1>1, <1>2, <1>3, <2>3 DEF OldFirst
  <2> QED
    BY <1>4, <2>1, <2>2, <2>3
<1>6. QueueGood' /\ Flags' /\ Asked'
  BY <1>2, <1>5, QueueStays DEF EQInv, Flags, Asked
<1>7. Fits'
  BY <1>1, <1>2 DEF EQInv, Fits
<1> QED
  BY <1>5, <1>6, <1>7 DEF EQInv

-----------------------------------------------------------------------------
(* Inside a call.  Returning, and pumping again for a wait, fit.           *)
LEMMA ReturnFits ==
  ASSUME NEW v \in BOOLEAN, Return(v)
  PROVE  /\ Fits' /\ Asked' /\ polling' \in BOOLEAN /\ result' \in BOOLEAN /\ result' = v
         /\ polling' => v /\ main.call = "poll" /\ ~main.null
         /\ v /\ main.call = "poll" /\ ~main.null => polling'
<1>1. main' = NoCall /\ result' = v /\ polling' = (v /\ main.call = "poll" /\ ~main.null)
  BY DEF Return
<1>2. polling' \in BOOLEAN
  BY <1>1
<1>3. Asked'
  BY <1>1 DEF Asked, NoCall
<1>4. Fits'
  BY <1>1, <1>2 DEF Fits, NoCall, Calls
<1> QED
  BY <1>1, <1>2, <1>3, <1>4

(* A wait pumps again.                                                     *)
LEMMA ToPumpFits ==
  ASSUME Fits, main.call = "wait", ~polling, polling' = polling,
         NEW ret \in {"loop_peep", "device_peep"}, ToPump(ret)
  PROVE  Fits' /\ Asked'
<1> DEFINE m == main'
<1>1. m \in Calls /\ m.pc = "pump" /\ m.call = "wait" /\ m.ret = ret
  BY DEF ToPump, Fits, Calls
<1>2. main' = m
  OBVIOUS
<1> HIDE DEF m
<1>3. Asked'
  BY <1>1, <1>2 DEF Asked
<1>4. Fits'
  BY <1>1, <1>2 DEF Fits
<1> QED
  BY <1>3, <1>4

(* What the devices add are events, behind the old ones.                   *)
LEMMA PumpDevicesKeeps ==
  ASSUME EQInv, PumpDevices PROVE EQInv'
<1>1. /\ main.pc = "pump" /\ message' = FALSE
      /\ main' = IF main.call = "pump" THEN NoCall
                 ELSE [main EXCEPT !.pc = IF sentinelEnabled THEN "get_sentinel" ELSE main.ret]
      /\ UNCHANGED <<wakeup_window, active, sentinelEnabled, pc, polling, old, result>>
  BY DEF PumpDevices, config, history
<1>2. /\ QueueGood' /\ sentinel_pending' = sentinel_pending /\ OldFirst'
  <2>1. CASE \E e \in Types : TryAddEvent(e)
    <3>1. PICK e \in Types : TryAddEvent(e)
      BY <2>1
    <3>2. e \in AllTypes /\ e # Sentinel
      BY NothingElse
    <3>3. /\ QueueGood' /\ Len(queue') >= Len(queue) /\ Len(queue) \in Nat /\ Len(queue') \in Nat
          /\ \A i \in 1..Len(queue) : queue'[i] = queue[i]
          /\ sentinel_pending' = sentinel_pending
      BY <1>1, <3>1, <3>2, TryAddKeeps DEF EQInv
    <3> QED
      BY <1>1, <3>3, OldStays DEF EQInv
  <2>2. CASE UNCHANGED queueVars
    BY <1>1, <2>2, QueueStays DEF EQInv, OldFirst, queueVars
  <2> QED
    BY <2>1, <2>2 DEF PumpDevices
<1>3. Flags'
  BY <1>1 DEF EQInv, Flags
<1>4. CASE main.call = "pump"
  <2>1. main' = NoCall
    BY <1>1, <1>4
  <2> QED
    BY <1>1, <1>2, <1>3, <2>1 DEF EQInv, Fits, Asked, NoCall, Calls
<1>5. CASE main.call # "pump"
  <2> DEFINE m == main'
  <2>1. /\ m \in Calls /\ m.call = main.call /\ m.null = main.null /\ m.ret = main.ret
        /\ m.pc = IF sentinelEnabled THEN "get_sentinel" ELSE main.ret
    BY <1>1, <1>5 DEF EQInv, Fits, Calls
  <2>2. main' = m /\ main.ret \in {"idle", "first", "loop_peep", "device_peep"}
    BY DEF EQInv, Fits, Calls
  <2> HIDE DEF m
  <2>3. Asked'
    BY <2>1, <2>2 DEF Asked
  <2>4. Fits'
    BY <1>1, <1>2, <1>5, <2>1, <2>2 DEF EQInv, Fits
  <2> QED
    BY <1>2, <1>3, <2>3, <2>4 DEF EQInv
<1> QED
  BY <1>4, <1>5

(* In a poll loop no sentinel is pending when it pumps.                    *)
LEMMA GetSentinelKeeps ==
  ASSUME EQInv, GetSentinel PROVE EQInv'
<1>1. /\ main.pc = "get_sentinel" /\ main' = [main EXCEPT !.pc = "push_sentinel"]
      /\ UNCHANGED <<wakeup_window, message, active, sentinelEnabled, pc, polling, old, result>>
  BY DEF GetSentinel, wakeVars, config, history
<1>2. QueueGood' /\ sentinel_pending' = 0 /\ OldFirst'
  <2>1. CASE sentinel_pending > 0 /\ active
    <3>1. Cut(AfterGet({Sentinel}, TRUE))
      BY <2>1 DEF GetSentinel
    <3>2. QueueGood' /\ sentinel_pending' = SentinelsIn(AfterGet({Sentinel}, TRUE))
      BY <1>1, <3>1, GetTakes, CutKeeps DEF EQInv, QueueGood
    <3>3. sentinel_pending' = 0
      BY <2>1, <3>2, GetsSentinel DEF EQInv, QueueGood
    <3>4. ~polling
      BY <1>1, <2>1 DEF EQInv, Fits
    <3>5. Len(queue') \in Nat
      BY <3>2, LenProperties DEF QueueGood
    <3>6. OldFirst'
      BY <1>1, <3>4, <3>5 DEF EQInv, OldFirst
    <3> QED
      BY <3>2, <3>3, <3>6
  <2>2. CASE ~(sentinel_pending > 0 /\ active)
    <3>1. UNCHANGED <<queue, sentinel_pending>>
      BY <2>2 DEF GetSentinel, queueVars
    <3>2. QueueGood' /\ OldFirst'
      BY <1>1, <3>1, QueueStays DEF EQInv, OldFirst
    <3>3. sentinel_pending = 0
      <4>1. sentinel_pending \in Nat /\ sentinel_pending = SentinelsIn(queue)
        BY DEF EQInv, QueueGood, SentinelsCounted
      <4>2. CASE active
        BY <2>2, <4>1, <4>2
      <4>3. CASE ~active
        <5>1. queue = <<>> /\ <<>> \in Seq(Types)
          BY <4>3, EmptySeq DEF EQInv, QueueGood
        <5> QED
          BY <4>1, <5>1, SentinelsOfEvents
      <4> QED
        BY <4>2, <4>3
    <3> QED
      BY <3>1, <3>2, <3>3
  <2> QED
    BY <2>1, <2>2
<1>3. Flags'
  BY <1>1 DEF EQInv, Flags
<1> DEFINE m == main'
<1>4. /\ m \in Calls /\ m.call = main.call /\ m.null = main.null /\ m.ret = main.ret
      /\ m.pc = "push_sentinel"
  BY <1>1 DEF EQInv, Fits, Calls
<1>5. main' = m
  OBVIOUS
<1> HIDE DEF m
<1>6. Asked'
  BY <1>4, <1>5 DEF Asked
<1>7. Fits'
  BY <1>1, <1>2, <1>4, <1>5 DEF EQInv, Fits
<1> QED
  BY <1>2, <1>3, <1>6, <1>7 DEF EQInv

(* The sentinel is added when none is pending, behind the old entries.     *)
LEMMA PushSentinelKeeps ==
  ASSUME EQInv, PushSentinel PROVE EQInv'
<1>1. /\ main.pc = "push_sentinel" /\ TryAddEvent(Sentinel)
      /\ main' = [main EXCEPT !.pc = main.ret]
      /\ UNCHANGED <<wakeup_window, message, active, sentinelEnabled, pc, polling, old, result>>
  BY DEF PushSentinel, wakeVars, config, history
<1>2. sentinel_pending = 0
  BY <1>1 DEF EQInv, Fits
<1>3. /\ QueueGood' /\ Len(queue') >= Len(queue) /\ Len(queue) \in Nat /\ Len(queue') \in Nat
      /\ \A i \in 1..Len(queue) : queue'[i] = queue[i]
  BY <1>1, <1>2, NothingElse, TryAddKeeps DEF EQInv
<1>4. OldFirst'
  BY <1>1, <1>3, OldStays DEF EQInv
<1>5. Flags'
  BY <1>1 DEF EQInv, Flags
<1> DEFINE m == main'
<1>6. /\ m \in Calls /\ m.call = main.call /\ m.null = main.null /\ m.ret = main.ret
      /\ m.pc = main.ret
  BY <1>1 DEF EQInv, Fits, Calls
<1>7. main' = m /\ main.ret \in {"idle", "first", "loop_peep", "device_peep"}
  BY DEF EQInv, Fits, Calls
<1> HIDE DEF m
<1>8. Asked'
  BY <1>6, <1>7 DEF Asked
<1>9. Fits'
  BY <1>1, <1>6, <1>7 DEF EQInv, Fits
<1> QED
  BY <1>3, <1>4, <1>5, <1>8, <1>9 DEF EQInv

(* Shut down, the queue is empty, and so nothing old is left.              *)
LEMMA FirstFailsKeeps ==
  ASSUME EQInv, FirstFails PROVE EQInv'
<1>1. /\ main.pc = "first" /\ ~active /\ Return(FALSE)
      /\ UNCHANGED <<queue, sentinel_pending, wakeup_window, message, active, sentinelEnabled,
                     pc, old>>
  BY DEF FirstFails, queueVars, wakeVars, config
<1>2. QueueGood'
  BY <1>1, QueueStays DEF EQInv
<1>3. Fits' /\ Asked' /\ polling' \in BOOLEAN /\ result' \in BOOLEAN
  BY <1>1, ReturnFits
<1>4. OldFirst'
  <2>1. Len(queue) = 0 /\ old \in Nat
    BY <1>1, EmptySeq, QueueAssumption DEF EQInv, QueueGood, Flags
  <2>2. old = 0
    BY <2>1 DEF EQInv, OldFirst
  <2> QED
    BY <1>1, <2>1, <2>2 DEF OldFirst
<1> QED
  BY <1>1, <1>2, <1>3, <1>4 DEF EQInv, Flags

(* A poll takes the oldest of the events the loop found, and does not end  *)
(* while there is one.                                                     *)
LEMMA FirstOfPollKeeps ==
  ASSUME EQInv, FirstOfPoll PROVE EQInv'
<1> DEFINE rest == AfterGet(AllTypes, TRUE)
           v == PollResult(Found(AllTypes, TRUE))
<1>1. /\ main.pc = "first" /\ active /\ main.call = "poll" /\ ~main.null
      /\ Cut(rest) /\ old' = OldIn(rest) /\ Return(v)
      /\ UNCHANGED <<wakeup_window, message, active, sentinelEnabled, pc>>
  BY DEF FirstOfPoll, wakeVars, config
<1>2. v \in BOOLEAN
  BY DEF PollResult
<1>3. queue \in Seq(AllTypes) /\ Len(queue) \in Nat /\ old \in Nat /\ old <= MaxQueued
      /\ MaxQueued \in Nat
  BY LenProperties, QueueAssumption DEF EQInv, QueueGood, Flags
<1>4. /\ rest \in Seq(AllTypes) /\ Len(rest) <= Len(queue)
      /\ SentinelsIn(rest) <= SentinelsIn(queue)
      /\ Len(Events(rest)) <= Len(Events(queue))
  BY <1>3, GetTakes
<1>5. Len(Events(rest)) \in Nat /\ Len(Events(queue)) \in Nat
  BY <1>3, <1>4, EventsType
<1> HIDE DEF v
<1>6. QueueGood' /\ queue' = rest
  <2> HIDE DEF rest
  <2> QED
    BY <1>1, <1>4, CutKeeps DEF EQInv
<1>7. Fits' /\ Asked' /\ polling' \in BOOLEAN /\ result' \in BOOLEAN /\ (v => polling')
  BY <1>1, <1>2, ReturnFits
<1>8. OldFirst' /\ old' \in 0..MaxQueued
  <2>1. CASE old = 0
    <3>1. old' = 0
      <4> HIDE DEF rest
      <4> QED
        BY <1>1, <1>5, <2>1, <1>4 DEF OldIn
    <3>2. Len(queue') \in Nat
      BY <1>6, LenProperties DEF QueueGood
    <3> QED
      BY <1>3, <3>1, <3>2 DEF OldFirst
  <2>2. CASE old # 0
    <3>1. old >= 1 /\ Len(queue) >= 1 /\ old <= Len(queue)
          /\ \A i \in 1..old : queue[i] # Sentinel
      BY <1>3, <2>2 DEF EQInv, OldFirst
    <3>2. queue[1] # Sentinel /\ queue[1] \in AllTypes
      BY <1>3, <3>1, ElementOfSeq
    <3>3. /\ Find(AllTypes, TRUE) = 1 /\ Found(AllTypes, TRUE) = queue[1]
          /\ rest = SubSeq(queue, 2, Len(queue))
          /\ Events(queue) # <<>> /\ Events(rest) = Tail(Events(queue))
      BY <1>3, <3>1, <3>2, GetFirst
    <3>4. v
      BY <3>2, <3>3, QueueAssumption DEF v, PollResult, AllTypes
    <3>6. Len(Events(rest)) = Len(Events(queue)) - 1
      <4>1. Events(queue) \in Seq(Types)
        BY <1>3, EventsType
      <4>2. Len(Tail(Events(queue))) = Len(Events(queue)) - 1
        BY <3>3, <4>1, HeadTailProperties
      <4> QED
        BY <3>3, <4>2
    <3>7. old' = old - 1
      <4> HIDE DEF rest
      <4>1. old' = IF old > Len(Events(queue)) - Len(Events(rest))
                   THEN old - (Len(Events(queue)) - Len(Events(rest))) ELSE 0
        BY <1>1 DEF OldIn
      <4>2. Len(Events(queue)) - Len(Events(rest)) = 1
        BY <1>5, <3>6
      <4> QED
        BY <1>3, <3>1, <4>1, <4>2
    <3>8. Len(rest) = Len(queue) - 1 /\ \A i \in 1..Len(queue) - 1 : rest[i] = queue[i + 1]
      <4>1. /\ Len(SubSeq(queue, 2, Len(queue))) = Len(queue) - 1
            /\ \A i \in 1..Len(queue) - 1 : SubSeq(queue, 2, Len(queue))[i] = queue[i + 1]
        BY <1>3, <3>1, AllButFirst
      <4>2. rest = SubSeq(queue, 2, Len(queue))
        BY <3>3
      <4> HIDE DEF rest
      <4> QED
        BY <4>1, <4>2, Zenon
    <3> HIDE DEF rest
    <3>9. /\ old' <= Len(queue')
          /\ \A i \in 1..old' : queue'[i] # Sentinel
      <4>1. old' <= Len(queue')
        BY <1>3, <1>6, <3>1, <3>7, <3>8
      <4>2. \A i \in 1..old' : queue'[i] # Sentinel
        <5> TAKE i \in 1..old'
        <5>1. i \in 1..Len(queue) - 1 /\ i + 1 \in 1..old
          BY <1>3, <3>1, <3>7
        <5> QED
          BY <1>6, <3>1, <3>8, <5>1
      <4> QED
        BY <4>1, <4>2
    <3> QED
      BY <1>3, <1>7, <3>1, <3>4, <3>7, <3>9 DEF OldFirst
  <2> QED
    BY <2>1, <2>2
<1> QED
  BY <1>1, <1>6, <1>7, <1>8 DEF EQInv, Flags

(* A poll with no place for an event only counts.                          *)
LEMMA FirstOfNullKeeps ==
  ASSUME EQInv, FirstOfNullPoll PROVE EQInv'
<1>1. /\ main.pc = "first" /\ main.call = "poll" /\ main.null
      /\ main' = [main EXCEPT !.pc = "null_peek", !.found = AnyEvent(TRUE)]
      /\ UNCHANGED <<queue, sentinel_pending, wakeup_window, message, active, sentinelEnabled, pc,
                     polling, old, result>>
  BY DEF FirstOfNullPoll, queueVars, wakeVars, config, history
<1>2. QueueGood' /\ OldFirst' /\ Flags'
  BY <1>1, QueueStays DEF EQInv, OldFirst, Flags
<1> DEFINE f == AnyEvent(TRUE)
           m == main'
<1>3. f \in BOOLEAN
  BY DEF AnyEvent
<1> HIDE DEF f
<1>4. m \in Calls /\ m.call = "poll" /\ m.null = main.null /\ m.ret = main.ret
      /\ m.pc = "null_peek"
  <2>1. main \in Calls /\ m = [main EXCEPT !.pc = "null_peek", !.found = f]
    BY <1>1 DEF EQInv, Fits, f
  <2> HIDE DEF m
  <2> QED
    BY <1>1, <1>3, <2>1 DEF Calls
<1>5. main' = m
  OBVIOUS
<1> HIDE DEF m
<1>6. Asked'
  BY <1>4, <1>5 DEF Asked
<1>7. Fits'
  BY <1>1, <1>4, <1>5 DEF EQInv, Fits
<1> QED
  BY <1>2, <1>6, <1>7 DEF EQInv

(* Then it looks whether the sentinel is next.                             *)
LEMMA NullPeekKeeps ==
  ASSUME EQInv, NullPeek PROVE EQInv'
<1>1. /\ main.pc = "null_peek" /\ main.null
      /\ UNCHANGED <<queue, sentinel_pending, wakeup_window, message, active, sentinelEnabled,
                     pc, old>>
  BY DEF EQInv, Fits, NullPeek, queueVars, wakeVars, config
<1>2. QueueGood'
  BY <1>1, QueueStays DEF EQInv
<1>3. ~polling
  BY <1>1 DEF EQInv, Fits
<1>4. old = 0 /\ Len(queue) \in Nat
  BY <1>3, LenProperties DEF EQInv, OldFirst, QueueGood
<1>5. OldFirst'
  BY <1>1, <1>4 DEF OldFirst
<1>6. CASE Found(AllTypes, TRUE) = Sentinel
  <2> DEFINE m == main'
  <2>1. main' = [main EXCEPT !.pc = "null_get"] /\ UNCHANGED <<polling, result>>
    BY <1>6 DEF NullPeek
  <2>2. /\ m \in Calls /\ m.call = main.call /\ m.null = main.null /\ m.ret = main.ret
        /\ m.pc = "null_get"
    BY <2>1 DEF EQInv, Fits, Calls
  <2>3. main' = m
    OBVIOUS
  <2> HIDE DEF m
  <2>4. Asked'
    BY <2>2, <2>3 DEF Asked
  <2>5. Fits'
    BY <1>1, <2>1, <2>2, <2>3 DEF EQInv, Fits
  <2> QED
    BY <1>1, <1>2, <1>5, <2>1, <2>4, <2>5 DEF EQInv, Flags
<1>7. CASE Found(AllTypes, TRUE) # Sentinel
  <2>1. Return(main.found) /\ main.found \in BOOLEAN
    BY <1>7 DEF NullPeek, EQInv, Fits, Calls
  <2>2. Fits' /\ Asked' /\ polling' \in BOOLEAN /\ result' \in BOOLEAN
    BY <2>1, ReturnFits
  <2> QED
    BY <1>1, <1>2, <1>5, <2>2 DEF EQInv, Flags
<1> QED
  BY <1>6, <1>7

(* And takes the sentinel.                                                 *)
LEMMA NullGetKeeps ==
  ASSUME EQInv, NullGet PROVE EQInv'
<1>1. /\ main.pc = "null_get" /\ main.null /\ Cut(AfterGet({Sentinel}, TRUE)) /\ Return(FALSE)
      /\ UNCHANGED <<wakeup_window, message, active, sentinelEnabled, pc, old>>
  BY DEF EQInv, Fits, NullGet, wakeVars, config
<1>2. QueueGood'
  BY <1>1, GetTakes, CutKeeps DEF EQInv, QueueGood
<1>3. Fits' /\ Asked' /\ polling' \in BOOLEAN /\ result' \in BOOLEAN
  BY <1>1, ReturnFits
<1>4. OldFirst'
  <2>1. ~polling
    BY <1>1 DEF EQInv, Fits
  <2>2. old = 0 /\ Len(queue') \in Nat
    BY <1>2, <2>1, LenProperties DEF EQInv, OldFirst, QueueGood
  <2> QED
    BY <1>1, <2>2 DEF OldFirst
<1> QED
  BY <1>1, <1>2, <1>3, <1>4 DEF EQInv, Flags

-----------------------------------------------------------------------------
(* A wait that finds nothing leaves no event in the queue.                 *)
LEMMA WaitLooks ==
  ASSUME EQInv, main.call = "wait", main.pc # "idle", WaitTakes, UNCHANGED <<active, old>>
  PROVE  /\ QueueGood' /\ OldFirst' /\ ~polling /\ old = 0
         /\ ~WaitFinds => Events(queue') = <<>>
<1>1. queue \in Seq(AllTypes) /\ Len(queue) \in Nat
  BY LenProperties DEF EQInv, QueueGood
<1>2. ~polling
  BY DEF EQInv, Fits
<1>3. old = 0
  BY <1>2 DEF EQInv, OldFirst
<1>4. CASE main.null
  <2>1. UNCHANGED <<queue, sentinel_pending>>
    BY <1>4 DEF WaitTakes, queueVars
  <2>2. QueueGood'
    BY <2>1, QueueStays DEF EQInv
  <2>3. ASSUME ~WaitFinds PROVE Events(queue') = <<>>
    <3>1. \A i \in 1..Len(queue) : queue[i] = Sentinel
      <4>1. \A i \in DOMAIN queue : ~Counts(i, FALSE)
        BY <1>4, <2>3 DEF WaitFinds, AnyEvent
      <4>2. DOMAIN queue = 1..Len(queue)
        BY <1>1, LenProperties
      <4>3. \A i \in 1..Len(queue) : ~Counts(i, FALSE)
        BY <4>1, <4>2, Zenon
      <4> QED
        BY <4>3, Zenon DEF Counts
    <3> QED
      BY <1>1, <2>1, <3>1, EventsNone
  <2>4. OldFirst'
    BY <1>1, <1>3, <2>1 DEF OldFirst
  <2> QED
    BY <1>2, <1>3, <2>2, <2>3, <2>4
<1>5. CASE ~main.null
  <2>1. Cut(AfterGet(AllTypes, FALSE))
    BY <1>5 DEF WaitTakes
  <2>2. QueueGood' /\ queue' = AfterGet(AllTypes, FALSE)
    BY <1>1, <2>1, GetTakes, CutKeeps DEF EQInv
  <2>3. ASSUME ~WaitFinds PROVE Events(queue') = <<>>
    <3>1. Found(AllTypes, FALSE) = None
      BY <1>5, <2>3 DEF WaitFinds
    <3>2. Find(AllTypes, FALSE) = 0
      <4> SUFFICES ASSUME Find(AllTypes, FALSE) # 0 PROVE FALSE
        OBVIOUS
      <4>1. queue[Find(AllTypes, FALSE)] \in AllTypes
        BY <1>1, FindIs
      <4>2. queue[Find(AllTypes, FALSE)] = None
        BY <3>1 DEF Found
      <4> QED
        BY <4>1, <4>2, QueueAssumption DEF AllTypes
    <3> QED
      BY <1>1, <2>2, <3>2, GetOldest
  <2>4. OldFirst'
    <3>1. Len(queue') \in Nat
      BY <2>2, LenProperties DEF QueueGood
    <3> QED
      BY <1>3, <3>1 DEF OldFirst
  <2> QED
    BY <1>2, <1>3, <2>2, <2>3, <2>4
<1> QED
  BY <1>4, <1>5

(* Peeping, it returns the event or pumps again, or it goes to sleep.      *)
LEMMA WaitKeeps ==
  ASSUME EQInv, FirstOfWait \/ LoopPeep \/ DevicePeep PROVE EQInv'
<1>1. /\ main.call = "wait" /\ main.pc # "idle" /\ WaitTakes
      /\ UNCHANGED <<message, active, sentinelEnabled, pc, old>>
  BY DEF EQInv, Fits, FirstOfWait, LoopPeep, DevicePeep, wakeVars, config
<1>2. wakeup_window' \in BOOLEAN
  BY DEF FirstOfWait, LoopPeep, DevicePeep, wakeVars, AskForWakeup, EQInv, Flags
<1>3. QueueGood' /\ OldFirst' /\ ~polling /\ (~WaitFinds => Events(queue') = <<>>)
  BY <1>1, WaitLooks
<1>4. \/ \E v \in BOOLEAN : Return(v)
      \/ (\E ret \in {"loop_peep", "device_peep"} : ToPump(ret)) /\ UNCHANGED <<polling, result>>
      \/ /\ ~WaitFinds /\ wakeup_window' = TRUE
         /\ main' = [main EXCEPT !.pc = "device_wait"] /\ UNCHANGED <<polling, result>>
  BY DEF FirstOfWait, LoopPeep, DevicePeep, AskForWakeup
<1>5. CASE \E v \in BOOLEAN : Return(v)
  <2>1. Fits' /\ Asked' /\ polling' \in BOOLEAN /\ result' \in BOOLEAN
    BY <1>5, ReturnFits
  <2> QED
    BY <1>1, <1>2, <1>3, <2>1 DEF EQInv, Flags
<1>6. CASE (\E ret \in {"loop_peep", "device_peep"} : ToPump(ret)) /\ UNCHANGED <<polling,
                                                                                  result>>
  <2>1. Fits' /\ Asked'
    BY <1>1, <1>3, <1>6, ToPumpFits DEF EQInv
  <2> QED
    BY <1>1, <1>2, <1>3, <1>6, <2>1 DEF EQInv, Flags
<1>7. CASE /\ ~WaitFinds /\ wakeup_window' = TRUE
           /\ main' = [main EXCEPT !.pc = "device_wait"] /\ UNCHANGED <<polling, result>>
  <2> DEFINE m == main'
  <2>1. /\ m \in Calls /\ m.call = "wait" /\ m.null = main.null /\ m.ret = main.ret
        /\ m.pc = "device_wait"
    BY <1>1, <1>7 DEF EQInv, Fits, Calls
  <2>2. main' = m
    OBVIOUS
  <2> HIDE DEF m
  <2>3. Asked'
    BY <1>3, <1>7 DEF Asked
  <2>4. Fits'
    BY <1>3, <1>7, <2>1, <2>2 DEF EQInv, Fits
  <2> QED
    BY <1>1, <1>2, <1>3, <1>7, <2>3, <2>4 DEF EQInv, Flags
<1> QED
  BY <1>4, <1>5, <1>6, <1>7

(* The device's wait ends.                                                 *)
LEMMA DeviceKeeps ==
  ASSUME EQInv, DeviceWoken \/ DeviceEvent \/ DeviceTimeUp \/ DeviceFails PROVE EQInv'
<1>1. /\ main.pc = "device_wait" /\ main.call = "wait" /\ wakeup_window' = FALSE
      /\ message' \in BOOLEAN
      /\ UNCHANGED <<active, sentinelEnabled, pc, old>>
  BY DEF EQInv, Fits, Flags, DeviceWoken, DeviceEvent, DeviceTimeUp, DeviceFails, SendWakeup,
     config, history
<1>2. ~polling
  BY <1>1 DEF EQInv, Fits
<1>3. QueueGood' /\ OldFirst'
  <2>1. old = 0
    BY <1>2 DEF EQInv, OldFirst
  <2>2. QueueGood'
    <3>1. CASE DeviceEvent
      <4>1. HasRoom /\ \E e \in Types : AddEvent(e)
        BY <3>1 DEF DeviceEvent
      <4> QED
        BY <1>1, <4>1, NothingElse, AddKeeps DEF EQInv
    <3>2. CASE DeviceWoken \/ DeviceTimeUp \/ DeviceFails
      <4>1. UNCHANGED <<queue, sentinel_pending>>
        BY <3>2 DEF DeviceWoken, DeviceTimeUp, DeviceFails, queueVars
      <4> QED
        BY <1>1, <4>1, QueueStays DEF EQInv
    <3> QED
      BY <3>1, <3>2
  <2>3. Len(queue') \in Nat
    BY <2>2, LenProperties DEF QueueGood
  <2> QED
    BY <1>1, <2>1, <2>2, <2>3 DEF OldFirst
<1>4. \/ Return(FALSE)
      \/ (\E ret \in {"loop_peep", "device_peep"} : ToPump(ret)) /\ UNCHANGED <<polling, result>>
  BY DEF DeviceWoken, DeviceEvent, DeviceTimeUp, DeviceFails, history
<1>5. Fits' /\ Asked' /\ polling' \in BOOLEAN /\ result' \in BOOLEAN
  <2>1. CASE Return(FALSE)
    BY <2>1, ReturnFits
  <2>2. CASE (\E ret \in {"loop_peep", "device_peep"} : ToPump(ret)) /\ UNCHANGED <<polling,
                                                                                    result>>
    <3>1. Fits' /\ Asked'
      BY <1>1, <1>2, <2>2, ToPumpFits DEF EQInv
    <3> QED
      BY <2>2, <3>1 DEF EQInv, Fits, Flags
  <2> QED
    BY <1>4, <2>1, <2>2
<1> QED
  BY <1>1, <1>3, <1>5 DEF EQInv, Flags

(* Every step keeps the invariant.                                         *)
LEMMA EQStep == EQInv /\ [Next]_vars => EQInv'
<1> SUFFICES ASSUME EQInv, [Next]_vars PROVE EQInv'
  OBVIOUS
<1>1. ASSUME NEW p \in Pushers, Push(p) \/ Wake(p) PROVE EQInv'
  BY <1>1, PushKeeps, WakeKeeps
<1>2. CASE BetweenCalls
  BY <1>2, MainPushKeeps, FlushKeeps, GetOneKeeps, SetSentinelKeeps, StartKeeps, StopKeeps,
     BeginPumpKeeps, BeginNullKeeps DEF BetweenCalls
<1>3. CASE BeginPoll
  BY <1>3, BeginPollKeeps
<1>4. CASE InCall
  BY <1>4, PumpDevicesKeeps, GetSentinelKeeps, PushSentinelKeeps, FirstFailsKeeps,
     FirstOfPollKeeps,
     FirstOfNullKeeps, NullPeekKeeps, NullGetKeeps, WaitKeeps DEF InCall
<1>5. CASE DeviceWoken \/ DeviceEvent \/ DeviceTimeUp \/ DeviceFails
  BY <1>5, DeviceKeeps
<1>6. CASE UNCHANGED vars
  <2>1. UNCHANGED <<queue, sentinel_pending, wakeup_window, message, active, sentinelEnabled, pc,
                    main,
                    polling, old, result>>
    BY <1>6 DEF vars, queueVars, wakeVars, config, history
  <2>2. QueueGood'
    BY <2>1, QueueStays DEF EQInv
  <2> QED
    BY <2>1, <2>2 DEF EQInv, OldFirst, Flags, Fits, Asked
<1> QED
  BY <1>1, <1>2, <1>3, <1>4, <1>5, <1>6 DEF Next

-----------------------------------------------------------------------------
(* The queue's invariant holds at every moment, for any pushers, types and *)
(* limit of the queue.                                                     *)
THEOREM EQInvariance == Spec => []EQInv
BY InitEQInv, EQStep, PTL DEF Spec

(* SDL_EventQ's variables and the main thread's locals have their types;   *)
(* the queue never exceeds SDL_MAX_QUEUED_EVENTS.                          *)
THEOREM EventQueueTypeCorrect == Spec => []TypeOK
<1>1. EQInv => TypeOK
  BY DEF EQInv, QueueGood, Flags, Fits, Calls, TypeOK
<1> QED
  BY <1>1, EQInvariance, PTL

(* Nothing in the queue is overlooked: the count that pollers read and the *)
(* window that a sleeper relies on are right at every moment.              *)
THEOREM QueueIsWatched == Spec => []NothingOverlooked
<1>1. EQInv => NothingOverlooked
  BY DEF EQInv, QueueGood, Asked, NothingOverlooked, NoLostWakeup
<1> QED
  BY <1>1, EQInvariance, PTL

(* A poll loop ends when the events it found are gone.                     *)
THEOREM PollsToTheEnd == Spec => PollLoopDrains
<1>1. EQInv' => [polling /\ ~polling' => old' = 0]_vars
  BY DEF EQInv, OldFirst
<1> QED
  BY <1>1, EQInvariance, PTL DEF PollLoopDrains

-----------------------------------------------------------------------------
(* An event delivered was the oldest.                                      *)
LEMMA PrefixOfSame == ASSUME NEW q \in Seq(Types), NEW r \in Seq(Types), r = q
                      PROVE IsPrefix(q, r)
<1>1. Len(q) \in Nat /\ SubSeq(q, 1, Len(q)) = q
  BY LenProperties, SubSeqFull
<1> QED
  BY <1>1 DEF IsPrefix

(* What was there is a prefix.                                             *)
LEMMA PrefixOfAppend ==
  ASSUME NEW q \in Seq(Types), NEW e \in Types PROVE IsPrefix(q, Append(q, e))
<1> DEFINE r == Append(q, e)
<1>1. Len(q) \in Nat /\ Len(r) = Len(q) + 1 /\ r \in Seq(Types)
  BY LenProperties, AppendProperties
<1>2. SubSeq(r, 1, Len(q)) = q
  <2>1. r = q \o <<e>> /\ <<e>> \in Seq(Types)
    BY AppendIsConcat
  <2>2. CASE Len(q) = 0
    <3>1. SubSeq(r, 1, 0) = <<>> /\ q = <<>>
      BY <2>2, SubSeqEmpty, EmptySeq
    <3> QED
      BY <2>2, <3>1
  <2>3. CASE Len(q) # 0
    <3>1. 1 \in 1..Len(q) /\ Len(q) \in 1..Len(q)
      BY <1>1, <2>3
    <3>2. SubSeq(q \o <<e>>, 1, Len(q)) = SubSeq(q, 1, Len(q))
      BY <2>1, <3>1, SubSeqOfConcat1
    <3> QED
      BY <2>1, <3>2, SubSeqFull
  <2> QED
    BY <2>2, <2>3
<1>3. SubSeq(q, 1, Len(q)) = q
  BY SubSeqFull
<1> HIDE DEF r
<1>4. IsPrefix(q, r)
  BY <1>1, <1>2, <1>3 DEF IsPrefix
<1> QED
  BY <1>4 DEF r

(* What a step of a call may do to the events in the queue.                *)
Delivers ==
  \/ IsPrefix(Events(queue), Events(queue'))
  \/ /\ Events(queue') = Tail(Events(queue))
     /\ ~main.null /\ main'.pc = "idle" /\ result'

(* A step that leaves the events alone delivers nothing and loses nothing. *)
LEMMA SameDelivers ==
  ASSUME queue \in Seq(AllTypes), Events(queue') = Events(queue) PROVE Delivers
<1>1. Events(queue) \in Seq(Types)
  BY EventsType
<1>2. IsPrefix(Events(queue), Events(queue'))
  BY <1>1, PrefixOfSame
<1> QED
  BY <1>2 DEF Delivers

(* Taking the sentinel takes no event.                                     *)
LEMMA SentinelDelivers ==
  ASSUME queue \in Seq(AllTypes), NEW include, Cut(AfterGet({Sentinel}, include)) PROVE Delivers
<1>1. queue' = AfterGet({Sentinel}, include)
  BY DEF Cut
<1>2. Find({Sentinel}, include) = 0 \/ queue[Find({Sentinel}, include)] = Sentinel
  BY FindIs
<1>3. Events(queue') = Events(queue)
  BY <1>1, <1>2, GetTakes
<1> QED
  BY <1>3, SameDelivers

(* Taking whatever is first takes the oldest event, if it takes one.       *)
LEMMA GetDelivers ==
  ASSUME queue \in Seq(AllTypes), NEW include, Cut(AfterGet(AllTypes, include)),
         Found(AllTypes, include) \in Types => ~main.null /\ main'.pc = "idle" /\ result'
  PROVE  Delivers
<1> DEFINE k == Find(AllTypes, include)
<1>1. queue' = AfterGet(AllTypes, include)
  BY DEF Cut
<1>2. CASE k = 0 \/ queue[k] = Sentinel
  <2>1. Events(queue') = Events(queue)
    BY <1>1, <1>2, GetTakes
  <2> QED
    BY <2>1, SameDelivers
<1>3. CASE k # 0 /\ queue[k] # Sentinel
  <2>1. Events(queue') = Tail(Events(queue))
    BY <1>1, <1>3, GetOldest
  <2>2. queue[k] \in AllTypes
    BY <1>3, FindIs
  <2>3. Found(AllTypes, include) = queue[k]
    BY <1>3 DEF Found
  <2>4. Found(AllTypes, include) \in Types
    BY <1>3, <2>2, <2>3 DEF AllTypes
  <2> HIDE DEF k
  <2> QED
    BY <2>1, <2>4 DEF Delivers
<1> QED
  BY <1>2, <1>3

(* Nor does one that adds an event or a sentinel lose any.                 *)
LEMMA TryAddDelivers ==
  ASSUME QueueGood, UNCHANGED active, NEW e \in AllTypes, TryAddEvent(e),
         e = Sentinel => sentinel_pending = 0
  PROVE  Delivers
<1>1. /\ Events(queue') = IF HasRoom /\ e # Sentinel THEN Append(Events(queue), e)
           ELSE Events(queue)
      /\ queue \in Seq(AllTypes)
  BY TryAddKeeps DEF QueueGood
<1>2. Events(queue) \in Seq(Types)
  BY <1>1, EventsType
<1>3. CASE HasRoom /\ e # Sentinel
  <2>1. e \in Types
    BY <1>3 DEF AllTypes
  <2>2. Events(queue') = Append(Events(queue), e)
    BY <1>1, <1>3
  <2> QED
    BY <1>2, <2>1, <2>2, PrefixOfAppend DEF Delivers
<1>4. CASE ~(HasRoom /\ e # Sentinel)
  BY <1>1, <1>4, SameDelivers
<1> QED
  BY <1>3, <1>4

(* A wait returns the event it takes.                                      *)
LEMMA WaitDelivers ==
  ASSUME EQInv, FirstOfWait \/ LoopPeep \/ DevicePeep PROVE Delivers
<1>1. queue \in Seq(AllTypes)
  BY DEF EQInv, QueueGood
<1>2. WaitTakes /\ (WaitFinds => Return(TRUE))
  BY DEF FirstOfWait, LoopPeep, DevicePeep
<1>3. CASE main.null
  <2>1. Events(queue') = Events(queue)
    BY <1>2, <1>3 DEF WaitTakes, queueVars
  <2> QED
    BY <1>1, <2>1, SameDelivers
<1>4. CASE ~main.null
  <2>1. Cut(AfterGet(AllTypes, FALSE))
    BY <1>2, <1>4 DEF WaitTakes
  <2>2. Found(AllTypes, FALSE) \in Types => ~main.null /\ main'.pc = "idle" /\ result'
    <3> SUFFICES ASSUME Found(AllTypes, FALSE) \in Types PROVE main'.pc = "idle" /\ result'
      BY <1>4
    <3>1. WaitFinds
      BY <1>4, QueueAssumption DEF WaitFinds
    <3> QED
      BY <1>2, <3>1 DEF Return, NoCall
  <2> QED
    BY <1>1, <2>1, <2>2, GetDelivers
<1> QED
  BY <1>3, <1>4

(* No step of a call loses or reorders an event.                           *)
LEMMA CallsDeliver == ASSUME EQInv, InCall PROVE Delivers
<1>1. queue \in Seq(AllTypes) /\ QueueGood
  BY DEF EQInv, QueueGood
<1>2. CASE PumpDevices
  <2>1. UNCHANGED active
    BY <1>2 DEF PumpDevices, config
  <2>2. CASE \E e \in Types : TryAddEvent(e)
    BY <1>1, <2>1, <2>2, NothingElse, TryAddDelivers
  <2>3. CASE UNCHANGED queueVars
    BY <1>1, <2>3, SameDelivers DEF queueVars
  <2> QED
    BY <1>2, <2>2, <2>3 DEF PumpDevices
<1>3. CASE GetSentinel
  <2>1. CASE sentinel_pending > 0 /\ active
    BY <1>1, <1>3, <2>1, SentinelDelivers DEF GetSentinel
  <2>2. CASE ~(sentinel_pending > 0 /\ active)
    BY <1>1, <1>3, <2>2, SameDelivers DEF GetSentinel, queueVars
  <2> QED
    BY <2>1, <2>2
<1>4. CASE PushSentinel
  <2>1. UNCHANGED active /\ TryAddEvent(Sentinel) /\ sentinel_pending = 0
    BY <1>4 DEF EQInv, Fits, PushSentinel, config
  <2> QED
    BY <1>1, <2>1, NothingElse, TryAddDelivers
<1>5. CASE FirstFails \/ FirstOfNullPoll \/ NullPeek
  <2>1. UNCHANGED queue
    BY <1>5 DEF FirstFails, FirstOfNullPoll, NullPeek, queueVars
  <2> QED
    BY <1>1, <2>1, SameDelivers
<1>6. CASE FirstOfPoll
  <2>1. /\ Cut(AfterGet(AllTypes, TRUE)) /\ ~main.null
        /\ main'.pc = "idle" /\ result' = PollResult(Found(AllTypes, TRUE))
    BY <1>6 DEF FirstOfPoll, Return, NoCall
  <2>2. Found(AllTypes, TRUE) \in Types => result'
    BY <2>1, QueueAssumption DEF PollResult
  <2> QED
    BY <1>1, <2>1, <2>2, GetDelivers
<1>7. CASE NullGet
  BY <1>1, <1>7, SentinelDelivers DEF NullGet
<1> QED
  BY <1>2, <1>3, <1>4, <1>5, <1>6, <1>7, WaitDelivers DEF InCall

(* Whatever SDL_PumpEvents, SDL_PollEvent and SDL_WaitEvent do with the    *)
(* sentinel and the wakeups, an event leaves the queue inside a call only  *)
(* by being returned, the oldest first.                                    *)
THEOREM NoEventIsLost == Spec => EventsAreDelivered
<1>1. EQInv => [InCall => \/ IsPrefix(Events(queue), Events(queue'))
                          \/ /\ Events(queue') = Tail(Events(queue))
                             /\ ~main.null /\ main'.pc = "idle" /\ result']_vars
  BY CallsDeliver DEF Delivers
<1> QED
  BY <1>1, EQInvariance, PTL DEF EventsAreDelivered

-----------------------------------------------------------------------------
(* Event watchers: the array, and what compaction does to it.              *)

-----------------------------------------------------------------------------
WalkEq(f, base, seq, n) ==
  f = [s \in SUBSET (1..n) |-> IF s = {} THEN base
                               ELSE CompactSlot(f[s \ {Max(s)}], seq[Max(s)])]

(* What EndDispatch computes.  *)
Walk(base, seq) == FoldLeft(CompactSlot, base, seq)

(* The fold of the library, unfolded: a function on the parts of 1..n.     *)
LEMMA WalkIs ==
  ASSUME NEW base, NEW seq, NEW n \in Nat, DOMAIN seq = 1..n
  PROVE  Walk(base, seq) = (CHOOSE f : WalkEq(f, base, seq, n))[1..n]
BY DEF Walk, FoldLeft, MapThenFoldSet, WalkEq

(* The greatest member of a set is its Max.                                *)
LEMMA MaxIs ==
  ASSUME NEW s, NEW m \in s, s \subseteq Nat, \A x \in s : x <= m
  PROVE  Max(s) = m
<1>1. \A x \in s : (\A y \in s : x >= y) => x = m
  BY Z3
<1>2. m \in s /\ \A y \in s : m >= y
  BY Z3
<1>3. QED
  BY <1>1, <1>2 DEF Max

(* There is a function that satisfies the recursion of the fold.           *)
LEMMA WalkExists ==
  ASSUME NEW base, NEW seq, NEW n \in Nat
  PROVE  \E f : WalkEq(f, base, seq, n)
<1> DEFINE T == {k \in Nat : \E f : WalkEq(f, base, seq, k)}
<1>1. 0 \in T
  <2> DEFINE f == [s \in SUBSET (1..0) |-> base]
  <2>1. WalkEq(f, base, seq, 0)
    <3>1. SUBSET (1..0) = {{}}
      OBVIOUS
    <3>2. QED
      BY <3>1 DEF WalkEq
  <2>2. QED
    BY <2>1
<1>2. ASSUME NEW k \in Nat, k \in T PROVE k + 1 \in T
  <2>1. PICK g : WalkEq(g, base, seq, k)
    BY <1>2
  <2> DEFINE f == [s \in SUBSET (1..k+1) |->
                     IF k + 1 \in s THEN CompactSlot(g[s \ {k + 1}], seq[k + 1]) ELSE g[s]]
  <2>2. ASSUME NEW s \in SUBSET (1..k+1)
        PROVE f[s] = IF s = {} THEN base ELSE CompactSlot(f[s \ {Max(s)}], seq[Max(s)])
    <3>1. CASE k + 1 \in s
      <4>1. Max(s) = k + 1
        <5>1. \A x \in s : x <= k + 1
          OBVIOUS
        <5>2. s \subseteq Nat
          OBVIOUS
        <5>3. QED
          BY <3>1, <5>1, <5>2, MaxIs
      <4>2. s \ {k + 1} \in SUBSET (1..k+1) /\ s # {}
        BY <3>1
      <4>3. f[s \ {k + 1}] = g[s \ {k + 1}]
        BY <4>2
      <4>4. f[s] = CompactSlot(g[s \ {k + 1}], seq[k + 1])
        BY <3>1
      <4>5. QED
        BY <4>1, <4>2, <4>3, <4>4
    <3>2. CASE k + 1 \notin s
      <4>1. s \in SUBSET (1..k)
        BY <3>2
      <4>2. f[s] = g[s]
        BY <3>2
      <4>3. g[s] = IF s = {} THEN base ELSE CompactSlot(g[s \ {Max(s)}], seq[Max(s)])
        BY <2>1, <4>1 DEF WalkEq
      <4>4. s \ {Max(s)} \in SUBSET (1..k+1) /\ k + 1 \notin s \ {Max(s)}
        BY <3>2
      <4>5. f[s \ {Max(s)}] = g[s \ {Max(s)}]
        BY <4>4
      <4>6. QED
        BY <4>2, <4>3, <4>5
    <3>3. QED
      BY <3>1, <3>2
  <2>3. WalkEq(f, base, seq, k + 1)
    <3>1. f = [s \in SUBSET (1..k+1) |-> f[s]]
      OBVIOUS
    <3> HIDE DEF f
    <3>2. QED
      BY <2>2, <3>1 DEF WalkEq
  <2>4. QED
    BY <2>3
<1>3. Nat \subseteq T
  <2> HIDE DEF T
  <2> QED BY <1>1, <1>2, Induction
<1>4. QED
  BY <1>3

(* The array after the first k steps.           *)
Walked(base, seq, k) == (CHOOSE f : WalkEq(f, base, seq, Len(seq)))[1..k]

(* So the slots are looked at one after the other.         *)
LEMMA WalkSteps ==
  ASSUME NEW base, NEW seq, Len(seq) \in Nat, DOMAIN seq = 1..Len(seq)
  PROVE  /\ Walked(base, seq, 0) = base
         /\ \A k \in 0..Len(seq) - 1 :
              Walked(base, seq, k + 1) = CompactSlot(Walked(base, seq, k), seq[k + 1])
         /\ Walk(base, seq) = Walked(base, seq, Len(seq))
<1> DEFINE n == Len(seq)
           f == CHOOSE h : WalkEq(h, base, seq, n)
<1>1. WalkEq(f, base, seq, n)
  BY WalkExists
<1>2. Walk(base, seq) = f[1..n]
  BY WalkIs
<1>3. \A k : Walked(base, seq, k) = f[1..k]
  BY DEF Walked
<1> HIDE DEF f, n
<1>4. f[1..0] = base
  <2>1. 1..0 = {} /\ 1..0 \in SUBSET (1..n)
    OBVIOUS
  <2>2. QED
    BY <1>1, <2>1 DEF WalkEq
<1>5. ASSUME NEW k \in 0..n - 1 PROVE f[1..k+1] = CompactSlot(f[1..k], seq[k + 1])
  <2> DEFINE s == 1..k+1
  <2>1. s \in SUBSET (1..n) /\ k + 1 \in s /\ s # {}
    <3>1. k \in Nat /\ k + 1 <= n
      BY DEF n
    <3>2. \A x \in 1..k+1 : x \in 1..n
      BY <3>1 DEF n
    <3>3. s \in SUBSET (1..n)
      BY <3>2
    <3>4. k + 1 \in s
      BY <3>1
    <3>5. QED
      BY <3>3, <3>4
  <2>2. Max(s) = k + 1
    <3>1. \A x \in s : x <= k + 1
      OBVIOUS
    <3>2. s \subseteq Nat
      OBVIOUS
    <3> HIDE DEF s
    <3>3. QED
      BY <2>1, <3>1, <3>2, MaxIs
  <2>3. s \ {k + 1} = 1..k
    BY DEF n
  <2>4. f[s] = CompactSlot(f[s \ {Max(s)}], seq[Max(s)])
    <3> HIDE DEF s
    <3> QED BY <1>1, <2>1 DEF WalkEq
  <2>5. QED
    BY <2>2, <2>3, <2>4
<1>6. QED
  BY <1>2, <1>3, <1>4, <1>5 DEF n

-----------------------------------------------------------------------------
Slots == [w : Watchers, removed : BOOLEAN]

Distinct(a, n) == \A i, j \in 1..n : a[i].w = a[j].w => i = j

(* What is true of array a while the last k of the n slots of s have been  *)
(* looked at: unmarked slots stay, marked ones go.                         *)
Part(a, s, m, n, k) ==
  /\ a = [slots |-> a.slots, count |-> a.count]
  /\ a.slots \in [1..m -> Slots] /\ a.count \in n - k..n
  /\ \A j \in 1..n - k : a.slots[j] = s[j]
  /\ \A j \in n - k + 1..a.count : ~a.slots[j].removed
  /\ Distinct(a.slots, a.count)
  /\ \A j \in 1..n : ~s[j].removed => \E i \in 1..a.count : a.slots[i] = s[j]
  /\ \A i \in 1..a.count : \E j \in 1..n : a.slots[i] = s[j]

(* Where slot i of what is left was before slot p was taken out.           *)
From(i, p) == IF i >= p THEN i + 1 ELSE i

(* RemoveSlot keeps the other slots, in their order.                       *)
Shifted(a, b, c, p) ==
  /\ b.count = c - 1 /\ b = [slots |-> b.slots, count |-> b.count]
  /\ \A i \in 1..c - 1 : From(i, p) \in 1..c /\ From(i, p) # p /\ b.slots[i] = a.slots[From(i, p)]
  /\ \A i \in 1..c : i # p => \E j \in 1..c - 1 : b.slots[j] = a.slots[i]
  /\ Distinct(b.slots, c - 1)

(* What removing a slot leaves at each place.                              *)
LEMMA RemoveSlotDoes ==
  ASSUME NEW m \in Nat, NEW a, a.slots \in [1..m -> Slots], NEW c \in 1..m, a.count = c,
         NEW p \in 1..c,
         Distinct(a.slots, c), NEW b, b = RemoveSlot(a, p)
  PROVE  b.slots \in [1..m -> Slots] /\ Shifted(a, b, c, p)
<1>0. c \in Nat /\ p \in Nat /\ p >= 1 /\ p <= c /\ c <= m
  OBVIOUS
<1>2. b.count = c - 1 /\ b = [slots |-> b.slots, count |-> b.count]
  BY DEF RemoveSlot
<1>3. \A j \in 1..m : b.slots[j] = IF j \in p..c - 1 THEN a.slots[j + 1] ELSE a.slots[j]
  BY DEF RemoveSlot
<1>4. b.slots \in [1..m -> Slots]
  <2>1. b.slots = [j \in 1..m |-> IF j \in p..c - 1 THEN a.slots[j + 1] ELSE a.slots[j]]
    BY DEF RemoveSlot
  <2>2. \A j \in 1..m : j \in p..c - 1 => j + 1 \in 1..m
    BY <1>0
  <2> QED
    BY <2>1, <2>2
<1>6. ASSUME NEW i \in 1..c - 1
      PROVE  From(i, p) \in 1..c /\ From(i, p) # p /\ b.slots[i] = a.slots[From(i, p)]
  BY <1>0, <1>3 DEF From
<1>7. ASSUME NEW i \in 1..c, i # p PROVE \E j \in 1..c - 1 : b.slots[j] = a.slots[i]
  <2>1. CASE i < p
    BY <1>0, <1>3, <2>1
  <2>2. CASE i > p
    <3>1. i - 1 \in p..c - 1 /\ i - 1 \in 1..m /\ (i - 1) + 1 = i /\ i - 1 \in 1..c - 1
      BY <1>0, <2>2
    <3>2. b.slots[i - 1] = a.slots[i]
      BY <1>3, <3>1
    <3> QED
      BY <3>1, <3>2
  <2> QED
    BY <1>0, <1>7, <2>1, <2>2
<1>8. Distinct(b.slots, c - 1)
  <2> SUFFICES ASSUME NEW i \in 1..c - 1, NEW j \in 1..c - 1, b.slots[i].w = b.slots[j].w
               PROVE i = j
    BY DEF Distinct
  <2>1. a.slots[From(i, p)].w = a.slots[From(j, p)].w /\ From(i, p) \in 1..c
        /\ From(j, p) \in 1..c
    BY <1>6
  <2>2. From(i, p) = From(j, p)
    BY <2>1 DEF Distinct
  <2> QED
    BY <1>0, <2>2 DEF From
<1> QED
  BY <1>2, <1>4, <1>6, <1>7, <1>8 DEF Shifted

(* Taking a marked slot out.                                               *)
LEMMA PartRemove ==
  ASSUME NEW s, NEW m \in Nat, NEW n \in 0..m, NEW k \in 0..n - 1, NEW a, Part(a, s, m, n, k),
         a.slots[n - k].removed
  PROVE  Part(RemoveSlot(a, n - k), s, m, n, k + 1)
<1> DEFINE p == n - k
           c == a.count
           b == RemoveSlot(a, p)
<1>0. p \in 1..c /\ c \in 1..m /\ n \in Nat /\ k \in Nat /\ c \in Nat /\ p \in Nat
      /\ n - (k + 1) = p - 1
      /\ n - (k + 1) + 1 = p /\ c <= n
  BY DEF Part
<1>1. a.slots \in [1..m -> Slots] /\ Distinct(a.slots, c)
  BY DEF Part
<1>2. /\ b.count = c - 1 /\ b = [slots |-> b.slots, count |-> b.count]
      /\ b.slots \in [1..m -> Slots]
      /\ \A i \in 1..c - 1 :
           From(i, p) \in 1..c /\ From(i, p) # p /\ b.slots[i] = a.slots[From(i, p)]
      /\ \A i \in 1..c : i # p => \E j \in 1..c - 1 : b.slots[j] = a.slots[i]
      /\ Distinct(b.slots, c - 1)
  <2>1. p \in 1..c /\ c \in 1..m /\ a.count = c /\ b = RemoveSlot(a, p)
    BY <1>0
  <2> HIDE DEF p, c, b
  <2>2. b.slots \in [1..m -> Slots] /\ Shifted(a, b, c, p)
    BY <1>1, <2>1, RemoveSlotDoes
  <2> QED
    BY <2>2 DEF Shifted
<1> HIDE DEF p, c, b
<1>5. /\ \A j \in 1..p : a.slots[j] = s[j]
      /\ \A j \in p + 1..c : ~a.slots[j].removed
      /\ \A j \in 1..n : ~s[j].removed => \E i \in 1..c : a.slots[i] = s[j]
      /\ \A i \in 1..c : \E j \in 1..n : a.slots[i] = s[j]
      /\ c \in p..n /\ a.slots[p].removed
  BY DEF Part, p, c
<1>8. b.count \in p - 1..n
  BY <1>0, <1>2
<1>9. \A j \in 1..p - 1 : b.slots[j] = s[j]
  <2> TAKE j \in 1..p - 1
  <2>1. j \in 1..c - 1 /\ From(j, p) = j /\ j \in 1..p
    BY <1>0 DEF From
  <2>2. b.slots[j] = a.slots[From(j, p)]
    BY <1>2, <2>1
  <2> QED
    BY <1>5, <2>1, <2>2
<1>10. ASSUME NEW j \in p..b.count PROVE ~b.slots[j].removed
  <2>1. j \in 1..c - 1 /\ From(j, p) \in p + 1..c
    BY <1>0, <1>2 DEF From
  <2> QED
    BY <1>2, <1>5, <2>1
<1>12. ASSUME NEW j \in 1..n, ~s[j].removed PROVE \E i \in 1..b.count : b.slots[i] = s[j]
  <2>1. PICK i \in 1..c : a.slots[i] = s[j]
    BY <1>5, <1>12
  <2>2. i # p
    BY <1>5, <1>12, <2>1
  <2> QED
    BY <1>2, <2>1, <2>2
<1>13. ASSUME NEW i \in 1..b.count PROVE \E j \in 1..n : b.slots[i] = s[j]
  BY <1>2, <1>5
<1> QED
  BY <1>0, <1>2, <1>8, <1>9, <1>10, <1>12, <1>13 DEF Part, b, p

(* Looking at the next slot.                                               *)
LEMMA PartStep ==
  ASSUME NEW s, NEW m \in Nat, NEW n \in 0..m, NEW k \in 0..n - 1, NEW a, Part(a, s, m, n, k)
  PROVE  Part(CompactSlot(a, n - k), s, m, n, k + 1)
<1>1. CASE a.slots[n - k].removed
  BY <1>1, PartRemove DEF CompactSlot
<1>2. CASE ~a.slots[n - k].removed
  <2>1. n - (k + 1) = (n - k) - 1 /\ n - (k + 1) + 1 = n - k /\ n - k + 1 = (n - k) + 1
        /\ n - k \in Nat
    OBVIOUS
  <2>2. \A j \in n - k..a.count : ~a.slots[j].removed
    <3> TAKE j \in n - k..a.count
    <3>1. j = n - k \/ j \in n - k + 1..a.count
      BY <2>1 DEF Part
    <3> QED
      BY <1>2, <3>1 DEF Part
  <2>3. a.count \in n - (k + 1)..n
    BY DEF Part
  <2>4. \A j \in 1..n - (k + 1) : a.slots[j] = s[j]
    BY DEF Part
  <2>5. CompactSlot(a, n - k) = a
    BY <1>2 DEF CompactSlot
  <2> QED
    BY <2>1, <2>2, <2>3, <2>4, <2>5 DEF Part
<1> QED
  BY <1>1, <1>2

(* What EndDispatch makes of the array: the unmarked slots, in some order, *)
(* each once.                                                              *)
LEMMA CompactedIs ==
  ASSUME watchers \in Seq(Slots), count \in 0..Len(watchers), Distinct(watchers, count)
  PROVE  /\ Compacted.slots \in Seq(Slots) /\ Compacted.count \in 0..count
         /\ Len(Compacted.slots) = Len(watchers)
         /\ \A i \in 1..Compacted.count : ~Compacted.slots[i].removed
         /\ Distinct(Compacted.slots, Compacted.count)
         /\ \A j \in 1..count : ~watchers[j].removed =>
              \E i \in 1..Compacted.count : Compacted.slots[i] = watchers[j]
         /\ \A i \in 1..Compacted.count : \E j \in 1..count : Compacted.slots[i] = watchers[j]
<1> DEFINE n == count
           m == Len(watchers)
           s == watchers
           base == [slots |-> s, count |-> n]
           seq == [k \in 1..n |-> n + 1 - k]
           a(k) == Walked(base, seq, k)
<1>0. m \in Nat /\ n \in 0..m /\ n \in Nat /\ s \in [1..m -> Slots]
  OBVIOUS
<1>1. Len(seq) = n /\ DOMAIN seq = 1..n
  <2>1. seq \in Seq(Nat)
    <3>1. \A k \in 1..n : n + 1 - k \in Nat
      BY <1>0
    <3>2. seq \in [1..n -> Nat]
      BY <3>1
    <3> HIDE DEF n
    <3> QED
      BY <1>0, <3>2, SeqDef
  <2>2. DOMAIN seq = 1..n
    OBVIOUS
  <2> HIDE DEF seq, n
  <2> QED
    BY <1>0, <2>1, <2>2
<1>2. /\ a(0) = base
      /\ \A k \in 0..n - 1 : a(k + 1) = CompactSlot(a(k), seq[k + 1])
      /\ Walk(base, seq) = a(n)
  <2> HIDE DEF base, seq
  <2>1. Len(seq) \in Nat /\ DOMAIN seq = 1..Len(seq)
    BY <1>0, <1>1
  <2> QED
    BY <1>1, <2>1, WalkSteps
<1>3. Compacted = a(n)
  BY <1>2 DEF Compacted, Walk
<1>4. \A k \in 0..n - 1 : seq[k + 1] = n - k
  <2> TAKE k \in 0..n - 1
  <2>1. k + 1 \in 1..n /\ n + 1 - (k + 1) = n - k
    BY <1>0
  <2> QED
    BY <2>1
<1>5. Part(base, s, m, n, 0)
  <2>1. n - 0 = n
    BY <1>0
  <2>2. Distinct(s, n)
    OBVIOUS
  <2>3. \A j \in n + 1..n : FALSE
    BY <1>0
  <2> HIDE DEF s, n, m
  <2> QED
    BY <1>0, <2>1, <2>2, <2>3 DEF Part
<1> HIDE DEF a, seq, base, s, n, m
<1> DEFINE T == {k \in Nat : k <= n => Part(a(k), s, m, n, k)}
<1>6. 0 \in T
  BY <1>2, <1>5
<1>7. ASSUME NEW k \in Nat, k \in T PROVE k + 1 \in T
  <2> SUFFICES ASSUME k + 1 <= n PROVE Part(a(k + 1), s, m, n, k + 1)
    OBVIOUS
  <2>1. k \in 0..n - 1 /\ k <= n
    BY <1>0
  <2>2. Part(a(k), s, m, n, k)
    BY <1>7, <2>1
  <2>3. Part(CompactSlot(a(k), n - k), s, m, n, k + 1)
    BY <1>0, <2>1, <2>2, PartStep
  <2> QED
    BY <1>2, <1>4, <2>1, <2>3
<1>8. Part(Compacted, s, m, n, n)
  <2>1. Nat \subseteq T
    <3> HIDE DEF T
    <3> QED
      BY <1>6, <1>7, Induction
  <2> QED
    BY <1>0, <1>3, <2>1
<1> DEFINE c == Compacted
<1>9. /\ c.slots \in [1..m -> Slots] /\ c.count \in n - n..n
      /\ \A j \in n - n + 1..c.count : ~c.slots[j].removed
      /\ Distinct(c.slots, c.count)
      /\ \A j \in 1..n : ~s[j].removed => \E i \in 1..c.count : c.slots[i] = s[j]
      /\ \A i \in 1..c.count : \E j \in 1..n : c.slots[i] = s[j]
  BY <1>8 DEF Part
<1>10. n - n = 0 /\ n - n + 1 = 1
  BY <1>0
<1>11. c.slots \in Seq(Slots) /\ Len(c.slots) = m
  <2>1. c.slots \in Seq(Slots)
    BY <1>0, <1>9, SeqDef
  <2>2. DOMAIN c.slots = 1..m
    BY <1>9
  <2> HIDE DEF c
  <2> QED
    BY <1>0, <2>1, <2>2
<1> QED
  BY <1>0, <1>9, <1>10, <1>11 DEF n, m, s

Phases == {"filter", "begin", "loop", "callback"}
Pushes == [phase : Phases, i : Nat, n : Nat, expect : SUBSET Watchers, called : SUBSET Watchers]

(* Callbacks remove watchers or push events, and not both.                 *)
NotBoth == \A u \in Uses : ~(u.remove /\ u.nest)

Typed ==
  /\ use \in Uses /\ watchers \in Seq(Slots) /\ count \in 0..Len(watchers)
  /\ dispatching \in BOOLEAN /\ removed \in BOOLEAN /\ filter \in BOOLEAN
  /\ stack \in Seq(Pushes) /\ live \in SUBSET Watchers

Unmarked(ws, n) == {ws[i].w : i \in {j \in 1..n : ~ws[j].removed}}

Array ==
  /\ live = Unmarked(watchers, count)
  /\ Distinct(watchers, count)
  /\ \A i \in 1..count : watchers[i].removed => removed /\ dispatching

Dispatches(f) == f.phase \in {"loop", "callback"}
Past(f) == IF f.phase = "loop" THEN f.i - 1 ELSE f.i

Walking(f) ==
  /\ ~Dispatches(f) => f.called = {}
  /\ Dispatches(f) =>
    /\ f.n <= count /\ f.i >= 1 /\ Past(f) <= f.n
    /\ f.expect = {watchers[j].w : j \in 1..f.n}
    /\ f.called \subseteq {watchers[j].w : j \in 1..Past(f)}
    /\ \A j \in 1..Past(f) : watchers[j].removed \/ watchers[j].w \in f.called

Stacks ==
  /\ ~use.nest => Len(stack) <= 1
  /\ ~use.remove => ~removed
  /\ dispatching => \E d \in 1..Len(stack) : Dispatches(stack[d])
  /\ ~use.nest => \A d \in 1..Len(stack) : Dispatches(stack[d]) => dispatching

Walks == \A d \in 1..Len(stack) : Walking(stack[d])

WInv == Typed /\ Array /\ Stacks /\ Walks

-----------------------------------------------------------------------------
(* The push under way is the last of the stack.                            *)
LEMMA TopType ==
  ASSUME Typed, stack # <<>>
  PROVE  Len(stack) \in Nat /\ Len(stack) >= 1 /\ Top = stack[Len(stack)] /\ Top \in Pushes
<1>1. stack \in Seq(Pushes)
  BY DEF Typed
<1>2. Len(stack) \in Nat /\ Len(stack) >= 1
  BY <1>1
<1> QED
  BY <1>1, <1>2 DEF Top

(* The three ways to change the stack.                                     *)
LEMMA Pushed ==
  ASSUME Typed, NEW f \in Pushes, stack' = Append(stack, f)
  PROVE  /\ stack' \in Seq(Pushes) /\ Len(stack') = Len(stack) + 1 /\ stack'[Len(stack) + 1] = f
         /\ \A d \in 1..Len(stack) : stack'[d] = stack[d]
  BY DEF Typed

(* Changing the top changes the top alone.                                 *)
LEMMA Topped ==
  ASSUME Typed, stack # <<>>, NEW f \in Pushes, SetTop(f)
  PROVE  /\ stack' \in Seq(Pushes) /\ Len(stack') = Len(stack) /\ stack'[Len(stack)] = f
         /\ \A d \in 1..Len(stack) - 1 : stack'[d] = stack[d]
<1>1. stack \in Seq(Pushes) /\ Len(stack) \in 1..Len(stack) /\ Len(stack) \in Nat
  BY TopType DEF Typed
<1>2. stack' = [stack EXCEPT ![Len(stack)] = f]
  BY DEF SetTop
<1> QED
  BY <1>1, <1>2

(* Taking the top off leaves the others.                                   *)
LEMMA Popped ==
  ASSUME Typed, stack # <<>>, stack' = Front(stack)
  PROVE  /\ stack' \in Seq(Pushes) /\ Len(stack') = Len(stack) - 1
         /\ \A d \in 1..Len(stack) - 1 : stack'[d] = stack[d]
<1>1. stack \in Seq(Pushes) /\ Len(stack) \in Nat /\ Len(stack) >= 1
  BY TopType DEF Typed
<1> DEFINE s == stack
           n == Len(stack) - 1
<1>2. stack' = SubSeq(s, 1, n)
  BY DEF Front
<1>3. s \in Seq(Pushes) /\ n \in 0..Len(s) /\ n \in Nat
  BY <1>1
<1> HIDE DEF s, n
<1>4. SubSeq(s, 1, n) \in Seq(Pushes) /\ Len(SubSeq(s, 1, n)) = n
      /\ \A d \in 1..n : SubSeq(s, 1, n)[d] = s[d]
  BY <1>3
<1> QED
  BY <1>2, <1>4 DEF s, n

(* A dispatch stays right when its slots stay.                             *)
LEMMA WalkingStays ==
  ASSUME NEW f \in Pushes, Walking(f), count \in Nat, count' \in Nat,
         Dispatches(f) => f.n <= count',
         \A j \in 1..count : Dispatches(f) /\ j <= f.n => watchers'[j].w = watchers[j].w
                               /\ (watchers[j].removed => watchers'[j].removed)
  PROVE  Walking(f)'
<1> SUFFICES ASSUME Dispatches(f) PROVE Walking(f)'
  BY DEF Walking, Dispatches
<1>1. f.n \in Nat /\ f.i \in Nat /\ f.n <= count /\ Past(f) \in Int /\ Past(f) <= f.n
  BY DEF Walking, Pushes, Past
<1>2. \A j \in 1..f.n :
        j \in 1..count /\ watchers'[j].w = watchers[j].w
        /\ (watchers[j].removed => watchers'[j].removed)
  BY <1>1
<1>3. \A j \in 1..Past(f) : j \in 1..f.n
  BY <1>1
<1>4. f.expect = {watchers'[j].w : j \in 1..f.n}
  BY <1>2 DEF Walking
<1>5. f.called \subseteq {watchers'[j].w : j \in 1..Past(f)}
  BY <1>2, <1>3 DEF Walking
<1>6. \A j \in 1..Past(f) : watchers'[j].removed \/ watchers'[j].w \in f.called
  BY <1>2, <1>3 DEF Walking
<1>7. Dispatches(f)' /\ Past(f)' = Past(f)
  BY DEF Dispatches, Past
<1> QED
  BY <1>1, <1>4, <1>5, <1>6, <1>7 DEF Walking, Past, Dispatches

(* Dispatches that no step touches stay right.                             *)
LEMMA WalksStay ==
  ASSUME Typed, Walks, count' \in Nat, UNCHANGED stack,
         \A d \in 1..Len(stack) : Dispatches(stack[d]) =>
           /\ stack[d].n <= count'
           /\ \A j \in 1..count : j <= stack[d].n => watchers'[j].w = watchers[j].w
                               /\ (watchers[j].removed => watchers'[j].removed)
  PROVE  Walks'
<1>1. ASSUME NEW d \in 1..Len(stack), NEW f, f = stack[d] PROVE Walking(f)'
  <2>1. f \in Pushes /\ Walking(f) /\ count \in Nat
    BY <1>1 DEF Typed, Walks
  <2> QED
    BY <1>1, <2>1, WalkingStays
<1> QED
  BY <1>1 DEF Walks, Walking, Dispatches, Past

(* Without a frame there is nothing to dispatch.                           *)
LEMMA NoStack == ASSUME Typed, Stacks, stack = <<>> PROVE ~dispatching
  BY DEF Stacks

(* SDL_AddEventWatch.                                                      *)
LEMMA AddStep ==
  ASSUME WInv, NEW w \in Watchers, AddEventWatch(w) PROVE WInv'
<1>1. /\ watchers \in Seq(Slots) /\ count \in 0..Len(watchers) /\ Len(watchers) \in Nat
      /\ count \in Nat
      /\ \A i \in DOMAIN watchers : i <= count => watchers[i].w # w
  BY DEF WInv, Typed, AddEventWatch
<1> DEFINE s == [w |-> w, removed |-> FALSE]
           h == SubSeq(watchers, 1, count)
<1>2. h \in Seq(Slots) /\ Len(h) = count /\ \A i \in 1..count : h[i] = watchers[i]
  BY <1>1
<1>3. s \in Slots /\ s.w = w /\ s.removed = FALSE
  BY DEF Slots
<1>4. watchers' = Append(h, s) /\ count' = count + 1
  BY DEF AddEventWatch
<1> HIDE DEF s, h
<1>5. watchers' \in Seq(Slots) /\ Len(watchers') = count + 1 /\ watchers'[count + 1] = s
      /\ \A i \in 1..count : watchers'[i] = watchers[i]
  BY <1>2, <1>3, <1>4, <1>1
<1>6. Typed'
  BY <1>1, <1>4, <1>5 DEF WInv, Typed, AddEventWatch
<1>7. Array'
  <2>1. live' = Unmarked(watchers', count')
    <3>1. live' = live \cup {w} /\ live = Unmarked(watchers, count)
      BY DEF AddEventWatch, WInv, Array
    <3>2. ASSUME NEW x \in Unmarked(watchers', count') PROVE x \in live \cup {w}
      <4>1. PICK i \in 1..count + 1 : ~watchers'[i].removed /\ x = watchers'[i].w
        BY <1>4 DEF Unmarked
      <4>2. i = count + 1 \/ i \in 1..count
        BY <1>1
      <4> QED
        BY <1>3, <1>5, <3>1, <4>1, <4>2 DEF Unmarked
    <3>3. ASSUME NEW x \in live PROVE x \in Unmarked(watchers', count')
      <4>1. PICK i \in 1..count : ~watchers[i].removed /\ x = watchers[i].w
        BY <3>1 DEF Unmarked
      <4>2. i \in 1..count' /\ watchers'[i] = watchers[i]
        BY <1>1, <1>4, <1>5
      <4> QED
        BY <4>1, <4>2 DEF Unmarked
    <3>4. w \in Unmarked(watchers', count')
      <4>1. count + 1 \in 1..count'
        BY <1>1, <1>4
      <4> QED
        BY <1>3, <1>5, <4>1 DEF Unmarked
    <3> QED
      BY <3>1, <3>2, <3>3, <3>4
  <2>2. Distinct(watchers', count')
    <3> SUFFICES ASSUME NEW i \in 1..count', NEW j \in 1..count', watchers'[i].w = watchers'[j].w
                 PROVE i = j
      BY DEF Distinct
    <3>1. (i = count + 1 \/ i \in 1..count) /\ (j = count + 1 \/ j \in 1..count)
      BY <1>1, <1>4
    <3>2. \A k \in 1..count : watchers'[k].w # w
      <4> TAKE k \in 1..count
      <4>1. k \in DOMAIN watchers /\ k <= count
        BY <1>1
      <4> QED
        BY <1>1, <1>5, <4>1
    <3> QED
      BY <1>3, <1>5, <3>1, <3>2 DEF WInv, Array, Distinct
  <2>3. \A i \in 1..count' : watchers'[i].removed => removed' /\ dispatching'
    <3> TAKE i \in 1..count'
    <3>1. i = count + 1 \/ i \in 1..count
      BY <1>1, <1>4
    <3> QED
      BY <1>3, <1>5, <3>1 DEF WInv, Array, AddEventWatch
  <2> QED
    BY <2>1, <2>2, <2>3 DEF Array
<1>8. Stacks'
  BY DEF WInv, Stacks, AddEventWatch, Dispatches
<1>9. Walks'
  <2>1. UNCHANGED stack /\ count' \in Nat
    BY <1>1 DEF AddEventWatch
  <2>2. ASSUME NEW d \in 1..Len(stack), Dispatches(stack[d]) PROVE stack[d].n <= count'
    <3>1. stack[d] \in Pushes
      BY DEF WInv, Typed
    <3> QED
      BY <1>1, <1>4, <2>2, <3>1 DEF WInv, Walks, Walking, Pushes
  <2> QED
    BY <1>5, <2>1, <2>2, WalksStay DEF WInv
<1> QED
  BY <1>6, <1>7, <1>8, <1>9 DEF WInv

(* A slot is only marked.                                                  *)
LEMMA MarkStep ==
  ASSUME WInv, NEW w \in Watchers, DelEventWatch(w), Deferred PROVE WInv'
<1>1. PICK i \in 1..count : /\ watchers[i].w = w
                            /\ watchers' = [watchers EXCEPT ![i].removed = TRUE]
                            /\ removed' = TRUE /\ UNCHANGED count
  BY DEF DelEventWatch
<1>2. /\ watchers \in Seq(Slots) /\ count \in 0..Len(watchers) /\ Len(watchers) \in Nat
      /\ count \in Nat
      /\ i \in 1..Len(watchers) /\ dispatching /\ use.remove
      /\ UNCHANGED <<use, dispatching, filter, stack>>
      /\ live' = live \ {w}
  <2>1. stack # <<>>
    BY NoStack DEF WInv, Deferred
  <2> QED
    BY <2>1 DEF WInv, Typed, DelEventWatch, Deferred
<1>3. /\ watchers' \in Seq(Slots) /\ Len(watchers') = Len(watchers)
      /\ \A j \in 1..Len(watchers) : watchers'[j].w = watchers[j].w
           /\ (j # i => watchers'[j].removed = watchers[j].removed) /\ (j = i => watchers'[j].removed)
  <2> DEFINE s == [watchers[i] EXCEPT !.removed = TRUE]
  <2>1. watchers[i] \in Slots
    BY <1>2
  <2>2. s \in Slots /\ s.w = watchers[i].w /\ s.removed = TRUE
    BY <2>1 DEF Slots
  <2>3. watchers' = [watchers EXCEPT ![i] = s]
    BY <1>1
  <2> HIDE DEF s
  <2> QED
    BY <1>2, <2>2, <2>3
<1>4. Typed'
  BY <1>1, <1>2, <1>3 DEF WInv, Typed
<1>5. \A j \in 1..count : j \in 1..Len(watchers)
  BY <1>2
<1>6. Array'
  <2>1. Distinct(watchers', count')
    BY <1>1, <1>3, <1>5 DEF WInv, Array, Distinct
  <2>2. live' = Unmarked(watchers', count')
    <3>0. live = Unmarked(watchers, count) /\ Distinct(watchers, count)
      BY DEF WInv, Array
    <3>1. ASSUME NEW x \in Unmarked(watchers', count') PROVE x \in live \ {w}
      <4>1. PICK j \in 1..count : ~watchers'[j].removed /\ x = watchers'[j].w
        BY <1>1 DEF Unmarked
      <4>2. j # i /\ ~watchers[j].removed /\ x = watchers[j].w
        BY <1>3, <1>5, <4>1
      <4>3. x # w
        BY <1>1, <3>0, <4>2 DEF Distinct
      <4> QED
        BY <3>0, <4>2, <4>3 DEF Unmarked
    <3>2. ASSUME NEW x \in live, x # w PROVE x \in Unmarked(watchers', count')
      <4>1. PICK j \in 1..count : ~watchers[j].removed /\ x = watchers[j].w
        BY <3>0 DEF Unmarked
      <4>2. j # i
        BY <1>1, <3>2, <4>1
      <4> QED
        BY <1>1, <1>3, <1>5, <4>1, <4>2 DEF Unmarked
    <3> QED
      BY <1>2, <3>1, <3>2
  <2> QED
    BY <1>1, <1>2, <2>1, <2>2 DEF Array
<1>7. Stacks'
  BY <1>1, <1>2 DEF WInv, Stacks, Dispatches
<1>8. Walks'
  <2>1. ASSUME NEW d \in 1..Len(stack), Dispatches(stack[d]) PROVE stack[d].n <= count'
    BY <1>1, <2>1 DEF WInv, Walks, Walking
  <2>2. \A j \in 1..count :
          watchers'[j].w = watchers[j].w /\ (watchers[j].removed => watchers'[j].removed)
    BY <1>3, <1>5
  <2> QED
    BY <1>1, <1>2, <2>1, <2>2, WalksStay DEF WInv
<1> QED
  BY <1>4, <1>6, <1>7, <1>8 DEF WInv

(* A slot is taken out: no dispatch is under way.                          *)
LEMMA RemoveStep ==
  ASSUME NotBoth, WInv, NEW w \in Watchers, DelEventWatch(w), ~Deferred PROVE WInv'
<1> DEFINE a == [slots |-> watchers, count |-> count]
           m == Len(watchers)
<1>1. PICK p \in 1..count : watchers[p].w = w /\ watchers' = RemoveSlot(a, p).slots
           /\ count' = RemoveSlot(a, p).count
                            /\ UNCHANGED removed
  BY DEF DelEventWatch
<1>2. /\ watchers \in Seq(Slots) /\ count \in 1..m /\ m \in Nat /\ count \in Nat /\ ~dispatching
      /\ UNCHANGED <<use, dispatching, filter, stack>> /\ live' = live \ {w}
      /\ (stack = <<>> \/ use.remove)
      /\ live = Unmarked(watchers, count) /\ Distinct(watchers, count)
  BY <1>1 DEF WInv, Typed, Array, DelEventWatch, Deferred
<1>3. \A j \in 1..count : ~watchers[j].removed
  BY <1>2 DEF WInv, Array
<1>4. /\ count' = count - 1 /\ watchers' \in [1..m -> Slots]
      /\ \A i \in 1..count - 1 :
           From(i, p) \in 1..count /\ From(i, p) # p /\ watchers'[i] = watchers[From(i, p)]
      /\ \A i \in 1..count : i # p => \E j \in 1..count - 1 : watchers'[j] = watchers[i]
      /\ Distinct(watchers', count - 1)
  <2>1. a.slots \in [1..m -> Slots] /\ a.count = count /\ a.slots = watchers
    BY <1>2
  <2> DEFINE b == RemoveSlot(a, p)
  <2>2. b = RemoveSlot(a, p) /\ watchers' = b.slots /\ count' = b.count
    BY <1>1
  <2> HIDE DEF a, m, b
  <2>3. b.slots \in [1..m -> Slots] /\ Shifted(a, b, count, p)
    BY <1>1, <1>2, <2>1, <2>2, RemoveSlotDoes
  <2> QED
    BY <2>1, <2>2, <2>3 DEF Shifted
<1>5. Typed'
  <2>1. watchers' \in Seq(Slots) /\ DOMAIN watchers' = 1..m
    <3> HIDE DEF m
    <3>1. watchers' \in [1..m -> Slots]
      BY <1>4
    <3> QED
      BY <1>2, <3>1, SeqDef
  <2>2. Len(watchers') = m
    <3> HIDE DEF m
    <3> QED
      BY <1>2, <2>1
  <2> HIDE DEF m
  <2> QED
    <3>1. count' \in 0..Len(watchers')
      BY <1>2, <1>4, <2>2
    <3>2. live' \in SUBSET Watchers
      BY <1>2 DEF WInv, Typed
    <3> QED
      BY <1>1, <1>2, <2>1, <3>1, <3>2 DEF WInv, Typed
<1>6. Array'
  <2>1. live' = Unmarked(watchers', count')
    <3>1. ASSUME NEW x \in Unmarked(watchers', count') PROVE x \in live \ {w}
      <4>1. PICK i \in 1..count - 1 : x = watchers'[i].w
        BY <1>4 DEF Unmarked
      <4>2. From(i, p) \in 1..count /\ From(i, p) # p /\ x = watchers[From(i, p)].w
        BY <1>4, <4>1
      <4>3. x # w
        BY <1>1, <1>2, <4>2 DEF Distinct
      <4> QED
        BY <1>2, <1>3, <4>2, <4>3 DEF Unmarked
    <3>2. ASSUME NEW x \in live, x # w PROVE x \in Unmarked(watchers', count')
      <4>1. PICK i \in 1..count : ~watchers[i].removed /\ x = watchers[i].w
        BY <1>2 DEF Unmarked
      <4>2. PICK j \in 1..count - 1 : watchers'[j] = watchers[i]
        BY <1>1, <1>4, <3>2, <4>1
      <4> QED
        BY <1>4, <4>1, <4>2 DEF Unmarked
    <3> QED
      BY <1>2, <3>1, <3>2
  <2>2. \A i \in 1..count' : ~watchers'[i].removed
    BY <1>3, <1>4
  <2> QED
    BY <1>4, <2>1, <2>2 DEF Array
<1>7. \A d \in 1..Len(stack) : ~Dispatches(stack[d])
  <2>1. CASE stack = <<>>
    BY <2>1
  <2>2. CASE use.remove
    BY <1>2, <2>2 DEF NotBoth, WInv, Typed, Stacks
  <2> QED
    BY <1>2, <2>1, <2>2
<1>8. Stacks'
  BY <1>1, <1>2 DEF WInv, Stacks, Dispatches
<1>9. Walks'
  BY <1>2, <1>7 DEF WInv, Walks, Walking, Dispatches
<1> QED
  BY <1>5, <1>6, <1>8, <1>9 DEF WInv

(* SDL_SetEventFilter.                                                     *)
LEMMA FilterStep ==
  ASSUME WInv, SetEventFilter PROVE WInv'
<1>1. Typed' /\ Array' /\ Stacks'
  BY DEF WInv, Typed, Array, Stacks, SetEventFilter, Dispatches
<1>2. Walks'
  BY DEF WInv, Walks, Walking, Dispatches, Past, SetEventFilter
<1> QED
  BY <1>1, <1>2 DEF WInv

(* SDL_StopEventLoop forgets the watchers.                                 *)
LEMMA ForgetStep ==
  ASSUME WInv, ForgetWatchers PROVE WInv'
<1>1. watchers' = <<>> /\ count' = 0 /\ stack = <<>> /\ live' = {}
      /\ UNCHANGED <<use, dispatching, removed, stack>> /\ filter' = FALSE
  BY DEF ForgetWatchers
<1>2. Typed'
  <2>1. watchers' \in Seq(Slots) /\ count' \in 0..Len(watchers')
    BY <1>1
  <2>2. live' \in SUBSET Watchers /\ filter' \in BOOLEAN
    BY <1>1
  <2> QED
    BY <1>1, <2>1, <2>2 DEF WInv, Typed
<1>3. Array'
  BY <1>1 DEF Array, Unmarked, Distinct
<1>4. Stacks' /\ Walks'
  BY <1>1 DEF WInv, Stacks, Walks, Dispatches
<1> QED
  BY <1>2, <1>3, <1>4 DEF WInv

(* SDL_PushEvent begins.                                                   *)
LEMMA PushStep ==
  ASSUME WInv, PushEvent PROVE WInv'
<1> DEFINE f == [phase |-> IF filter THEN "filter" ELSE "begin", i |-> 0, n |-> 0, expect |-> {},
                 called |-> {}]
<1>1. f \in Pushes /\ ~Dispatches(f) /\ f.called = {}
  BY DEF Pushes, Phases, Dispatches
<1>2. stack' = Append(stack, f) /\ (stack = <<>> \/ use.nest)
      /\ UNCHANGED <<use, watchers, count, dispatching, removed, filter, live>>
  BY DEF PushEvent
<1> HIDE DEF f
<1>3. /\ stack' \in Seq(Pushes) /\ Len(stack') = Len(stack) + 1 /\ stack'[Len(stack) + 1] = f
      /\ \A d \in 1..Len(stack) : stack'[d] = stack[d]
  BY <1>1, <1>2, Pushed DEF WInv
<1>4. stack \in Seq(Pushes) /\ Len(stack) \in Nat
  BY DEF WInv, Typed
<1>5. \A d \in 1..Len(stack') : (d = Len(stack) + 1 /\ stack'[d] = f)
        \/ (d \in 1..Len(stack) /\ stack'[d] = stack[d])
  BY <1>3, <1>4
<1>6. \A d \in 1..Len(stack) : d \in 1..Len(stack')
  BY <1>3, <1>4
<1>7. Typed' /\ Array'
  BY <1>2, <1>3 DEF WInv, Typed, Array
<1>8. Stacks'
  <2>1. ~use.nest => Len(stack') <= 1
    BY <1>2, <1>3
  <2>2. dispatching => \E d \in 1..Len(stack') : Dispatches(stack'[d])
    BY <1>3, <1>6 DEF WInv, Stacks
  <2>3. ~use.nest => \A d \in 1..Len(stack') : Dispatches(stack'[d]) => dispatching
    BY <1>1, <1>5 DEF WInv, Stacks
  <2> QED
    BY <1>2, <2>1, <2>2, <2>3 DEF WInv, Stacks, Dispatches
<1>9. Walks'
  BY <1>1, <1>2, <1>5 DEF WInv, Walks, Walking, Dispatches, Past
<1> QED
  BY <1>7, <1>8, <1>9 DEF WInv

(* The innermost push goes on: its frame is right, and dispatches only as  *)
(* "dispatching" says.                                                     *)
LEMMA TopChanges ==
  ASSUME WInv, stack # <<>>, NEW f \in Pushes, SetTop(f), dispatching' \in BOOLEAN,
         UNCHANGED <<use, watchers, count, removed, filter, live>>,
         dispatching => dispatching',
         ~dispatching => (dispatching' => Dispatches(f)),
         Dispatches(Top) => Dispatches(f),
         ~use.nest /\ Dispatches(f) => dispatching',
         Walking(f)
  PROVE  WInv'
<1>1. /\ stack' \in Seq(Pushes) /\ Len(stack') = Len(stack) /\ stack'[Len(stack)] = f
      /\ \A d \in 1..Len(stack) - 1 : stack'[d] = stack[d]
  BY Topped DEF WInv
<1>2. Len(stack) \in Nat /\ Len(stack) >= 1 /\ Top = stack[Len(stack)] /\ stack \in Seq(Pushes)
  BY TopType DEF WInv, Typed
<1>3. \A d \in 1..Len(stack) : (d = Len(stack) /\ stack'[d] = f)
        \/ (d \in 1..Len(stack) - 1 /\ stack'[d] = stack[d])
  BY <1>1, <1>2
<1>4. Typed' /\ Array'
  BY <1>1 DEF WInv, Typed, Array
<1>5. Stacks'
  <2>1. ~use.nest => Len(stack') <= 1
    BY <1>1 DEF WInv, Stacks
  <2>2. dispatching' => \E d \in 1..Len(stack') : Dispatches(stack'[d])
    <3>1. CASE dispatching
      <4>1. PICK d \in 1..Len(stack) : Dispatches(stack[d])
        BY <3>1 DEF WInv, Stacks
      <4>2. Dispatches(stack'[d])
        BY <1>2, <1>3, <4>1
      <4> QED
        BY <1>1, <4>2
    <3>2. CASE ~dispatching
      BY <1>1, <1>2, <3>2
    <3> QED
      BY <3>1, <3>2
  <2>3. ~use.nest => \A d \in 1..Len(stack') : Dispatches(stack'[d]) => dispatching'
    BY <1>1, <1>3 DEF WInv, Stacks
  <2> QED
    BY <2>1, <2>2, <2>3 DEF WInv, Stacks, Dispatches
<1>6. Walks'
  <2>1. \A d \in 1..Len(stack) : Walking(stack'[d])
    BY <1>3 DEF WInv, Walks
  <2> QED
    BY <1>1, <2>1 DEF Walks, Walking, Dispatches, Past
<1> QED
  BY <1>4, <1>5, <1>6 DEF WInv

(* The innermost push ends, and does not dispatch: dispatching stays.      *)
LEMMA TopGoes ==
  ASSUME WInv, stack # <<>>, stack' = Front(stack), ~Dispatches(Top),
         UNCHANGED <<use, watchers, count, dispatching, removed, filter, live>>
  PROVE  WInv'
<1>1. /\ stack' \in Seq(Pushes) /\ Len(stack') = Len(stack) - 1
      /\ \A d \in 1..Len(stack) - 1 : stack'[d] = stack[d]
  BY Popped DEF WInv
<1>2. Len(stack) \in Nat /\ Len(stack) >= 1 /\ Top = stack[Len(stack)] /\ stack \in Seq(Pushes)
  BY TopType DEF WInv, Typed
<1>3. \A d \in 1..Len(stack') : d \in 1..Len(stack) /\ stack'[d] = stack[d]
  BY <1>1, <1>2
<1>4. Typed' /\ Array'
  BY <1>1 DEF WInv, Typed, Array
<1>5. Stacks'
  <2>1. ~use.nest => Len(stack') <= 1
    BY <1>1, <1>2 DEF WInv, Stacks
  <2>2. ASSUME dispatching PROVE \E d \in 1..Len(stack') : Dispatches(stack'[d])
    <3>1. PICK d \in 1..Len(stack) : Dispatches(stack[d])
      BY <2>2 DEF WInv, Stacks
    <3>2. d \in 1..Len(stack')
      BY <1>1, <1>2, <3>1
    <3> QED
      BY <1>3, <3>1, <3>2
  <2>3. ~use.nest => \A d \in 1..Len(stack') : Dispatches(stack'[d]) => dispatching
    BY <1>3 DEF WInv, Stacks
  <2> QED
    BY <2>1, <2>2, <2>3 DEF WInv, Stacks, Dispatches
<1>6. Walks'
  <2>1. \A d \in 1..Len(stack') : Walking(stack'[d])
    BY <1>3 DEF WInv, Walks
  <2> QED
    BY <2>1 DEF Walks, Walking, Dispatches, Past
<1> QED
  BY <1>4, <1>5, <1>6 DEF WInv

(* The filter returns.                                                     *)
LEMMA FilterReturnsStep ==
  ASSUME WInv, FilterReturns PROVE WInv'
<1>1. stack # <<>> /\ Top.phase = "filter" /\ Top \in Pushes /\ ~Dispatches(Top)
      /\ UNCHANGED <<use, watchers, count, dispatching, removed, filter, live>>
  BY TopType DEF WInv, FilterReturns, InPhase, Dispatches
<1>2. CASE stack' = Front(stack)
  BY <1>1, <1>2, TopGoes
<1>3. CASE SetTop([Top EXCEPT !.phase = "begin"])
  <2> DEFINE f == [Top EXCEPT !.phase = "begin"]
  <2>1. f \in Pushes /\ ~Dispatches(f)
    BY <1>1 DEF Pushes, Phases, Dispatches
  <2>2. Walking(f) /\ dispatching' \in BOOLEAN /\ SetTop(f)
    <3>1. Walking(Top)
      BY <1>1, TopType DEF WInv, Walks
    <3> QED
      BY <1>1, <1>3, <2>1, <3>1 DEF Walking, WInv, Typed
  <2> HIDE DEF f
  <2> QED
    BY <1>1, <2>1, <2>2, TopChanges
<1> QED
  BY <1>2, <1>3 DEF FilterReturns

(* The dispatch takes the number of watchers.                              *)
LEMMA BeginStep ==
  ASSUME NotBoth, WInv, BeginDispatch PROVE WInv'
<1>1. stack # <<>> /\ Top.phase = "begin" /\ Top \in Pushes /\ ~Dispatches(Top)
      /\ UNCHANGED <<use, watchers, count, removed, filter, live>>
  BY TopType DEF WInv, BeginDispatch, InPhase, Dispatches
<1>2. CASE ~(count > 0)
  <2>1. stack' = Front(stack) /\ UNCHANGED dispatching
    BY <1>2 DEF BeginDispatch
  <2> QED
    BY <1>1, <2>1, TopGoes
<1>3. CASE count > 0
  <2> DEFINE f == [Top EXCEPT !.phase = "loop", !.i = 1, !.n = count, !.expect = live]
  <2>1. dispatching' = TRUE /\ SetTop(f)
    BY <1>3 DEF BeginDispatch
  <2>2. /\ f \in Pushes /\ f.phase = "loop" /\ f.i = 1 /\ f.n = count /\ f.expect = live
        /\ f.called = Top.called
    <3>1. Top = [phase |-> Top.phase, i |-> Top.i, n |-> Top.n, expect |-> Top.expect,
                 called |-> Top.called]
          /\ Top.called \in SUBSET Watchers
      BY <1>1 DEF Pushes
    <3>2. f = [phase |-> "loop", i |-> 1, n |-> count, expect |-> live, called |-> Top.called]
      <4> DEFINE t == Top
      <4>1. t \in Pushes /\ Top = t
        BY <1>1
      <4>2. f = [t EXCEPT !.phase = "loop", !.i = 1, !.n = count, !.expect = live]
        OBVIOUS
      <4> HIDE DEF t, f
      <4> QED
        BY <4>1, <4>2 DEF Pushes
    <3>3. count \in Nat /\ live \in SUBSET Watchers
      BY DEF WInv, Typed
    <3> HIDE DEF f
    <3> QED
      BY <3>1, <3>2, <3>3 DEF Pushes, Phases
  <2> HIDE DEF f
  <2>5. \A j \in 1..count : ~watchers[j].removed
    <3>1. use \in Uses /\ ~(use.remove /\ use.nest)
      BY DEF NotBoth, WInv, Typed
    <3>2. CASE ~use.remove
      BY <3>2 DEF WInv, Array, Stacks
    <3>3. CASE ~use.nest
      <4>1. Len(stack) = 1 /\ Top = stack[Len(stack)]
        <5>1. Len(stack) \in Nat /\ Len(stack) >= 1 /\ Top = stack[Len(stack)]
          BY <1>1, TopType DEF WInv
        <5>2. Len(stack) <= 1
          BY <3>3 DEF WInv, Stacks
        <5>3. Len(stack) = 1
          BY <5>1, <5>2, Z3
        <5> QED
          BY <5>1, <5>3
      <4>2. ~dispatching
        BY <1>1, <4>1 DEF WInv, Stacks
      <4> QED
        BY <4>2 DEF WInv, Array
    <3> QED
      BY <3>1, <3>2, <3>3
  <2>6. live = {watchers[j].w : j \in 1..count}
    BY <2>5 DEF WInv, Array, Unmarked
  <2>7. f.called = {}
    <3>1. Walking(Top)
      BY <1>1, TopType DEF WInv, Walks
    <3> QED
      BY <1>1, <2>2, <3>1 DEF Walking
  <2>3. Dispatches(f) /\ Past(f) = 0 /\ count \in Nat
    BY <2>2 DEF Dispatches, Past, WInv, Typed
  <2>4. Walking(f)
    BY <2>2, <2>3, <2>6, <2>7 DEF Walking
  <2> QED
    BY <1>1, <2>1, <2>2, <2>3, <2>4, TopChanges
<1> QED
  BY <1>2, <1>3

(* What is known of a dispatch at slot i, of the n of its start.           *)
LEMMA AtSlot ==
  ASSUME WInv, stack # <<>>, Dispatches(Top)
  PROVE  /\ Top \in Pushes /\ Walking(Top) /\ Top.i \in Nat /\ Top.i >= 1 /\ Top.n \in Nat
         /\ Top.n <= count
         /\ (~use.nest => dispatching) /\ count \in Nat /\ count <= Len(watchers) /\ Len(watchers) \in Nat
<1>1. Len(stack) \in Nat /\ Len(stack) >= 1 /\ Top = stack[Len(stack)] /\ Top \in Pushes
  BY TopType DEF WInv
<1>2. Walking(Top)
  BY <1>1 DEF WInv, Walks
<1>3. ~use.nest => dispatching
  BY <1>1 DEF WInv, Stacks
<1>4. count \in Nat /\ count <= Len(watchers) /\ Len(watchers) \in Nat
  BY DEF WInv, Typed
<1>5. Top.i \in Nat /\ Top.n \in Nat
  BY <1>1 DEF Pushes
<1> QED
  BY <1>1, <1>2, <1>3, <1>4, <1>5 DEF Walking

(* The three steps of a dispatch only change its own frame.                *)
LEMMA SlotPassed ==
  ASSUME WInv, stack # <<>>, Dispatches(Top), NEW f \in Pushes, SetTop(f), Dispatches(f),
         Walking(f),
         UNCHANGED <<use, watchers, count, dispatching, removed, filter, live>>
  PROVE  WInv'
BY AtSlot, TopChanges DEF WInv, Typed

(* A removed watcher is passed over.                                       *)
LEMMA SkipStep ==
  ASSUME WInv, SkipRemoved PROVE WInv'
<1>1. /\ stack # <<>> /\ Top.phase = "loop" /\ Dispatches(Top) /\ Top.i <= Top.n
      /\ watchers[Top.i].removed
      /\ SetTop([Top EXCEPT !.i = @ + 1])
      /\ UNCHANGED <<use, watchers, count, dispatching, removed, filter, live>>
  BY DEF SkipRemoved, InLoop, InPhase, Skip, Dispatches
<1> DEFINE f == [Top EXCEPT !.i = @ + 1]
           i == Top.i
<1>2. Top \in Pushes /\ Walking(Top) /\ i \in Nat /\ i >= 1 /\ Top.n \in Nat
  BY <1>1, AtSlot
<1>3. f \in Pushes /\ f.phase = "loop" /\ f.i = i + 1 /\ f.n = Top.n /\ f.expect = Top.expect
      /\ f.called = Top.called
      /\ SetTop(f)
  BY <1>1, <1>2 DEF Pushes
<1> HIDE DEF f
<1>4. Past(Top) = i - 1 /\ Past(f) = i /\ Dispatches(f)
  BY <1>1, <1>2, <1>3 DEF Past, Dispatches
<1>5. Walking(f)
  <2>1. \A j \in 1..i : j \in 1..i - 1 \/ j = i
    BY <1>2
  <2>2. \A j \in 1..i - 1 : j \in 1..i
    BY <1>2
  <2>3. f.called \subseteq {watchers[j].w : j \in 1..i}
    BY <1>1, <1>2, <1>3, <1>4, <2>2 DEF Walking
  <2>4. \A j \in 1..i : watchers[j].removed \/ watchers[j].w \in f.called
    BY <1>1, <1>2, <1>3, <1>4, <2>1 DEF Walking
  <2>5. i + 1 >= 1
    BY <1>2
  <2> QED
    BY <1>1, <1>2, <1>3, <1>4, <2>3, <2>4, <2>5 DEF Walking
<1> QED
  BY <1>1, <1>3, <1>4, <1>5, SlotPassed

(* A watcher is called.                                                    *)
LEMMA CallStep ==
  ASSUME WInv, CallWatcher PROVE WInv'
<1>1. /\ stack # <<>> /\ Top.phase = "loop" /\ Dispatches(Top) /\ Top.i <= Top.n
      /\ Top.i \in DOMAIN watchers
      /\ SetTop([Top EXCEPT !.phase = "callback", !.called = @ \cup {watchers[Top.i].w}])
      /\ UNCHANGED <<use, watchers, count, dispatching, removed, filter, live>>
  BY DEF CallWatcher, InLoop, InPhase, Dispatches
<1> DEFINE i == Top.i
           c == Top.called \cup {watchers[i].w}
           f == [Top EXCEPT !.phase = "callback", !.called = c]
<1>2. Top \in Pushes /\ Walking(Top) /\ i \in Nat /\ i >= 1 /\ Top.n \in Nat
  BY <1>1, AtSlot
<1>3. c \in SUBSET Watchers
  <2>1. watchers[i] \in Slots
    BY <1>1 DEF WInv, Typed
  <2> QED
    BY <1>2, <2>1 DEF Pushes, Slots
<1>4. SetTop(f)
  BY <1>1
<1>5. f \in Pushes /\ f.phase = "callback" /\ f.i = i /\ f.n = Top.n /\ f.expect = Top.expect
      /\ f.called = c
  <2> HIDE DEF c
  <2> QED
    BY <1>2, <1>3 DEF Pushes, Phases
<1> HIDE DEF f
<1>6. Past(Top) = i - 1 /\ Past(f) = i /\ Dispatches(f)
  BY <1>1, <1>2, <1>5 DEF Past, Dispatches
<1>7. Walking(f)
  <2>1. \A j \in 1..i : j \in 1..i - 1 \/ j = i
    BY <1>2
  <2>2. i \in 1..i /\ \A j \in 1..i - 1 : j \in 1..i
    BY <1>2
  <2>3. f.called \subseteq {watchers[j].w : j \in 1..i}
    BY <1>1, <1>2, <1>5, <1>6, <2>2 DEF Walking
  <2>4. \A j \in 1..i : watchers[j].removed \/ watchers[j].w \in f.called
    BY <1>1, <1>2, <1>5, <1>6, <2>1 DEF Walking
  <2> QED
    BY <1>1, <1>2, <1>5, <1>6, <2>3, <2>4 DEF Walking
<1> QED
  BY <1>1, <1>4, <1>5, <1>6, <1>7, SlotPassed

(* A watcher returns.                                                      *)
LEMMA ReturnStep ==
  ASSUME WInv, CallbackReturns PROVE WInv'
<1>1. /\ stack # <<>> /\ Top.phase = "callback" /\ Dispatches(Top)
      /\ SetTop([Top EXCEPT !.phase = "loop", !.i = @ + 1])
      /\ UNCHANGED <<use, watchers, count, dispatching, removed, filter, live>>
  BY DEF CallbackReturns, InPhase, Dispatches
<1> DEFINE i == Top.i
           f == [Top EXCEPT !.phase = "loop", !.i = i + 1]
<1>2. Top \in Pushes /\ Walking(Top) /\ i \in Nat /\ i >= 1 /\ Top.n \in Nat
  BY <1>1, AtSlot
<1>3. f \in Pushes /\ f.phase = "loop" /\ f.i = i + 1 /\ f.n = Top.n /\ f.expect = Top.expect
      /\ f.called = Top.called
  <2> DEFINE t == Top
  <2>1. t \in Pushes /\ Top = t /\ f = [t EXCEPT !.phase = "loop", !.i = i + 1] /\ i = t.i
        /\ i + 1 \in Nat
    BY <1>2
  <2> HIDE DEF t, f, i
  <2> QED
    BY <2>1 DEF Pushes, Phases
<1>4. SetTop(f)
  BY <1>1
<1> HIDE DEF f
<1>5. Past(Top) = i /\ Past(f) = i /\ Dispatches(f) /\ i + 1 >= 1
  BY <1>1, <1>2, <1>3 DEF Past, Dispatches
<1>6. Walking(f)
  BY <1>1, <1>2, <1>3, <1>5 DEF Walking
<1> QED
  BY <1>1, <1>3, <1>4, <1>5, <1>6, SlotPassed

(* The dispatch ends.  If slots were marked no event was pushed from a     *)
(* callback, and no other dispatch is under way when the slots go.         *)
LEMMA EndStep ==
  ASSUME NotBoth, WInv, EndDispatch PROVE WInv'
<1>1. /\ stack # <<>> /\ stack' = Front(stack) /\ dispatching' = FALSE /\ removed' = FALSE
      /\ UNCHANGED <<use, filter, live>>
  BY DEF EndDispatch, InPhase
<1>2. /\ stack' \in Seq(Pushes) /\ Len(stack') = Len(stack) - 1
      /\ \A d \in 1..Len(stack) - 1 : stack'[d] = stack[d]
  BY <1>1, Popped DEF WInv
<1>3. Len(stack) \in Nat /\ Len(stack) >= 1
  BY <1>1, TopType DEF WInv
<1>4. ~use.nest => Len(stack') = 0
  <2>1. ~use.nest => Len(stack) <= 1
    BY DEF WInv, Stacks
  <2> QED
    BY <1>2, <1>3, <2>1
<1>5. Stacks'
  <2>1. ~use.nest => \A d \in 1..Len(stack') : FALSE
    BY <1>4
  <2>2. ~use.nest => Len(stack') <= 1
    BY <1>4
  <2> QED
    BY <1>1, <2>1, <2>2 DEF Stacks, Dispatches
<1>6. CASE ~removed
  <2>1. UNCHANGED <<watchers, count>>
    BY <1>6 DEF EndDispatch
  <2>2. Typed'
    BY <1>1, <1>2, <2>1 DEF WInv, Typed
  <2>3. Array'
    BY <1>1, <1>6, <2>1 DEF WInv, Array
  <2>4. \A d \in 1..Len(stack') : Walking(stack'[d])
    <3> TAKE d \in 1..Len(stack')
    <3>1. d \in 1..Len(stack) /\ stack'[d] = stack[d]
      BY <1>2, <1>3
    <3> QED
      BY <3>1 DEF WInv, Walks
  <2>5. Walks'
    BY <2>1, <2>4 DEF Walks, Walking, Dispatches, Past
  <2> QED
    BY <1>5, <2>2, <2>3, <2>5 DEF WInv
<1>7. CASE removed
  <2> DEFINE c == Compacted
  <2>1. watchers' = c.slots /\ count' = c.count
    BY <1>7 DEF EndDispatch
  <2>2. Len(stack') = 0
    <3>1. use.remove /\ ~(use.remove /\ use.nest)
      BY <1>7 DEF NotBoth, WInv, Typed, Stacks
    <3> QED
      BY <1>4, <3>1
  <2>3. watchers \in Seq(Slots) /\ count \in 0..Len(watchers) /\ Distinct(watchers, count)
        /\ live = Unmarked(watchers, count) /\ count \in Nat
    BY DEF WInv, Typed, Array
  <2>4. /\ c.slots \in Seq(Slots) /\ c.count \in 0..count
        /\ Len(c.slots) = Len(watchers)
        /\ \A i \in 1..c.count : ~c.slots[i].removed
        /\ Distinct(c.slots, c.count)
        /\ \A j \in 1..count : ~watchers[j].removed =>
             \E i \in 1..c.count : c.slots[i] = watchers[j]
        /\ \A i \in 1..c.count : \E j \in 1..count : c.slots[i] = watchers[j]
    BY <2>3, CompactedIs
  <2> HIDE DEF c
  <2>5. Typed'
    <3>1. c.count \in 0..Len(c.slots)
      BY <2>3, <2>4
    <3> QED
      BY <1>1, <1>2, <2>1, <2>4, <3>1 DEF WInv, Typed
  <2>6. live = Unmarked(watchers', count')
    <3>1. ASSUME NEW x \in live PROVE x \in Unmarked(watchers', count')
      <4>1. PICK j \in 1..count : ~watchers[j].removed /\ x = watchers[j].w
        BY <2>3, <3>1 DEF Unmarked
      <4>2. PICK i \in 1..c.count : c.slots[i] = watchers[j]
        BY <2>4, <4>1
      <4> QED
        BY <2>1, <4>1, <4>2 DEF Unmarked
    <3>2. ASSUME NEW x \in Unmarked(watchers', count') PROVE x \in live
      <4>1. PICK i \in 1..c.count : ~c.slots[i].removed /\ x = c.slots[i].w
        BY <2>1, <3>2 DEF Unmarked
      <4>2. PICK j \in 1..count : c.slots[i] = watchers[j]
        BY <2>4, <4>1
      <4> QED
        BY <2>3, <4>1, <4>2 DEF Unmarked
    <3> QED
      BY <3>1, <3>2
  <2>7. Array'
    BY <1>1, <2>1, <2>4, <2>6 DEF Array
  <2>8. Walks'
    <3>1. \A d \in 1..Len(stack') : FALSE
      BY <2>2
    <3> QED
      BY <3>1 DEF Walks
  <2> QED
    BY <1>5, <2>5, <2>7, <2>8 DEF WInv
<1> QED
  BY <1>6, <1>7

(* It holds when the program starts.                                       *)
LEMMA WatchInitWInv == ASSUME WatchInit PROVE WInv
<1>1. Typed
  <2>1. watchers \in Seq(Slots) /\ count \in 0..Len(watchers) /\ stack \in Seq(Pushes)
    BY DEF WatchInit
  <2> QED
    BY <2>1 DEF WatchInit, Typed
<1>2. Array
  BY DEF WatchInit, Array, Unmarked, Distinct
<1>3. Stacks /\ Walks
  BY DEF WatchInit, Stacks, Walks
<1> QED
  BY <1>1, <1>2, <1>3 DEF WInv

(* Every step keeps the invariant.                                         *)
LEMMA WatchStep == ASSUME NotBoth, WInv, [WatchNext]_watchVars PROVE WInv'
<1>1. ASSUME NEW w \in Watchers, AddEventWatch(w) PROVE WInv'
  BY <1>1, AddStep
<1>2. ASSUME NEW w \in Watchers, DelEventWatch(w) PROVE WInv'
  BY <1>2, MarkStep, RemoveStep
<1>3. CASE SetEventFilter \/ ForgetWatchers
  BY <1>3, FilterStep, ForgetStep
<1>4. CASE PushEvent \/ FilterReturns \/ BeginDispatch
  BY <1>4, PushStep, FilterReturnsStep, BeginStep
<1>5. CASE SkipRemoved \/ CallWatcher \/ CallbackReturns
  BY <1>5, SkipStep, CallStep, ReturnStep
<1>6. CASE EndDispatch
  BY <1>6, EndStep
<1>7. CASE UNCHANGED watchVars
  <2>1. Typed' /\ Array' /\ Stacks'
    BY <1>7 DEF watchVars, WInv, Typed, Array, Stacks, Dispatches
  <2>2. Walks'
    BY <1>7 DEF watchVars, WInv, Walks, Walking, Dispatches, Past
  <2> QED
    BY <2>1, <2>2 DEF WInv
<1> QED
  BY <1>1, <1>2, <1>3, <1>4, <1>5, <1>6, <1>7 DEF WatchNext

(* So it holds at every moment.                                            *)
LEMMA WatchInvariant == ASSUME NotBoth PROVE WatchSpec => []WInv
<1>1. WatchInit => WInv
  BY WatchInitWInv
<1>2. WInv /\ [WatchNext]_watchVars => WInv'
  BY WatchStep
<1> QED
  BY <1>1, <1>2, PTL DEF WatchSpec

(* The array of SDL_event_watchers holds the watchers that are registered, *)
(* each once, after any additions and removals inside callbacks; provided  *)
(* that no callback both removes a watcher and pushes an event.            *)
THEOREM ArrayHoldsLiveAlways == ASSUME NotBoth PROVE WatchSpec => []ArrayHoldsLive
<1>1. WInv => ArrayHoldsLive
  <2> SUFFICES ASSUME WInv PROVE ArrayHoldsLive
    OBVIOUS
  <2>1. ASSUME NEW d \in DOMAIN stack, stack[d].phase = "loop" PROVE stack[d].n <= Len(watchers)
    <3>1. d \in 1..Len(stack) /\ stack[d] \in Pushes /\ Walking(stack[d]) /\ count \in Nat
          /\ count <= Len(watchers)
          /\ Len(watchers) \in Nat
      BY DEF WInv, Typed, Walks
    <3>2. stack[d].n \in Nat /\ stack[d].n <= count
      BY <2>1, <3>1 DEF Walking, Dispatches, Pushes
    <3> QED
      BY <3>1, <3>2
  <2> QED
    BY <2>1 DEF WInv, Array, ArrayHoldsLive, Unmarked, Distinct
<1> QED
  BY <1>1, WatchInvariant, PTL

(* SDL_PushEvent calls a watcher only while it is registered, and so never *)
(* one that a callback of the same dispatch has removed.                   *)
THEOREM CallsCurrent == ASSUME NotBoth PROVE WatchSpec => CallsCurrentWatchers
<1> DEFINE Right == CallWatcher =>
             LET w == watchers[Top.i].w IN w \in live /\ w \in Top.expect /\ w \notin Top.called
<1>1. WInv => Right
  <2> SUFFICES ASSUME WInv, CallWatcher
               PROVE  watchers[Top.i].w \in live /\ watchers[Top.i].w \in Top.expect
                      /\ watchers[Top.i].w \notin Top.called
    OBVIOUS
  <2>1. stack # <<>> /\ Top.phase = "loop" /\ Dispatches(Top) /\ Top.i <= Top.n
        /\ ~watchers[Top.i].removed
    BY DEF CallWatcher, InLoop, InPhase, Dispatches, Skip
  <2> DEFINE i == Top.i
  <2>2. Walking(Top) /\ i \in Nat /\ i >= 1 /\ Top.n \in Nat /\ Top.n <= count /\ count \in Nat
    BY <2>1, AtSlot
  <2>3. i \in 1..count /\ i \in 1..Top.n
    BY <2>1, <2>2
  <2>4. watchers[i].w \in live
    BY <2>1, <2>3 DEF WInv, Array, Unmarked
  <2>5. watchers[i].w \in Top.expect
    BY <2>1, <2>2, <2>3 DEF Walking
  <2>6. ASSUME watchers[i].w \in Top.called PROVE FALSE
    <3>1. PICK j \in 1..Past(Top) : watchers[j].w = watchers[i].w
      BY <2>1, <2>2, <2>6 DEF Walking
    <3>2. j \in 1..count /\ j # i
      BY <2>1, <2>2, <3>1 DEF Past
    <3> QED
      BY <2>3, <3>1, <3>2 DEF WInv, Array, Distinct
  <2> QED
    BY <2>4, <2>5, <2>6
<1>2. WInv /\ [WatchNext]_watchVars => [Right]_watchVars
  BY <1>1
<1> QED
  BY <1>2, WatchInvariant, PTL DEF WatchSpec, CallsCurrentWatchers

(* And it calls every watcher that was registered when it began and still  *)
(* is.                                                                     *)
THEOREM CallsEvery == ASSUME NotBoth PROVE WatchSpec => CallsEveryWatcher
<1> DEFINE Right == EndDispatch => Top.expect \cap live \subseteq Top.called
<1>1. WInv => Right
  <2> SUFFICES ASSUME WInv, EndDispatch, NEW x \in Top.expect, x \in live PROVE x \in Top.called
    OBVIOUS
  <2>1. stack # <<>> /\ Top.phase = "loop" /\ Dispatches(Top) /\ Top.i > Top.n
    BY DEF EndDispatch, InPhase, Dispatches
  <2>2. Walking(Top) /\ Top.i \in Nat /\ Top.n \in Nat /\ Top.n <= count /\ count \in Nat
        /\ Past(Top) = Top.i - 1
    BY <2>1, AtSlot DEF Past
  <2>3. PICK j \in 1..Top.n : x = watchers[j].w
    BY <2>1, <2>2 DEF Walking
  <2>4. PICK k \in 1..count : ~watchers[k].removed /\ x = watchers[k].w
    BY DEF WInv, Array, Unmarked
  <2>5. j \in 1..count /\ j \in 1..Past(Top)
    BY <2>1, <2>2
  <2>6. j = k
    BY <2>3, <2>4, <2>5 DEF WInv, Array, Distinct
  <2> QED
    BY <2>1, <2>2, <2>3, <2>4, <2>5, <2>6 DEF Walking
<1>2. WInv /\ [WatchNext]_watchVars => [Right]_watchVars
  BY <1>1
<1> QED
  BY <1>2, WatchInvariant, PTL DEF WatchSpec, CallsEveryWatcher

=============================================================================
