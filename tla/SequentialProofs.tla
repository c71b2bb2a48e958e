-------------------------- MODULE SequentialProofs --------------------------
(***************************************************************************)
(* The parts that one thread runs.  What SDL_rect.c computes agrees with   *)
(* sets of points, for rectangles anywhere and of any size and for lists   *)
(* of any length, and a line that is returned is in the rectangle.  What   *)
(* SDL.c counts is what has been taken, whatever is initialized and quit.  *)
(***************************************************************************)
EXTENDS RectLine, Subsystems, WellFoundedInduction, FiniteSetTheorems, SequenceTheorems, TLAPS

-----------------------------------------------------------------------------
(* Least and greatest members.                                             *)
LEMMA MinIs ==
  ASSUME NEW S, NEW m \in S, S \subseteq Int, \A x \in S : m <= x
  PROVE  Min(S) = m
<1>1. \A x \in S : (\A y \in S : x <= y) => x = m
  BY Z3
<1>2. m \in S /\ \A y \in S : m <= y
  BY Z3
<1>3. QED
  BY <1>1, <1>2 DEF Min

LEMMA MaxIs ==
  ASSUME NEW S, NEW m \in S, S \subseteq Int, \A x \in S : x <= m
  PROVE  Max(S) = m
<1>1. \A x \in S : (\A y \in S : x >= y) => x = m
  BY Z3
<1>2. m \in S /\ \A y \in S : m >= y
  BY Z3
<1>3. QED
  BY <1>1, <1>2 DEF Max

-----------------------------------------------------------------------------
(* Boxes of points: the least numbers that a set of points is between.     *)
Box == [minx : Int, maxx : Int, miny : Int, maxy : Int]
Plane == [x : Int, y : Int]

Bounds(b, S) ==
  /\ b \in Box /\ S \subseteq Plane
  /\ \A p \in S : b.minx <= p.x /\ p.x <= b.maxx /\ b.miny <= p.y /\ p.y <= b.maxy
  /\ \E p \in S : p.x = b.minx
  /\ \E p \in S : p.x = b.maxx
  /\ \E p \in S : p.y = b.miny
  /\ \E p \in S : p.y = b.maxy

LEMMA BoundsAround ==
  ASSUME NEW b, NEW S, Bounds(b, S)
  PROVE  S # {} /\ Around(S) = [x : b.minx .. b.maxx, y : b.miny .. b.maxy]
<1> DEFINE xs == {p.x : p \in S}
           ys == {p.y : p \in S}
<1>1. S # {} /\ S \subseteq Plane /\ b \in Box
  BY DEF Bounds
<1>2. xs \subseteq Int /\ ys \subseteq Int
  BY <1>1 DEF Plane
<1>3. b.minx \in xs /\ b.maxx \in xs /\ b.miny \in ys /\ b.maxy \in ys
  BY DEF Bounds
<1>4. /\ \A a \in xs : b.minx <= a /\ a <= b.maxx
      /\ \A a \in ys : b.miny <= a /\ a <= b.maxy
  BY DEF Bounds
<1> HIDE DEF xs, ys
<1>5. Min(xs) = b.minx /\ Max(xs) = b.maxx /\ Min(ys) = b.miny /\ Max(ys) = b.maxy
  BY <1>2, <1>3, <1>4, MinIs, MaxIs
<1>6. Around(S) = [x : Min(xs) .. Max(xs), y : Min(ys) .. Max(ys)]
  BY <1>1 DEF Around, xs, ys
<1>7. QED
  BY <1>1, <1>5, <1>6

LEMMA BoundsOne ==
  ASSUME NEW p \in Plane
  PROVE  Bounds([minx |-> p.x, maxx |-> p.x, miny |-> p.y, maxy |-> p.y], {p})
BY DEF Bounds, Box, Plane

LEMMA BoundsMore ==
  ASSUME NEW b, NEW S, Bounds(b, S), NEW p \in Plane
  PROVE  Bounds(Extend(b, p), S \cup {p})
<1> DEFINE c == Extend(b, p)
<1>1. p.x \in Int /\ p.y \in Int
  BY DEF Plane
<1>2. b \in Box /\ b.minx \in Int /\ b.maxx \in Int /\ b.miny \in Int /\ b.maxy \in Int
  BY DEF Bounds, Box
<1>3. /\ c \in Box
      /\ c.minx = Least(b.minx, p.x) /\ c.maxx = Greatest(b.maxx, p.x)
      /\ c.miny = Least(b.miny, p.y) /\ c.maxy = Greatest(b.maxy, p.y)
  BY <1>1, <1>2 DEF Extend, Box, Least, Greatest
<1> HIDE DEF c
<1>4. S \cup {p} \subseteq Plane
  BY DEF Bounds
<1>5. ASSUME NEW q \in S \cup {p}
      PROVE  c.minx <= q.x /\ q.x <= c.maxx /\ c.miny <= q.y /\ q.y <= c.maxy
  <2>1. q.x \in Int /\ q.y \in Int
    BY <1>4 DEF Plane
  <2>2. CASE q \in S
    <3>1. b.minx <= q.x /\ q.x <= b.maxx /\ b.miny <= q.y /\ q.y <= b.maxy
      BY <2>2 DEF Bounds
    <3>2. QED
      BY <1>1, <1>2, <1>3, <2>1, <3>1 DEF Least, Greatest
  <2>3. CASE q = p
    BY <1>1, <1>2, <1>3, <2>3 DEF Least, Greatest
  <2>4. QED
    BY <2>2, <2>3
<1>6. \E q \in S \cup {p} : q.x = c.minx
  BY <1>3 DEF Bounds, Least
<1>7. \E q \in S \cup {p} : q.x = c.maxx
  BY <1>3 DEF Bounds, Greatest
<1>8. \E q \in S \cup {p} : q.y = c.miny
  BY <1>3 DEF Bounds, Least
<1>9. \E q \in S \cup {p} : q.y = c.maxy
  BY <1>3 DEF Bounds, Greatest
<1>10. QED
  BY <1>3, <1>4, <1>5, <1>6, <1>7, <1>8, <1>9 DEF Bounds, c

-----------------------------------------------------------------------------
(* Two rectangles.                                                         *)
AnyRect == [x : Int, y : Int, w : Int, h : Int]

LEMMA InIs ==
  ASSUME NEW r \in AnyRect, NEW p
  PROVE  p \in In(r) <=> p \in Plane /\ PointInRect(p, r)
BY DEF In, AnyRect, Plane, PointInRect

LEMMA InEmpty ==
  ASSUME NEW r \in AnyRect
  PROVE  In(r) = {} <=> RectEmpty(r)
<1>1. r.x \in Int /\ r.y \in Int /\ r.w \in Int /\ r.h \in Int
  BY DEF AnyRect
<1>2. ASSUME ~RectEmpty(r) PROVE [x |-> r.x, y |-> r.y] \in In(r)
  BY <1>1, <1>2 DEF In, RectEmpty
<1>3. ASSUME RectEmpty(r), NEW p \in In(r) PROVE FALSE
  BY <1>1, <1>3 DEF In, RectEmpty
<1>4. QED
  BY <1>2, <1>3

LEMMA BoundsIn ==
  ASSUME NEW r \in AnyRect, ~RectEmpty(r)
  PROVE  Bounds([minx |-> r.x, maxx |-> Right(r) - 1, miny |-> r.y, maxy |-> Bottom(r) - 1], In(r))
<1>1. r.x \in Int /\ r.y \in Int /\ r.w \in Int /\ r.h \in Int /\ r.w > 0 /\ r.h > 0
  BY DEF AnyRect, RectEmpty
<1>2. In(r) \subseteq Plane
  BY <1>1 DEF In, Plane
<1>3. \A p \in In(r) : /\ r.x <= p.x /\ p.x <= Right(r) - 1
                       /\ r.y <= p.y /\ p.y <= Bottom(r) - 1
  BY <1>1 DEF In, Right, Bottom
<1>4. /\ [x |-> r.x, y |-> r.y] \in In(r)
      /\ [x |-> Right(r) - 1, y |-> Bottom(r) - 1] \in In(r)
  BY <1>1 DEF In, Right, Bottom
<1>5. [minx |-> r.x, maxx |-> Right(r) - 1, miny |-> r.y, maxy |-> Bottom(r) - 1] \in Box
  BY <1>1 DEF Box, Right, Bottom
<1>6. /\ \E p \in In(r) : p.x = r.x
      /\ \E p \in In(r) : p.y = r.y
  BY <1>4
<1>7. /\ \E p \in In(r) : p.x = Right(r) - 1
      /\ \E p \in In(r) : p.y = Bottom(r) - 1
  BY <1>4
<1>8. QED
  BY <1>2, <1>3, <1>5, <1>6, <1>7 DEF Bounds

(* The bounds of two sets are the bounds of both.                          *)
Merge(b, c) ==
  [minx |-> Least(b.minx, c.minx), maxx |-> Greatest(b.maxx, c.maxx),
   miny |-> Least(b.miny, c.miny), maxy |-> Greatest(b.maxy, c.maxy)]

LEMMA BoundsBoth ==
  ASSUME NEW b, NEW c, NEW S, NEW T, Bounds(b, S), Bounds(c, T)
  PROVE  Bounds(Merge(b, c), S \cup T)
<1> DEFINE m == Merge(b, c)
<1>1. /\ b.minx \in Int /\ b.maxx \in Int /\ b.miny \in Int /\ b.maxy \in Int
      /\ c.minx \in Int /\ c.maxx \in Int /\ c.miny \in Int /\ c.maxy \in Int
  BY DEF Bounds, Box
<1>2. /\ m \in Box
      /\ m.minx = Least(b.minx, c.minx) /\ m.maxx = Greatest(b.maxx, c.maxx)
      /\ m.miny = Least(b.miny, c.miny) /\ m.maxy = Greatest(b.maxy, c.maxy)
  BY <1>1 DEF Merge, Box, Least, Greatest
<1> HIDE DEF m
<1>3. S \cup T \subseteq Plane
  BY DEF Bounds
<1>4. ASSUME NEW q \in S \cup T
      PROVE  m.minx <= q.x /\ q.x <= m.maxx /\ m.miny <= q.y /\ q.y <= m.maxy
  <2>1. q.x \in Int /\ q.y \in Int
    BY <1>3 DEF Plane
  <2>2. CASE q \in S
    <3>1. b.minx <= q.x /\ q.x <= b.maxx /\ b.miny <= q.y /\ q.y <= b.maxy
      BY <2>2 DEF Bounds
    <3>2. QED
      BY <1>1, <1>2, <2>1, <3>1 DEF Least, Greatest
  <2>3. CASE q \in T
    <3>1. c.minx <= q.x /\ q.x <= c.maxx /\ c.miny <= q.y /\ q.y <= c.maxy
      BY <2>3 DEF Bounds
    <3>2. QED
      BY <1>1, <1>2, <2>1, <3>1 DEF Least, Greatest
  <2>4. QED
    BY <2>2, <2>3
<1>6. \E q \in S \cup T : q.x = m.minx
  BY <1>2 DEF Bounds, Least
<1>7. \E q \in S \cup T : q.x = m.maxx
  BY <1>2 DEF Bounds, Greatest
<1>8. \E q \in S \cup T : q.y = m.miny
  BY <1>2 DEF Bounds, Least
<1>9. \E q \in S \cup T : q.y = m.maxy
  BY <1>2 DEF Bounds, Greatest
<1>10. QED
  BY <1>2, <1>3, <1>4, <1>6, <1>7, <1>8, <1>9 DEF Bounds, m

(* The rectangle of a box, and its points.                                 *)
LEMMA BoxPoints ==
  ASSUME NEW b \in Box, NEW r, r.x = b.minx, r.y = b.miny,
         r.w = b.maxx - b.minx + 1, r.h = b.maxy - b.miny + 1
  PROVE  In(r) = [x : b.minx .. b.maxx, y : b.miny .. b.maxy]
<1>1. r.x + r.w - 1 = b.maxx /\ r.y + r.h - 1 = b.maxy
  BY DEF Box
<1>2. QED
  BY <1>1 DEF In

LEMMA UnionOfTwo ==
  ASSUME NEW A \in AnyRect, NEW B \in AnyRect
  PROVE  In(GetRectUnion(A, B)) = Around(In(A) \cup In(B))
<1>1. CASE RectEmpty(A) /\ RectEmpty(B)
  <2>1. In(A) \cup In(B) = {}
    BY <1>1, InEmpty
  <2>2. GetRectUnion(A, B) = [x |-> 0, y |-> 0, w |-> 0, h |-> 0]
    BY <1>1 DEF GetRectUnion
  <2>3. In([x |-> 0, y |-> 0, w |-> 0, h |-> 0]) = {}
    BY InEmpty DEF AnyRect, RectEmpty
  <2>4. QED
    BY <2>1, <2>2, <2>3 DEF Around
<1>2. ASSUME NEW r \in AnyRect, ~RectEmpty(r) PROVE In(r) = Around(In(r))
  <2> DEFINE b == [minx |-> r.x, maxx |-> Right(r) - 1, miny |-> r.y, maxy |-> Bottom(r) - 1]
  <2>1. Bounds(b, In(r))
    BY <1>2, BoundsIn
  <2>2. b.minx = r.x /\ b.maxx = r.x + r.w - 1 /\ b.miny = r.y /\ b.maxy = r.y + r.h - 1
    <3>1. r.x \in Int /\ r.y \in Int /\ r.w \in Int /\ r.h \in Int
      BY DEF AnyRect
    <3>2. QED
      BY <3>1 DEF Right, Bottom
  <2> HIDE DEF b
  <2>3. Around(In(r)) = [x : b.minx .. b.maxx, y : b.miny .. b.maxy]
    BY <2>1, BoundsAround
  <2>4. QED
    BY <2>2, <2>3 DEF In
<1>3. CASE RectEmpty(A) /\ ~RectEmpty(B)
  <2>1. In(A) \cup In(B) = In(B)
    BY <1>3, InEmpty
  <2>2. GetRectUnion(A, B) = B
    BY <1>3 DEF GetRectUnion
  <2>3. QED
    BY <1>2, <1>3, <2>1, <2>2
<1>4. CASE ~RectEmpty(A) /\ RectEmpty(B)
  <2>1. In(A) \cup In(B) = In(A)
    BY <1>4, InEmpty
  <2>2. GetRectUnion(A, B) = A
    BY <1>4 DEF GetRectUnion
  <2>3. QED
    BY <1>2, <1>4, <2>1, <2>2
<1>5. CASE ~RectEmpty(A) /\ ~RectEmpty(B)
  <2> DEFINE a == [minx |-> A.x, maxx |-> Right(A) - 1, miny |-> A.y, maxy |-> Bottom(A) - 1]
             b == [minx |-> B.x, maxx |-> Right(B) - 1, miny |-> B.y, maxy |-> Bottom(B) - 1]
             m == Merge(a, b)
             u == GetRectUnion(A, B)
  <2>1. Bounds(a, In(A)) /\ Bounds(b, In(B))
    BY <1>5, BoundsIn
  <2>2. Bounds(m, In(A) \cup In(B))
    <3> HIDE DEF a, b
    <3> QED BY <2>1, BoundsBoth
  <2>3. /\ A.x \in Int /\ A.y \in Int /\ Right(A) \in Int /\ Bottom(A) \in Int
        /\ B.x \in Int /\ B.y \in Int /\ Right(B) \in Int /\ Bottom(B) \in Int
    BY DEF AnyRect, Right, Bottom
  <2>4. /\ m.minx = Least(A.x, B.x) /\ m.maxx = Greatest(Right(A) - 1, Right(B) - 1)
        /\ m.miny = Least(A.y, B.y) /\ m.maxy = Greatest(Bottom(A) - 1, Bottom(B) - 1)
    BY DEF Merge
  <2>5. /\ u.x = Least(A.x, B.x) /\ u.w = Greatest(Right(A), Right(B)) - Least(A.x, B.x)
        /\ u.y = Least(A.y, B.y) /\ u.h = Greatest(Bottom(A), Bottom(B)) - Least(A.y, B.y)
    BY <1>5 DEF GetRectUnion
  <2>6. /\ Greatest(Right(A) - 1, Right(B) - 1) = Greatest(Right(A), Right(B)) - 1
        /\ Greatest(Bottom(A) - 1, Bottom(B) - 1) = Greatest(Bottom(A), Bottom(B)) - 1
    BY <2>3 DEF Greatest
  <2>7. m \in Box
    BY <2>2 DEF Bounds
  <2>8. /\ Greatest(Right(A), Right(B)) \in Int /\ Greatest(Bottom(A), Bottom(B)) \in Int
        /\ Least(A.x, B.x) \in Int /\ Least(A.y, B.y) \in Int
    BY <2>3 DEF Greatest, Least
  <2> HIDE DEF m, u
  <2>9. /\ u.x = m.minx /\ u.w = m.maxx - m.minx + 1
        /\ u.y = m.miny /\ u.h = m.maxy - m.miny + 1
    BY <2>4, <2>5, <2>6, <2>8
  <2>10. In(u) = [x : m.minx .. m.maxx, y : m.miny .. m.maxy]
    BY <2>7, <2>9, BoxPoints
  <2>11. QED
    BY <2>2, <2>10, BoundsAround DEF u
<1>6. QED
  BY <1>1, <1>3, <1>4, <1>5

LEMMA IntersectionOfTwo ==
  ASSUME NEW A \in AnyRect, NEW B \in AnyRect, NEW i, i = GetRectIntersection(A, B, A)
  PROVE  /\ In(i.result) = In(A) \cap In(B)
         /\ i.returns <=> In(i.result) # {}
         /\ i.returns <=> HasRectIntersection(A, B)
<1>1. /\ A.x \in Int /\ A.y \in Int /\ A.w \in Int /\ A.h \in Int
      /\ B.x \in Int /\ B.y \in Int /\ B.w \in Int /\ B.h \in Int
  BY DEF AnyRect
<1>2. CASE RectEmpty(A) \/ RectEmpty(B)
  <2> DEFINE r == [A EXCEPT !.w = 0, !.h = 0]
  <2>1. i.returns = FALSE /\ i.result = r
    BY <1>2 DEF GetRectIntersection
  <2>2. r.x = A.x /\ r.w = 0
    BY DEF AnyRect
  <2>3. In(r) = {}
    <3>1. r.x .. r.x + r.w - 1 = {}
      BY <1>1, <2>2
    <3> HIDE DEF r
    <3>2. QED
      BY <3>1 DEF In
  <2>4. In(A) \cap In(B) = {}
    BY <1>2, InEmpty
  <2>5. QED
    BY <1>2, <2>1, <2>3, <2>4 DEF HasRectIntersection
<1>3. CASE ~RectEmpty(A) /\ ~RectEmpty(B)
  <2> DEFINE x0 == Greatest(A.x, B.x)
             y0 == Greatest(A.y, B.y)
             x9 == Least(Right(A), Right(B))
             y9 == Least(Bottom(A), Bottom(B))
             r == [x |-> x0, y |-> y0, w |-> x9 - x0, h |-> y9 - y0]
  <2>1. i.returns = ~RectEmpty(r) /\ i.result = r
    BY <1>3 DEF GetRectIntersection
  <2>2. x0 \in Int /\ y0 \in Int /\ x9 \in Int /\ y9 \in Int
    BY <1>1 DEF Greatest, Least, Right, Bottom
  <2>3. r \in AnyRect
    BY <2>2 DEF AnyRect
  <2>4. ASSUME NEW p \in Plane
        PROVE  PointInRect(p, r) <=> PointInRect(p, A) /\ PointInRect(p, B)
    <3>1. p.x \in Int /\ p.y \in Int
      BY DEF Plane
    <3>2. p.x \in r.x .. r.x + r.w - 1 <=> x0 <= p.x /\ p.x < x9
      BY <2>2, <3>1
    <3>3. p.y \in r.y .. r.y + r.h - 1 <=> y0 <= p.y /\ p.y < y9
      BY <2>2, <3>1
    <3>4. x0 <= p.x /\ p.x < x9 <=> /\ p.x \in A.x .. A.x + A.w - 1
                                    /\ p.x \in B.x .. B.x + B.w - 1
      BY <1>1, <3>1 DEF Greatest, Least, Right
    <3>5. y0 <= p.y /\ p.y < y9 <=> /\ p.y \in A.y .. A.y + A.h - 1
                                    /\ p.y \in B.y .. B.y + B.h - 1
      BY <1>1, <3>1 DEF Greatest, Least, Bottom
    <3>6. QED
      BY <3>2, <3>3, <3>4, <3>5 DEF PointInRect
  <2>5. In(r) = In(A) \cap In(B)
    <3> HIDE DEF r
    <3> QED BY <2>3, <2>4, InIs
  <2>6. RectEmpty(r) <=> ~HasRectIntersection(A, B)
    BY <1>3, <2>2 DEF RectEmpty, HasRectIntersection
  <2>7. In(r) = {} <=> RectEmpty(r)
    <3> HIDE DEF r
    <3> QED BY <2>3, InEmpty
  <2>8. QED
    BY <2>1, <2>5, <2>6, <2>7
<1>4. QED
  BY <1>2, <1>3

-----------------------------------------------------------------------------
(* Passes over lists.  A set that has 0 and with each number the next one  *)
(* has them all: if not, the least number outside of it would refute that. *)
LEMMA Induction ==
  ASSUME NEW T, 0 \in T, \A n \in Nat : n \in T => n + 1 \in T
  PROVE  Nat \subseteq T
<1>1. SUFFICES ASSUME Nat \ T # {} PROVE FALSE
  OBVIOUS
<1>2. PICK m \in Nat \ T : \A y \in Nat \ T : ~ (<<y, m>> \in OpToRel(<, Nat))
  BY <1>1, NatLessThanWellFounded, WFMin
<1>3. m \in Nat /\ m \notin T
  OBVIOUS
<1>4. m # 0 /\ m - 1 \in Nat
  BY <1>3
<1>5. m - 1 \notin T
  <2>1. (m - 1) + 1 = m
    BY <1>3
  <2>2. QED
  BY <1>3, <1>4, <2>1
<1>6. <<m - 1, m>> \in OpToRel(<, Nat)
  BY <1>3, <1>4 DEF OpToRel
<1>7. QED
  BY <1>2, <1>4, <1>5, <1>6

(* A part of 1..n that is not empty has a greatest member.                 *)
LEMMA MaxOfPart ==
  ASSUME NEW n \in Nat, NEW s \in SUBSET (1..n), s # {}
  PROVE  Max(s) \in s /\ \A x \in s : x <= Max(s)
<1>1. ASSUME NEW k \in Nat, \A t \in SUBSET (1..k) : t # {} => \E m \in t : \A x \in t : x <= m
      PROVE \A t \in SUBSET (1..k+1) : t # {} => \E m \in t : \A x \in t : x <= m
  <2>1. TAKE t \in SUBSET (1..k+1)
  <2>2. CASE k + 1 \in t
    <3>1. \A x \in t : x <= k + 1
      OBVIOUS
    <3>2. QED
      BY <2>2, <3>1
  <2>3. CASE k + 1 \notin t
    <3>1. t \in SUBSET (1..k)
      BY <2>3
    <3>2. QED
      BY <1>1, <3>1
  <2>4. QED
    BY <2>2, <2>3
<1> DEFINE T == {k \in Nat : \A t \in SUBSET (1..k) : t # {} => \E m \in t : \A x \in t : x <= m}
<1>2. 0 \in T
  <2>1. 1..0 = {}
    OBVIOUS
  <2>2. \A t \in SUBSET (1..0) : t = {}
    BY <2>1
  <2>3. QED
    BY <2>2
<1>3. \A k \in Nat : k \in T => k + 1 \in T
  BY <1>1
<1>4. Nat \subseteq T
  <2> HIDE DEF T
  <2> QED BY <1>2, <1>3, Induction
<1>5. PICK m \in s : \A x \in s : x <= m
  BY <1>4
<1>6. Max(s) = m
  <2>1. s \subseteq Int
    OBVIOUS
  <2>2. QED
    BY <1>5, <2>1, MaxIs
<1>7. QED
  BY <1>5, <1>6

(* What the library's fold of a list computes on parts of its indices,     *)
(* for a step that is a function: it keeps to the values of the step.      *)
FoldEq(f, values, base, step, n) ==
  /\ f \in [SUBSET (1..n) -> values]
  /\ \A s \in SUBSET (1..n) :
       f[s] = IF s = {} THEN base ELSE step[f[s \ {Max(s)}], Max(s)]

LEMMA FoldExists ==
  ASSUME NEW values, NEW base \in values, NEW m \in Nat, NEW step \in [values \X (1..m) -> values]
  PROVE  \E f : FoldEq(f, values, base, step, m)
<1> DEFINE T == {k \in Nat : k <= m => \E f : FoldEq(f, values, base, step, k)}
<1>1. 0 \in T
  <2> DEFINE f == [s \in SUBSET (1..0) |-> base]
  <2>1. SUBSET (1..0) = {{}}
    OBVIOUS
  <2>2. FoldEq(f, values, base, step, 0)
    BY <2>1 DEF FoldEq
  <2>3. QED
    BY <2>2
<1>2. ASSUME NEW k \in Nat, k \in T PROVE k + 1 \in T
  <2>1. SUFFICES ASSUME k + 1 <= m PROVE \E f : FoldEq(f, values, base, step, k + 1)
    OBVIOUS
  <2>2. PICK g : FoldEq(g, values, base, step, k)
    BY <1>2, <2>1
  <2>3. k + 1 \in 1..m
    BY <2>1
  <2> HIDE DEF T
  <2> DEFINE f == [s \in SUBSET (1..k+1) |->
                     IF k + 1 \in s THEN step[g[s \ {k + 1}], k + 1] ELSE g[s]]
  <2>4. \A s \in SUBSET (1..k+1) : s \ {k + 1} \in SUBSET (1..k)
    <3>1. \A x \in 1..k+1 : x # k + 1 => x \in 1..k
      OBVIOUS
    <3>2. QED
      BY <3>1
  <2>5. \A s \in SUBSET (1..k) : g[s] \in values
    BY <2>2 DEF FoldEq
  <2>6. f \in [SUBSET (1..k+1) -> values]
    <3>1. ASSUME NEW s \in SUBSET (1..k+1)
          PROVE  (IF k + 1 \in s THEN step[g[s \ {k + 1}], k + 1] ELSE g[s]) \in values
      <4>1. g[s \ {k + 1}] \in values
        BY <2>4, <2>5
      <4>2. step[g[s \ {k + 1}], k + 1] \in values
        BY <2>3, <4>1
      <4>3. k + 1 \notin s => s = s \ {k + 1}
        OBVIOUS
      <4>4. QED
        BY <4>1, <4>2, <4>3
    <3>2. QED
      BY <3>1
  <2>7. ASSUME NEW s \in SUBSET (1..k+1)
        PROVE f[s] = IF s = {} THEN base ELSE step[f[s \ {Max(s)}], Max(s)]
    <3>1. CASE k + 1 \in s
      <4>1. Max(s) = k + 1
        <5>1. \A x \in s : x <= k + 1
          OBVIOUS
        <5>2. s \subseteq Int
          OBVIOUS
        <5>3. QED
          BY <3>1, <5>1, <5>2, MaxIs
      <4>2. s \ {k + 1} \in SUBSET (1..k+1) /\ s # {}
        BY <3>1
      <4>3. f[s \ {k + 1}] = g[s \ {k + 1}]
        BY <4>2
      <4>4. f[s] = step[g[s \ {k + 1}], k + 1]
        BY <3>1
      <4>5. QED
        BY <4>1, <4>2, <4>3, <4>4
    <3>2. CASE k + 1 \notin s
      <4>1. s \in SUBSET (1..k)
        BY <3>2, <2>4
      <4>2. f[s] = g[s]
        BY <3>2
      <4>3. g[s] = IF s = {} THEN base ELSE step[g[s \ {Max(s)}], Max(s)]
        BY <2>2, <4>1 DEF FoldEq
      <4>4. s \ {Max(s)} \in SUBSET (1..k+1) /\ k + 1 \notin s \ {Max(s)}
        BY <3>2
      <4>5. f[s \ {Max(s)}] = g[s \ {Max(s)}]
        BY <4>4
      <4>6. QED
        BY <4>2, <4>3, <4>5
    <3>3. QED
      BY <3>1, <3>2
  <2>8. FoldEq(f, values, base, step, k + 1)
    <3> HIDE DEF f
    <3>1. QED
      BY <2>6, <2>7 DEF FoldEq
  <2>9. QED
    BY <2>8
<1>3. Nat \subseteq T
  <2> HIDE DEF T
  <2> QED BY <1>1, <1>2, Induction
<1>4. m \in T
  BY <1>3
<1>5. QED
  BY <1>4

(* The indices up to k + 1 are those up to k and k + 1, the greatest.      *)
LEMMA FirstIndices ==
  ASSUME NEW n \in Nat, NEW k \in 0..n - 1
  PROVE  /\ 1..k+1 \in SUBSET (1..n) /\ 1..k+1 # {} /\ Max(1..k+1) = k + 1
         /\ (1..k+1) \ {k + 1} = 1..k
<1>1. k \in Nat /\ k + 1 <= n
  OBVIOUS
<1>2. \A x \in 1..k+1 : x \in 1..n
  BY <1>1
<1>3. k + 1 \in 1..k+1
  BY <1>1
<1>4. Max(1..k+1) = k + 1
  <2> DEFINE s == 1..k+1
  <2>1. s \subseteq Int /\ k + 1 \in s /\ \A x \in s : x <= k + 1
    BY <1>1
  <2> HIDE DEF s
  <2>2. Max(s) = k + 1
    BY <2>1, MaxIs
  <2>3. QED
    BY <2>2 DEF s
<1>5. (1..k+1) \ {k + 1} = 1..k
  BY <1>1
<1>6. QED
  BY <1>2, <1>3, <1>4, <1>5

-----------------------------------------------------------------------------
(* The pass over points: the boxes after the first k of them.              *)
IncludeEq(f, points, clip) ==
  f = [s \in SUBSET (DOMAIN points) |->
         IF s = {} THEN {} ELSE Include(f[s \ {Max(s)}], points[Max(s)], clip)]

Boxes(points, clip) ==
  LET include(boxes, p) == Include(boxes, p, clip) IN FoldLeft(include, {}, points)

BoxesOf(points, clip, k) == (CHOOSE f : IncludeEq(f, points, clip))[1..k]

LEMMA BoxesIs ==
  ASSUME NEW points, NEW clip
  PROVE  Boxes(points, clip) = (CHOOSE f : IncludeEq(f, points, clip))[DOMAIN points]
BY DEF Boxes, FoldLeft, MapThenFoldSet, IncludeEq

LEMMA IncludeSteps ==
  ASSUME NEW n \in Nat, NEW points \in [1..n -> Plane], NEW clip
  PROVE  /\ BoxesOf(points, clip, 0) = {}
         /\ \A k \in 0..n - 1 :
              BoxesOf(points, clip, k + 1) = Include(BoxesOf(points, clip, k), points[k + 1], clip)
         /\ Boxes(points, clip) = BoxesOf(points, clip, n)
<1> DEFINE f == CHOOSE g : IncludeEq(g, points, clip)
           step == [a \in (SUBSET Box) \X (1..n) |-> Include(a[1], points[a[2]], clip)]
<1>1. \A b \in SUBSET Box : \A p \in Plane : Include(b, p, clip) \in SUBSET Box
  <2>1. TAKE b \in SUBSET Box
  <2>2. TAKE p \in Plane
  <2>3. p.x \in Int /\ p.y \in Int
    BY DEF Plane
  <2>4. [minx |-> p.x, maxx |-> p.x, miny |-> p.y, maxy |-> p.y] \in Box
    BY <2>3 DEF Box
  <2>5. \A c \in Box : Extend(c, p) \in Box
    BY <2>3 DEF Box, Extend, Least, Greatest
  <2>6. QED
    BY <2>4, <2>5 DEF Include
<1>2. step \in [(SUBSET Box) \X (1..n) -> SUBSET Box]
  BY <1>1
<1>3. \A b \in SUBSET Box : \A i \in 1..n : step[b, i] = Include(b, points[i], clip)
  OBVIOUS
<1> HIDE DEF step
<1>4. PICK g : FoldEq(g, SUBSET Box, {}, step, n)
  BY <1>2, FoldExists
<1>5. IncludeEq(g, points, clip)
  <2>1. ASSUME NEW s \in SUBSET (1..n), s # {}
        PROVE  g[s] = Include(g[s \ {Max(s)}], points[Max(s)], clip)
    <3>1. g[s] = step[g[s \ {Max(s)}], Max(s)]
      BY <1>4, <2>1 DEF FoldEq
    <3>2. g[s \ {Max(s)}] \in SUBSET Box
      BY <1>4 DEF FoldEq
    <3>3. Max(s) \in 1..n
      BY <2>1, MaxOfPart
    <3>4. QED
      BY <1>3, <3>1, <3>2, <3>3
  <2>2. g = [s \in SUBSET (1..n) |-> g[s]] /\ g[{}] = {}
    BY <1>4 DEF FoldEq
  <2>3. QED
    BY <2>1, <2>2 DEF IncludeEq
<1>6. IncludeEq(f, points, clip)
  BY <1>5
<1>7. Boxes(points, clip) = f[1..n]
  BY BoxesIs
<1>8. \A k : BoxesOf(points, clip, k) = f[1..k]
  BY DEF BoxesOf
<1> HIDE DEF f
<1>9. f[1..0] = {}
  <2>1. 1..0 = {} /\ {} \in SUBSET (1..n)
    OBVIOUS
  <2>2. QED
    BY <1>6, <2>1 DEF IncludeEq
<1>10. ASSUME NEW k \in 0..n - 1 PROVE f[1..k+1] = Include(f[1..k], points[k + 1], clip)
  <2> DEFINE s == 1..k+1
  <2>1. s \in SUBSET (1..n) /\ s # {} /\ Max(s) = k + 1 /\ s \ {k + 1} = 1..k
    BY FirstIndices
  <2> HIDE DEF s
  <2>2. f[s] = Include(f[s \ {Max(s)}], points[Max(s)], clip)
    BY <1>6, <2>1 DEF IncludeEq
  <2>3. QED
    BY <2>1, <2>2 DEF s
<1>11. QED
  BY <1>7, <1>8, <1>9, <1>10

(* The points among the first k that are in the clip.                      *)
Found(points, clip, k) == {points[i] : i \in {j \in 1..k : ~Skipped(points[j], clip)}}

(* After k points there is a box when one of them is in the clip, and then *)
(* it bounds those.                                                        *)
BoxesRight(boxes, S) ==
  \/ S = {} /\ boxes = {}
  \/ \E b : boxes = {b} /\ Bounds(b, S)

LEMMA IncludeRight ==
  ASSUME NEW boxes, NEW S, BoxesRight(boxes, S), NEW p \in Plane, NEW clip
  PROVE  BoxesRight(Include(boxes, p, clip), IF Skipped(p, clip) THEN S ELSE S \cup {p})
<1>1. CASE Skipped(p, clip)
  BY <1>1 DEF Include
<1>2. CASE ~Skipped(p, clip) /\ S = {} /\ boxes = {}
  <2> DEFINE b == [minx |-> p.x, maxx |-> p.x, miny |-> p.y, maxy |-> p.y]
  <2>1. Include(boxes, p, clip) = {b} /\ S \cup {p} = {p}
    BY <1>2 DEF Include
  <2>2. Bounds(b, {p})
    BY BoundsOne
  <2>3. QED
    BY <1>2, <2>1, <2>2 DEF BoxesRight
<1>3. ASSUME ~Skipped(p, clip), NEW b, boxes = {b}, Bounds(b, S)
      PROVE  BoxesRight(Include(boxes, p, clip), S \cup {p})
  <2>1. Include(boxes, p, clip) = {Extend(b, p)}
    BY <1>3 DEF Include
  <2>2. Bounds(Extend(b, p), S \cup {p})
    BY <1>3, BoundsMore
  <2>3. QED
    BY <2>1, <2>2 DEF BoxesRight
<1>4. QED
  BY <1>1, <1>2, <1>3 DEF BoxesRight

LEMMA BoxesBound ==
  ASSUME NEW n \in Nat, NEW points \in [1..n -> Plane], NEW clip
  PROVE  BoxesRight(Boxes(points, clip), Found(points, clip, n))
<1>0. \A k \in 0..n - 1 : BoxesOf(points, clip, k + 1)
                          = Include(BoxesOf(points, clip, k), points[k + 1], clip)
  BY IncludeSteps
<1> DEFINE T == {k \in Nat : k <= n => BoxesRight(BoxesOf(points, clip, k), Found(points, clip, k))}
<1>1. 0 \in T
  <2>1. Found(points, clip, 0) = {}
    BY DEF Found
  <2>2. BoxesOf(points, clip, 0) = {}
    BY IncludeSteps
  <2>3. QED
    BY <2>1, <2>2 DEF BoxesRight
<1>2. ASSUME NEW k \in Nat, k \in T PROVE k + 1 \in T
  <2>1. SUFFICES ASSUME k + 1 <= n
                 PROVE  BoxesRight(BoxesOf(points, clip, k + 1), Found(points, clip, k + 1))
    OBVIOUS
  <2>2. k \in 0..n - 1 /\ k + 1 \in 1..n
    BY <2>1
  <2>3. BoxesRight(BoxesOf(points, clip, k), Found(points, clip, k))
    BY <1>2, <2>1
  <2> HIDE DEF T
  <2> DEFINE p == points[k + 1]
             S == Found(points, clip, k)
  <2>4. p \in Plane
    BY <2>2
  <2>5. Found(points, clip, k + 1) = IF Skipped(p, clip) THEN S ELSE S \cup {p}
    <3>1. 1..k+1 = (1..k) \cup {k + 1}
      OBVIOUS
    <3>2. QED
      BY <3>1 DEF Found
  <2>6. BoxesOf(points, clip, k + 1) = Include(BoxesOf(points, clip, k), p, clip)
    BY <1>0, <2>2
  <2> HIDE DEF p, S
  <2>7. BoxesRight(BoxesOf(points, clip, k), S)
    BY <2>3 DEF S
  <2>8. BoxesRight(Include(BoxesOf(points, clip, k), p, clip),
                   IF Skipped(p, clip) THEN S ELSE S \cup {p})
    BY <2>4, <2>7, IncludeRight
  <2>9. QED
    BY <2>5, <2>6, <2>8
<1>3. Nat \subseteq T
  <2> HIDE DEF T
  <2> QED BY <1>1, <1>2, Induction
<1>4. BoxesRight(BoxesOf(points, clip, n), Found(points, clip, n))
  BY <1>3
<1>5. Boxes(points, clip) = BoxesOf(points, clip, n)
  BY IncludeSteps
<1>6. QED
  BY <1>4, <1>5

LEMMA EnclosingOfPoints ==
  ASSUME NEW n \in Nat, NEW points \in [1..n -> Plane], NEW clip, clip \subseteq AnyRect,
         NEW found, found = GetRectEnclosingPoints(points, clip),
         NEW wanted, wanted = {p \in Range(points) : \A c \in clip : PointInRect(p, c)}
  PROVE  /\ found = {} <=> wanted = {}
         /\ \A r \in found : In(r) = Around(wanted)
<1>1. wanted = Found(points, clip, n)
  <2>1. DOMAIN points = 1..n
    OBVIOUS
  <2>2. \A p : Skipped(p, clip) <=> ~ \A c \in clip : PointInRect(p, c)
    BY DEF Skipped
  <2>3. QED
    BY <2>1, <2>2 DEF Found, Range
<1>2. CASE \E c \in clip : RectEmpty(c)
  <2>1. found = {}
    BY <1>2 DEF GetRectEnclosingPoints
  <2>2. \A p \in Plane : \A c \in AnyRect : RectEmpty(c) => ~PointInRect(p, c)
    BY DEF Plane, AnyRect, RectEmpty, PointInRect
  <2>3. Range(points) \subseteq Plane
    BY DEF Range
  <2>4. wanted = {}
    BY <1>2, <2>2, <2>3
  <2>5. QED
    BY <2>1, <2>4
<1>3. CASE ~ \E c \in clip : RectEmpty(c)
  <2> DEFINE rect(b) == [x |-> b.minx, y |-> b.miny,
                         w |-> b.maxx - b.minx + 1, h |-> b.maxy - b.miny + 1]
  <2>1. found = {rect(b) : b \in Boxes(points, clip)}
    BY <1>3 DEF GetRectEnclosingPoints, Boxes
  <2>2. BoxesRight(Boxes(points, clip), wanted)
    BY <1>1, BoxesBound
  <2>3. ASSUME NEW b, Bounds(b, wanted)
        PROVE  wanted # {} /\ In(rect(b)) = Around(wanted)
    <3>1. b \in Box
      BY <2>3 DEF Bounds
    <3>2. /\ rect(b).x = b.minx /\ rect(b).y = b.miny
          /\ rect(b).w = b.maxx - b.minx + 1 /\ rect(b).h = b.maxy - b.miny + 1
      OBVIOUS
    <3> HIDE DEF rect
    <3>3. In(rect(b)) = [x : b.minx .. b.maxx, y : b.miny .. b.maxy]
      BY <3>1, <3>2, BoxPoints
    <3>4. QED
      BY <2>3, <3>3, BoundsAround
  <2> HIDE DEF rect
  <2>4. QED
    BY <2>1, <2>2, <2>3 DEF BoxesRight
<1>4. QED
  BY <1>2, <1>3

-----------------------------------------------------------------------------
(* The pass over rectangles: the rows after the first k of them.           *)
Rows2 == [y1 : Int, y2 : Int]

ExpandEq(f, height, rects) ==
  f = [s \in SUBSET (DOMAIN rects) |->
         IF s = {} THEN [y1 |-> height, y2 |-> 0]
                   ELSE Expand(f[s \ {Max(s)}], rects[Max(s)], height)]

SpanAll(height, rects) ==
  LET expand(span, r) == Expand(span, r, height) IN
  FoldLeft(expand, [y1 |-> height, y2 |-> 0], rects)

SpanOf(height, rects, k) == (CHOOSE f : ExpandEq(f, height, rects))[1..k]

LEMMA SpanIs ==
  ASSUME NEW height, NEW rects
  PROVE  SpanAll(height, rects) = (CHOOSE f : ExpandEq(f, height, rects))[DOMAIN rects]
BY DEF SpanAll, FoldLeft, MapThenFoldSet, ExpandEq

LEMMA ExpandSteps ==
  ASSUME NEW n \in Nat, NEW rects \in [1..n -> AnyRect], NEW height \in Int
  PROVE  /\ SpanOf(height, rects, 0) = [y1 |-> height, y2 |-> 0]
         /\ \A k \in 0..n - 1 :
              SpanOf(height, rects, k + 1) = Expand(SpanOf(height, rects, k), rects[k + 1], height)
         /\ SpanAll(height, rects) = SpanOf(height, rects, n)
<1> DEFINE f == CHOOSE h0 : ExpandEq(h0, height, rects)
           none == [y1 |-> height, y2 |-> 0]
           step == [a \in Rows2 \X (1..n) |-> Expand(a[1], rects[a[2]], height)]
<1>1. \A span \in Rows2 : \A r \in AnyRect : Expand(span, r, height) \in Rows2
  <2>1. TAKE span \in Rows2
  <2>2. TAKE r \in AnyRect
  <2>3. r.y \in Int /\ Bottom(r) \in Int /\ span.y1 \in Int /\ span.y2 \in Int
    BY DEF AnyRect, Bottom, Rows2
  <2>4. QED
    BY <2>3 DEF Expand, SpanStart, SpanEnd, Rows2
<1>2. step \in [Rows2 \X (1..n) -> Rows2]
  BY <1>1
<1>3. \A b \in Rows2 : \A i \in 1..n : step[b, i] = Expand(b, rects[i], height)
  OBVIOUS
<1>12. none \in Rows2
  BY DEF Rows2
<1> HIDE DEF step, none
<1>4. PICK g : FoldEq(g, Rows2, none, step, n)
  BY <1>2, <1>12, FoldExists
<1>5. ExpandEq(g, height, rects)
  <2>1. ASSUME NEW s \in SUBSET (1..n), s # {}
        PROVE  g[s] = Expand(g[s \ {Max(s)}], rects[Max(s)], height)
    <3>1. g[s] = step[g[s \ {Max(s)}], Max(s)]
      BY <1>4, <2>1 DEF FoldEq
    <3>2. g[s \ {Max(s)}] \in Rows2
      BY <1>4 DEF FoldEq
    <3>3. Max(s) \in 1..n
      BY <2>1, MaxOfPart
    <3>4. QED
      BY <1>3, <3>1, <3>2, <3>3
  <2>2. g = [s \in SUBSET (1..n) |-> g[s]] /\ g[{}] = none
    BY <1>4 DEF FoldEq
  <2>3. QED
    BY <2>1, <2>2 DEF ExpandEq, none
<1>6. ExpandEq(f, height, rects)
  BY <1>5
<1>7. SpanAll(height, rects) = f[1..n]
  BY SpanIs
<1>8. \A k : SpanOf(height, rects, k) = f[1..k]
  BY DEF SpanOf
<1> HIDE DEF f
<1>9. f[1..0] = [y1 |-> height, y2 |-> 0]
  <2>1. 1..0 = {} /\ {} \in SUBSET (1..n)
    OBVIOUS
  <2>2. QED
    BY <1>6, <2>1 DEF ExpandEq
<1>10. ASSUME NEW k \in 0..n - 1 PROVE f[1..k+1] = Expand(f[1..k], rects[k + 1], height)
  <2> DEFINE s == 1..k+1
  <2>1. s \in SUBSET (1..n) /\ s # {} /\ Max(s) = k + 1 /\ s \ {k + 1} = 1..k
    BY FirstIndices
  <2> HIDE DEF s
  <2>2. f[s] = Expand(f[s \ {Max(s)}], rects[Max(s)], height)
    BY <1>6, <2>1 DEF ExpandEq
  <2>3. QED
    BY <2>1, <2>2 DEF s
<1>11. QED
  BY <1>7, <1>8, <1>9, <1>10

(* The rows after k rectangles are on the screen and have the rows of      *)
(* those.                                                                  *)
SpanRight(span, height, rects, k) ==
  /\ span.y1 \in 0..height /\ span.y2 \in 0..height
  /\ \A i \in 1..k : Rows(rects[i], height) \subseteq span.y1 .. span.y2 - 1

LEMMA ExpandRight ==
  ASSUME NEW n \in Nat, NEW rects \in [1..n -> AnyRect], NEW height \in Nat,
         NEW k \in 0..n - 1, NEW span, SpanRight(span, height, rects, k)
  PROVE  SpanRight(Expand(span, rects[k + 1], height), height, rects, k + 1)
<1> DEFINE r == rects[k + 1]
           e == Expand(span, r, height)
<1>1. k \in Nat /\ k + 1 \in 1..n /\ r \in AnyRect
  OBVIOUS
<1>2. r.y \in Int /\ Bottom(r) \in Int
  BY <1>1 DEF AnyRect, Bottom
<1>3. span.y1 \in 0..height /\ span.y2 \in 0..height
  BY DEF SpanRight
<1>4. e.y1 = SpanStart(span.y1, r.y) /\ e.y2 = SpanEnd(span.y2, Bottom(r), height)
  BY DEF Expand
<1> HIDE DEF e, r
<1>5. e.y1 \in 0..height /\ e.y2 \in 0..height /\ e.y1 <= span.y1 /\ span.y2 <= e.y2
  BY <1>2, <1>3, <1>4 DEF SpanStart, SpanEnd
<1>6. ASSUME NEW i \in 1..k, NEW y \in Rows(rects[i], height) PROVE y \in e.y1 .. e.y2 - 1
  <2>1. y \in span.y1 .. span.y2 - 1
    BY DEF SpanRight
  <2>2. QED
    BY <1>3, <1>5, <2>1
<1>7. ASSUME NEW y \in Rows(r, height) PROVE y \in e.y1 .. e.y2 - 1
  <2>1. y \in 0..height - 1 /\ r.y <= y /\ y < Bottom(r)
    BY DEF Rows
  <2>2. e.y1 <= y
    BY <1>2, <1>3, <1>4, <2>1 DEF SpanStart
  <2>3. y <= e.y2 - 1
    BY <1>2, <1>3, <1>4, <2>1 DEF SpanEnd
  <2>4. QED
    BY <1>5, <2>1, <2>2, <2>3
<1>8. \A i \in 1..k+1 : i \in 1..k \/ i = k + 1
  BY <1>1
<1>9. QED
  BY <1>5, <1>6, <1>7, <1>8 DEF SpanRight, e, r

LEMMA SpanOfRects ==
  ASSUME NEW n \in Nat, NEW rects \in [1..n -> AnyRect], NEW height \in Nat
  PROVE  /\ \A r \in Range(rects) : Rows(r, height) \subseteq GetSpanEnclosingRect(height, rects)
         /\ GetSpanEnclosingRect(height, rects) \subseteq 0 .. height - 1
<1> DEFINE T == {k \in Nat : k <= n => SpanRight(SpanOf(height, rects, k), height, rects, k)}
<1>1. 0 \in T
  <2>1. SpanOf(height, rects, 0) = [y1 |-> height, y2 |-> 0]
    BY ExpandSteps
  <2>2. SpanRight([y1 |-> height, y2 |-> 0], height, rects, 0)
    BY DEF SpanRight
  <2>3. QED
    BY <2>1, <2>2
<1>2. ASSUME NEW k \in Nat, k \in T PROVE k + 1 \in T
  <2>1. SUFFICES ASSUME k + 1 <= n PROVE SpanRight(SpanOf(height, rects, k + 1), height, rects, k + 1)
    OBVIOUS
  <2>2. k \in 0..n - 1
    BY <2>1
  <2>3. SpanRight(SpanOf(height, rects, k), height, rects, k)
    BY <1>2, <2>1
  <2> HIDE DEF T
  <2>4. SpanOf(height, rects, k + 1) = Expand(SpanOf(height, rects, k), rects[k + 1], height)
    BY <2>2, ExpandSteps
  <2>5. QED
    BY <2>2, <2>3, <2>4, ExpandRight
<1>3. Nat \subseteq T
  <2> HIDE DEF T
  <2> QED BY <1>1, <1>2, Induction
<1> DEFINE span == SpanAll(height, rects)
<1>4. SpanRight(span, height, rects, n)
  <2>1. SpanRight(SpanOf(height, rects, n), height, rects, n)
    BY <1>3
  <2>2. QED
    BY <2>1, ExpandSteps
<1>5. GetSpanEnclosingRect(height, rects) = span.y1 .. span.y2 - 1
  BY DEF GetSpanEnclosingRect, SpanAll
<1> HIDE DEF span
<1>6. \A r \in Range(rects) : \E i \in 1..n : r = rects[i]
  BY DEF Range
<1>7. QED
  BY <1>4, <1>5, <1>6 DEF SpanRight

-----------------------------------------------------------------------------
(* The calls.                                                              *)
CallOK ==
  \/ call = [of |-> "nothing"]
  \/ call = [of |-> "line"]
  \/ \E A, B \in Rect : call = [of |-> "pair", A |-> A, B |-> B]
  \/ \E points \in Lists(Point) : \E clip \in {{}} \cup {{r} : r \in Rect} :
       call = [of |-> "points", points |-> points, clip |-> clip]
  \/ \E height \in {c \in Coordinates : c > 0} :
       \E rects \in Lists({r \in Rect : r.x = 0 /\ r.w = 1}) :
         call = [of |-> "span", height |-> height, rects |-> rects]

LEMMA RectsAreRects == Rect \subseteq AnyRect /\ Point \subseteq Plane
BY RectsAssumption DEF Rect, Point, AnyRect, Plane

LEMMA CallAgrees == CallOK => AgreeWithPoints
<1>1. SUFFICES ASSUME CallOK PROVE AgreeWithPoints
  OBVIOUS
<1>2. CASE call = [of |-> "nothing"] \/ call = [of |-> "line"]
  BY <1>2 DEF AgreeWithPoints, IntersectionIsShared, UnionIsLeast, EnclosingIsLeast, SpanCovers
<1>3. ASSUME NEW A \in Rect, NEW B \in Rect, call = [of |-> "pair", A |-> A, B |-> B]
      PROVE  AgreeWithPoints
  <2>1. A \in AnyRect /\ B \in AnyRect
    BY RectsAreRects
  <2>2. call.of = "pair" /\ call.A = A /\ call.B = B
    BY <1>3
  <2>3. IntersectionIsShared
    <3> DEFINE i == GetRectIntersection(A, B, A)
    <3>1. /\ In(i.result) = In(A) \cap In(B)
          /\ i.returns <=> In(i.result) # {}
          /\ i.returns <=> HasRectIntersection(A, B)
      <4> HIDE DEF i
      <4>1. i = GetRectIntersection(A, B, A)
        BY DEF i
      <4>2. QED
        BY <2>1, <4>1, IntersectionOfTwo
    <3>2. QED
      BY <2>2, <3>1 DEF IntersectionIsShared
  <2>4. UnionIsLeast
    BY <2>1, <2>2, UnionOfTwo DEF UnionIsLeast
  <2>5. QED
    BY <2>2, <2>3, <2>4 DEF AgreeWithPoints, EnclosingIsLeast, SpanCovers
<1>4. ASSUME NEW points \in Lists(Point), NEW clip \in {{}} \cup {{r} : r \in Rect},
             call = [of |-> "points", points |-> points, clip |-> clip]
      PROVE  AgreeWithPoints
  <2>1. PICK n \in 1..MaxPoints : points \in [1..n -> Point]
    BY DEF Lists
  <2>2. n \in Nat /\ points \in [1..n -> Plane]
    BY <2>1, RectsAreRects, RectsAssumption
  <2>3. clip \subseteq AnyRect
    BY RectsAreRects
  <2>4. call.of = "points" /\ call.points = points /\ call.clip = clip
    BY <1>4
  <2>5. EnclosingIsLeast
    <3> DEFINE found == GetRectEnclosingPoints(points, clip)
               wanted == {p \in Range(points) : \A c \in clip : PointInRect(p, c)}
    <3>1. (found = {} <=> wanted = {}) /\ \A r \in found : In(r) = Around(wanted)
      <4>1. \A a, b : a = found /\ b = wanted =>
                        (a = {} <=> b = {}) /\ \A r \in a : In(r) = Around(b)
        BY <2>2, <2>3, EnclosingOfPoints
      <4>2. QED
        BY <4>1
    <3>2. QED
      BY <2>4, <3>1 DEF EnclosingIsLeast
  <2>6. QED
    BY <2>4, <2>5 DEF AgreeWithPoints, IntersectionIsShared, UnionIsLeast, SpanCovers
<1>5. ASSUME NEW height \in {c \in Coordinates : c > 0},
             NEW rects \in Lists({r \in Rect : r.x = 0 /\ r.w = 1}),
             call = [of |-> "span", height |-> height, rects |-> rects]
      PROVE  AgreeWithPoints
  <2>1. PICK n \in 1..MaxPoints : rects \in [1..n -> {r \in Rect : r.x = 0 /\ r.w = 1}]
    BY DEF Lists
  <2>2. n \in Nat /\ rects \in [1..n -> AnyRect]
    BY <2>1, RectsAreRects, RectsAssumption
  <2>3. height \in Nat
    BY RectsAssumption
  <2>4. call.of = "span" /\ call.rects = rects /\ call.height = height
    BY <1>5
  <2>5. SpanCovers
    BY <2>2, <2>3, <2>4, SpanOfRects DEF SpanCovers
  <2>6. QED
    BY <2>4, <2>5 DEF AgreeWithPoints, IntersectionIsShared, UnionIsLeast, EnclosingIsLeast
<1>6. QED
  BY <1>1, <1>2, <1>3, <1>4, <1>5 DEF CallOK

(* Whatever is computed of two rectangles, of points or of spans is what   *)
(* the operation says of the points: the intersection is the shared        *)
(* points, the union and the enclosing rectangle are least, the span has   *)
(* every row (SDL_GetRectIntersection, SDL_GetRectUnion,                   *)
(* SDL_GetRectEnclosingPoints and SDL_GetSpanEnclosingRect).               *)
THEOREM ComputedOfPoints == Spec => []AgreeWithPoints
<1>1. Init => CallOK
  BY DEF Init, LineGiven, NoLine, Unasked, CallOK
<1>2. CallOK /\ [Next]_vars => CallOK'
  <2>1. SUFFICES ASSUME CallOK, [Next]_vars PROVE CallOK'
    OBVIOUS
  <2>2. CASE Pair
    BY <2>2 DEF Pair, CallOK
  <2>3. CASE Points
    BY <2>3 DEF Points, CallOK
  <2>4. CASE Span
    BY <2>4 DEF Span, CallOK
  <2>5. CASE UNCHANGED call
    BY <2>1, <2>5 DEF CallOK
  <2>6. [Next]_vars => Pair \/ Points \/ Span \/ UNCHANGED call
    BY DEF Next, Clip, Start, ClipFirst, ClipSecond, Reject, Accept, vars
  <2>7. QED
    BY <2>1, <2>2, <2>3, <2>4, <2>5, <2>6
<1>3. QED
  BY <1>1, <1>2, CallAgrees, PTL DEF Spec

-----------------------------------------------------------------------------
(* Lines.  While it is clipped, an end that began in the rectangle is      *)
(* where it was, so what is accepted is in the rectangle and kept.         *)
LineOK ==
  /\ pc = "start" => from = <<x1, y1, x2, y2>>
  /\ pc \in {"start", "clip", "true"} =>
       /\ w \in Nat \ {0} /\ h \in Nat \ {0}
       /\ x1 \in Int /\ y1 \in Int /\ x2 \in Int /\ y2 \in Int
       /\ EndsKept
  /\ pc = "true" => ResultInside

LEMMA OutCodeTells ==
  ASSUME NEW x \in Int, NEW y \in Int, w \in Nat \ {0}, h \in Nat \ {0}
  PROVE  OutCode(x, y) = {} <=> Inside(x, y)
BY DEF OutCode, Inside, rectx2, recty2

LEMMA QuotientIsInt ==
  ASSUME NEW a \in Int, NEW b \in Int, b # 0
  PROVE  Quotient(a, b) \in Int
<1>1. Abs(a) \in Nat /\ Abs(b) \in Nat \ {0}
  BY DEF Abs
<1>2. Abs(a) \div Abs(b) \in Int
  BY <1>1
<1>3. QED
  BY <1>2 DEF Quotient

(* An end that is beyond a side the other is not beyond moves to an        *)
(* integer point: the line is not along that side.                         *)
LEMMA MovedIsInt ==
  ASSUME w \in Nat \ {0}, h \in Nat \ {0},
         x1 \in Int, y1 \in Int, x2 \in Int, y2 \in Int,
         NEW x \in Int, NEW y \in Int, NEW x9 \in Int, NEW y9 \in Int,
         <<x, y, x9, y9>> = <<x1, y1, x2, y2>> \/ <<x, y, x9, y9>> = <<x2, y2, x1, y1>>,
         OutCode(x, y) # {}, OutCode(x, y) \cap OutCode(x9, y9) = {}
  PROVE  Moved(OutCode(x, y))[1] \in Int /\ Moved(OutCode(x, y))[2] \in Int
<1> DEFINE code == OutCode(x, y)
<1>1. ASSUME NEW c \in Int, y1 # y2 PROVE AtY(c) \in Int
  <2>1. (x2 - x1) * (c - y1) \in Int /\ y2 - y1 \in Int /\ y2 - y1 # 0
    BY <1>1
  <2>2. Quotient((x2 - x1) * (c - y1), y2 - y1) \in Int
    BY <2>1, QuotientIsInt
  <2>3. QED
    BY <2>2 DEF AtY
<1>2. ASSUME NEW c \in Int, x1 # x2 PROVE AtX(c) \in Int
  <2>1. (y2 - y1) * (c - x1) \in Int /\ x2 - x1 \in Int /\ x2 - x1 # 0
    BY <1>2
  <2>2. Quotient((y2 - y1) * (c - x1), x2 - x1) \in Int
    BY <2>1, QuotientIsInt
  <2>3. QED
    BY <2>2 DEF AtX
<1>3. "top" \in code \/ "bottom" \in code => y # y9
  BY DEF OutCode
<1>4. "left" \in code \/ "right" \in code => x # x9
  BY DEF OutCode
<1>5. code \subseteq {"top", "bottom", "left", "right"}
  BY DEF OutCode
<1>6. code # {}
  OBVIOUS
<1>7. rectx2 \in Int /\ recty2 \in Int
  BY DEF rectx2, recty2
<1> HIDE DEF code
<1>8. ("top" \in code \/ "bottom" \in code => y1 # y2) /\ ("left" \in code \/ "right" \in code => x1 # x2)
  BY <1>3, <1>4
<1>9. CASE "top" \in code
  <2>1. Moved(code) = <<AtY(0), 0>>
    BY <1>9 DEF Moved
  <2>2. QED
    BY <1>1, <1>8, <1>9, <2>1 DEF code
<1>10. CASE "top" \notin code /\ "bottom" \in code
  <2>1. Moved(code) = <<AtY(recty2), recty2>>
    BY <1>10 DEF Moved
  <2>2. QED
    BY <1>1, <1>7, <1>8, <1>10, <2>1 DEF code
<1>11. CASE "top" \notin code /\ "bottom" \notin code /\ "left" \in code
  <2>1. Moved(code) = <<0, AtX(0)>>
    BY <1>11 DEF Moved
  <2>2. QED
    BY <1>2, <1>8, <1>11, <2>1 DEF code
<1>12. CASE "top" \notin code /\ "bottom" \notin code /\ "left" \notin code
  <2>1. Moved(code) = <<rectx2, AtX(rectx2)>>
    BY <1>12 DEF Moved
  <2>2. "right" \in code
    BY <1>5, <1>6, <1>12
  <2>3. QED
    BY <1>2, <1>7, <1>8, <2>1, <2>2 DEF code
<1>13. QED
  BY <1>9, <1>10, <1>11, <1>12

LEMMA LineInit == Init => LineOK
BY RectLineAssumption DEF Init, LineGiven, NoLine, Ends, LineOK, EndsKept

(* The cases that are not clipped: both ends inside, or a line along an    *)
(* axis, whose ends are clamped.                                           *)
LEMMA StartKeeps == LineOK /\ Start => LineOK'
<1>1. SUFFICES ASSUME LineOK, Start PROVE LineOK'
  OBVIOUS
<1>2. /\ pc = "start" /\ from = <<x1, y1, x2, y2>>
      /\ w \in Nat \ {0} /\ h \in Nat \ {0}
      /\ x1 \in Int /\ y1 \in Int /\ x2 \in Int /\ y2 \in Int
  BY <1>1 DEF LineOK, Start
<1>3. w' = w /\ h' = h /\ from' = from
  BY <1>1 DEF Start
<1>4. CASE Inside(x1, y1) /\ Inside(x2, y2)
  <2>1. pc' = "true" /\ x1' = x1 /\ y1' = y1 /\ x2' = x2 /\ y2' = y2
    BY <1>1, <1>4 DEF Start
  <2>2. QED
    BY <1>2, <1>3, <1>4, <2>1 DEF LineOK, EndsKept, ResultInside, Inside, rectx2, recty2
<1>5. CASE ~(Inside(x1, y1) /\ Inside(x2, y2)) /\ ToOneSide
  <2>1. pc' = "false"
    BY <1>1, <1>5 DEF Start
  <2>2. QED
    BY <2>1 DEF LineOK
<1>6. CASE ~(Inside(x1, y1) /\ Inside(x2, y2)) /\ ~ToOneSide /\ y1 = y2
  <2>1. /\ x1' = Clamp(x1, rectx2) /\ x2' = Clamp(x2, rectx2) /\ pc' = "true"
        /\ y1' = y1 /\ y2' = y2
    BY <1>1, <1>6 DEF Start
  <2>2. y1 >= 0 /\ y1 <= recty2
    BY <1>2, <1>6 DEF ToOneSide, recty2
  <2>3. x1' \in Int /\ x2' \in Int /\ ResultInside'
    BY <1>2, <1>3, <1>6, <2>1, <2>2 DEF Clamp, ResultInside, Inside, rectx2, recty2
  <2>4. EndsKept'
    BY <1>2, <1>3, <2>1 DEF EndsKept, Clamp, Inside, rectx2, recty2
  <2>5. QED
    BY <1>2, <1>3, <2>1, <2>3, <2>4 DEF LineOK
<1>7. CASE ~(Inside(x1, y1) /\ Inside(x2, y2)) /\ ~ToOneSide /\ y1 # y2 /\ x1 = x2
  <2>1. /\ y1' = Clamp(y1, recty2) /\ y2' = Clamp(y2, recty2) /\ pc' = "true"
        /\ x1' = x1 /\ x2' = x2
    BY <1>1, <1>7 DEF Start
  <2>2. x1 >= 0 /\ x1 <= rectx2
    BY <1>2, <1>7 DEF ToOneSide, rectx2
  <2>3. y1' \in Int /\ y2' \in Int /\ ResultInside'
    BY <1>2, <1>3, <1>7, <2>1, <2>2 DEF Clamp, ResultInside, Inside, rectx2, recty2
  <2>4. EndsKept'
    BY <1>2, <1>3, <2>1 DEF EndsKept, Clamp, Inside, rectx2, recty2
  <2>5. QED
    BY <1>2, <1>3, <2>1, <2>3, <2>4 DEF LineOK
<1>8. CASE ~(Inside(x1, y1) /\ Inside(x2, y2)) /\ ~ToOneSide /\ y1 # y2 /\ x1 # x2
  <2>1. pc' = "clip" /\ x1' = x1 /\ y1' = y1 /\ x2' = x2 /\ y2' = y2
    BY <1>1, <1>8 DEF Start
  <2>2. QED
    BY <1>2, <1>3, <2>1 DEF LineOK, EndsKept, Inside, rectx2, recty2
<1>9. QED
  BY <1>4, <1>5, <1>6, <1>7, <1>8

(* An end that is moved was not inside, so it did not begin there.         *)
LEMMA ClipKeeps == LineOK /\ (ClipFirst \/ ClipSecond) => LineOK'
<1>1. SUFFICES ASSUME LineOK, ClipFirst \/ ClipSecond PROVE LineOK'
  OBVIOUS
<1>2. /\ pc = "clip" /\ EndsKept
      /\ w \in Nat \ {0} /\ h \in Nat \ {0}
      /\ x1 \in Int /\ y1 \in Int /\ x2 \in Int /\ y2 \in Int
  BY <1>1 DEF LineOK, ClipFirst, ClipSecond
<1>3. pc' = pc /\ w' = w /\ h' = h /\ from' = from
  BY <1>1 DEF ClipFirst, ClipSecond
<1>4. CASE ClipFirst
  <2>1. /\ x1' = Moved(OutCode(x1, y1))[1] /\ y1' = Moved(OutCode(x1, y1))[2]
        /\ x2' = x2 /\ y2' = y2
    BY <1>4 DEF ClipFirst
  <2>2. OutCode(x1, y1) # {} /\ OutCode(x1, y1) \cap OutCode(x2, y2) = {}
    BY <1>4 DEF ClipFirst
  <2>3. x1' \in Int /\ y1' \in Int
    BY <1>2, <2>1, <2>2, MovedIsInt
  <2>4. ~Inside(x1, y1)
    BY <1>2, <2>2, OutCodeTells
  <2>5. ~Inside(from[1], from[2])
    BY <1>2, <2>4 DEF EndsKept
  <2>6. EndsKept'
    BY <1>2, <1>3, <2>1, <2>5 DEF EndsKept, Inside, rectx2, recty2
  <2>7. QED
    BY <1>2, <1>3, <2>1, <2>3, <2>6 DEF LineOK
<1>5. CASE ClipSecond
  <2>1. /\ x2' = Moved(OutCode(x2, y2))[1] /\ y2' = Moved(OutCode(x2, y2))[2]
        /\ x1' = x1 /\ y1' = y1
    BY <1>5 DEF ClipSecond
  <2>2. OutCode(x2, y2) # {} /\ OutCode(x2, y2) \cap OutCode(x1, y1) = {}
    BY <1>5 DEF ClipSecond
  <2>3. x2' \in Int /\ y2' \in Int
    BY <1>2, <2>1, <2>2, MovedIsInt
  <2>4. ~Inside(x2, y2)
    BY <1>2, <2>2, OutCodeTells
  <2>5. ~Inside(from[3], from[4])
    BY <1>2, <2>4 DEF EndsKept
  <2>6. EndsKept'
    BY <1>2, <1>3, <2>1, <2>5 DEF EndsKept, Inside, rectx2, recty2
  <2>7. QED
    BY <1>2, <1>3, <2>1, <2>3, <2>6 DEF LineOK
<1>6. QED
  BY <1>1, <1>4, <1>5

LEMMA EndKeeps == LineOK /\ (Reject \/ Accept) => LineOK'
<1>1. SUFFICES ASSUME LineOK, Reject \/ Accept PROVE LineOK'
  OBVIOUS
<1>2. CASE Reject
  BY <1>2 DEF LineOK, Reject
<1>3. CASE Accept
  <2>1. /\ pc = "clip" /\ EndsKept
        /\ w \in Nat \ {0} /\ h \in Nat \ {0}
        /\ x1 \in Int /\ y1 \in Int /\ x2 \in Int /\ y2 \in Int
    BY <1>1, <1>3 DEF LineOK, Accept
  <2>2. Inside(x1, y1) /\ Inside(x2, y2)
    BY <1>3, <2>1, OutCodeTells DEF Accept
  <2>3. pc' = "true" /\ UNCHANGED <<w, h, x1, y1, x2, y2, from>>
    BY <1>3 DEF Accept
  <2>4. QED
    BY <2>1, <2>2, <2>3 DEF LineOK, EndsKept, ResultInside, Inside, rectx2, recty2
<1>4. QED
  BY <1>1, <1>2, <1>3

(* A line that SDL_GetRectAndLineIntersection returns is in the rectangle, *)
(* and an end that was in it has not moved.                                *)
THEOREM LineFoundIsInside == Spec => []FoundIsInside
<1>1. LineOK /\ [Next]_vars => LineOK'
  <2>1. ASSUME LineOK, UNCHANGED line PROVE LineOK'
    BY <2>1 DEF line, LineOK, EndsKept, ResultInside, Inside, rectx2, recty2
  <2>2. QED
    BY <2>1, StartKeeps, ClipKeeps, EndKeeps DEF Next, Clip, vars
<1>2. LineOK => FoundIsInside
  BY DEF LineOK, FoundIsInside
<1>3. QED
  BY <1>1, <1>2, LineInit, PTL DEF Spec

-----------------------------------------------------------------------------
(* Initialization and shutdown.  What is to be done is a list of items, to *)
(* each of which belongs what it will change in the counts, less what the  *)
(* application and the running subsystems will hold by it.                 *)
Ops == {"init", "begin", "open", "mark", "unwind", "quit", "dec", "return", "fail", "reset"}
ItemOf(op, s) == [op |-> op, s |-> s]
Item == [op : Ops, s : Subsystems]

One(x, s) == IF x = s THEN 1 ELSE 0
Imp(x, s) == IF Implied(x) = <<s>> THEN 1 ELSE 0
Tak(x, s) == IF Takes(x) = <<s>> THEN 1 ELSE 0
Weight(d, s) ==
  IF d.op = "init" \/ d.op = "unwind" THEN -One(d.s, s)
  ELSE IF d.op = "begin" THEN Imp(d.s, s) - One(d.s, s)
  ELSE IF d.op = "open" THEN Imp(d.s, s) + Tak(d.s, s)
  ELSE IF d.op = "mark" \/ d.op = "quit" \/ d.op = "dec" THEN One(d.s, s)
  ELSE 0

(* A subsystem holds references only to those of a lower rank.             *)
Rank(s) == IF s = "events" THEN 0 ELSE IF s = "gamepad" THEN 2 ELSE 1

(* The item after the start of x is what x is started for.                 *)
Wants(d, x) ==
  \/ d.op = "mark" /\ d.s = x
  \/ d.op = "begin" /\ Implied(d.s) = <<x>>
  \/ d.op = "open" /\ Takes(d.s) = <<x>>

UnderWay == {"begin", "open", "dec"}
Starts == {"init", "begin", "open", "unwind"}
Lasts == {"return", "fail", "reset"}

EndsWith(list, op) == list # <<>> /\ list[Len(list)].op = op

(* Where the item at i may stand, with what the items after it add up to.  *)
Placed(list, sum, i) ==
  /\ \A j \in i + 1 .. Len(list) : list[j].op \in UnderWay => Rank(list[i].s) < Rank(list[j].s)
  /\ list[i].op \in Starts =>
       /\ i < Len(list)
       /\ Wants(list[i + 1], list[i].s)
       /\ list[i].op # "init" /\ list[i + 1].op = "open" => Implied(list[i + 1].s) = <<>>
  /\ list[i].op \in Lasts => i = Len(list)
  /\ list[i].op \in Starts \cup {"mark"} => list[Len(list)].op = "return"
  /\ list[i].op = "mark" =>
       /\ \A s \in Subsystems : sum[i + 1][s] = 0
       /\ \A j \in i + 1 .. Len(list) :
            list[j].op \in {"init", "mark", "return"} /\ (list[j].op = "mark" => list[j].s # list[i].s)

Amounts == [Subsystems -> Nat]

(* sum[i] is what the items from i on add up to.                           *)
Ledger(list, sum) ==
  /\ list \in Seq(Item) /\ sum \in Seq(Amounts)
  /\ Len(sum) = Len(list) + 1
  /\ \A s \in Subsystems : sum[Len(list) + 1][s] = 0
  /\ \A i \in 1 .. Len(list) :
       \A s \in Subsystems : sum[i][s] = sum[i + 1][s] + Weight(list[i], s)
  /\ \A i \in 1 .. Len(list) : Placed(list, sum, i)
  /\ \A i \in 1 .. Len(list) : list[i].op # "reset"

Adds(list, a) == \E sum \in Seq(Amounts) : Ledger(list, sum) /\ sum[1] = a

(* The subsystems on which something is under way are all of higher rank.  *)
Below(x, list) ==
  \A j \in 1 .. Len(list) : list[j].op \in UnderWay => Rank(x) < Rank(list[j].s)

(* What may be put in front of a list that adds up to a.                   *)
Fits(d, list, a) ==
  /\ Below(d.s, list)
  /\ d.op \in Starts =>
       /\ Wants(list[1], d.s)
       /\ d.op # "init" /\ list[1].op = "open" => Implied(list[1].s) = <<>>
  /\ d.op \in Lasts => list = <<>>
  /\ d.op \in Starts \cup {"mark"} => EndsWith(list, "return")
  /\ d.op = "mark" =>
       /\ \A s \in Subsystems : a[s] = 0
       /\ \A j \in 1 .. Len(list) :
            list[j].op \in {"init", "mark", "return"} /\ (list[j].op = "mark" => list[j].s # d.s)
  /\ d.op # "reset"

Has(list, op, s) == \E i \in 1 .. Len(list) : list[i].op = op /\ list[i].s = s

(* Counts that the uses and the subsystems that are counted account for.   *)
Counted(c) == {t \in Subsystems : c[t] > 0}
Accounted(u, c) == \A s \in Subsystems : c[s] = u[s] + HeldBy(Counted(c), s)

Kept(s) == IF EndsWith(todo, "return") /\ s \in flags_initialized THEN 1 ELSE 0

Balance(a) ==
  \A s \in Subsystems : Ref(s) = uses[s] + HeldBy(up, s) + a[s] + Kept(s)

StartingRight ==
  \A s \in Subsystems :
    /\ Has(todo, "begin", s) => Ref(s) = 0
    /\ Has(todo, "open", s) => s \notin up /\ Ref(s) = 1

UpRight ==
  \A s \in Subsystems :
    /\ s \in up => Ref(s) > 0 /\ (Has(todo, "dec", s) => Ref(s) > 1)
    /\ s \notin up /\ Ref(s) > 0 => Ref(s) = 1 /\ (Has(todo, "open", s) \/ Has(todo, "dec", s))

MarksRight ==
  EndsWith(todo, "return") =>
    \A s \in Subsystems :
      /\ s \in asked <=> s \in flags_initialized \/ Has(todo, "mark", s)
      /\ Has(todo, "mark", s) => s \notin flags_initialized

FormerRight == EndsWith(todo, "return") \/ EndsWith(todo, "fail") => Accounted(uses, former)

SubTypes ==
  /\ SDL_SubsystemRefCount \in [Subsystems -> Nat] /\ uses \in [Subsystems -> Nat]
  /\ former \in [Subsystems -> Nat]
  /\ up \subseteq Subsystems /\ flags_initialized \subseteq Subsystems /\ asked \subseteq Subsystems
  /\ SDL_bInMainQuit \in BOOLEAN
  /\ todo \in Seq(Item)

CallRight ==
  /\ \E a \in Amounts : Adds(todo, a) /\ Balance(a)
  /\ StartingRight /\ UpRight /\ MarksRight /\ FormerRight

(* SDL_Quit.                                                               *)
MainRight ==
  /\ EndsWith(todo, "reset")
  /\ \A s \in Subsystems : uses[s] = 0
  /\ \A i \in 1 .. Len(todo) :
       todo[i].op \in {"quit", "dec", "reset"} /\ (todo[i].op = "reset" => i = Len(todo))
  /\ \A s \in Subsystems :
       /\ s \in up => Ref(s) > 0 /\ Has(todo, "quit", s)
       /\ Has(todo, "dec", s) => s \notin up

SubInv ==
  /\ SubTypes
  /\ IF SDL_bInMainQuit THEN MainRight ELSE CallRight

-----------------------------------------------------------------------------
(* Lists with one item more or less in front.                              *)
LEMMA ConsIs ==
  ASSUME NEW S, NEW d \in S, NEW l \in Seq(S)
  PROVE  /\ <<d>> \o l \in Seq(S) /\ <<d>> \o l # <<>>
         /\ Len(<<d>> \o l) = Len(l) + 1
         /\ (<<d>> \o l)[1] = d
         /\ \A i \in 1 .. Len(l) : (<<d>> \o l)[i + 1] = l[i]
  OBVIOUS

LEMMA TailIs ==
  ASSUME NEW S, NEW l \in Seq(S), l # <<>>
  PROVE  /\ Tail(l) \in Seq(S) /\ Len(Tail(l)) = Len(l) - 1 /\ Len(l) \in Nat /\ Len(l) > 0
         /\ Head(l) = l[1] /\ l[1] \in S
         /\ \A i \in 1 .. Len(Tail(l)) : Tail(l)[i] = l[i + 1]
  OBVIOUS

LEMMA DoIs ==
  ASSUME NEW op, NEW s
  PROVE  /\ ToDo(op, s) = <<ItemOf(op, s)>>
         /\ Do(op, <<>>) = <<>>
         /\ Do(op, <<s>>) = <<ItemOf(op, s)>>
         /\ End(op) = <<ItemOf(op, "events")>>
  BY DEF ToDo, Do, ItemOf, End

LEMMA ItemIs ==
  ASSUME NEW op \in Ops, NEW s \in Subsystems
  PROVE  ItemOf(op, s) \in Item /\ ItemOf(op, s).op = op /\ ItemOf(op, s).s = s
  BY DEF ItemOf, Item

LEMMA ItemHas ==
  ASSUME NEW d \in Item
  PROVE  d.op \in Ops /\ d.s \in Subsystems /\ d = ItemOf(d.op, d.s)
  BY DEF ItemOf, Item

-----------------------------------------------------------------------------
(* What each subsystem holds.                                              *)
LEMMA ImpliedIs ==
  ASSUME NEW x \in Subsystems
  PROVE  \/ Implied(x) = <<>> /\ \A s \in Subsystems : Imp(x, s) = 0
         \/ \E z \in Subsystems :
              /\ Implied(x) = <<z>> /\ Rank(z) < Rank(x) /\ z # x
              /\ \A s \in Subsystems : Imp(x, s) = One(z, s)
<1>1. CASE x \in {"video", "audio", "joystick"}
  <2>1. Implied(x) = <<"events">> /\ Rank("events") < Rank(x) /\ "events" # x
    BY <1>1 DEF Implied, Rank
  <2>2. \A s \in Subsystems : Imp(x, s) = One("events", s)
    BY <2>1 DEF Imp, One
  <2>3. QED
    BY <2>1, <2>2 DEF Subsystems
<1>2. CASE x = "gamepad"
  <2>1. Implied(x) = <<"joystick">> /\ Rank("joystick") < Rank(x) /\ "joystick" # x
    BY <1>2 DEF Implied, Rank
  <2>2. \A s \in Subsystems : Imp(x, s) = One("joystick", s)
    BY <2>1 DEF Imp, One
  <2>3. QED
    BY <2>1, <2>2 DEF Subsystems
<1>3. CASE x \notin {"video", "audio", "joystick", "gamepad"}
  BY <1>3 DEF Implied, Imp
<1>4. QED
  BY <1>1, <1>2, <1>3

LEMMA TakesIs ==
  ASSUME NEW x \in Subsystems
  PROVE  \/ Takes(x) = <<>> /\ \A s \in Subsystems : Tak(x, s) = 0
         \/ \E z \in Subsystems :
              /\ Takes(x) = <<z>> /\ Rank(z) < Rank(x) /\ z # x
              /\ z = "events" /\ (Implied(x) = <<>> \/ Implied(x) = <<"events">>)
              /\ \A s \in Subsystems : Tak(x, s) = One(z, s)
  BY DEF Implied, Takes, Subsystems, Tak, One, Rank

LEMMA RankIs == \A x \in Subsystems : Rank(x) \in Nat
  BY DEF Rank

LEMMA SubsystemsFinite == IsFiniteSet(Subsystems)
<1>1. Subsystems = {"timer"} \cup {"audio"} \cup {"video"} \cup {"joystick"} \cup {"haptic"}
                     \cup {"gamepad"} \cup {"events"} \cup {"sensor"}
  BY DEF Subsystems
<1>2. QED
  BY <1>1, FS_Singleton, FS_Union

LEMMA HeldType ==
  ASSUME NEW us \in SUBSET Subsystems, NEW s
  PROVE  HeldBy(us, s) \in Nat
<1>1. /\ IsFiniteSet({u \in us : Implied(u) = <<s>>})
      /\ IsFiniteSet({u \in us : Takes(u) = <<s>>})
  BY SubsystemsFinite, FS_Subset
<1>2. QED
  BY <1>1, FS_CardinalityType DEF HeldBy

LEMMA HeldNone ==
  ASSUME NEW us, NEW s,
         \A u \in us : Implied(u) # <<s>> /\ Takes(u) # <<s>>
  PROVE  HeldBy(us, s) = 0
<1>1. {u \in us : Implied(u) = <<s>>} = {} /\ {u \in us : Takes(u) = <<s>>} = {}
  OBVIOUS
<1>2. QED
  BY <1>1, FS_EmptySet DEF HeldBy

LEMMA HeldMore ==
  ASSUME NEW us \in SUBSET Subsystems, NEW x \in Subsystems, x \notin us, NEW s
  PROVE  HeldBy(us \cup {x}, s) = HeldBy(us, s) + Imp(x, s) + Tak(x, s)
<1> DEFINE a == {u \in us : Implied(u) = <<s>>}
           b == {u \in us : Takes(u) = <<s>>}
           a2 == {u \in us \cup {x} : Implied(u) = <<s>>}
           b2 == {u \in us \cup {x} : Takes(u) = <<s>>}
<1>1. IsFiniteSet(a) /\ IsFiniteSet(b) /\ x \notin a /\ x \notin b
  BY SubsystemsFinite, FS_Subset
<1>2. /\ a2 = IF Implied(x) = <<s>> THEN a \cup {x} ELSE a
      /\ b2 = IF Takes(x) = <<s>> THEN b \cup {x} ELSE b
  OBVIOUS
<1>3. HeldBy(us, s) = Cardinality(a) + Cardinality(b)
  BY DEF HeldBy
<1>4. HeldBy(us \cup {x}, s) = Cardinality(a2) + Cardinality(b2)
  BY DEF HeldBy
<1>5. Cardinality(a) \in Nat /\ Cardinality(b) \in Nat
  BY <1>1, FS_CardinalityType
<1>6. Cardinality(a2) = Cardinality(a) + Imp(x, s)
  <2> HIDE DEF a, a2
  <2>1. Cardinality(a \cup {x}) = Cardinality(a) + 1
    BY <1>1, FS_AddElement
  <2>2. QED
    BY <2>1, <1>2, <1>5 DEF Imp
<1>7. Cardinality(b2) = Cardinality(b) + Tak(x, s)
  <2> HIDE DEF b, b2
  <2>1. Cardinality(b \cup {x}) = Cardinality(b) + 1
    BY <1>1, FS_AddElement
  <2>2. QED
    BY <2>1, <1>2, <1>5 DEF Tak
<1> HIDE DEF a, b, a2, b2
<1>8. Imp(x, s) \in Int /\ Tak(x, s) \in Int
  BY DEF Imp, Tak
<1>9. QED
  BY <1>3, <1>4, <1>5, <1>6, <1>7, <1>8

LEMMA HeldLess ==
  ASSUME NEW us \in SUBSET Subsystems, NEW x \in us, NEW s
  PROVE  HeldBy(us, s) = HeldBy(us \ {x}, s) + Imp(x, s) + Tak(x, s)
<1>1. us = (us \ {x}) \cup {x} /\ x \notin us \ {x} /\ us \ {x} \in SUBSET Subsystems /\ x \in Subsystems
  OBVIOUS
<1>2. QED
  BY <1>1, HeldMore

(* Counts are determined by the uses, from the highest rank down.          *)
LEMMA CountsDetermined ==
  ASSUME NEW u \in [Subsystems -> Nat],
         NEW c \in [Subsystems -> Nat], Accounted(u, c),
         NEW d \in [Subsystems -> Nat], Accounted(u, d)
  PROVE  c = d
<1>1. \A s \in Subsystems :
        (\A t \in Subsystems : Implied(t) = <<s>> \/ Takes(t) = <<s>> => c[t] = d[t]) => c[s] = d[s]
  <2> SUFFICES ASSUME NEW s \in Subsystems,
                      \A t \in Subsystems : Implied(t) = <<s>> \/ Takes(t) = <<s>> => c[t] = d[t]
               PROVE  c[s] = d[s]
    OBVIOUS
  <2>1. /\ {t \in Counted(c) : Implied(t) = <<s>>} = {t \in Counted(d) : Implied(t) = <<s>>}
        /\ {t \in Counted(c) : Takes(t) = <<s>>} = {t \in Counted(d) : Takes(t) = <<s>>}
    BY DEF Counted
  <2>2. HeldBy(Counted(c), s) = HeldBy(Counted(d), s)
    BY <2>1 DEF HeldBy
  <2>3. QED
    BY <2>2 DEF Accounted
<1>2. c["gamepad"] = d["gamepad"]
  <2>1. \A t \in Subsystems : Implied(t) # <<"gamepad">> /\ Takes(t) # <<"gamepad">>
    BY DEF Implied, Takes, Subsystems
  <2>2. QED
    BY <1>1, <2>1 DEF Subsystems
<1>3. \A s \in Subsystems : Rank(s) = 1 => c[s] = d[s]
  <2> SUFFICES ASSUME NEW s \in Subsystems, Rank(s) = 1 PROVE c[s] = d[s]
    OBVIOUS
  <2>1. \A t \in Subsystems : Implied(t) = <<s>> \/ Takes(t) = <<s>> => t = "gamepad"
    <3>1. s # "events"
      BY DEF Rank
    <3>2. <<s>> # <<"events">> /\ <<s>> # <<>>
      BY <3>1
    <3>3. QED
      BY <3>2 DEF Implied, Takes
  <2>2. QED
    BY <1>1, <1>2, <2>1
<1>4. c["events"] = d["events"]
  <2>1. \A t \in Subsystems : Implied(t) = <<"events">> \/ Takes(t) = <<"events">> => Rank(t) = 1
    BY DEF Implied, Takes, Subsystems, Rank
  <2>2. QED
    BY <1>1, <1>3, <2>1 DEF Subsystems
<1>5. \A s \in Subsystems : c[s] = d[s]
  BY <1>2, <1>3, <1>4 DEF Subsystems, Rank
<1>6. QED
  BY <1>5

LEMMA HoldsLower ==
  ASSUME NEW y \in Subsystems, NEW x \in Subsystems, Implied(y) = <<x>> \/ Takes(y) = <<x>>
  PROVE  y # x /\ Rank(x) < Rank(y)
<1>1. CASE Implied(y) = <<x>>
  <2>1. PICK z \in Subsystems : Implied(y) = <<z>> /\ Rank(z) < Rank(y) /\ z # y
    BY <1>1, ImpliedIs
  <2>2. z = x
    BY <2>1, <1>1
  <2>3. QED
    BY <2>1, <2>2
<1>2. CASE Takes(y) = <<x>>
  <2>1. PICK z \in Subsystems : Takes(y) = <<z>> /\ Rank(z) < Rank(y) /\ z # y
    BY <1>2, TakesIs
  <2>2. z = x
    BY <2>1, <1>2
  <2>3. QED
    BY <2>1, <2>2
<1>3. QED
  BY <1>1, <1>2

-----------------------------------------------------------------------------
(* Items are put in front of the list and taken from it one by one.        *)
LEMMA WeightIs ==
  ASSUME NEW d \in Item, NEW s \in Subsystems
  PROVE  Weight(d, s) \in Int
  BY DEF Weight, One, Imp, Tak

LEMMA Pushed ==
  ASSUME NEW list, NEW a \in Amounts, Adds(list, a), NEW d \in Item, Fits(d, list, a),
         NEW b \in Amounts, \A s \in Subsystems : b[s] = a[s] + Weight(d, s)
  PROVE  Adds(<<d>> \o list, b)
<1>1. PICK sum \in Seq(Amounts) : Ledger(list, sum) /\ sum[1] = a
  BY DEF Adds
<1> DEFINE m == <<d>> \o list
           t == <<b>> \o sum
           n == Len(list)
<1>2. list \in Seq(Item) /\ n \in Nat /\ Len(sum) = n + 1
  BY <1>1 DEF Ledger
<1>3. /\ m \in Seq(Item) /\ Len(m) = n + 1 /\ m[1] = d
      /\ \A i \in 1 .. n : m[i + 1] = list[i]
  BY <1>2, ConsIs
<1>4. /\ t \in Seq(Amounts) /\ Len(t) = n + 2 /\ t[1] = b
      /\ \A i \in 1 .. n + 1 : t[i + 1] = sum[i]
  BY <1>2, ConsIs
<1> HIDE DEF m, t
<1>5. \A i \in 2 .. n + 1 : i - 1 \in 1 .. n /\ m[i] = list[i - 1] /\ t[i] = sum[i - 1] /\ t[i + 1] = sum[(i - 1) + 1]
  <2> SUFFICES ASSUME NEW i \in 2 .. n + 1
               PROVE  i - 1 \in 1 .. n /\ m[i] = list[i - 1] /\ t[i] = sum[i - 1] /\ t[i + 1] = sum[(i - 1) + 1]
    OBVIOUS
  <2>1. i - 1 \in 1 .. n /\ (i - 1) + 1 = i /\ i \in 1 .. n + 1 /\ i - 1 \in 1 .. n + 1
    BY <1>2
  <2>2. m[(i - 1) + 1] = list[i - 1]
    BY <2>1, <1>3
  <2>3. t[(i - 1) + 1] = sum[i - 1] /\ t[i + 1] = sum[i]
    BY <2>1, <1>4
  <2>4. QED
    BY <2>1, <2>2, <2>3
<1>6. t[2] = a
  <2>1. 1 \in 1 .. n + 1 /\ 1 + 1 = 2
    BY <1>2
  <2>2. QED
    BY <2>1, <1>1, <1>4
<1>7. \A s \in Subsystems : t[(n + 1) + 1][s] = 0
  <2>1. n + 1 \in 1 .. n + 1
    BY <1>2
  <2>2. QED
    BY <2>1, <1>1, <1>4 DEF Ledger
<1>8. \A i \in 1 .. n + 1 : \A s \in Subsystems : t[i][s] = t[i + 1][s] + Weight(m[i], s)
  <2>1. \A s \in Subsystems : t[1][s] = t[1 + 1][s] + Weight(m[1], s)
    BY <1>3, <1>4, <1>6
  <2>2. \A i \in 2 .. n + 1 : \A s \in Subsystems : t[i][s] = t[i + 1][s] + Weight(m[i], s)
    BY <1>1, <1>5 DEF Ledger
  <2>3. \A i \in 1 .. n + 1 : i = 1 \/ i \in 2 .. n + 1
    BY <1>2
  <2>4. QED
    BY <2>1, <2>2, <2>3
<1>9. \A i \in 1 .. n + 1 : m[i].op # "reset"
  <2>1. \A i \in 1 .. n + 1 : i = 1 \/ i \in 2 .. n + 1
    BY <1>2
  <2>2. QED
    BY <2>1, <1>1, <1>3, <1>5 DEF Ledger, Fits
<1>10. Placed(m, t, 1)
  <2>1. \A j \in 1 + 1 .. n + 1 : m[j].op \in UnderWay => Rank(m[1].s) < Rank(m[j].s)
    BY <1>3, <1>5 DEF Fits, Below
  <2>2. m[1].op \in Starts \cup {"mark"} => n > 0 /\ m[Len(m)].op = "return"
    <3>1. SUFFICES ASSUME m[1].op \in Starts \cup {"mark"} PROVE n > 0 /\ m[Len(m)].op = "return"
      OBVIOUS
    <3>2. list # <<>> /\ list[n].op = "return"
      BY <3>1, <1>3 DEF Fits, EndsWith
    <3>3. n > 0 /\ n \in 1 .. n
      BY <3>2, <1>2
    <3>4. QED
      BY <3>2, <3>3, <1>3
  <2>3. n > 0 => m[1 + 1] = list[1]
    <3>1. n > 0 => 1 \in 1 .. n
      BY <1>2
    <3>2. QED
      BY <3>1, <1>3
  <2>4. m[1].op \in Starts =>
          /\ 1 < Len(m) /\ Wants(m[1 + 1], m[1].s)
          /\ m[1].op # "init" /\ m[1 + 1].op = "open" => Implied(m[1 + 1].s) = <<>>
    BY <2>2, <2>3, <1>2, <1>3 DEF Fits
  <2>5. m[1].op \in Lasts => 1 = Len(m)
    BY <1>2, <1>3 DEF Fits
  <2>6. m[1].op = "mark" =>
          /\ \A s \in Subsystems : t[1 + 1][s] = 0
          /\ \A j \in 1 + 1 .. Len(m) :
               m[j].op \in {"init", "mark", "return"} /\ (m[j].op = "mark" => m[j].s # m[1].s)
    <3>1. SUFFICES ASSUME m[1].op = "mark"
                   PROVE  /\ \A s \in Subsystems : t[2][s] = 0
                          /\ \A j \in 2 .. n + 1 :
                               m[j].op \in {"init", "mark", "return"} /\ (m[j].op = "mark" => m[j].s # m[1].s)
      BY <1>3
    <3>2. \A s \in Subsystems : t[2][s] = 0
      BY <3>1, <1>3, <1>6 DEF Fits
    <3>3. \A j \in 1 .. n : list[j].op \in {"init", "mark", "return"} /\ (list[j].op = "mark" => list[j].s # d.s)
      BY <3>1, <1>3 DEF Fits
    <3>4. QED
      BY <3>2, <3>3, <1>3, <1>5
  <2>7. QED
    BY <1>3, <2>1, <2>2, <2>4, <2>5, <2>6 DEF Placed
<1>11. ASSUME NEW i \in 2 .. n + 1 PROVE Placed(m, t, i)
  <2>1. Placed(list, sum, i - 1)
    BY <1>1, <1>5 DEF Ledger
  <2>2. /\ m[i] = list[i - 1] /\ t[i + 1] = sum[(i - 1) + 1] /\ i \in Nat /\ i > 1
        /\ \A j \in i + 1 .. n + 1 : j - 1 \in (i - 1) + 1 .. n /\ m[j] = list[j - 1]
        /\ m[n + 1] = list[n]
        /\ i < n + 1 => m[i + 1] = list[(i - 1) + 1]
    <3>1. \A j \in i + 1 .. n + 1 : j - 1 \in (i - 1) + 1 .. n /\ j \in 2 .. n + 1
      BY <1>2
    <3>2. n + 1 \in 2 .. n + 1 /\ (n + 1) - 1 = n
      BY <1>2
    <3>3. i < n + 1 => i + 1 \in 2 .. n + 1 /\ (i + 1) - 1 = (i - 1) + 1
      BY <1>2
    <3>4. QED
      BY <3>1, <3>2, <3>3, <1>5
  <2>3. i - 1 < n <=> i < n + 1
    BY <1>2
  <2>4. i - 1 = n <=> i = n + 1
    BY <1>2
  <2>5. \A j \in i + 1 .. Len(m) : m[j].op \in UnderWay => Rank(m[i].s) < Rank(m[j].s)
    BY <2>1, <2>2, <1>3 DEF Placed
  <2>6. m[i].op \in Starts =>
          /\ i < Len(m) /\ Wants(m[i + 1], m[i].s)
          /\ m[i].op # "init" /\ m[i + 1].op = "open" => Implied(m[i + 1].s) = <<>>
    BY <2>1, <2>2, <2>3, <1>3 DEF Placed
  <2>7. /\ m[i].op \in Lasts => i = Len(m)
        /\ m[i].op \in Starts \cup {"mark"} => m[Len(m)].op = "return"
    BY <2>1, <2>2, <2>4, <1>3 DEF Placed
  <2>8. m[i].op = "mark" =>
          /\ \A s \in Subsystems : t[i + 1][s] = 0
          /\ \A j \in i + 1 .. Len(m) :
               m[j].op \in {"init", "mark", "return"} /\ (m[j].op = "mark" => m[j].s # m[i].s)
    <3>1. SUFFICES ASSUME m[i].op = "mark"
                   PROVE  /\ \A s \in Subsystems : t[i + 1][s] = 0
                          /\ \A j \in i + 1 .. n + 1 :
                               m[j].op \in {"init", "mark", "return"} /\ (m[j].op = "mark" => m[j].s # m[i].s)
      BY <1>3
    <3>2. /\ \A s \in Subsystems : sum[(i - 1) + 1][s] = 0
          /\ \A j \in (i - 1) + 1 .. n :
               list[j].op \in {"init", "mark", "return"} /\ (list[j].op = "mark" => list[j].s # list[i - 1].s)
      BY <3>1, <2>1, <2>2 DEF Placed
    <3>3. QED
      BY <3>2, <2>2
  <2>9. QED
    BY <2>5, <2>6, <2>7, <2>8 DEF Placed
<1>12. \A i \in 1 .. n + 1 : Placed(m, t, i)
  <2>1. \A i \in 1 .. n + 1 : i = 1 \/ i \in 2 .. n + 1
    BY <1>2
  <2>2. QED
    BY <2>1, <1>10, <1>11
<1>13. Ledger(m, t)
  <2>1. Len(t) = Len(m) + 1
    BY <1>2, <1>3, <1>4
  <2>2. QED
    BY <2>1, <1>3, <1>4, <1>7, <1>8, <1>9, <1>12 DEF Ledger
<1>14. QED
  BY <1>13, <1>4 DEF Adds, m

LEMMA Popped ==
  ASSUME NEW list, NEW a \in Amounts, Adds(list, a), list # <<>>
  PROVE  \E b \in Amounts :
           /\ Adds(Tail(list), b) /\ Fits(list[1], Tail(list), b)
           /\ \A s \in Subsystems : a[s] = b[s] + Weight(list[1], s)
<1>1. PICK sum \in Seq(Amounts) : Ledger(list, sum) /\ sum[1] = a
  BY DEF Adds
<1> DEFINE m == Tail(list)
           t == Tail(sum)
           n == Len(list) - 1
<1>2. list \in Seq(Item) /\ n \in Nat /\ Len(list) = n + 1 /\ Len(sum) = n + 2 /\ sum # <<>>
  BY <1>1, TailIs DEF Ledger
<1>3. m \in Seq(Item) /\ Len(m) = n /\ \A i \in 1 .. n : m[i] = list[i + 1]
  BY <1>2, TailIs
<1>4. t \in Seq(Amounts) /\ Len(t) = n + 1 /\ \A i \in 1 .. n + 1 : t[i] = sum[i + 1]
  <2>1. Len(t) = n + 1
    BY <1>1, <1>2, TailIs
  <2>2. QED
    BY <2>1, <1>1, <1>2, TailIs
<1> HIDE DEF m, t, n
<1>5. t[1] = sum[1 + 1] /\ t[1] \in Amounts
  <2>1. 1 \in 1 .. n + 1
    BY <1>2
  <2>2. QED
    BY <2>1, <1>4
<1>6. \A i \in 1 .. n : i + 1 \in 1 .. n + 1 /\ t[i] = sum[i + 1] /\ t[i + 1] = sum[(i + 1) + 1] /\ m[i] = list[i + 1]
  <2>1. \A i \in 1 .. n : i \in 1 .. n + 1 /\ i + 1 \in 1 .. n + 1
    BY <1>2
  <2>2. QED
    BY <2>1, <1>3, <1>4
<1>7. Ledger(m, t)
  <2>1. \A s \in Subsystems : t[n + 1][s] = 0
    <3>1. n + 1 \in 1 .. n + 1
      BY <1>2
    <3>2. QED
      BY <3>1, <1>1, <1>2, <1>4 DEF Ledger
  <2>2. \A i \in 1 .. n :
          /\ m[i].op # "reset"
          /\ \A s \in Subsystems : t[i][s] = t[i + 1][s] + Weight(m[i], s)
    BY <1>1, <1>2, <1>6 DEF Ledger
  <2>3. ASSUME NEW i \in 1 .. n PROVE Placed(m, t, i)
    <3>1. Placed(list, sum, i + 1)
      BY <1>1, <1>2, <1>6 DEF Ledger
    <3>2. /\ m[i] = list[i + 1] /\ t[i + 1] = sum[(i + 1) + 1]
          /\ \A j \in i + 1 .. n : j + 1 \in (i + 1) + 1 .. n + 1 /\ m[j] = list[j + 1]
          /\ m[n] = list[n + 1]
          /\ i < n => m[i + 1] = list[(i + 1) + 1]
          /\ i + 1 < n + 1 <=> i < n
          /\ i + 1 = n + 1 <=> i = n
      <4>1. \A j \in i + 1 .. n : j + 1 \in (i + 1) + 1 .. n + 1 /\ j \in 1 .. n
        BY <1>2
      <4>2. n \in 1 .. n /\ (i + 1 < n + 1 <=> i < n) /\ (i + 1 = n + 1 <=> i = n)
        BY <1>2
      <4>3. i < n => i + 1 \in 1 .. n
        BY <1>2
      <4>4. QED
        BY <4>1, <4>2, <4>3, <1>6
    <3>3. \A j \in i + 1 .. Len(m) : m[j].op \in UnderWay => Rank(m[i].s) < Rank(m[j].s)
      BY <3>1, <3>2, <1>2, <1>3 DEF Placed
    <3>4. m[i].op \in Starts =>
            /\ i < Len(m) /\ Wants(m[i + 1], m[i].s)
            /\ m[i].op # "init" /\ m[i + 1].op = "open" => Implied(m[i + 1].s) = <<>>
      BY <3>1, <3>2, <1>2, <1>3 DEF Placed
    <3>5. /\ m[i].op \in Lasts => i = Len(m)
          /\ m[i].op \in Starts \cup {"mark"} => m[Len(m)].op = "return"
      BY <3>1, <3>2, <1>2, <1>3 DEF Placed
    <3>6. m[i].op = "mark" =>
            /\ \A s \in Subsystems : t[i + 1][s] = 0
            /\ \A j \in i + 1 .. Len(m) :
                 m[j].op \in {"init", "mark", "return"} /\ (m[j].op = "mark" => m[j].s # m[i].s)
      BY <3>1, <3>2, <1>2, <1>3 DEF Placed
    <3>7. QED
      BY <3>3, <3>4, <3>5, <3>6 DEF Placed
  <2>4. QED
    BY <2>1, <2>2, <2>3, <1>3, <1>4 DEF Ledger
<1>8. Fits(list[1], m, t[1])
  <2>1. Placed(list, sum, 1) /\ list[1].op # "reset"
    <3>1. 1 \in 1 .. n + 1
      BY <1>2
    <3>2. QED
      BY <3>1, <1>1, <1>2 DEF Ledger
  <2>2. /\ \A j \in 1 .. n : j + 1 \in 1 + 1 .. n + 1 /\ m[j] = list[j + 1]
        /\ 1 < n + 1 <=> n # 0
        /\ n # 0 => m[1] = list[1 + 1] /\ m[n] = list[n + 1] /\ m # <<>>
        /\ 1 = n + 1 => m = <<>>
    <3>1. /\ \A j \in 1 .. n : j + 1 \in 1 + 1 .. n + 1
          /\ 1 < n + 1 <=> n # 0
          /\ n # 0 => 1 \in 1 .. n /\ n \in 1 .. n
      BY <1>2
    <3>2. m = <<>> <=> n = 0
      BY <1>3
    <3>3. 1 = n + 1 => n = 0
      BY <1>2
    <3>4. QED
      BY <3>1, <3>2, <3>3, <1>6
  <2>3. \A j \in 1 .. Len(m) : m[j].op \in UnderWay => Rank(list[1].s) < Rank(m[j].s)
    BY <2>1, <2>2, <1>2, <1>3 DEF Placed
  <2>4. list[1].op \in Starts =>
          /\ n # 0 /\ Wants(m[1], list[1].s)
          /\ list[1].op # "init" /\ m[1].op = "open" => Implied(m[1].s) = <<>>
    BY <2>1, <2>2, <1>2 DEF Placed
  <2>5. list[1].op \in Lasts => m = <<>>
    BY <2>1, <2>2, <1>2 DEF Placed
  <2>6. list[1].op \in Starts \cup {"mark"} => EndsWith(m, "return")
    <3>1. SUFFICES ASSUME list[1].op \in Starts \cup {"mark"} PROVE EndsWith(m, "return")
      OBVIOUS
    <3>2. list[n + 1].op = "return"
      BY <3>1, <2>1, <1>2 DEF Placed
    <3>3. n # 0
      <4>1. CASE n = 0
        <5>1. list[1].op = "return"
          BY <4>1, <3>2
        <5>2. QED
          BY <5>1, <3>1 DEF Starts
      <4>2. QED
        BY <4>1
    <3>4. QED
      BY <3>2, <3>3, <2>2, <1>3 DEF EndsWith
  <2>7. list[1].op = "mark" =>
          /\ \A s \in Subsystems : t[1][s] = 0
          /\ \A j \in 1 .. Len(m) :
               m[j].op \in {"init", "mark", "return"} /\ (m[j].op = "mark" => m[j].s # list[1].s)
    BY <2>1, <2>2, <1>2, <1>3, <1>5 DEF Placed
  <2>8. QED
    BY <2>1, <2>3, <2>4, <2>5, <2>6, <2>7 DEF Fits, Below
<1>9. \A s \in Subsystems : a[s] = t[1][s] + Weight(list[1], s)
  <2>1. 1 \in 1 .. n + 1
    BY <1>2
  <2>2. QED
    BY <2>1, <1>1, <1>2, <1>5 DEF Ledger
<1>10. Adds(m, t[1])
  BY <1>4, <1>7 DEF Adds
<1>11. QED
  BY <1>5, <1>8, <1>9, <1>10 DEF m

LEMMA NothingAdds == \A a \in Amounts : Adds(<<>>, a) <=> \A s \in Subsystems : a[s] = 0
<1> SUFFICES ASSUME NEW a \in Amounts PROVE Adds(<<>>, a) <=> \A s \in Subsystems : a[s] = 0
  OBVIOUS
<1>1. ASSUME Adds(<<>>, a) PROVE \A s \in Subsystems : a[s] = 0
  <2>1. PICK sum \in Seq(Amounts) : Ledger(<<>>, sum) /\ sum[1] = a
    BY <1>1 DEF Adds
  <2>2. Len(<<>>) + 1 = 1
    OBVIOUS
  <2>3. QED
    BY <2>1, <2>2 DEF Ledger
<1>2. ASSUME \A s \in Subsystems : a[s] = 0 PROVE Adds(<<>>, a)
  <2>1. <<a>> \in Seq(Amounts) /\ Len(<<a>>) = Len(<<>>) + 1 /\ <<a>>[1] = a /\ Len(<<>>) + 1 = 1
    OBVIOUS
  <2>2. <<>> \in Seq(Item) /\ 1 .. Len(<<>>) = {}
    OBVIOUS
  <2>3. Ledger(<<>>, <<a>>)
    BY <1>2, <2>1, <2>2 DEF Ledger
  <2>4. QED
    BY <2>1, <2>3 DEF Adds
<1>3. QED
  BY <1>1, <1>2

LEMMA AddsItems ==
  ASSUME NEW list, NEW a, Adds(list, a)
  PROVE  list \in Seq(Item) /\ \A i \in 1 .. Len(list) : list[i].op # "reset"
  BY DEF Adds, Ledger

-----------------------------------------------------------------------------
(* What changes with one item more in front.                               *)
LEMMA Rejoined ==
  ASSUME NEW l \in Seq(Item), l # <<>>
  PROVE  l[1] \in Item /\ Tail(l) \in Seq(Item) /\ l = <<l[1]>> \o Tail(l)
  BY TailIs

LEMMA HasCons ==
  ASSUME NEW d \in Item, NEW l \in Seq(Item), NEW op, NEW s
  PROVE  Has(<<d>> \o l, op, s) <=> (d.op = op /\ d.s = s) \/ Has(l, op, s)
<1> DEFINE m == <<d>> \o l
<1>1. /\ Len(m) = Len(l) + 1 /\ m[1] = d /\ Len(l) \in Nat
      /\ \A i \in 1 .. Len(l) : m[i + 1] = l[i]
  BY ConsIs
<1> HIDE DEF m
<1>2. ASSUME Has(m, op, s) PROVE (d.op = op /\ d.s = s) \/ Has(l, op, s)
  <2>1. PICK i \in 1 .. Len(m) : m[i].op = op /\ m[i].s = s
    BY <1>2 DEF Has
  <2>2. CASE i = 1
    BY <2>1, <2>2, <1>1
  <2>3. CASE i # 1
    <3>1. i - 1 \in 1 .. Len(l) /\ (i - 1) + 1 = i
      BY <2>1, <2>3, <1>1
    <3>2. l[i - 1] = m[i]
      BY <3>1, <1>1
    <3>3. QED
      BY <3>1, <3>2, <2>1 DEF Has
  <2>4. QED
    BY <2>2, <2>3
<1>3. ASSUME Has(l, op, s) PROVE Has(m, op, s)
  <2>1. PICK i \in 1 .. Len(l) : l[i].op = op /\ l[i].s = s
    BY <1>3 DEF Has
  <2>2. i + 1 \in 1 .. Len(m) /\ m[i + 1] = l[i]
    BY <2>1, <1>1
  <2>3. QED
    BY <2>1, <2>2 DEF Has
<1>4. ASSUME d.op = op, d.s = s PROVE Has(m, op, s)
  <2>1. 1 \in 1 .. Len(m)
    BY <1>1
  <2>2. QED
    BY <2>1, <1>1, <1>4 DEF Has
<1>5. QED
  BY <1>2, <1>3, <1>4 DEF m

LEMMA EndsCons ==
  ASSUME NEW d \in Item, NEW l \in Seq(Item), NEW op, l # <<>> \/ d.op # op
  PROVE  EndsWith(<<d>> \o l, op) <=> EndsWith(l, op)
<1> DEFINE m == <<d>> \o l
<1>1. /\ m # <<>> /\ Len(m) = Len(l) + 1 /\ m[1] = d /\ Len(l) \in Nat
      /\ \A i \in 1 .. Len(l) : m[i + 1] = l[i]
      /\ Len(l) = 0 <=> l = <<>>
  BY ConsIs
<1> HIDE DEF m
<1>2. CASE l = <<>>
  <2>1. m[Len(m)].op # op
    BY <1>1, <1>2
  <2>2. QED
    BY <2>1, <1>2 DEF EndsWith, m
<1>3. CASE l # <<>>
  <2>1. Len(l) \in 1 .. Len(l)
    BY <1>1, <1>3
  <2>2. m[Len(m)] = l[Len(l)]
    BY <2>1, <1>1
  <2>3. QED
    BY <2>2, <1>1, <1>3 DEF EndsWith, m
<1>4. QED
  BY <1>2, <1>3

LEMMA BelowCons ==
  ASSUME NEW d \in Item, NEW l \in Seq(Item), NEW x
  PROVE  Below(x, <<d>> \o l) <=> (d.op \in UnderWay => Rank(x) < Rank(d.s)) /\ Below(x, l)
<1> DEFINE m == <<d>> \o l
<1>1. /\ Len(m) = Len(l) + 1 /\ m[1] = d /\ Len(l) \in Nat
      /\ \A i \in 1 .. Len(l) : m[i + 1] = l[i]
  BY ConsIs
<1> HIDE DEF m
<1>2. \A i \in 1 .. Len(m) : i = 1 \/ (i - 1 \in 1 .. Len(l) /\ m[i] = l[i - 1])
  <2> SUFFICES ASSUME NEW i \in 1 .. Len(m), i # 1 PROVE i - 1 \in 1 .. Len(l) /\ m[i] = l[i - 1]
    OBVIOUS
  <2>1. i - 1 \in 1 .. Len(l) /\ (i - 1) + 1 = i
    BY <1>1
  <2>2. QED
    BY <2>1, <1>1
<1>3. \A i \in 1 .. Len(l) : i + 1 \in 1 .. Len(m) /\ m[i + 1] = l[i]
  BY <1>1
<1>4. 1 \in 1 .. Len(m)
  BY <1>1
<1>5. QED
  BY <1>1, <1>2, <1>3, <1>4 DEF Below, m

LEMMA BelowLess ==
  ASSUME NEW x \in Subsystems, NEW z \in Subsystems, Rank(z) < Rank(x),
         NEW l \in Seq(Item), Below(x, l)
  PROVE  Below(z, l)
<1>1. \A j \in 1 .. Len(l) : l[j].s \in Subsystems
  <2> TAKE j \in 1 .. Len(l)
  <2>1. l[j] \in Item
    OBVIOUS
  <2>2. QED
    BY <2>1, ItemHas
<1>2. QED
  BY <1>1, RankIs DEF Below

(* What is under way on x is not after an item of x.                       *)
LEMMA BelowHas ==
  ASSUME NEW x \in Subsystems, NEW l \in Seq(Item), Below(x, l), NEW op \in UnderWay
  PROVE  ~Has(l, op, x)
<1>1. \A j \in 1 .. Len(l) : l[j].op \in UnderWay => Rank(x) < Rank(l[j].s)
  BY DEF Below
<1>2. ~(Rank(x) < Rank(x))
  BY RankIs
<1>3. QED
  BY <1>1, <1>2 DEF Has

LEMMA NothingHas == \A op, s : ~Has(<<>>, op, s) /\ ~EndsWith(<<>>, op)
  BY DEF Has, EndsWith

(* Lists that agree but for what is to be initialized, to be quit or to be *)
(* unwound.                                                                *)
Alike(m, l) ==
  /\ \A op \in {"return", "fail"} : EndsWith(m, op) <=> EndsWith(l, op)
  /\ \A op \in {"mark", "begin", "open", "dec"} : \A s : Has(m, op, s) <=> Has(l, op, s)

LEMMA AlikeCons ==
  ASSUME NEW d \in Item, NEW l \in Seq(Item), d.op \in {"init", "quit", "unwind"}
  PROVE  Alike(<<d>> \o l, l)
<1>1. \A op \in {"return", "fail"} : EndsWith(<<d>> \o l, op) <=> EndsWith(l, op)
  <2> TAKE op \in {"return", "fail"}
  <2>1. d.op # op
    OBVIOUS
  <2>2. QED
    BY <2>1, EndsCons
<1>2. \A op \in {"mark", "begin", "open", "dec"} : \A s : Has(<<d>> \o l, op, s) <=> Has(l, op, s)
  <2> TAKE op \in {"mark", "begin", "open", "dec"}
  <2> TAKE s
  <2>1. d.op # op
    OBVIOUS
  <2>2. QED
    BY <2>1, HasCons
<1>3. QED
  BY <1>1, <1>2 DEF Alike

(* None or one to be initialized or to be quit.                            *)
LEMMA ListPushed ==
  ASSUME NEW op \in {"init", "quit"}, NEW holds,
         holds = <<>> \/ \E z \in Subsystems : holds = <<z>>,
         NEW l, NEW a \in Amounts, Adds(l, a),
         \A z \in Subsystems : holds = <<z>> => Fits(ItemOf(op, z), l, a),
         NEW b \in Amounts,
         \A s \in Subsystems :
           b[s] = a[s] + (IF holds = <<s>> THEN IF op = "init" THEN -1 ELSE 1 ELSE 0)
  PROVE  /\ Adds(Do(op, holds) \o l, b) /\ Alike(Do(op, holds) \o l, l)
         /\ Do(op, holds) \in Seq(Item)
<1>0. l \in Seq(Item)
  BY AddsItems
<1>1. CASE holds = <<>>
  <2>1. Do(op, holds) = <<>> /\ <<>> \o l = l /\ <<>> \in Seq(Item)
    <3>1. <<>> \o l = l /\ <<>> \in Seq(Item)
      BY <1>0
    <3>2. Do(op, <<>>) = <<>>
      BY DoIs
    <3>3. QED
      BY <3>1, <3>2, <1>1
  <2>2. \A s \in Subsystems : b[s] = a[s]
    <3>1. \A s : holds # <<s>>
      BY <1>1
    <3>2. QED
      BY <3>1 DEF Amounts
  <2>3. a = b
    BY <2>2 DEF Amounts
  <2>4. QED
    BY <2>1, <2>3 DEF Alike
<1>2. ASSUME NEW z \in Subsystems, holds = <<z>>
      PROVE  Adds(Do(op, holds) \o l, b) /\ Alike(Do(op, holds) \o l, l) /\ Do(op, holds) \in Seq(Item)
  <2>1. Do(op, holds) = <<ItemOf(op, z)>>
    BY <1>2, DoIs
  <2>2. /\ op \in Ops /\ ItemOf(op, z) \in Item /\ ItemOf(op, z).op = op /\ ItemOf(op, z).s = z
    <3>1. op \in Ops
      BY DEF Ops
    <3>2. QED
      BY <3>1, ItemIs
  <2>3. \A s \in Subsystems : b[s] = a[s] + Weight(ItemOf(op, z), s)
    <3> TAKE s \in Subsystems
    <3>1. <<z>> = <<s>> <=> z = s
      OBVIOUS
    <3>2. CASE op = "init"
      BY <2>2, <3>1, <3>2, <1>2 DEF Weight, One, Amounts
    <3>3. CASE op = "quit"
      BY <2>2, <3>1, <3>3, <1>2 DEF Weight, One, Amounts
    <3>4. QED
      BY <3>2, <3>3
  <2>4. Adds(<<ItemOf(op, z)>> \o l, b)
    BY <2>2, <2>3, <1>2, Pushed
  <2>5. Alike(<<ItemOf(op, z)>> \o l, l)
    BY <2>2, <1>0, AlikeCons
  <2>6. QED
    BY <2>1, <2>2, <2>4, <2>5
<1>3. QED
  BY <1>1, <1>2

LEMMA Regrouped ==
  ASSUME NEW l \in Seq(Item), NEW m \in Seq(Item), NEW n \in Seq(Item)
  PROVE  (l \o m) \o n = l \o (m \o n) /\ l \o m \in Seq(Item)
  BY ConcatAssociative

-----------------------------------------------------------------------------
(* The steps of a call.  What is first, and what the rest adds up to.      *)
First(d, l, b) ==
  /\ d \in Item /\ l \in Seq(Item) /\ b \in Amounts
  /\ todo = <<d>> \o l /\ todo # <<>> /\ Head(todo) = d /\ Tail(todo) = l
  /\ Adds(l, b) /\ Fits(d, l, b)
  /\ \A s \in Subsystems : Ref(s) = uses[s] + HeldBy(up, s) + b[s] + Weight(d, s) + Kept(s)

LEMMA FrontIs ==
  ASSUME SubInv, ~SDL_bInMainQuit, todo # <<>>
  PROVE  \E d \in Item, l \in Seq(Item), b \in Amounts : First(d, l, b)
<1>1. PICK a \in Amounts : Adds(todo, a) /\ Balance(a)
  BY DEF SubInv, CallRight
<1>2. todo \in Seq(Item)
  BY DEF SubInv, SubTypes
<1> DEFINE d == todo[1]
           l == Tail(todo)
<1>3. d \in Item /\ l \in Seq(Item) /\ todo = <<d>> \o l /\ Head(todo) = d
  BY <1>2, Rejoined, TailIs
<1>4. PICK b \in Amounts :
         Adds(l, b) /\ Fits(d, l, b) /\ \A s \in Subsystems : a[s] = b[s] + Weight(d, s)
  BY <1>1, Popped
<1> HIDE DEF d
<1>5. \A s \in Subsystems : Ref(s) = uses[s] + HeldBy(up, s) + b[s] + Weight(d, s) + Kept(s)
  <2> TAKE s \in Subsystems
  <2>1. Ref(s) = uses[s] + HeldBy(up, s) + a[s] + Kept(s) /\ a[s] = b[s] + Weight(d, s)
    BY <1>1, <1>4 DEF Balance
  <2>2. /\ uses[s] \in Nat /\ HeldBy(up, s) \in Nat /\ b[s] \in Nat /\ Weight(d, s) \in Int
        /\ Kept(s) \in Nat
    BY <1>3, HeldType, WeightIs DEF SubInv, SubTypes, Amounts, Kept
  <2>3. QED
    BY <2>1, <2>2
<1>6. First(d, l, b)
  BY <1>3, <1>4, <1>5 DEF First
<1>7. QED
  BY <1>3, <1>6

(* What is wanted is counted after it.                                     *)
LEMMA WantedAdds ==
  ASSUME NEW l, NEW b \in Amounts, Adds(l, b), l # <<>>, NEW x \in Subsystems, Wants(l[1], x)
  PROVE  b[x] > 0 /\ (l[1].op = "open" /\ Implied(l[1].s) = <<x>> => b[x] > 1)
<1>1. PICK c \in Amounts : \A s \in Subsystems : b[s] = c[s] + Weight(l[1], s)
  BY Popped
<1>2. l[1] \in Item
  BY AddsItems, Rejoined
<1>3. c[x] \in Nat /\ b[x] = c[x] + Weight(l[1], x)
  BY <1>1 DEF Amounts
<1>4. Weight(l[1], x) > 0 /\ (l[1].op = "open" /\ Implied(l[1].s) = <<x>> => Weight(l[1], x) > 1)
  <2>1. CASE l[1].op = "mark" /\ l[1].s = x
    BY <2>1 DEF Weight, One
  <2>2. CASE l[1].op = "begin" /\ Implied(l[1].s) = <<x>>
    <3>1. l[1].s # x
      BY <2>2, <1>2, ItemHas, HoldsLower
    <3>2. QED
      BY <3>1, <2>2 DEF Weight, One, Imp
  <2>3. CASE l[1].op = "open" /\ Takes(l[1].s) = <<x>>
    BY <2>3 DEF Weight, Imp, Tak
  <2>4. QED
    BY <2>1, <2>2, <2>3 DEF Wants
<1>5. Weight(l[1], x) \in Int
  BY <1>2, WeightIs
<1>6. QED
  BY <1>3, <1>4, <1>5

(* The list ends alike, and the same remains to be marked.                 *)
SameCall(m, l) ==
  /\ \A op \in {"return", "fail"} : EndsWith(m, op) <=> EndsWith(l, op)
  /\ \A s : Has(m, "mark", s) <=> Has(l, "mark", s)

LEMMA SameCallCons ==
  ASSUME NEW d \in Item, NEW l \in Seq(Item), d.op \notin {"mark", "return", "fail"}
  PROVE  SameCall(<<d>> \o l, l)
<1>1. \A op \in {"return", "fail"} : EndsWith(<<d>> \o l, op) <=> EndsWith(l, op)
  BY EndsCons
<1>2. \A s : Has(<<d>> \o l, "mark", s) <=> Has(l, "mark", s)
  BY HasCons
<1>3. QED
  BY <1>1, <1>2 DEF SameCall

LEMMA AlikeSame == \A m, l : Alike(m, l) => SameCall(m, l)
  BY DEF Alike, SameCall

LEMMA SameCallIs == \A l, m, n : SameCall(l, m) /\ (SameCall(m, n) \/ SameCall(n, m)) => SameCall(l, n)
  BY DEF SameCall

LEMMA CallKept ==
  ASSUME MarksRight, FormerRight, SameCall(todo', todo),
         UNCHANGED <<flags_initialized, uses, asked, former>>
  PROVE  MarksRight' /\ FormerRight' /\ \A s \in Subsystems : Kept(s)' = Kept(s)
<1>1. EndsWith(todo', "return") <=> EndsWith(todo, "return")
  BY DEF SameCall
<1>2. EndsWith(todo', "fail") <=> EndsWith(todo, "fail")
  BY DEF SameCall
<1>3. \A s : Has(todo', "mark", s) <=> Has(todo, "mark", s)
  BY DEF SameCall
<1>4. MarksRight'
  BY <1>1, <1>3 DEF MarksRight
<1>5. FormerRight'
  BY <1>1, <1>2 DEF FormerRight
<1>6. \A s \in Subsystems : Kept(s)' = Kept(s)
  BY <1>1 DEF Kept
<1>7. QED
  BY <1>4, <1>5, <1>6

(* The invariant after a step of a call.                                   *)
LEMMA CallGoesOn ==
  ASSUME SubInv, ~SDL_bInMainQuit, UNCHANGED SDL_bInMainQuit,
         SDL_SubsystemRefCount' \in [Subsystems -> Nat], up' \subseteq Subsystems,
         UNCHANGED <<flags_initialized, uses, asked, former>>,
         SameCall(todo', todo), NEW a \in Amounts, Adds(todo', a),
         \A s \in Subsystems : SDL_SubsystemRefCount'[s] = uses[s] + HeldBy(up', s) + a[s] + Kept(s),
         StartingRight', UpRight'
  PROVE  SubInv'
<1>1. MarksRight' /\ FormerRight' /\ \A s \in Subsystems : Kept(s)' = Kept(s)
  BY CallKept DEF SubInv, CallRight
<1>2. Balance(a)'
  BY <1>1 DEF Balance, Ref
<1>3. todo' \in Seq(Item)
  BY AddsItems
<1>4. SubTypes'
  BY <1>3 DEF SubInv, SubTypes
<1>5. CallRight'
  BY <1>1, <1>2 DEF CallRight
<1>6. QED
  BY <1>4, <1>5 DEF SubInv

LEMMA InitKeeps ==
  ASSUME SubInv, ~SDL_bInMainQuit, InitOrIncrement
  PROVE  SubInv'
<1>1. todo # <<>>
  BY DEF InitOrIncrement, Next_is
<1>2. PICK d \in Item, l \in Seq(Item), b \in Amounts : First(d, l, b)
  BY <1>1, FrontIs
<1> DEFINE x == d.s
<1>3. /\ d.op = "init" /\ x \in Subsystems /\ todo = <<d>> \o l /\ Tail(todo) = l /\ This = x
      /\ Adds(l, b) /\ Fits(d, l, b)
  BY <1>2, ItemHas DEF First, InitOrIncrement, Next_is, This
<1>4. /\ Below(x, l) /\ Wants(l[1], x) /\ EndsWith(l, "return") /\ l # <<>>
  BY <1>3 DEF Fits, Starts, EndsWith
<1>5. b[x] > 0 /\ (l[1].op = "open" /\ Implied(l[1].s) = <<x>> => b[x] > 1)
  BY <1>3, <1>4, WantedAdds
<1>6. /\ Alike(todo, l) /\ SameCall(todo, l)
      /\ \A op \in {"begin", "open", "dec"} : ~Has(todo, op, x)
      /\ \A op \in {"begin", "open", "dec"}, s \in Subsystems : Has(todo, op, s) <=> Has(l, op, s)
  <2>1. Alike(todo, l)
    BY <1>3, AlikeCons
  <2>2. \A op \in {"begin", "open", "dec"} : ~Has(l, op, x)
    BY <1>3, <1>4, BelowHas DEF UnderWay
  <2>3. QED
    BY <2>1, <2>2, AlikeSame DEF Alike
<1>7. \A s \in Subsystems :
        /\ SDL_SubsystemRefCount[s] = uses[s] + HeldBy(up, s) + b[s] - One(x, s) + Kept(s)
        /\ uses[s] \in Nat /\ HeldBy(up, s) \in Nat /\ b[s] \in Nat /\ Kept(s) \in Nat
        /\ One(x, s) \in {0, 1} /\ SDL_SubsystemRefCount[s] \in Nat
        /\ (s # x => One(x, s) = 0)
  <2> TAKE s \in Subsystems
  <2>1. Weight(d, s) = -One(x, s)
    BY <1>3 DEF Weight
  <2>2. SDL_SubsystemRefCount[s] = uses[s] + HeldBy(up, s) + b[s] + Weight(d, s) + Kept(s)
    BY <1>2 DEF First, Ref
  <2>3. /\ uses[s] \in Nat /\ HeldBy(up, s) \in Nat /\ b[s] \in Nat /\ Kept(s) \in Nat
        /\ One(x, s) \in {0, 1} /\ SDL_SubsystemRefCount[s] \in Nat
        /\ (s # x => One(x, s) = 0)
    BY HeldType DEF SubInv, SubTypes, Amounts, Kept, One
  <2>4. QED
    BY <2>1, <2>2, <2>3
<1>8. One(x, x) = 1
  BY DEF One
<1>9. StartingRight /\ UpRight /\ SubTypes
  BY DEF SubInv, CallRight
<1>10. /\ UNCHANGED <<SDL_bInMainQuit, up, flags_initialized, uses, asked, former>>
       /\ up' = up
  BY DEF InitOrIncrement
<1>11. CASE Ref(x) = 0
  <2> DEFINE e == ItemOf("begin", x)
             l2 == <<e>> \o l
  <2>1. e \in Item /\ e.op = "begin" /\ e.s = x
    BY <1>3, ItemIs DEF Ops
  <2>2. PICK b2 \in Amounts : \A s \in Subsystems : b2[s] = b[s] + Imp(x, s) - One(x, s)
    <3>1. \A s \in Subsystems : b[s] + Imp(x, s) - One(x, s) \in Nat
      BY <1>5, <1>7, <1>8 DEF Imp
    <3>2. [s \in Subsystems |-> b[s] + Imp(x, s) - One(x, s)] \in Amounts
      BY <3>1 DEF Amounts
    <3>3. QED
      BY <3>2
  <2>3. Fits(e, l, b)
    <3>1. l[1].op = "open" => Implied(l[1].s) = <<>>
      <4>1. SUFFICES ASSUME l[1].op = "open" PROVE Implied(l[1].s) = <<>>
        OBVIOUS
      <4>2. ~(b[x] > 1)
        BY <1>3, <1>7, <1>8, <1>11 DEF Ref
      <4>3. Implied(l[1].s) # <<x>>
        BY <1>5, <4>1, <4>2
      <4>4. Takes(l[1].s) = <<x>>
        BY <1>4, <4>1 DEF Wants
      <4>5. l[1].s \in Subsystems
        BY <1>4, Rejoined, ItemHas
      <4>6. PICK z \in Subsystems :
               /\ Takes(l[1].s) = <<z>> /\ z = "events"
               /\ Implied(l[1].s) = <<>> \/ Implied(l[1].s) = <<"events">>
        <5>1. Takes(l[1].s) # <<>>
          BY <4>4
        <5>2. QED
          BY <4>5, <5>1, TakesIs
      <4>7. z = x
        BY <4>4, <4>6
      <4>8. QED
        BY <4>3, <4>6, <4>7
    <3>2. QED
      BY <2>1, <3>1, <1>4 DEF Fits, Starts, Lasts
  <2>4. Adds(l2, b2)
    <3>1. \A s \in Subsystems : b2[s] = b[s] + Weight(e, s)
      BY <2>1, <2>2, <1>7 DEF Weight, Imp
    <3>2. QED
      BY <1>3, <2>1, <2>3, <3>1, Pushed
  <2>5. l2 \in Seq(Item) /\ SameCall(l2, l)
    BY <2>1, ConsIs, SameCallCons
  <2>6. PICK b3 \in Amounts :
          \A s \in Subsystems : b3[s] = b[s] - One(x, s) /\ b3[s] = b2[s] - Imp(x, s)
    <3>1. \A s \in Subsystems : b[s] - One(x, s) \in Nat /\ b[s] - One(x, s) = b2[s] - Imp(x, s)
      BY <1>5, <1>7, <1>8, <2>2 DEF Imp
    <3>2. [s \in Subsystems |-> b[s] - One(x, s)] \in Amounts
      BY <3>1 DEF Amounts
    <3>3. QED
      BY <3>1, <3>2
  <2>7. \A z \in Subsystems : Implied(x) = <<z>> => Fits(ItemOf("init", z), l2, b2)
    <3> SUFFICES ASSUME NEW z \in Subsystems, Implied(x) = <<z>> PROVE Fits(ItemOf("init", z), l2, b2)
      OBVIOUS
    <3>1. ItemOf("init", z).op = "init" /\ ItemOf("init", z).s = z
      BY DEF ItemOf
    <3>2. Rank(z) < Rank(x)
      BY <1>3, HoldsLower
    <3>3. Below(z, l2)
      BY <3>2, <2>1, <1>3, <1>4, BelowLess, BelowCons
    <3>4. l2[1] = e /\ Wants(l2[1], z)
      BY <2>1, ConsIs DEF Wants
    <3>5. EndsWith(l2, "return")
      BY <1>4, <2>1, EndsCons
    <3>6. QED
      BY <3>1, <3>3, <3>4, <3>5 DEF Fits, Starts, Lasts
  <2> DEFINE m == Do("init", Implied(x)) \o l2
  <2>8. Adds(m, b3) /\ Alike(m, l2) /\ Do("init", Implied(x)) \in Seq(Item)
    <3>1. Implied(x) = <<>> \/ \E z \in Subsystems : Implied(x) = <<z>>
      BY <1>3, ImpliedIs
    <3>2. \A s \in Subsystems :
            b3[s] = b2[s] + (IF Implied(x) = <<s>> THEN IF "init" = "init" THEN -1 ELSE 1 ELSE 0)
      BY <2>6 DEF Imp, Amounts
    <3>3. QED
      BY <2>4, <2>7, <3>1, <3>2, ListPushed
  <2>9. todo' = m
    <3>1. todo' = (Do("init", Implied(x)) \o ToDo("begin", x)) \o l
      BY <1>3, <1>11 DEF InitOrIncrement, ShouldInit, Continue
    <3>2. ToDo("begin", x) = <<e>>
      BY DoIs
    <3>3. <<e>> \in Seq(Item)
      BY <2>1
    <3> DEFINE k == Do("init", Implied(x))
    <3> HIDE DEF e, k
    <3>4. k \in Seq(Item)
      BY <2>8 DEF k
    <3>5. (k \o <<e>>) \o l = k \o (<<e>> \o l)
      BY <3>3, <3>4, Regrouped
    <3>6. QED
      BY <3>1, <3>2, <3>5 DEF k
  <2>10. UNCHANGED SDL_SubsystemRefCount
    BY <1>3, <1>11 DEF InitOrIncrement, ShouldInit
  <2> HIDE DEF l2, m, e
  <2>11. SameCall(m, todo)
    <3>1. SameCall(m, l2)
      BY <2>8, AlikeSame
    <3>2. SameCall(m, l)
      BY <3>1, <2>5, SameCallIs
    <3>3. QED
      BY <3>2, <1>6, SameCallIs
  <2>12. /\ \A s \in Subsystems : Has(m, "begin", s) <=> s = x \/ Has(todo, "begin", s)
         /\ \A op \in {"open", "dec"}, s \in Subsystems : Has(m, op, s) <=> Has(todo, op, s)
    <3>1. \A op \in {"begin", "open", "dec"}, s \in Subsystems : Has(m, op, s) <=> Has(l2, op, s)
      BY <2>8 DEF Alike
    <3>2. \A op \in {"begin", "open", "dec"}, s \in Subsystems :
            Has(l2, op, s) <=> (e.op = op /\ e.s = s) \/ Has(l, op, s)
      BY <2>1, HasCons DEF l2
    <3>3. QED
      BY <3>1, <3>2, <2>1, <1>6
  <2>13. StartingRight'
    BY <1>9, <1>10, <1>11, <2>9, <2>10, <2>12 DEF StartingRight, Ref
  <2>14. UpRight'
    BY <1>9, <1>10, <2>9, <2>10, <2>12 DEF UpRight, Ref
  <2>15. \A s \in Subsystems : SDL_SubsystemRefCount[s] = uses[s] + HeldBy(up, s) + b3[s] + Kept(s)
    BY <1>7, <2>6
  <2>16. QED
    <3>1. /\ SDL_SubsystemRefCount' \in [Subsystems -> Nat] /\ up' \subseteq Subsystems
          /\ \A s \in Subsystems : SDL_SubsystemRefCount'[s] = uses[s] + HeldBy(up', s) + b3[s] + Kept(s)
      BY <1>9, <1>10, <2>10, <2>15 DEF SubTypes
    <3>2. QED
      BY <1>10, <2>8, <2>9, <2>11, <2>13, <2>14, <3>1, CallGoesOn
<1>12. CASE Ref(x) # 0
  <2>1. /\ SDL_SubsystemRefCount' = [SDL_SubsystemRefCount EXCEPT ![x] = @ + 1]
        /\ todo' = <<>> \o l
    BY <1>3, <1>12 DEF InitOrIncrement, ShouldInit, Continue, IncrementSubsystemRefCount
  <2>2. todo' = l
    BY <2>1
  <2>3. /\ SDL_SubsystemRefCount' \in [Subsystems -> Nat]
        /\ SDL_SubsystemRefCount'[x] = SDL_SubsystemRefCount[x] + 1
        /\ \A s \in Subsystems : s # x => SDL_SubsystemRefCount'[s] = SDL_SubsystemRefCount[s]
    BY <2>1, <1>3, <1>9 DEF SubTypes
  <2>4. x \in up
    BY <1>3, <1>6, <1>7, <1>9, <1>12 DEF UpRight, Ref
  <2>5. StartingRight'
    BY <2>2, <2>3, <2>4, <1>6, <1>9, <1>10 DEF StartingRight, Ref
  <2>6. UpRight'
    <3>1. SDL_SubsystemRefCount'[x] > 0 /\ ~Has(l, "dec", x)
      BY <2>3, <1>3, <1>6, <1>7
    <3>2. QED
      BY <3>1, <2>2, <2>3, <2>4, <1>3, <1>6, <1>9, <1>10 DEF UpRight, Ref
  <2>7. \A s \in Subsystems : SDL_SubsystemRefCount'[s] = uses[s] + HeldBy(up', s) + b[s] + Kept(s)
    <3> TAKE s \in Subsystems
    <3>1. SDL_SubsystemRefCount'[s] = uses[s] + HeldBy(up, s) + b[s] + Kept(s)
      <4>1. /\ SDL_SubsystemRefCount[s] = uses[s] + HeldBy(up, s) + b[s] - One(x, s) + Kept(s)
            /\ uses[s] \in Nat /\ HeldBy(up, s) \in Nat /\ b[s] \in Nat /\ Kept(s) \in Nat
            /\ One(x, s) \in {0, 1}
        BY <1>7
      <4>2. SDL_SubsystemRefCount'[s] = SDL_SubsystemRefCount[s] + One(x, s)
        BY <2>3, <1>3, <1>7, <1>8
      <4>3. QED
        BY <4>1, <4>2
    <3>2. QED
      BY <3>1, <1>10
  <2>8. SameCall(l, todo)
    BY <1>6, SameCallIs DEF SameCall
  <2>9. QED
    <3>1. up' \subseteq Subsystems
      BY <1>9, <1>10 DEF SubTypes
    <3>2. QED
      BY <1>3, <1>10, <2>2, <2>3, <2>5, <2>6, <2>7, <2>8, <3>1, CallGoesOn
<1>13. QED
  BY <1>11, <1>12

LEMMA FrontCounts ==
  ASSUME SubInv, NEW d, NEW l, NEW b, First(d, l, b), NEW s \in Subsystems
  PROVE  /\ SDL_SubsystemRefCount[s] = uses[s] + HeldBy(up, s) + b[s] + Weight(d, s) + Kept(s)
         /\ uses[s] \in Nat /\ HeldBy(up, s) \in Nat /\ b[s] \in Nat /\ Kept(s) \in Nat
         /\ SDL_SubsystemRefCount[s] \in Nat
<1>1. HeldBy(up, s) \in Nat
  BY HeldType DEF SubInv, SubTypes
<1>2. QED
  BY <1>1 DEF SubInv, SubTypes, Amounts, Kept, First, Ref

LEMMA PartsOfOne ==
  \A x, s : Imp(x, s) \in {0, 1} /\ Tak(x, s) \in {0, 1} /\ One(x, s) \in {0, 1}
            /\ One(x, x) = 1 /\ (s # x => One(x, s) = 0)
  BY DEF Imp, Tak, One

LEMMA BeginKeeps ==
  ASSUME SubInv, ~SDL_bInMainQuit, Begin
  PROVE  SubInv'
<1>1. todo # <<>>
  BY DEF Begin, Next_is
<1>2. PICK d \in Item, l \in Seq(Item), b \in Amounts : First(d, l, b)
  BY <1>1, FrontIs
<1> DEFINE x == d.s
<1>3. /\ d.op = "begin" /\ x \in Subsystems /\ todo = <<d>> \o l /\ Tail(todo) = l /\ This = x
      /\ Adds(l, b) /\ Fits(d, l, b)
  BY <1>2, ItemHas DEF First, Begin, Next_is, This
<1>4. /\ Below(x, l) /\ Wants(l[1], x) /\ EndsWith(l, "return") /\ l # <<>>
      /\ l[1].op = "open" => Implied(l[1].s) = <<>>
  BY <1>3 DEF Fits, Starts, EndsWith
<1>5. b[x] > 0
  BY <1>3, <1>4, WantedAdds
<1>6. /\ SameCall(todo, l)
      /\ \A op \in {"begin", "open", "dec"} : ~Has(l, op, x)
      /\ \A op \in {"begin", "open", "dec"}, s \in Subsystems :
           Has(todo, op, s) <=> (op = "begin" /\ s = x) \/ Has(l, op, s)
  <2>1. SameCall(todo, l)
    BY <1>3, SameCallCons
  <2>2. \A op \in {"begin", "open", "dec"} : ~Has(l, op, x)
    BY <1>3, <1>4, BelowHas DEF UnderWay
  <2>3. \A op \in {"begin", "open", "dec"}, s \in Subsystems :
           Has(todo, op, s) <=> (d.op = op /\ d.s = s) \/ Has(l, op, s)
    BY <1>3, HasCons
  <2>4. QED
    BY <2>1, <2>2, <2>3, <1>3
<1>7. \A s \in Subsystems :
        /\ SDL_SubsystemRefCount[s] = uses[s] + HeldBy(up, s) + b[s] + Imp(x, s) - One(x, s) + Kept(s)
        /\ uses[s] \in Nat /\ HeldBy(up, s) \in Nat /\ b[s] \in Nat /\ Kept(s) \in Nat
        /\ SDL_SubsystemRefCount[s] \in Nat
        /\ Imp(x, s) \in {0, 1} /\ Tak(x, s) \in {0, 1} /\ One(x, s) \in {0, 1}
        /\ One(x, x) = 1 /\ (s # x => One(x, s) = 0)
  <2> TAKE s \in Subsystems
  <2>1. Weight(d, s) = Imp(x, s) - One(x, s)
    BY <1>3 DEF Weight
  <2>2. /\ Imp(x, s) \in {0, 1} /\ Tak(x, s) \in {0, 1} /\ One(x, s) \in {0, 1}
        /\ One(x, x) = 1 /\ (s # x => One(x, s) = 0)
    BY PartsOfOne
  <2>3. /\ SDL_SubsystemRefCount[s] = uses[s] + HeldBy(up, s) + b[s] + Weight(d, s) + Kept(s)
        /\ uses[s] \in Nat /\ HeldBy(up, s) \in Nat /\ b[s] \in Nat /\ Kept(s) \in Nat
        /\ SDL_SubsystemRefCount[s] \in Nat
    BY <1>2, FrontCounts
  <2>4. QED
    BY <2>1, <2>2, <2>3
<1>8. StartingRight /\ UpRight /\ SubTypes
  BY DEF SubInv, CallRight
<1>9. SDL_SubsystemRefCount[x] = 0 /\ x \notin up
  BY <1>3, <1>6, <1>8 DEF StartingRight, UpRight, Ref
<1>10. /\ UNCHANGED <<SDL_bInMainQuit, up, flags_initialized, uses, asked, former>>
       /\ up' = up
       /\ SDL_SubsystemRefCount' = [SDL_SubsystemRefCount EXCEPT ![x] = @ + 1]
  BY <1>3 DEF Begin, IncrementSubsystemRefCount
<1>11. /\ SDL_SubsystemRefCount' \in [Subsystems -> Nat]
       /\ SDL_SubsystemRefCount'[x] = 1
       /\ \A s \in Subsystems : s # x => SDL_SubsystemRefCount'[s] = SDL_SubsystemRefCount[s]
  BY <1>3, <1>8, <1>9, <1>10 DEF SubTypes
<1> DEFINE e == ItemOf("open", x)
           l2 == <<e>> \o l
<1>12. e \in Item /\ e.op = "open" /\ e.s = x
  BY <1>3, ItemIs DEF Ops
<1>13. PICK b2 \in Amounts : \A s \in Subsystems : b2[s] = b[s] + Imp(x, s) + Tak(x, s)
  <2>1. \A s \in Subsystems : b[s] + Imp(x, s) + Tak(x, s) \in Nat
    BY <1>7
  <2>2. [s \in Subsystems |-> b[s] + Imp(x, s) + Tak(x, s)] \in Amounts
    BY <2>1 DEF Amounts
  <2>3. QED
    BY <2>2
<1>14. Fits(e, l, b)
  BY <1>12, <1>4 DEF Fits, Starts, Lasts
<1>15. Adds(l2, b2)
  <2>1. \A s \in Subsystems : b2[s] = b[s] + Weight(e, s)
    BY <1>7, <1>12, <1>13 DEF Weight
  <2>2. QED
    BY <1>3, <1>12, <1>14, <2>1, Pushed
<1>16. l2 \in Seq(Item) /\ SameCall(l2, l)
  BY <1>12, ConsIs, SameCallCons
<1>17. PICK b3 \in Amounts :
         \A s \in Subsystems : b3[s] = b[s] + Imp(x, s) /\ b3[s] = b2[s] - Tak(x, s)
  <2>1. \A s \in Subsystems : b[s] + Imp(x, s) \in Nat /\ b[s] + Imp(x, s) = b2[s] - Tak(x, s)
    BY <1>7, <1>13
  <2>2. [s \in Subsystems |-> b[s] + Imp(x, s)] \in Amounts
    BY <2>1 DEF Amounts
  <2>3. QED
    BY <2>1, <2>2
<1>18. \A z \in Subsystems : Takes(x) = <<z>> => Fits(ItemOf("init", z), l2, b2)
  <2> SUFFICES ASSUME NEW z \in Subsystems, Takes(x) = <<z>> PROVE Fits(ItemOf("init", z), l2, b2)
    OBVIOUS
  <2>1. ItemOf("init", z).op = "init" /\ ItemOf("init", z).s = z
    BY DEF ItemOf
  <2>2. Rank(z) < Rank(x)
    BY <1>3, HoldsLower
  <2>3. Below(z, l2)
    BY <2>2, <1>12, <1>3, <1>4, BelowLess, BelowCons
  <2>4. l2[1] = e /\ Wants(l2[1], z)
    BY <1>12, ConsIs DEF Wants
  <2>5. EndsWith(l2, "return")
    BY <1>4, <1>12, EndsCons
  <2>6. QED
    BY <2>1, <2>3, <2>4, <2>5 DEF Fits, Starts, Lasts
<1> DEFINE k == Do("init", Takes(x))
           m == k \o l2
<1>19. Adds(m, b3) /\ Alike(m, l2) /\ k \in Seq(Item)
  <2>1. Takes(x) = <<>> \/ \E z \in Subsystems : Takes(x) = <<z>>
    BY <1>3, TakesIs
  <2>2. \A s \in Subsystems :
          b3[s] = b2[s] + (IF Takes(x) = <<s>> THEN IF "init" = "init" THEN -1 ELSE 1 ELSE 0)
    BY <1>17 DEF Tak, Amounts
  <2>3. QED
    BY <1>15, <1>18, <2>1, <2>2, ListPushed
<1>20. todo' = m
  <2>1. todo' = (k \o ToDo("open", x)) \o l
    BY <1>3 DEF Begin, Continue
  <2>2. ToDo("open", x) = <<e>>
    BY DoIs
  <2>3. <<e>> \in Seq(Item)
    BY <1>12
  <2> HIDE DEF e, k
  <2>4. (k \o <<e>>) \o l = k \o (<<e>> \o l)
    BY <1>19, <2>3, Regrouped
  <2>5. QED
    BY <2>1, <2>2, <2>4
<1> HIDE DEF l2, m, e, k
<1>21. SameCall(m, todo)
  <2>1. SameCall(m, l2)
    BY <1>19, AlikeSame
  <2>2. SameCall(m, l)
    BY <2>1, <1>16, SameCallIs
  <2>3. QED
    BY <2>2, <1>6, SameCallIs
<1>22. \A op \in {"begin", "open", "dec"}, s \in Subsystems :
         Has(m, op, s) <=> (op = "open" /\ s = x) \/ Has(l, op, s)
  <2>1. \A op \in {"begin", "open", "dec"}, s \in Subsystems : Has(m, op, s) <=> Has(l2, op, s)
    BY <1>19 DEF Alike
  <2>2. \A op \in {"begin", "open", "dec"}, s \in Subsystems :
          Has(l2, op, s) <=> (e.op = op /\ e.s = s) \/ Has(l, op, s)
    BY <1>12, HasCons DEF l2
  <2>3. QED
    BY <2>1, <2>2, <1>12
<1>23. StartingRight'
  <2> SUFFICES ASSUME NEW s \in Subsystems
               PROVE  /\ Has(m, "begin", s) => SDL_SubsystemRefCount'[s] = 0
                      /\ Has(m, "open", s) => s \notin up /\ SDL_SubsystemRefCount'[s] = 1
    BY <1>10, <1>20 DEF StartingRight, Ref
  <2>1. CASE s = x
    BY <2>1, <1>6, <1>9, <1>11, <1>22
  <2>2. CASE s # x
    BY <2>2, <1>6, <1>8, <1>11, <1>22 DEF StartingRight, Ref
  <2>3. QED
    BY <2>1, <2>2
<1>24. UpRight'
  <2> SUFFICES ASSUME NEW s \in Subsystems
               PROVE  /\ s \in up => SDL_SubsystemRefCount'[s] > 0
                                     /\ (Has(m, "dec", s) => SDL_SubsystemRefCount'[s] > 1)
                      /\ s \notin up /\ SDL_SubsystemRefCount'[s] > 0 =>
                           SDL_SubsystemRefCount'[s] = 1 /\ (Has(m, "open", s) \/ Has(m, "dec", s))
    BY <1>10, <1>20 DEF UpRight, Ref
  <2>1. CASE s = x
    BY <2>1, <1>6, <1>9, <1>11, <1>22
  <2>2. CASE s # x
    BY <2>2, <1>6, <1>8, <1>11, <1>22 DEF UpRight, Ref
  <2>3. QED
    BY <2>1, <2>2
<1>25. \A s \in Subsystems : SDL_SubsystemRefCount'[s] = uses[s] + HeldBy(up', s) + b3[s] + Kept(s)
  <2> TAKE s \in Subsystems
  <2>1. SDL_SubsystemRefCount'[s] = SDL_SubsystemRefCount[s] + One(x, s)
    BY <1>3, <1>7, <1>9, <1>11
  <2>2. SDL_SubsystemRefCount'[s] = uses[s] + HeldBy(up, s) + b3[s] + Kept(s)
    <3>1. /\ SDL_SubsystemRefCount[s] = uses[s] + HeldBy(up, s) + b[s] + Imp(x, s) - One(x, s) + Kept(s)
          /\ uses[s] \in Nat /\ HeldBy(up, s) \in Nat /\ b[s] \in Nat /\ Kept(s) \in Nat
      BY <1>7
    <3>2. Imp(x, s) \in Nat /\ One(x, s) \in Nat /\ b3[s] = b[s] + Imp(x, s)
      BY <1>7, <1>17
    <3>3. SDL_SubsystemRefCount'[s] = uses[s] + HeldBy(up, s) + b[s] + Imp(x, s) + Kept(s)
      BY <3>1, <3>2, <2>1
    <3>4. QED
      BY <3>1, <3>2, <3>3
  <2>3. QED
    BY <2>2, <1>10
<1>26. up' \subseteq Subsystems
  BY <1>8, <1>10 DEF SubTypes
<1>27. QED
  BY <1>10, <1>11, <1>19, <1>20, <1>21, <1>23, <1>24, <1>25, <1>26, CallGoesOn

LEMMA OpenKeeps ==
  ASSUME SubInv, ~SDL_bInMainQuit, Open
  PROVE  SubInv'
<1>1. todo # <<>>
  BY DEF Open, Next_is
<1>2. PICK d \in Item, l \in Seq(Item), b \in Amounts : First(d, l, b)
  BY <1>1, FrontIs
<1> DEFINE x == d.s
<1>3. /\ d.op = "open" /\ x \in Subsystems /\ todo = <<d>> \o l /\ Tail(todo) = l /\ This = x
      /\ Adds(l, b) /\ Fits(d, l, b)
  BY <1>2, ItemHas DEF First, Open, Next_is, This
<1>4. Below(x, l)
  BY <1>3 DEF Fits
<1>6. /\ SameCall(todo, l) /\ SameCall(l, todo)
      /\ \A op \in {"begin", "open", "dec"} : ~Has(l, op, x)
      /\ \A op \in {"begin", "open", "dec"}, s \in Subsystems :
           Has(todo, op, s) <=> (op = "open" /\ s = x) \/ Has(l, op, s)
  <2>1. SameCall(todo, l) /\ SameCall(l, todo)
    BY <1>3, SameCallCons DEF SameCall
  <2>2. \A op \in {"begin", "open", "dec"} : ~Has(l, op, x)
    BY <1>3, <1>4, BelowHas DEF UnderWay
  <2>3. \A op \in {"begin", "open", "dec"}, s \in Subsystems :
           Has(todo, op, s) <=> (d.op = op /\ d.s = s) \/ Has(l, op, s)
    BY <1>3, HasCons
  <2>4. QED
    BY <2>1, <2>2, <2>3, <1>3
<1>8. StartingRight /\ UpRight /\ SubTypes
  BY DEF SubInv, CallRight
<1>9. SDL_SubsystemRefCount[x] = 1 /\ x \notin up
  BY <1>3, <1>6, <1>8 DEF StartingRight, Ref
<1>10. /\ UNCHANGED <<SDL_bInMainQuit, flags_initialized, uses, asked, former>>
       /\ up' = up \cup {x} /\ SDL_SubsystemRefCount' = SDL_SubsystemRefCount
       /\ todo' = l
  BY <1>3 DEF Open, Continue
<1>11. StartingRight'
  <2> SUFFICES ASSUME NEW s \in Subsystems
               PROVE  /\ Has(l, "begin", s) => SDL_SubsystemRefCount[s] = 0
                      /\ Has(l, "open", s) => s \notin up' /\ SDL_SubsystemRefCount[s] = 1
    BY <1>10 DEF StartingRight, Ref
  <2>1. QED
    BY <1>6, <1>8, <1>10 DEF StartingRight, Ref
<1>12. UpRight'
  <2> SUFFICES ASSUME NEW s \in Subsystems
               PROVE  /\ s \in up' => SDL_SubsystemRefCount[s] > 0
                                     /\ (Has(l, "dec", s) => SDL_SubsystemRefCount[s] > 1)
                      /\ s \notin up' /\ SDL_SubsystemRefCount[s] > 0 =>
                           SDL_SubsystemRefCount[s] = 1 /\ (Has(l, "open", s) \/ Has(l, "dec", s))
    BY <1>10 DEF UpRight, Ref
  <2>1. CASE s = x
    BY <2>1, <1>6, <1>9, <1>10
  <2>2. CASE s # x
    BY <2>2, <1>6, <1>8, <1>10 DEF UpRight, Ref
  <2>3. QED
    BY <2>1, <2>2
<1>13. \A s \in Subsystems : SDL_SubsystemRefCount'[s] = uses[s] + HeldBy(up', s) + b[s] + Kept(s)
  <2> TAKE s \in Subsystems
  <2>1. Weight(d, s) = Imp(x, s) + Tak(x, s)
    BY <1>3 DEF Weight
  <2>2. HeldBy(up', s) = HeldBy(up, s) + Imp(x, s) + Tak(x, s)
    BY <1>3, <1>8, <1>9, <1>10, HeldMore DEF SubTypes
  <2>3. Imp(x, s) \in {0, 1} /\ Tak(x, s) \in {0, 1}
    BY PartsOfOne
  <2>4. /\ SDL_SubsystemRefCount[s] = uses[s] + HeldBy(up, s) + b[s] + Weight(d, s) + Kept(s)
        /\ uses[s] \in Nat /\ HeldBy(up, s) \in Nat /\ b[s] \in Nat /\ Kept(s) \in Nat
    BY <1>2, FrontCounts
  <2>5. QED
    BY <2>1, <2>2, <2>3, <2>4, <1>10
<1>14. SDL_SubsystemRefCount' \in [Subsystems -> Nat] /\ up' \subseteq Subsystems
  BY <1>3, <1>8, <1>10 DEF SubTypes
<1>15. QED
  BY <1>3, <1>6, <1>10, <1>11, <1>12, <1>13, <1>14, CallGoesOn

(* Which subsystems may fail: those that imply no other, which would keep  *)
(* the reference.                                                          *)
LeavesFail == \A s \in Failing : Implied(s) = <<>>

LEMMA OpenFailsKeeps ==
  ASSUME LeavesFail, SubInv, ~SDL_bInMainQuit, OpenFails
  PROVE  SubInv'
<1>1. todo # <<>>
  BY DEF OpenFails, Next_is
<1>2. PICK d \in Item, l \in Seq(Item), b \in Amounts : First(d, l, b)
  BY <1>1, FrontIs
<1> DEFINE x == d.s
<1>3. /\ d.op = "open" /\ x \in Subsystems /\ todo = <<d>> \o l /\ Tail(todo) = l /\ This = x
      /\ Adds(l, b) /\ Fits(d, l, b) /\ Implied(x) = <<>>
  BY <1>2, ItemHas DEF First, OpenFails, Next_is, This, LeavesFail
<1>4. /\ Below(x, l) /\ Wants(l[1], x) /\ EndsWith(l, "return") /\ l # <<>>
      /\ l[1].op = "open" => Implied(l[1].s) = <<>>
  BY <1>3 DEF Fits, Starts, EndsWith
<1>5. b[x] > 0
  BY <1>3, <1>4, WantedAdds
<1>6. /\ SameCall(todo, l)
      /\ \A op \in {"begin", "open", "dec"} : ~Has(l, op, x)
      /\ \A op \in {"begin", "open", "dec"}, s \in Subsystems :
           Has(todo, op, s) <=> (op = "open" /\ s = x) \/ Has(l, op, s)
  <2>1. SameCall(todo, l)
    BY <1>3, SameCallCons
  <2>2. \A op \in {"begin", "open", "dec"} : ~Has(l, op, x)
    BY <1>3, <1>4, BelowHas DEF UnderWay
  <2>3. \A op \in {"begin", "open", "dec"}, s \in Subsystems :
           Has(todo, op, s) <=> (d.op = op /\ d.s = s) \/ Has(l, op, s)
    BY <1>3, HasCons
  <2>4. QED
    BY <2>1, <2>2, <2>3, <1>3
<1>7. \A s \in Subsystems :
        /\ SDL_SubsystemRefCount[s] = uses[s] + HeldBy(up, s) + b[s] + Tak(x, s) + Kept(s)
        /\ b[s] \in Nat
        /\ Tak(x, s) \in {0, 1} /\ One(x, s) \in {0, 1}
        /\ One(x, x) = 1 /\ (s # x => One(x, s) = 0)
  <2> TAKE s \in Subsystems
  <2>1. Weight(d, s) = Tak(x, s)
    BY <1>3 DEF Weight, Imp, Tak
  <2>2. /\ Tak(x, s) \in {0, 1} /\ One(x, s) \in {0, 1}
        /\ One(x, x) = 1 /\ (s # x => One(x, s) = 0)
    BY PartsOfOne
  <2>3. /\ SDL_SubsystemRefCount[s] = uses[s] + HeldBy(up, s) + b[s] + Weight(d, s) + Kept(s)
        /\ b[s] \in Nat
    BY <1>2, FrontCounts
  <2>4. QED
    BY <2>1, <2>2, <2>3
<1>8. StartingRight /\ UpRight /\ SubTypes
  BY DEF SubInv, CallRight
<1>9. SDL_SubsystemRefCount[x] = 1 /\ x \notin up
  BY <1>3, <1>6, <1>8 DEF StartingRight, Ref
<1>10. /\ UNCHANGED <<SDL_bInMainQuit, up, flags_initialized, uses, asked, former>>
       /\ up' = up /\ SDL_SubsystemRefCount' = SDL_SubsystemRefCount
  BY DEF OpenFails
<1> DEFINE e1 == ItemOf("unwind", x)
           l1 == <<e1>> \o l
           e2 == ItemOf("dec", x)
           l2 == <<e2>> \o l1
           k == Do("quit", Takes(x))
           m == k \o l2
<1>11. /\ e1 \in Item /\ e1.op = "unwind" /\ e1.s = x
       /\ e2 \in Item /\ e2.op = "dec" /\ e2.s = x
  BY <1>3, ItemIs DEF Ops
<1>12. PICK b1 \in Amounts : \A s \in Subsystems : b1[s] = b[s] - One(x, s)
  <2>1. \A s \in Subsystems : b[s] - One(x, s) \in Nat
    BY <1>5, <1>7
  <2>2. [s \in Subsystems |-> b[s] - One(x, s)] \in Amounts
    BY <2>1 DEF Amounts
  <2>3. QED
    BY <2>2
<1>13. Adds(l1, b1)
  <2>1. Fits(e1, l, b)
    BY <1>11, <1>4 DEF Fits, Starts, Lasts
  <2>2. \A s \in Subsystems : b1[s] = b[s] + Weight(e1, s)
    BY <1>7, <1>11, <1>12 DEF Weight
  <2>3. QED
    BY <1>3, <1>11, <2>1, <2>2, Pushed
<1>14. l1 \in Seq(Item) /\ SameCall(l1, l) /\ Below(x, l1)
  BY <1>11, <1>4, ConsIs, SameCallCons, BelowCons DEF UnderWay
<1>15. Adds(l2, b)
  <2>1. Fits(e2, l1, b1)
    BY <1>11, <1>14 DEF Fits, Starts, Lasts
  <2>2. \A s \in Subsystems : b[s] = b1[s] + Weight(e2, s)
    BY <1>7, <1>11, <1>12 DEF Weight
  <2> HIDE DEF l1, e2
  <2>3. QED
    BY <1>13, <1>11, <2>1, <2>2, Pushed
<1>16. l2 \in Seq(Item) /\ SameCall(l2, l1)
  <2> HIDE DEF l1, e2
  <2>1. QED
    BY <1>11, <1>14, ConsIs, SameCallCons
<1>17. PICK b3 \in Amounts : \A s \in Subsystems : b3[s] = b[s] + Tak(x, s)
  <2>1. \A s \in Subsystems : b[s] + Tak(x, s) \in Nat
    BY <1>7
  <2>2. [s \in Subsystems |-> b[s] + Tak(x, s)] \in Amounts
    BY <2>1 DEF Amounts
  <2>3. QED
    BY <2>2
<1>18. \A z \in Subsystems : Takes(x) = <<z>> => Fits(ItemOf("quit", z), l2, b)
  <2> SUFFICES ASSUME NEW z \in Subsystems, Takes(x) = <<z>> PROVE Fits(ItemOf("quit", z), l2, b)
    OBVIOUS
  <2>1. ItemOf("quit", z).op = "quit" /\ ItemOf("quit", z).s = z
    BY DEF ItemOf
  <2>2. Rank(z) < Rank(x)
    BY <1>3, HoldsLower
  <2>3. Below(z, l1)
    BY <1>3, <1>14, <2>2, BelowLess
  <2>4. Below(z, l2)
    <3> HIDE DEF l1, e2
    <3>1. QED
      BY <1>11, <1>14, <2>2, <2>3, BelowCons
  <2>5. QED
    BY <2>1, <2>4 DEF Fits, Starts, Lasts
<1>19. Adds(m, b3) /\ Alike(m, l2) /\ k \in Seq(Item)
  <2>1. Takes(x) = <<>> \/ \E z \in Subsystems : Takes(x) = <<z>>
    BY <1>3, TakesIs
  <2>2. \A s \in Subsystems :
          b3[s] = b[s] + (IF Takes(x) = <<s>> THEN IF "quit" = "init" THEN -1 ELSE 1 ELSE 0)
    BY <1>17 DEF Tak, Amounts
  <2> HIDE DEF l2
  <2>3. QED
    BY <1>15, <1>18, <2>1, <2>2, ListPushed
<1>20. todo' = m
  <2>1. todo' = (k \o (ToDo("dec", x) \o ToDo("unwind", x))) \o l
    BY <1>3 DEF OpenFails, Continue, Dropped
  <2>2. ToDo("dec", x) = <<e2>> /\ ToDo("unwind", x) = <<e1>>
    BY DoIs
  <2>3. <<e1>> \in Seq(Item) /\ <<e2>> \in Seq(Item)
    BY <1>11
  <2> HIDE DEF e1, e2, k
  <2>4. (k \o (<<e2>> \o <<e1>>)) \o l = k \o ((<<e2>> \o <<e1>>) \o l)
    BY <1>19, <2>3, Regrouped
  <2>5. (<<e2>> \o <<e1>>) \o l = <<e2>> \o (<<e1>> \o l)
    BY <2>3, Regrouped
  <2>6. QED
    BY <2>1, <2>2, <2>4, <2>5
<1> HIDE DEF l1, l2, m, e1, e2, k
<1>21. SameCall(m, todo)
  <2>1. SameCall(m, l2)
    BY <1>19, AlikeSame
  <2>2. SameCall(m, l1)
    BY <2>1, <1>16, SameCallIs
  <2>3. SameCall(m, l)
    BY <2>2, <1>14, SameCallIs
  <2>4. QED
    BY <2>3, <1>6, SameCallIs
<1>22. \A op \in {"begin", "open", "dec"}, s \in Subsystems :
         Has(m, op, s) <=> (op = "dec" /\ s = x) \/ Has(l, op, s)
  <2>1. \A op \in {"begin", "open", "dec"}, s \in Subsystems : Has(m, op, s) <=> Has(l2, op, s)
    BY <1>19 DEF Alike
  <2>2. \A op \in {"begin", "open", "dec"}, s \in Subsystems :
          Has(l2, op, s) <=> (e2.op = op /\ e2.s = s) \/ Has(l1, op, s)
    BY <1>11, <1>14, HasCons DEF l2
  <2>3. \A op \in {"begin", "open", "dec"}, s \in Subsystems :
          Has(l1, op, s) <=> (e1.op = op /\ e1.s = s) \/ Has(l, op, s)
    BY <1>11, HasCons DEF l1
  <2>4. QED
    BY <2>1, <2>2, <2>3, <1>11
<1>23. StartingRight'
  <2> SUFFICES ASSUME NEW s \in Subsystems
               PROVE  /\ Has(m, "begin", s) => SDL_SubsystemRefCount[s] = 0
                      /\ Has(m, "open", s) => s \notin up /\ SDL_SubsystemRefCount[s] = 1
    BY <1>10, <1>20 DEF StartingRight, Ref
  <2>1. QED
    BY <1>6, <1>8, <1>22 DEF StartingRight, Ref
<1>24. UpRight'
  <2> SUFFICES ASSUME NEW s \in Subsystems
               PROVE  /\ s \in up => SDL_SubsystemRefCount[s] > 0
                                     /\ (Has(m, "dec", s) => SDL_SubsystemRefCount[s] > 1)
                      /\ s \notin up /\ SDL_SubsystemRefCount[s] > 0 =>
                           SDL_SubsystemRefCount[s] = 1 /\ (Has(m, "open", s) \/ Has(m, "dec", s))
    BY <1>10, <1>20 DEF UpRight, Ref
  <2>1. CASE s = x
    BY <2>1, <1>9, <1>22
  <2>2. CASE s # x
    BY <2>2, <1>6, <1>8, <1>22 DEF UpRight, Ref
  <2>3. QED
    BY <2>1, <2>2
<1>25. \A s \in Subsystems : SDL_SubsystemRefCount'[s] = uses[s] + HeldBy(up', s) + b3[s] + Kept(s)
  <2> TAKE s \in Subsystems
  <2>1. /\ SDL_SubsystemRefCount[s] = uses[s] + HeldBy(up, s) + b[s] + Tak(x, s) + Kept(s)
        /\ b3[s] = b[s] + Tak(x, s) /\ b[s] \in Nat /\ Tak(x, s) \in Nat
    BY <1>7, <1>17
  <2>2. uses[s] \in Nat /\ HeldBy(up, s) \in Nat /\ Kept(s) \in Nat
    BY <1>2, FrontCounts
  <2>3. SDL_SubsystemRefCount[s] = uses[s] + HeldBy(up, s) + b3[s] + Kept(s)
    BY <2>1, <2>2
  <2>4. QED
    BY <2>3, <1>10
<1>26. SDL_SubsystemRefCount' \in [Subsystems -> Nat] /\ up' \subseteq Subsystems
  BY <1>8, <1>10 DEF SubTypes
<1>27. QED
  BY <1>10, <1>19, <1>20, <1>21, <1>23, <1>24, <1>25, <1>26, CallGoesOn

-----------------------------------------------------------------------------
(* A list of subsystems to be quit, before what comes after.               *)
QuitList(after, list, Q) ==
  /\ list \in Seq(Item) /\ Alike(list, after) /\ \A x : Below(x, list)
  /\ \E a \in Amounts : Adds(list, a) /\ \A s \in Subsystems : a[s] = IF s \in Q THEN 1 ELSE 0

LEMMA QuitListMore ==
  ASSUME NEW after, NEW list, NEW Q, QuitList(after, list, Q),
         NEW flags, NEW x \in Subsystems, x \notin Q
  PROVE  QuitList(after, QuitFlag(flags, x, list), Q \cup (flags \cap {x}))
<1>1. CASE x \notin flags
  <2>1. QuitFlag(flags, x, list) = list /\ Q \cup (flags \cap {x}) = Q
    BY <1>1 DEF QuitFlag
  <2>2. QED
    BY <2>1
<1>2. CASE x \in flags
  <2> DEFINE e == ItemOf("quit", x)
  <2>1. PICK a \in Amounts : Adds(list, a) /\ \A s \in Subsystems : a[s] = IF s \in Q THEN 1 ELSE 0
    BY DEF QuitList
  <2>2. e \in Item /\ e.op = "quit" /\ e.s = x
    BY ItemIs DEF Ops
  <2>3. QuitFlag(flags, x, list) = <<e>> \o list
    BY <1>2, DoIs DEF QuitFlag
  <2> HIDE DEF e
  <2>4. list \in Seq(Item) /\ Alike(list, after) /\ \A y : Below(y, list)
    BY DEF QuitList
  <2>5. Fits(e, list, a)
    BY <2>2, <2>4 DEF Fits, Starts, Lasts
  <2>6. PICK b \in Amounts : \A s \in Subsystems : b[s] = a[s] + One(x, s)
    <3>1. \A s \in Subsystems : a[s] + One(x, s) \in Nat
      BY PartsOfOne DEF Amounts
    <3>2. [s \in Subsystems |-> a[s] + One(x, s)] \in Amounts
      BY <3>1 DEF Amounts
    <3>3. QED
      BY <3>2
  <2>7. Adds(<<e>> \o list, b)
    <3>1. \A s \in Subsystems : b[s] = a[s] + Weight(e, s)
      BY <2>2, <2>6 DEF Weight
    <3>2. QED
      BY <2>1, <2>2, <2>5, <3>1, Pushed
  <2>8. \A s \in Subsystems : b[s] = IF s \in Q \cup (flags \cap {x}) THEN 1 ELSE 0
    BY <1>2, <2>1, <2>6 DEF One
  <2>9. <<e>> \o list \in Seq(Item) /\ Alike(<<e>> \o list, after)
    <3>1. <<e>> \o list \in Seq(Item) /\ Alike(<<e>> \o list, list)
      BY <2>2, <2>4, ConsIs, AlikeCons
    <3>2. QED
      BY <3>1, <2>4 DEF Alike
  <2>10. \A y : Below(y, <<e>> \o list)
    BY <2>2, <2>4, BelowCons DEF UnderWay
  <2>11. QED
    BY <2>3, <2>7, <2>8, <2>9, <2>10 DEF QuitList
<1>3. QED
  BY <1>1, <1>2

LEMMA QuitListAll ==
  ASSUME NEW after, QuitList(after, after, {}), NEW flags \in SUBSET Subsystems
  PROVE  QuitList(after, Quits(flags, after), flags)
<1> DEFINE l1 == QuitFlag(flags, "events", after)
           l2 == QuitFlag(flags, "timer", l1)
           l3 == QuitFlag(flags, "video", l2)
           l4 == QuitFlag(flags, "audio", l3)
           l5 == QuitFlag(flags, "haptic", l4)
           l6 == QuitFlag(flags, "joystick", l5)
           l7 == QuitFlag(flags, "gamepad", l6)
           l8 == QuitFlag(flags, "sensor", l7)
           q1 == {} \cup (flags \cap {"events"})
           q2 == q1 \cup (flags \cap {"timer"})
           q3 == q2 \cup (flags \cap {"video"})
           q4 == q3 \cup (flags \cap {"audio"})
           q5 == q4 \cup (flags \cap {"haptic"})
           q6 == q5 \cup (flags \cap {"joystick"})
           q7 == q6 \cup (flags \cap {"gamepad"})
           q8 == q7 \cup (flags \cap {"sensor"})
<1>1. Quits(flags, after) = l8
  BY DEF Quits
<1>2. /\ "events" \in Subsystems /\ "timer" \in Subsystems /\ "video" \in Subsystems
      /\ "audio" \in Subsystems /\ "haptic" \in Subsystems /\ "joystick" \in Subsystems
      /\ "gamepad" \in Subsystems /\ "sensor" \in Subsystems
  BY DEF Subsystems
<1>3. /\ "timer" \notin q1 /\ "video" \notin q2 /\ "audio" \notin q3 /\ "haptic" \notin q4
      /\ "joystick" \notin q5 /\ "gamepad" \notin q6 /\ "sensor" \notin q7
  OBVIOUS
<1>4. q8 = flags
  BY DEF Subsystems
<1> HIDE DEF l8, q8
<1>11. QuitList(after, l1, q1)
  BY <1>2, QuitListMore
<1> HIDE DEF l1, q1
<1>12. QuitList(after, l2, q2)
  BY <1>2, <1>3, <1>11, QuitListMore
<1> HIDE DEF l2, q2
<1>13. QuitList(after, l3, q3)
  BY <1>2, <1>3, <1>12, QuitListMore
<1> HIDE DEF l3, q3
<1>14. QuitList(after, l4, q4)
  BY <1>2, <1>3, <1>13, QuitListMore
<1> HIDE DEF l4, q4
<1>15. QuitList(after, l5, q5)
  BY <1>2, <1>3, <1>14, QuitListMore
<1> HIDE DEF l5, q5
<1>16. QuitList(after, l6, q6)
  BY <1>2, <1>3, <1>15, QuitListMore
<1> HIDE DEF l6, q6
<1>17. QuitList(after, l7, q7)
  BY <1>2, <1>3, <1>16, QuitListMore
<1> HIDE DEF l7, q7
<1>18. QuitList(after, l8, q8)
  BY <1>2, <1>3, <1>17, QuitListMore DEF l8, q8
<1>19. QED
  BY <1>1, <1>4, <1>18

LEMMA QuitListNone == QuitList(<<>>, <<>>, {})
<1>1. PICK a \in Amounts : \A s \in Subsystems : a[s] = 0
  <2>1. [s \in Subsystems |-> 0] \in Amounts
    BY DEF Amounts
  <2>2. QED
    BY <2>1
<1>2. Adds(<<>>, a)
  BY <1>1, NothingAdds
<1>3. <<>> \in Seq(Item) /\ \A x : Below(x, <<>>)
  BY DEF Below
<1>4. QED
  BY <1>1, <1>2, <1>3 DEF QuitList, Alike

(* The last item adds nothing.                                             *)
LEMMA LastAdds ==
  ASSUME NEW op \in {"return", "fail"}
  PROVE  /\ \E a \in Amounts : Adds(End(op), a) /\ \A s \in Subsystems : a[s] = 0
         /\ End(op) \in Seq(Item) /\ EndsWith(End(op), op)
         /\ \A o : EndsWith(End(op), o) => o = op
         /\ \A o, s : Has(End(op), o, s) => o = op
         /\ \A x : Below(x, End(op))
<1> DEFINE e == ItemOf(op, "events")
<1>1. e \in Item /\ e.op = op /\ End(op) = <<e>>
  <2>1. op \in Ops /\ "events" \in Subsystems
    BY DEF Ops, Subsystems
  <2>2. End(op) = <<e>>
    BY DoIs
  <2>3. QED
    BY <2>1, <2>2, ItemIs
<1>2. /\ <<e>> \in Seq(Item) /\ Len(<<e>>) = 1 /\ <<e>>[1] = e /\ <<e>> # <<>>
      /\ <<e>> = <<e>> \o <<>>
  BY <1>1
<1> HIDE DEF e
<1>3. PICK a \in Amounts : \A s \in Subsystems : a[s] = 0
  <2>1. [s \in Subsystems |-> 0] \in Amounts
    BY DEF Amounts
  <2>2. QED
    BY <2>1
<1>4. Adds(<<>>, a)
  BY <1>3, NothingAdds
<1>5. Fits(e, <<>>, a)
  <2>1. Below(e.s, <<>>)
    BY DEF Below
  <2>2. QED
    BY <2>1, <1>1 DEF Fits, Starts, Lasts
<1>6. Adds(<<e>>, a)
  <2>1. \A s \in Subsystems : a[s] = a[s] + Weight(e, s)
    BY <1>1, <1>3 DEF Weight
  <2>2. Adds(<<e>> \o <<>>, a)
    BY <1>1, <1>4, <1>5, <2>1, Pushed
  <2>3. QED
    BY <2>2, <1>2
<1>7. QED
  <2>1. EndsWith(<<e>>, op) /\ \A o : EndsWith(<<e>>, o) => o = op
    BY <1>1, <1>2 DEF EndsWith
  <2>2. \A o, s : Has(<<e>>, o, s) => o = op
    BY <1>1, <1>2 DEF Has
  <2>3. \A x : Below(x, <<e>>)
    BY <1>1, <1>2 DEF Below, UnderWay
  <2>4. QED
    BY <1>1, <1>2, <1>3, <1>6, <2>1, <2>2, <2>3

LEMMA QuitListFail == QuitList(End("fail"), End("fail"), {})
  BY LastAdds DEF QuitList, Alike

-----------------------------------------------------------------------------
(* What wanted a subsystem that failed.                                    *)
LEMMA UnwindKeeps ==
  ASSUME SubInv, ~SDL_bInMainQuit, Unwind
  PROVE  SubInv'
<1>1. todo # <<>>
  BY DEF Unwind, Next_is
<1>2. PICK d \in Item, l \in Seq(Item), b \in Amounts : First(d, l, b)
  BY <1>1, FrontIs
<1> DEFINE x == d.s
           g == l[1]
           y == g.s
           r == Tail(l)
<1>3. /\ d.op = "unwind" /\ x \in Subsystems /\ todo = <<d>> \o l /\ Tail(todo) = l
      /\ Adds(l, b) /\ Fits(d, l, b)
  BY <1>2, ItemHas DEF First, Unwind, Next_is
<1>4. /\ Below(x, l) /\ Wants(g, x) /\ EndsWith(l, "return") /\ l # <<>>
      /\ g.op = "open" => Implied(y) = <<>>
  BY <1>3 DEF Fits, Starts, EndsWith
<1>5. /\ g \in Item /\ y \in Subsystems /\ r \in Seq(Item) /\ l = <<g>> \o r
  BY <1>4, Rejoined, ItemHas
<1>6. todo[2] = g
  <2>1. 1 \in 1 .. Len(l) /\ 1 + 1 = 2
    BY <1>4
  <2>2. QED
    BY <2>1, <1>3, ConsIs
<1>7. PICK c \in Amounts :
        Adds(r, c) /\ Fits(g, r, c) /\ \A s \in Subsystems : b[s] = c[s] + Weight(g, s)
  BY <1>3, <1>4, Popped
<1>8. todo' = IF g.op = "begin" THEN ToDo("unwind", y) \o r
              ELSE IF g.op = "open" THEN ToDo("dec", y) \o (ToDo("unwind", y) \o r)
              ELSE Quits(flags_initialized, End("fail"))
  BY <1>3, <1>6 DEF Unwind
<1> HIDE DEF g, r
<1>9. /\ UNCHANGED <<SDL_bInMainQuit, up, flags_initialized, uses, asked, former>>
      /\ up' = up /\ SDL_SubsystemRefCount' = SDL_SubsystemRefCount /\ flags_initialized' = flags_initialized
      /\ SDL_bInMainQuit' = SDL_bInMainQuit
  BY DEF Unwind
<1>10. StartingRight /\ UpRight /\ MarksRight /\ FormerRight /\ SubTypes
  BY DEF SubInv, CallRight
<1>11. SDL_SubsystemRefCount' \in [Subsystems -> Nat] /\ up' \subseteq Subsystems
  BY <1>9, <1>10 DEF SubTypes
<1>12. \A s \in Subsystems :
         /\ SDL_SubsystemRefCount[s] = uses[s] + HeldBy(up, s) + b[s] - One(x, s) + Kept(s)
         /\ uses[s] \in Nat /\ HeldBy(up, s) \in Nat /\ Kept(s) \in Nat
         /\ b[s] \in Nat /\ c[s] \in Nat /\ SDL_SubsystemRefCount[s] \in Nat
         /\ Imp(y, s) \in {0, 1} /\ Tak(y, s) \in {0, 1} /\ One(y, s) \in {0, 1} /\ One(x, s) \in {0, 1}
  <2> TAKE s \in Subsystems
  <2>1. Weight(d, s) = -One(x, s)
    BY <1>3 DEF Weight
  <2>2. /\ Imp(y, s) \in {0, 1} /\ Tak(y, s) \in {0, 1} /\ One(y, s) \in {0, 1} /\ One(x, s) \in {0, 1}
    BY PartsOfOne
  <2>3. /\ SDL_SubsystemRefCount[s] = uses[s] + HeldBy(up, s) + b[s] + Weight(d, s) + Kept(s)
        /\ uses[s] \in Nat /\ HeldBy(up, s) \in Nat /\ Kept(s) \in Nat
        /\ b[s] \in Nat /\ SDL_SubsystemRefCount[s] \in Nat
    BY <1>2, FrontCounts
  <2>4. QED
    BY <2>1, <2>2, <2>3 DEF Amounts
<1>13. /\ SameCall(todo, l)
       /\ \A op \in {"begin", "open", "dec"}, s \in Subsystems :
            Has(todo, op, s) <=> (g.op = op /\ y = s) \/ Has(r, op, s)
  <2>1. SameCall(todo, l)
    BY <1>3, SameCallCons
  <2>2. \A op \in {"begin", "open", "dec"}, s \in Subsystems :
           Has(todo, op, s) <=> (d.op = op /\ d.s = s) \/ Has(l, op, s)
    BY <1>3, HasCons
  <2>3. \A op \in {"begin", "open", "dec"}, s \in Subsystems :
           Has(l, op, s) <=> (g.op = op /\ y = s) \/ Has(r, op, s)
    BY <1>5, HasCons
  <2>4. QED
    BY <2>1, <2>2, <2>3, <1>3
<1> DEFINE e == ItemOf("unwind", y)
           m == <<e>> \o r
<1>14. e \in Item /\ e.op = "unwind" /\ e.s = y
  BY <1>5, ItemIs DEF Ops
(* A subsystem that has begun or is to begin fails itself.                 *)
<1>15. ASSUME g.op = "begin" \/ g.op = "open"
       PROVE  \E a \in Amounts :
                /\ Adds(m, a) /\ \A s \in Subsystems : a[s] = c[s] - One(y, s)
                /\ m \in Seq(Item) /\ Below(y, m) /\ SameCall(m, todo)
                /\ Below(y, r)
                /\ \A op \in {"begin", "open", "dec"}, s \in Subsystems : Has(m, op, s) <=> Has(r, op, s)
  <2>1. /\ Below(y, r) /\ Wants(r[1], y) /\ EndsWith(r, "return") /\ r # <<>>
        /\ r[1].op = "open" => Implied(r[1].s) = <<>>
    BY <1>7, <1>15 DEF Fits, Starts, EndsWith
  <2>2. c[y] > 0
    BY <1>5, <1>7, <2>1, WantedAdds
  <2>3. PICK a \in Amounts : \A s \in Subsystems : a[s] = c[s] - One(y, s)
    <3>1. \A s \in Subsystems : c[s] - One(y, s) \in Nat
      BY <2>2, <1>12, PartsOfOne
    <3>2. [s \in Subsystems |-> c[s] - One(y, s)] \in Amounts
      BY <3>1 DEF Amounts
    <3>3. QED
      BY <3>2
  <2> HIDE DEF e
  <2>4. Adds(m, a)
    <3>1. Fits(e, r, c)
      BY <1>14, <2>1 DEF Fits, Starts, Lasts
    <3>2. \A s \in Subsystems : a[s] = c[s] + Weight(e, s)
      BY <1>12, <1>14, <2>3 DEF Weight
    <3>3. QED
      BY <1>7, <1>14, <3>1, <3>2, Pushed
  <2>5. m \in Seq(Item) /\ Below(y, m)
    BY <1>5, <1>14, <2>1, ConsIs, BelowCons DEF UnderWay
  <2>6. SameCall(m, todo)
    <3>1. SameCall(m, r)
      BY <1>5, <1>14, SameCallCons
    <3>2. SameCall(l, r)
      BY <1>5, <1>15, SameCallCons
    <3>3. SameCall(todo, r)
      BY <1>13, <3>2, SameCallIs
    <3>4. QED
      BY <3>1, <3>3, SameCallIs
  <2>7. \A op \in {"begin", "open", "dec"}, s \in Subsystems : Has(m, op, s) <=> Has(r, op, s)
    BY <1>5, <1>14, HasCons
  <2>8. QED
    BY <2>1, <2>3, <2>4, <2>5, <2>6, <2>7
<1> HIDE DEF e, m
<1>16. CASE g.op = "begin"
  <2>1. PICK a \in Amounts :
          /\ Adds(m, a) /\ \A s \in Subsystems : a[s] = c[s] - One(y, s)
          /\ m \in Seq(Item) /\ Below(y, m) /\ SameCall(m, todo)
          /\ Below(y, r)
          /\ \A op \in {"begin", "open", "dec"}, s \in Subsystems : Has(m, op, s) <=> Has(r, op, s)
    BY <1>15, <1>16
  <2>2. todo' = m
    <3>1. ToDo("unwind", y) = <<e>>
      BY DoIs DEF e
    <3>2. QED
      BY <3>1, <1>8, <1>16 DEF m
  <2>3. \A s \in Subsystems : Imp(y, s) = One(x, s)
    <3>1. Implied(y) = <<x>>
      BY <1>4, <1>16 DEF Wants
    <3>2. \A s : <<x>> = <<s>> <=> x = s
      OBVIOUS
    <3>3. QED
      BY <3>1, <3>2 DEF Imp, One
  <2>4. \A s \in Subsystems : SDL_SubsystemRefCount'[s] = uses[s] + HeldBy(up', s) + a[s] + Kept(s)
    <3> TAKE s \in Subsystems
    <3>1. b[s] = c[s] + Imp(y, s) - One(y, s)
      BY <1>7, <1>12, <1>16 DEF Weight
    <3>2. a[s] = c[s] - One(y, s) /\ Imp(y, s) = One(x, s)
      BY <2>1, <2>3
    <3>3. a[s] = b[s] - One(x, s)
      <4>1. c[s] \in Nat /\ b[s] \in Nat /\ One(x, s) \in {0, 1} /\ One(y, s) \in {0, 1}
        BY <1>12
      <4>2. QED
        BY <3>1, <3>2, <4>1
    <3>4. SDL_SubsystemRefCount[s] = uses[s] + HeldBy(up, s) + a[s] + Kept(s)
      BY <3>3, <1>12
    <3>5. QED
      BY <3>4, <1>9
  <2>5. StartingRight'
    <3> SUFFICES ASSUME NEW s \in Subsystems
                 PROVE  /\ Has(m, "begin", s) => SDL_SubsystemRefCount[s] = 0
                        /\ Has(m, "open", s) => s \notin up /\ SDL_SubsystemRefCount[s] = 1
      BY <1>9, <2>2 DEF StartingRight, Ref
    <3>1. QED
      BY <1>10, <1>13, <2>1 DEF StartingRight, Ref
  <2>6. UpRight'
    <3> SUFFICES ASSUME NEW s \in Subsystems
                 PROVE  /\ s \in up => SDL_SubsystemRefCount[s] > 0
                                       /\ (Has(m, "dec", s) => SDL_SubsystemRefCount[s] > 1)
                        /\ s \notin up /\ SDL_SubsystemRefCount[s] > 0 =>
                             SDL_SubsystemRefCount[s] = 1 /\ (Has(m, "open", s) \/ Has(m, "dec", s))
      BY <1>9, <2>2 DEF UpRight, Ref
    <3>1. \A op \in {"open", "dec"} : Has(m, op, s) <=> Has(todo, op, s)
      BY <1>13, <1>16, <2>1
    <3>2. QED
      BY <3>1, <1>10 DEF UpRight, Ref
  <2>7. QED
    BY <1>9, <1>11, <2>1, <2>2, <2>4, <2>5, <2>6, CallGoesOn
<1>17. CASE g.op = "open"
  <2>1. PICK a \in Amounts :
          /\ Adds(m, a) /\ \A s \in Subsystems : a[s] = c[s] - One(y, s)
          /\ m \in Seq(Item) /\ Below(y, m) /\ SameCall(m, todo)
          /\ Below(y, r)
          /\ \A op \in {"begin", "open", "dec"}, s \in Subsystems : Has(m, op, s) <=> Has(r, op, s)
    BY <1>15, <1>17
  <2> DEFINE f == ItemOf("dec", y)
             n == <<f>> \o m
  <2>2. todo' = n
    <3>1. ToDo("unwind", y) = <<e>> /\ ToDo("dec", y) = <<f>>
      BY DoIs DEF e
    <3>2. QED
      BY <3>1, <1>8, <1>17 DEF m
  <2>3. f \in Item /\ f.op = "dec" /\ f.s = y
    BY <1>5, ItemIs DEF Ops
  <2> HIDE DEF f
  <2>4. Adds(n, c)
    <3>1. Fits(f, m, a)
      BY <2>1, <2>3 DEF Fits, Starts, Lasts
    <3>2. \A s \in Subsystems : c[s] = a[s] + Weight(f, s)
      BY <1>12, <2>1, <2>3 DEF Weight
    <3>3. QED
      BY <2>1, <2>3, <3>1, <3>2, Pushed
  <2>5. SameCall(n, todo)
    <3>1. SameCall(n, m)
      BY <2>1, <2>3, SameCallCons
    <3>2. QED
      BY <3>1, <2>1, SameCallIs
  <2>6. \A op \in {"begin", "open", "dec"}, s \in Subsystems :
          Has(n, op, s) <=> (op = "dec" /\ s = y) \/ Has(r, op, s)
    <3>1. \A op \in {"begin", "open", "dec"}, s \in Subsystems :
            Has(n, op, s) <=> (f.op = op /\ f.s = s) \/ Has(m, op, s)
      BY <2>1, <2>3, HasCons
    <3>2. QED
      BY <3>1, <2>1, <2>3
  <2> HIDE DEF n
  <2>7. \A s \in Subsystems : Imp(y, s) = 0 /\ Tak(y, s) = One(x, s)
    <3>1. Takes(y) = <<x>> /\ Implied(y) = <<>>
      BY <1>4, <1>17 DEF Wants
    <3>2. \A s : (<<x>> = <<s>> <=> x = s) /\ <<>> # <<s>>
      OBVIOUS
    <3>3. QED
      BY <3>1, <3>2 DEF Imp, Tak, One
  <2>8. \A s \in Subsystems : SDL_SubsystemRefCount'[s] = uses[s] + HeldBy(up', s) + c[s] + Kept(s)
    <3> TAKE s \in Subsystems
    <3>1. b[s] = c[s] + Imp(y, s) + Tak(y, s)
      <4>1. b[s] = c[s] + Weight(g, s) /\ Weight(g, s) = Imp(y, s) + Tak(y, s)
        BY <1>7, <1>17 DEF Weight
      <4>2. QED
        BY <4>1, <1>12
    <3>2. Imp(y, s) = 0 /\ Tak(y, s) = One(x, s)
      BY <2>7
    <3>3. c[s] = b[s] - One(x, s)
      BY <3>1, <3>2, <1>12
    <3>4. SDL_SubsystemRefCount[s] = uses[s] + HeldBy(up, s) + c[s] + Kept(s)
      BY <3>3, <1>12
    <3>5. QED
      BY <3>4, <1>9
  <2>9. y \notin up /\ SDL_SubsystemRefCount[y] = 1
    BY <1>5, <1>10, <1>13, <1>17 DEF StartingRight, Ref
  <2>10. StartingRight'
    <3> SUFFICES ASSUME NEW s \in Subsystems
                 PROVE  /\ Has(n, "begin", s) => SDL_SubsystemRefCount[s] = 0
                        /\ Has(n, "open", s) => s \notin up /\ SDL_SubsystemRefCount[s] = 1
      BY <1>9, <2>2 DEF StartingRight, Ref
    <3>1. QED
      BY <1>10, <1>13, <2>6 DEF StartingRight, Ref
  <2>11. UpRight'
    <3> SUFFICES ASSUME NEW s \in Subsystems
                 PROVE  /\ s \in up => SDL_SubsystemRefCount[s] > 0
                                       /\ (Has(n, "dec", s) => SDL_SubsystemRefCount[s] > 1)
                        /\ s \notin up /\ SDL_SubsystemRefCount[s] > 0 =>
                             SDL_SubsystemRefCount[s] = 1 /\ (Has(n, "open", s) \/ Has(n, "dec", s))
      BY <1>9, <2>2 DEF UpRight, Ref
    <3>1. CASE s = y
      BY <3>1, <2>6, <2>9
    <3>2. CASE s # y
      <4>1. \A op \in {"open", "dec"} : Has(n, op, s) <=> Has(todo, op, s)
        BY <1>13, <1>17, <2>6, <3>2
      <4>2. QED
        BY <4>1, <1>10 DEF UpRight, Ref
    <3>3. QED
      BY <3>1, <3>2
  <2>12. QED
    BY <1>9, <1>11, <2>2, <2>4, <2>5, <2>8, <2>10, <2>11, CallGoesOn
(* The call of SDL_InitSubSystem quits what it has initialized.            *)
<1>18. CASE g.op = "mark"
  <2>1. y = x /\ \A s \in Subsystems : c[s] = 0
    BY <1>4, <1>7, <1>18 DEF Wants, Fits
  <2>2. \A s \in Subsystems : SDL_SubsystemRefCount[s] = uses[s] + HeldBy(up, s) + Kept(s)
    <3> TAKE s \in Subsystems
    <3>1. b[s] = c[s] + Weight(g, s) /\ Weight(g, s) = One(y, s)
      BY <1>7, <1>18 DEF Weight
    <3>2. b[s] = One(x, s)
      BY <2>1, <3>1, <1>12
    <3>3. QED
      BY <3>2, <1>12
  <2>3. EndsWith(todo, "return")
    BY <1>4, <1>13 DEF SameCall
  <2> DEFINE n == Quits(flags_initialized, End("fail"))
  <2>4. todo' = n
    BY <1>8, <1>18
  <2>5. QuitList(End("fail"), n, flags_initialized)
    BY <1>10, QuitListFail, QuitListAll DEF SubTypes
  <2> HIDE DEF n
  <2>6. PICK a \in Amounts : Adds(n, a) /\ \A s \in Subsystems : a[s] = IF s \in flags_initialized THEN 1 ELSE 0
    BY <2>5 DEF QuitList
  <2>7. /\ n \in Seq(Item) /\ EndsWith(n, "fail") /\ ~EndsWith(n, "return")
        /\ \A op \in {"begin", "open", "dec", "mark"} : \A s : ~Has(n, op, s)
    <3>1. n \in Seq(Item) /\ Alike(n, End("fail"))
      BY <2>5 DEF QuitList
    <3>2. /\ EndsWith(End("fail"), "fail") /\ ~EndsWith(End("fail"), "return")
          /\ \A op \in {"begin", "open", "dec", "mark"} : \A s : ~Has(End("fail"), op, s)
      <4>1. "fail" \in {"return", "fail"}
        OBVIOUS
      <4>2. /\ EndsWith(End("fail"), "fail") /\ \A o : EndsWith(End("fail"), o) => o = "fail"
            /\ \A o, s : Has(End("fail"), o, s) => o = "fail"
        BY <4>1, LastAdds
      <4>3. QED
        BY <4>2
    <3>3. QED
      BY <3>1, <3>2 DEF Alike
  <2>8. \A s \in Subsystems : ~Has(todo, "open", s) /\ ~Has(todo, "dec", s)
    <3>1. \A s : ~Has(r, "open", s) /\ ~Has(r, "dec", s)
      BY <1>7, <1>18 DEF Fits, Has
    <3>2. QED
      BY <3>1, <1>13, <1>18
  <2>9. Balance(a)'
    <3> SUFFICES ASSUME NEW s \in Subsystems
                 PROVE  SDL_SubsystemRefCount[s] = uses[s] + HeldBy(up, s) + a[s] + 0
      BY <1>9, <2>4, <2>7 DEF Balance, Ref, Kept
    <3>1. Kept(s) = a[s]
      BY <2>3, <2>6 DEF Kept
    <3>2. SDL_SubsystemRefCount[s] = uses[s] + HeldBy(up, s) + a[s]
      BY <2>2, <3>1
    <3>3. uses[s] \in Nat /\ HeldBy(up, s) \in Nat /\ a[s] \in Nat
      BY <1>12 DEF Amounts
    <3>4. QED
      BY <3>2, <3>3
  <2>10. StartingRight' /\ MarksRight'
    BY <2>4, <2>7 DEF StartingRight, MarksRight
  <2>11. UpRight'
    <3> SUFFICES ASSUME NEW s \in Subsystems
                 PROVE  /\ s \in up => SDL_SubsystemRefCount[s] > 0
                        /\ ~Has(n, "dec", s)
                        /\ ~(s \notin up /\ SDL_SubsystemRefCount[s] > 0)
      BY <1>9, <2>4 DEF UpRight, Ref
    <3>1. QED
      BY <2>7, <2>8, <1>10 DEF UpRight, Ref
  <2>12. FormerRight'
    <3>1. Accounted(uses, former)
      BY <1>10, <2>3 DEF FormerRight
    <3>2. QED
      BY <3>1, <1>9 DEF FormerRight
  <2>13. SubTypes'
    BY <1>9, <1>10, <2>4, <2>7 DEF SubTypes
  <2>14. CallRight'
    BY <2>4, <2>6, <2>9, <2>10, <2>11, <2>12 DEF CallRight
  <2>15. QED
    BY <1>9, <2>13, <2>14 DEF SubInv
<1>19. QED
  BY <1>4, <1>16, <1>17, <1>18 DEF Wants

-----------------------------------------------------------------------------
(* The end of a call, and what drops references.                           *)
LEMMA MarkKeeps ==
  ASSUME SubInv, ~SDL_bInMainQuit, Mark
  PROVE  SubInv'
<1>1. todo # <<>>
  BY DEF Mark, Next_is
<1>2. PICK d \in Item, l \in Seq(Item), b \in Amounts : First(d, l, b)
  BY <1>1, FrontIs
<1> DEFINE x == d.s
<1>3. /\ d.op = "mark" /\ x \in Subsystems /\ todo = <<d>> \o l /\ Tail(todo) = l /\ This = x
      /\ Adds(l, b) /\ Fits(d, l, b)
  BY <1>2, ItemHas DEF First, Mark, Next_is, This
<1>4. /\ EndsWith(l, "return") /\ l # <<>> /\ \A s \in Subsystems : b[s] = 0
      /\ ~Has(l, "mark", x)
  BY <1>3 DEF Fits, EndsWith, Has
<1>5. /\ UNCHANGED <<SDL_bInMainQuit, uses, asked, former>>
      /\ up' = up /\ SDL_SubsystemRefCount' = SDL_SubsystemRefCount /\ todo' = l
      /\ flags_initialized' = flags_initialized \cup {x}
  BY <1>3 DEF Mark, Continue
<1>6. StartingRight /\ UpRight /\ MarksRight /\ FormerRight /\ SubTypes
  BY DEF SubInv, CallRight
<1>7. /\ \A op \in {"return", "fail"} : EndsWith(todo, op) <=> EndsWith(l, op)
      /\ \A op \in {"begin", "open", "dec"}, s \in Subsystems : Has(todo, op, s) <=> Has(l, op, s)
      /\ \A s \in Subsystems : Has(todo, "mark", s) <=> s = x \/ Has(l, "mark", s)
  <2>1. \A op \in {"return", "fail"} : EndsWith(todo, op) <=> EndsWith(l, op)
    BY <1>3, <1>4, EndsCons
  <2>2. \A op, s : Has(todo, op, s) <=> (d.op = op /\ d.s = s) \/ Has(l, op, s)
    BY <1>3, HasCons
  <2>3. QED
    BY <2>1, <2>2, <1>3
<1>8. Balance(b)'
  <2> SUFFICES ASSUME NEW s \in Subsystems
               PROVE  SDL_SubsystemRefCount[s] = uses[s] + HeldBy(up, s) + b[s] + Kept(s)'
    BY <1>5 DEF Balance, Ref
  <2>1. x \notin flags_initialized
    BY <1>3, <1>4, <1>6, <1>7 DEF MarksRight
  <2>2. /\ Kept(s) = IF s \in flags_initialized THEN 1 ELSE 0
        /\ Kept(s)' = IF s \in flags_initialized \cup {x} THEN 1 ELSE 0
    BY <1>4, <1>5, <1>7 DEF Kept
  <2>3. One(x, s) \in {0, 1} /\ Kept(s)' = Kept(s) + One(x, s) /\ Kept(s)' \in Nat
    BY <2>1, <2>2 DEF One
  <2>4. Weight(d, s) = One(x, s)
    BY <1>3 DEF Weight
  <2>5. /\ SDL_SubsystemRefCount[s] = uses[s] + HeldBy(up, s) + b[s] + Weight(d, s) + Kept(s)
        /\ uses[s] \in Nat /\ HeldBy(up, s) \in Nat /\ b[s] \in Nat /\ Kept(s) \in Nat
    BY <1>2, FrontCounts
  <2>6. QED
    BY <2>3, <2>4, <2>5
<1>9. StartingRight'
  BY <1>5, <1>6, <1>7 DEF StartingRight, Ref
<1>10. UpRight'
  BY <1>5, <1>6, <1>7 DEF UpRight, Ref
<1>11. MarksRight'
  <2> SUFFICES ASSUME NEW s \in Subsystems
               PROVE  /\ s \in asked <=> s \in flags_initialized \cup {x} \/ Has(l, "mark", s)
                      /\ Has(l, "mark", s) => s \notin flags_initialized \cup {x}
    BY <1>5 DEF MarksRight
  <2>1. QED
    BY <1>4, <1>6, <1>7 DEF MarksRight
<1>12. FormerRight'
  BY <1>4, <1>5, <1>6, <1>7 DEF FormerRight
<1>13. SubTypes'
  BY <1>3, <1>5, <1>6 DEF SubTypes
<1>14. CallRight'
  BY <1>3, <1>5, <1>8, <1>9, <1>10, <1>11, <1>12 DEF CallRight
<1>15. QED
  BY <1>5, <1>13, <1>14 DEF SubInv

(* The last item of a call.                                                *)
LEMMA LastIs ==
  ASSUME SubInv, ~SDL_bInMainQuit, NEW op \in {"return", "fail"}, Next_is(op)
  PROVE  /\ todo # <<>> /\ Tail(todo) = <<>> /\ EndsWith(todo, op)
         /\ \A o : EndsWith(todo, o) => o = op
         /\ \A o, s : Has(todo, o, s) => o = op
         /\ \A s \in Subsystems :
              SDL_SubsystemRefCount[s] = uses[s] + HeldBy(up, s) + Kept(s)
<1>1. todo # <<>>
  BY DEF Next_is
<1>2. PICK d \in Item, l \in Seq(Item), b \in Amounts : First(d, l, b)
  BY <1>1, FrontIs
<1>3. /\ d.op = op /\ todo = <<d>> \o l /\ Tail(todo) = l
      /\ Adds(l, b) /\ Fits(d, l, b)
  BY <1>2 DEF First, Next_is
<1>4. l = <<>>
  BY <1>3 DEF Fits, Lasts
<1>5. \A s \in Subsystems : b[s] = 0
  BY <1>3, <1>4, NothingAdds
<1>6. \A o : EndsWith(todo, o) => o = op
  <2> SUFFICES ASSUME NEW o, o # op PROVE ~EndsWith(todo, o)
    OBVIOUS
  <2>1. QED
    BY <1>3, <1>4, EndsCons, NothingHas
<1>7. EndsWith(todo, op)
  <2>1. Len(todo) = 1 /\ todo[1] = d
    BY <1>3, <1>4
  <2>2. QED
    BY <2>1, <1>1, <1>3 DEF EndsWith
<1>8. \A o, s : Has(todo, o, s) => o = op
  BY <1>3, <1>4, HasCons, NothingHas
<1>9. \A s \in Subsystems : SDL_SubsystemRefCount[s] = uses[s] + HeldBy(up, s) + Kept(s)
  <2> TAKE s \in Subsystems
  <2>1. /\ SDL_SubsystemRefCount[s] = uses[s] + HeldBy(up, s) + b[s] + Weight(d, s) + Kept(s)
        /\ uses[s] \in Nat /\ HeldBy(up, s) \in Nat /\ b[s] \in Nat /\ Kept(s) \in Nat
    BY <1>2, FrontCounts
  <2>2. Weight(d, s) = 0
    BY <1>3 DEF Weight
  <2>3. QED
    BY <2>1, <2>2, <1>5
<1>10. QED
  BY <1>1, <1>3, <1>4, <1>6, <1>7, <1>8, <1>9

(* At rest.                                                                *)
LEMMA RestGoesOn ==
  ASSUME SubTypes', SDL_bInMainQuit' = FALSE, todo' = <<>>,
         \A s \in Subsystems : SDL_SubsystemRefCount'[s] = uses'[s] + HeldBy(up', s),
         \A s \in Subsystems : s \in up' <=> SDL_SubsystemRefCount'[s] > 0
  PROVE  SubInv'
<1>1. PICK a \in Amounts : \A s \in Subsystems : a[s] = 0
  <2>1. [s \in Subsystems |-> 0] \in Amounts
    BY DEF Amounts
  <2>2. QED
    BY <2>1
<1>2. Adds(<<>>, a)
  BY <1>1, NothingAdds
<1>3. Balance(a)'
  <2> SUFFICES ASSUME NEW s \in Subsystems
               PROVE  SDL_SubsystemRefCount'[s] = uses'[s] + HeldBy(up', s) + a[s] + 0
    BY NothingHas DEF Balance, Ref, Kept
  <2>1. uses'[s] \in Nat /\ HeldBy(up', s) \in Nat
    BY HeldType DEF SubTypes
  <2>2. QED
    BY <2>1, <1>1
<1>4. StartingRight' /\ MarksRight' /\ FormerRight'
  BY NothingHas DEF StartingRight, MarksRight, FormerRight
<1>5. UpRight'
  <2> SUFFICES ASSUME NEW s \in Subsystems
               PROVE  /\ s \in up' => SDL_SubsystemRefCount'[s] > 0
                      /\ ~(s \notin up' /\ SDL_SubsystemRefCount'[s] > 0)
    BY NothingHas DEF UpRight, Ref
  <2>1. QED
    OBVIOUS
<1>6. QED
  BY <1>2, <1>3, <1>4, <1>5 DEF SubInv, CallRight

LEMMA ReturnKeeps ==
  ASSUME SubInv, ~SDL_bInMainQuit, Return
  PROVE  SubInv'
<1>1. /\ todo # <<>> /\ Tail(todo) = <<>> /\ EndsWith(todo, "return")
      /\ \A o, s : Has(todo, o, s) => o = "return"
      /\ \A s \in Subsystems : SDL_SubsystemRefCount[s] = uses[s] + HeldBy(up, s) + Kept(s)
  <2>1. "return" \in {"return", "fail"} /\ Next_is("return")
    BY DEF Return
  <2>2. QED
    BY <2>1, LastIs
<1>2. StartingRight /\ UpRight /\ MarksRight /\ FormerRight /\ SubTypes
  BY DEF SubInv, CallRight
<1>3. /\ UNCHANGED <<SDL_SubsystemRefCount, SDL_bInMainQuit, up, flags_initialized, asked, former>>
      /\ todo' = <<>> /\ up' = up
      /\ uses' = [s \in Subsystems |-> IF s \in asked THEN uses[s] + 1 ELSE uses[s]]
  <2>1. todo' = <<>> \o Tail(todo)
    BY DEF Return, Continue
  <2>2. QED
    BY <1>1, <2>1 DEF Return
<1>4. SubTypes'
  <2>1. uses' \in [Subsystems -> Nat]
    BY <1>2, <1>3 DEF SubTypes
  <2>2. QED
    BY <2>1, <1>2, <1>3 DEF SubTypes
<1>5. \A s \in Subsystems : SDL_SubsystemRefCount'[s] = uses'[s] + HeldBy(up', s)
  <2> TAKE s \in Subsystems
  <2>1. s \in asked <=> s \in flags_initialized
    BY <1>1, <1>2 DEF MarksRight
  <2>2. uses'[s] = uses[s] + Kept(s)
    BY <2>1, <1>1, <1>2, <1>3 DEF Kept, SubTypes
  <2>3. uses[s] \in Nat /\ HeldBy(up, s) \in Nat /\ Kept(s) \in Nat
    BY <1>2, HeldType DEF SubTypes, Kept
  <2>4. SDL_SubsystemRefCount[s] = uses'[s] + HeldBy(up, s)
    BY <1>1, <2>2, <2>3
  <2>5. QED
    BY <2>4, <1>3
<1>6. \A s \in Subsystems : s \in up' <=> SDL_SubsystemRefCount'[s] > 0
  <2>1. \A s \in Subsystems : ~Has(todo, "open", s) /\ ~Has(todo, "dec", s)
    BY <1>1
  <2>2. QED
    BY <2>1, <1>2, <1>3 DEF UpRight, Ref
<1>7. SDL_bInMainQuit' = FALSE
  BY <1>2, <1>3 DEF SubTypes
<1>8. QED
  BY <1>3, <1>4, <1>5, <1>6, <1>7, RestGoesOn

(* A call that failed: what is counted is what was.                        *)
LEMMA FailRestores ==
  ASSUME SubInv, ~SDL_bInMainQuit, Next_is("fail")
  PROVE  /\ SDL_SubsystemRefCount = former
         /\ Tail(todo) = <<>>
         /\ \A s \in Subsystems : SDL_SubsystemRefCount[s] = uses[s] + HeldBy(up, s)
         /\ \A s \in Subsystems : s \in up <=> SDL_SubsystemRefCount[s] > 0
<1>1. /\ Tail(todo) = <<>> /\ EndsWith(todo, "fail") /\ ~EndsWith(todo, "return")
      /\ \A o, s : Has(todo, o, s) => o = "fail"
      /\ \A s \in Subsystems : SDL_SubsystemRefCount[s] = uses[s] + HeldBy(up, s) + Kept(s)
  <2>1. "fail" \in {"return", "fail"}
    OBVIOUS
  <2>2. QED
    BY <2>1, LastIs
<1>2. StartingRight /\ UpRight /\ MarksRight /\ FormerRight /\ SubTypes
  BY DEF SubInv, CallRight
<1>3. \A s \in Subsystems : SDL_SubsystemRefCount[s] = uses[s] + HeldBy(up, s)
  <2> TAKE s \in Subsystems
  <2>1. uses[s] \in Nat /\ HeldBy(up, s) \in Nat /\ Kept(s) = 0
    BY <1>1, <1>2, HeldType DEF SubTypes, Kept
  <2>2. QED
    BY <2>1, <1>1
<1>4. \A s \in Subsystems : s \in up <=> SDL_SubsystemRefCount[s] > 0
  <2>1. \A s \in Subsystems : ~Has(todo, "open", s) /\ ~Has(todo, "dec", s)
    BY <1>1
  <2>2. QED
    BY <2>1, <1>2 DEF UpRight, Ref
<1>5. up = Counted(SDL_SubsystemRefCount)
  BY <1>2, <1>4 DEF Counted, SubTypes
<1>6. Accounted(uses, SDL_SubsystemRefCount)
  BY <1>3, <1>5 DEF Accounted
<1>7. Accounted(uses, former)
  BY <1>1, <1>2 DEF FormerRight
<1>8. QED
  BY <1>1, <1>2, <1>3, <1>4, <1>6, <1>7, CountsDetermined DEF SubTypes

LEMMA FailKeeps ==
  ASSUME SubInv, ~SDL_bInMainQuit, Fail
  PROVE  SubInv'
<1>1. /\ Tail(todo) = <<>>
      /\ \A s \in Subsystems : SDL_SubsystemRefCount[s] = uses[s] + HeldBy(up, s)
      /\ \A s \in Subsystems : s \in up <=> SDL_SubsystemRefCount[s] > 0
  BY FailRestores DEF Fail
<1>2. /\ UNCHANGED <<SDL_SubsystemRefCount, SDL_bInMainQuit, up, flags_initialized, uses, asked, former>>
      /\ todo' = <<>>
  <2>1. todo' = <<>> \o Tail(todo)
    BY DEF Fail, Continue
  <2>2. QED
    BY <1>1, <2>1 DEF Fail
<1>3. SubTypes' /\ SDL_bInMainQuit' = FALSE
  BY <1>2 DEF SubInv, SubTypes
<1>4. QED
  BY <1>1, <1>2, <1>3, RestGoesOn

LEMMA BelowIs ==
  ASSUME NEW x, NEW l
  PROVE  Below(x, l) <=> \A op \in UnderWay : \A s : Has(l, op, s) => Rank(x) < Rank(s)
  BY DEF Below, Has

LEMMA AlikeBelow ==
  ASSUME NEW x, NEW l, NEW m, Alike(m, l), Below(x, l)
  PROVE  Below(x, m)
<1>1. \A op \in UnderWay : \A s : Has(m, op, s) <=> Has(l, op, s)
  BY DEF Alike, UnderWay
<1>2. QED
  BY <1>1, BelowIs

LEMMA PairIs == \A a, b : <<a>> \o <<b>> = <<a, b>>
<1> SUFFICES ASSUME NEW a, NEW b PROVE <<a>> \o <<b>> = <<a, b>>
  OBVIOUS
<1> DEFINE p == <<a>> \o <<b>>
           q == <<a, b>>
<1>1. <<a>> \in Seq({a, b}) /\ <<b>> \in Seq({a, b})
  OBVIOUS
<1>2. /\ p \in Seq({a, b}) /\ Len(p) = 2 /\ p[1] = a /\ p[2] = b
      /\ q \in Seq({a, b}) /\ Len(q) = 2 /\ q[1] = a /\ q[2] = b
  BY <1>1
<1> HIDE DEF p, q
<1>3. \A i \in 1 .. Len(p) : p[i] = q[i]
  BY <1>2
<1>4. QED
  BY <1>2, <1>3, SeqEqual DEF p, q

(* What is quit with a subsystem: for what it takes, and what it implies.  *)
LEMMA DoBoth ==
  ASSUME NEW op, NEW g, NEW k,
         g = <<>> \/ \E z \in Subsystems : g = <<z>>,
         k = <<>> \/ \E z \in Subsystems : k = <<z>>
  PROVE  Do(op, g \o k) = Do(op, g) \o Do(op, k)
<1>1. CASE g = <<>>
  <2>1. Do(op, g) = <<>>
    BY <1>1, DoIs
  <2>2. g \o k = k
    <3>1. CASE k = <<>>
      BY <3>1, <1>1
    <3>2. ASSUME NEW z \in Subsystems, k = <<z>> PROVE g \o k = k
      BY <3>2, <1>1
    <3>3. QED
      BY <3>1, <3>2
  <2>3. <<>> \o Do(op, k) = Do(op, k)
    <3>1. CASE k = <<>>
      BY <3>1, DoIs
    <3>2. ASSUME NEW z \in Subsystems, k = <<z>> PROVE <<>> \o Do(op, k) = Do(op, k)
      <4>1. Do(op, k) = <<ItemOf(op, z)>>
        BY <3>2, DoIs
      <4>2. QED
        BY <4>1
    <3>3. QED
      BY <3>1, <3>2
  <2>4. QED
    BY <2>1, <2>2, <2>3
<1>2. ASSUME NEW y \in Subsystems, g = <<y>> PROVE Do(op, g \o k) = Do(op, g) \o Do(op, k)
  <2>1. Do(op, g) = <<ItemOf(op, y)>>
    BY <1>2, DoIs
  <2>2. CASE k = <<>>
    <3>1. g \o k = g /\ Do(op, k) = <<>>
      BY <1>2, <2>2, DoIs
    <3>2. <<ItemOf(op, y)>> \o <<>> = <<ItemOf(op, y)>>
      OBVIOUS
    <3>3. QED
      BY <2>1, <3>1, <3>2
  <2>3. ASSUME NEW z \in Subsystems, k = <<z>> PROVE Do(op, g \o k) = Do(op, g) \o Do(op, k)
    <3>1. Do(op, k) = <<ItemOf(op, z)>>
      BY <2>3, DoIs
    <3>2. g \o k = <<y, z>>
      BY <1>2, <2>3, PairIs
    <3>3. Do(op, <<y, z>>) = <<ItemOf(op, y), ItemOf(op, z)>>
      BY DEF Do, ItemOf
    <3>4. <<ItemOf(op, y)>> \o <<ItemOf(op, z)>> = <<ItemOf(op, y), ItemOf(op, z)>>
      BY PairIs
    <3>5. QED
      BY <2>1, <3>1, <3>2, <3>3, <3>4
  <2>4. QED
    BY <2>2, <2>3
<1>3. QED
  BY <1>1, <1>2

LEMMA Accounts ==
  ASSUME NEW c, NEW u \in Nat, NEW p, NEW q \in Nat, NEW a \in Nat, NEW z, NEW o \in Nat,
         NEW i \in Nat, NEW t \in Nat, NEW k \in Nat,
         p = q + i + t, z = a + o + i + t, c = u + p + a + o + k
  PROVE  c = u + q + z + k
  OBVIOUS

(* The last reference to a subsystem: it runs, and none holds it.          *)
LEMMA LastReference ==
  ASSUME SubInv, ~SDL_bInMainQuit, Next_is("quit"), Ref(This) = 1
  PROVE  This \in up /\ HeldBy(up, This) = 0
<1>1. todo # <<>>
  BY DEF Next_is
<1>2. PICK d \in Item, l \in Seq(Item), b \in Amounts : First(d, l, b)
  BY <1>1, FrontIs
<1> DEFINE x == d.s
<1>3. /\ d.op = "quit" /\ x \in Subsystems /\ todo = <<d>> \o l /\ Tail(todo) = l /\ This = x
      /\ Adds(l, b) /\ Fits(d, l, b)
  BY <1>2, ItemHas DEF First, Next_is, This
<1>4. Below(x, l)
  BY <1>3 DEF Fits
<1>5. /\ \A op \in {"begin", "open", "dec"} : ~Has(l, op, x)
      /\ \A op \in {"begin", "open", "dec"}, s \in Subsystems : Has(todo, op, s) <=> Has(l, op, s)
  <2>1. \A op \in {"begin", "open", "dec"} : ~Has(l, op, x)
    BY <1>3, <1>4, BelowHas DEF UnderWay
  <2>2. \A op \in {"begin", "open", "dec"}, s \in Subsystems :
           Has(todo, op, s) <=> (d.op = op /\ d.s = s) \/ Has(l, op, s)
    BY <1>3, HasCons
  <2>3. QED
    BY <2>1, <2>2, <1>3
<1>6. StartingRight /\ UpRight /\ SubTypes
  BY DEF SubInv, CallRight
<1>7. SDL_SubsystemRefCount[x] = 1 /\ x \in up
  BY <1>3, <1>5, <1>6 DEF UpRight, Ref
<1>8. HeldBy(up, x) = 0
  <2>1. Weight(d, x) = 1
    BY <1>3 DEF Weight, One
  <2>2. /\ SDL_SubsystemRefCount[x] = uses[x] + HeldBy(up, x) + b[x] + Weight(d, x) + Kept(x)
        /\ uses[x] \in Nat /\ HeldBy(up, x) \in Nat /\ b[x] \in Nat /\ Kept(x) \in Nat
    BY <1>2, <1>3, FrontCounts
  <2>3. QED
    BY <2>1, <2>2, <1>7
<1>9. QED
  BY <1>3, <1>7, <1>8

LEMMA QuitShutsDown ==
  ASSUME SubInv, ~SDL_bInMainQuit, QuitOne, Ref(This) = 1
  PROVE  SubInv'
<1>1. todo # <<>>
  BY DEF QuitOne, Next_is
<1>2. PICK d \in Item, l \in Seq(Item), b \in Amounts : First(d, l, b)
  BY <1>1, FrontIs
<1> DEFINE x == d.s
<1>3. /\ d.op = "quit" /\ x \in Subsystems /\ todo = <<d>> \o l /\ Tail(todo) = l /\ This = x
      /\ Adds(l, b) /\ Fits(d, l, b)
  BY <1>2, ItemHas DEF First, QuitOne, Next_is, This
<1>4. Below(x, l)
  BY <1>3 DEF Fits
<1>5. /\ SameCall(todo, l)
      /\ \A op \in {"begin", "open", "dec"} : ~Has(l, op, x)
      /\ \A op \in {"begin", "open", "dec"}, s \in Subsystems : Has(todo, op, s) <=> Has(l, op, s)
  <2>1. SameCall(todo, l)
    BY <1>3, SameCallCons
  <2>2. \A op \in {"begin", "open", "dec"} : ~Has(l, op, x)
    BY <1>3, <1>4, BelowHas DEF UnderWay
  <2>3. \A op \in {"begin", "open", "dec"}, s \in Subsystems :
           Has(todo, op, s) <=> (d.op = op /\ d.s = s) \/ Has(l, op, s)
    BY <1>3, HasCons
  <2>4. QED
    BY <2>1, <2>2, <2>3, <1>3
<1>6. StartingRight /\ UpRight /\ SubTypes
  BY DEF SubInv, CallRight
<1>7. SDL_SubsystemRefCount[x] = 1 /\ x \in up
  BY <1>3, LastReference DEF QuitOne, Ref
<1>8. \A s \in Subsystems :
        /\ SDL_SubsystemRefCount[s] = uses[s] + HeldBy(up, s) + b[s] + One(x, s) + Kept(s)
        /\ uses[s] \in Nat /\ HeldBy(up, s) \in Nat /\ b[s] \in Nat /\ Kept(s) \in Nat
        /\ Imp(x, s) \in {0, 1} /\ Tak(x, s) \in {0, 1} /\ One(x, s) \in {0, 1}
        /\ One(x, x) = 1 /\ (s # x => One(x, s) = 0)
  <2> TAKE s \in Subsystems
  <2>1. Weight(d, s) = One(x, s)
    BY <1>3 DEF Weight
  <2>2. /\ Imp(x, s) \in {0, 1} /\ Tak(x, s) \in {0, 1} /\ One(x, s) \in {0, 1}
        /\ One(x, x) = 1 /\ (s # x => One(x, s) = 0)
    BY PartsOfOne
  <2>3. /\ SDL_SubsystemRefCount[s] = uses[s] + HeldBy(up, s) + b[s] + Weight(d, s) + Kept(s)
        /\ uses[s] \in Nat /\ HeldBy(up, s) \in Nat /\ b[s] \in Nat /\ Kept(s) \in Nat
    BY <1>2, FrontCounts
  <2>4. QED
    BY <2>1, <2>2, <2>3
<1>10. /\ UNCHANGED <<SDL_SubsystemRefCount, SDL_bInMainQuit, flags_initialized, uses, asked, former>>
       /\ up' = up \ {x} /\ SDL_SubsystemRefCount' = SDL_SubsystemRefCount
       /\ todo' = (Do("quit", Takes(x) \o Implied(x)) \o ToDo("dec", x)) \o l
  BY <1>3, <1>7 DEF QuitOne, ShouldQuit, DroppedByQuit, Continue
<1> DEFINE e == ItemOf("dec", x)
           l2 == <<e>> \o l
           i == Do("quit", Implied(x))
           l3 == i \o l2
           k == Do("quit", Takes(x))
           m == k \o l3
<1>11. e \in Item /\ e.op = "dec" /\ e.s = x
  BY <1>3, ItemIs DEF Ops
<1>12. PICK b2 \in Amounts : \A s \in Subsystems : b2[s] = b[s] + One(x, s)
  <2>1. \A s \in Subsystems : b[s] + One(x, s) \in Nat
    BY <1>8
  <2>2. [s \in Subsystems |-> b[s] + One(x, s)] \in Amounts
    BY <2>1 DEF Amounts
  <2>3. QED
    BY <2>2
<1>13. Adds(l2, b2)
  <2>1. Fits(e, l, b)
    BY <1>11, <1>4 DEF Fits, Starts, Lasts
  <2>2. \A s \in Subsystems : b2[s] = b[s] + Weight(e, s)
    BY <1>11, <1>12 DEF Weight
  <2>3. QED
    BY <1>3, <1>11, <2>1, <2>2, Pushed
<1>14. l2 \in Seq(Item) /\ SameCall(l2, l)
  BY <1>11, ConsIs, SameCallCons
<1>15. \A z \in Subsystems : Implied(x) = <<z>> \/ Takes(x) = <<z>> => Below(z, l2)
  <2> SUFFICES ASSUME NEW z \in Subsystems, Implied(x) = <<z>> \/ Takes(x) = <<z>> PROVE Below(z, l2)
    OBVIOUS
  <2>1. Rank(z) < Rank(x)
    BY <1>3, HoldsLower
  <2>2. Below(z, l)
    BY <1>3, <1>4, <2>1, BelowLess
  <2>3. QED
    BY <1>11, <2>1, <2>2, BelowCons
<1>16. PICK b3 \in Amounts : \A s \in Subsystems : b3[s] = b2[s] + Imp(x, s)
  <2>1. \A s \in Subsystems : b2[s] + Imp(x, s) \in Nat
    BY <1>8 DEF Amounts
  <2>2. [s \in Subsystems |-> b2[s] + Imp(x, s)] \in Amounts
    BY <2>1 DEF Amounts
  <2>3. QED
    BY <2>2
<1>17. PICK b4 \in Amounts : \A s \in Subsystems : b4[s] = b3[s] + Tak(x, s)
  <2>1. \A s \in Subsystems : b3[s] + Tak(x, s) \in Nat
    <3> TAKE s \in Subsystems
    <3>1. b3[s] \in Nat /\ Tak(x, s) \in {0, 1}
      BY <1>8 DEF Amounts
    <3>2. QED
      BY <3>1
  <2>2. [s \in Subsystems |-> b3[s] + Tak(x, s)] \in Amounts
    BY <2>1 DEF Amounts
  <2>3. QED
    BY <2>2
<1>18. /\ Implied(x) = <<>> \/ \E z \in Subsystems : Implied(x) = <<z>>
       /\ Takes(x) = <<>> \/ \E z \in Subsystems : Takes(x) = <<z>>
  BY <1>3, ImpliedIs, TakesIs
<1>19. \A z \in Subsystems : \A n, a : Below(z, n) => Fits(ItemOf("quit", z), n, a)
  <2> TAKE z \in Subsystems
  <2> TAKE n, a
  <2>1. ItemOf("quit", z).op = "quit" /\ ItemOf("quit", z).s = z
    BY DEF ItemOf
  <2>2. QED
    BY <2>1 DEF Fits, Starts, Lasts
<1> HIDE DEF e, l2
<1>20. Adds(l3, b3) /\ Alike(l3, l2) /\ i \in Seq(Item)
  <2>1. \A s \in Subsystems :
          b3[s] = b2[s] + (IF Implied(x) = <<s>> THEN IF "quit" = "init" THEN -1 ELSE 1 ELSE 0)
    BY <1>16 DEF Imp, Amounts
  <2>2. \A z \in Subsystems : Implied(x) = <<z>> => Fits(ItemOf("quit", z), l2, b2)
    BY <1>15, <1>19
  <2>3. QED
    BY <1>13, <1>18, <2>1, <2>2, ListPushed
<1>21. \A z \in Subsystems : Takes(x) = <<z>> => Below(z, l3)
  BY <1>15, <1>20, AlikeBelow
<1> HIDE DEF l3
<1>22. Adds(m, b4) /\ Alike(m, l3) /\ k \in Seq(Item)
  <2>1. \A s \in Subsystems :
          b4[s] = b3[s] + (IF Takes(x) = <<s>> THEN IF "quit" = "init" THEN -1 ELSE 1 ELSE 0)
    BY <1>17 DEF Tak, Amounts
  <2>2. \A z \in Subsystems : Takes(x) = <<z>> => Fits(ItemOf("quit", z), l3, b3)
    BY <1>19, <1>21
  <2>3. QED
    BY <1>18, <1>20, <2>1, <2>2, ListPushed
<1>23. todo' = m
  <2>1. Do("quit", Takes(x) \o Implied(x)) = k \o i
    BY <1>18, DoBoth
  <2>2. ToDo("dec", x) = <<e>>
    BY DoIs DEF e
  <2>3. <<e>> \in Seq(Item)
    BY <1>11
  <2> HIDE DEF i, k
  <2>4. k \o i \in Seq(Item)
    BY <1>20, <1>22, Regrouped
  <2>5. ((k \o i) \o <<e>>) \o l = (k \o i) \o (<<e>> \o l)
    BY <2>3, <2>4, Regrouped
  <2>6. (k \o i) \o l2 = k \o (i \o l2)
    BY <1>14, <1>20, <1>22, Regrouped
  <2>7. QED
    BY <1>10, <2>1, <2>2, <2>5, <2>6 DEF l2, l3
<1> HIDE DEF m, i, k
<1>24. Alike(m, l2)
  BY <1>20, <1>22 DEF Alike
<1>25. SameCall(m, todo)
  <2>1. SameCall(m, l2)
    BY <1>24, AlikeSame
  <2>2. SameCall(m, l)
    BY <2>1, <1>14, SameCallIs
  <2>3. QED
    BY <2>2, <1>5, SameCallIs
<1>26. \A op \in {"begin", "open", "dec"}, s \in Subsystems :
         Has(m, op, s) <=> (op = "dec" /\ s = x) \/ Has(todo, op, s)
  <2>1. \A op \in {"begin", "open", "dec"}, s \in Subsystems : Has(m, op, s) <=> Has(l2, op, s)
    BY <1>24 DEF Alike
  <2>2. \A op \in {"begin", "open", "dec"}, s \in Subsystems :
          Has(l2, op, s) <=> (e.op = op /\ e.s = s) \/ Has(l, op, s)
    BY <1>11, HasCons DEF l2
  <2>3. QED
    BY <2>1, <2>2, <1>5, <1>11
<1>27. StartingRight'
  <2> SUFFICES ASSUME NEW s \in Subsystems
               PROVE  /\ Has(m, "begin", s) => SDL_SubsystemRefCount[s] = 0
                      /\ Has(m, "open", s) => s \notin up' /\ SDL_SubsystemRefCount[s] = 1
    BY <1>10, <1>23 DEF StartingRight, Ref
  <2>1. QED
    BY <1>6, <1>10, <1>26 DEF StartingRight, Ref
<1>28. UpRight'
  <2> SUFFICES ASSUME NEW s \in Subsystems
               PROVE  /\ s \in up' => SDL_SubsystemRefCount[s] > 0
                                     /\ (Has(m, "dec", s) => SDL_SubsystemRefCount[s] > 1)
                      /\ s \notin up' /\ SDL_SubsystemRefCount[s] > 0 =>
                           SDL_SubsystemRefCount[s] = 1 /\ (Has(m, "open", s) \/ Has(m, "dec", s))
    BY <1>10, <1>23 DEF UpRight, Ref
  <2>1. CASE s = x
    BY <2>1, <1>7, <1>10, <1>26
  <2>2. CASE s # x
    BY <2>2, <1>6, <1>10, <1>26 DEF UpRight, Ref
  <2>3. QED
    BY <2>1, <2>2
<1>29. \A s \in Subsystems : SDL_SubsystemRefCount'[s] = uses[s] + HeldBy(up', s) + b4[s] + Kept(s)
  <2> TAKE s \in Subsystems
  <2>1. HeldBy(up, s) = HeldBy(up', s) + Imp(x, s) + Tak(x, s)
    BY <1>6, <1>7, <1>10, HeldLess DEF SubTypes
  <2>2. HeldBy(up', s) \in Nat
    BY <1>6, <1>10, HeldType DEF SubTypes
  <2>3. b4[s] = b[s] + One(x, s) + Imp(x, s) + Tak(x, s) /\ b4[s] \in Nat
    <3>1. b4[s] = b3[s] + Tak(x, s) /\ b3[s] = b2[s] + Imp(x, s) /\ b2[s] = b[s] + One(x, s)
      BY <1>12, <1>16, <1>17
    <3>2. QED
      BY <3>1 DEF Amounts
  <2>4. /\ SDL_SubsystemRefCount[s] = uses[s] + HeldBy(up, s) + b[s] + One(x, s) + Kept(s)
        /\ uses[s] \in Nat /\ b[s] \in Nat /\ Kept(s) \in Nat
    BY <1>8
  <2>5. Imp(x, s) \in Nat /\ Tak(x, s) \in Nat /\ One(x, s) \in Nat
    BY <1>8
  <2> DEFINE hs == HeldBy(up', s)
             hp == HeldBy(up, s)
             ks == Kept(s)
             cs == SDL_SubsystemRefCount[s]
             us == uses[s]
             zs == b4[s]
             bs == b[s]
             os == One(x, s)
             is == Imp(x, s)
             ts == Tak(x, s)
  <2>8. /\ us \in Nat /\ hs \in Nat /\ bs \in Nat /\ os \in Nat /\ is \in Nat /\ ts \in Nat
        /\ ks \in Nat
        /\ hp = hs + is + ts /\ zs = bs + os + is + ts
        /\ cs = us + hp + bs + os + ks
    BY <2>1, <2>2, <2>3, <2>4, <2>5
  <2> HIDE DEF hs, hp, ks, cs, us, zs, bs, os, is, ts
  <2>6. cs = us + hs + zs + ks
    BY <2>8, Accounts
  <2>7. QED
    BY <2>6, <1>10 DEF hs, ks, cs, us, zs
<1>30. SDL_SubsystemRefCount' \in [Subsystems -> Nat] /\ up' \subseteq Subsystems
  BY <1>6, <1>10 DEF SubTypes
<1>31. QED
  BY <1>10, <1>22, <1>23, <1>25, <1>27, <1>28, <1>29, <1>30, CallGoesOn

LEMMA QuitCountsDown ==
  ASSUME SubInv, ~SDL_bInMainQuit, QuitOne, Ref(This) # 1
  PROVE  SubInv'
<1>1. todo # <<>>
  BY DEF QuitOne, Next_is
<1>2. PICK d \in Item, l \in Seq(Item), b \in Amounts : First(d, l, b)
  BY <1>1, FrontIs
<1> DEFINE x == d.s
           e == ItemOf("dec", x)
           m == <<e>> \o l
<1>3. /\ d.op = "quit" /\ x \in Subsystems /\ todo = <<d>> \o l /\ Tail(todo) = l /\ This = x
      /\ Adds(l, b) /\ Fits(d, l, b)
  BY <1>2, ItemHas DEF First, QuitOne, Next_is, This
<1>4. Below(x, l)
  BY <1>3 DEF Fits
<1>5. /\ SameCall(todo, l)
      /\ \A op \in {"begin", "open", "dec"}, s \in Subsystems : Has(todo, op, s) <=> Has(l, op, s)
  <2>1. SameCall(todo, l)
    BY <1>3, SameCallCons
  <2>2. \A op \in {"begin", "open", "dec"}, s \in Subsystems :
           Has(todo, op, s) <=> (d.op = op /\ d.s = s) \/ Has(l, op, s)
    BY <1>3, HasCons
  <2>3. QED
    BY <2>1, <2>2, <1>3
<1>6. StartingRight /\ UpRight /\ SubTypes
  BY DEF SubInv, CallRight
<1>7. \A op \in {"open", "dec"} : ~Has(todo, op, x)
  BY <1>3, <1>4, <1>5, BelowHas DEF UnderWay
<1>8. \A s \in Subsystems :
        /\ SDL_SubsystemRefCount[s] = uses[s] + HeldBy(up, s) + b[s] + One(x, s) + Kept(s)
        /\ uses[s] \in Nat /\ HeldBy(up, s) \in Nat /\ b[s] \in Nat /\ Kept(s) \in Nat
        /\ One(x, s) \in {0, 1} /\ One(x, x) = 1
  <2> TAKE s \in Subsystems
  <2>1. Weight(d, s) = One(x, s)
    BY <1>3 DEF Weight
  <2>2. One(x, s) \in {0, 1} /\ One(x, x) = 1
    BY PartsOfOne
  <2>3. /\ SDL_SubsystemRefCount[s] = uses[s] + HeldBy(up, s) + b[s] + Weight(d, s) + Kept(s)
        /\ uses[s] \in Nat /\ HeldBy(up, s) \in Nat /\ b[s] \in Nat /\ Kept(s) \in Nat
    BY <1>2, FrontCounts
  <2>4. QED
    BY <2>1, <2>2, <2>3
<1>9. SDL_SubsystemRefCount[x] > 1 /\ x \in up
  <2>1. /\ SDL_SubsystemRefCount[x] = uses[x] + HeldBy(up, x) + b[x] + 1 + Kept(x)
        /\ uses[x] \in Nat /\ HeldBy(up, x) \in Nat /\ b[x] \in Nat /\ Kept(x) \in Nat
    BY <1>3, <1>8
  <2>2. SDL_SubsystemRefCount[x] # 1 /\ SDL_SubsystemRefCount[x] \in Nat
    BY <1>3, <1>6 DEF Ref, SubTypes
  <2>3. SDL_SubsystemRefCount[x] > 1
    BY <2>1, <2>2
  <2>4. QED
    BY <2>2, <2>3, <1>3, <1>6 DEF UpRight, Ref
<1>10. /\ UNCHANGED <<SDL_SubsystemRefCount, SDL_bInMainQuit, up, flags_initialized, uses, asked, former>>
       /\ up' = up /\ SDL_SubsystemRefCount' = SDL_SubsystemRefCount
       /\ todo' = m
  <2>1. ToDo("dec", x) = <<e>>
    BY DoIs
  <2>2. ~ShouldQuit(x)
    BY <1>3 DEF ShouldQuit
  <2>3. QED
    BY <2>1, <2>2, <1>3 DEF QuitOne, Continue
<1>11. e \in Item /\ e.op = "dec" /\ e.s = x
  BY <1>3, ItemIs DEF Ops
<1> HIDE DEF e
<1>12. PICK a \in Amounts : \A s \in Subsystems : a[s] = b[s] + One(x, s)
  <2>1. \A s \in Subsystems : b[s] + One(x, s) \in Nat
    BY <1>8
  <2>2. [s \in Subsystems |-> b[s] + One(x, s)] \in Amounts
    BY <2>1 DEF Amounts
  <2>3. QED
    BY <2>2
<1>13. Adds(m, a)
  <2>1. Fits(e, l, b)
    BY <1>11, <1>4 DEF Fits, Starts, Lasts
  <2>2. \A s \in Subsystems : a[s] = b[s] + Weight(e, s)
    BY <1>11, <1>12 DEF Weight
  <2>3. QED
    BY <1>3, <1>11, <2>1, <2>2, Pushed
<1>14. SameCall(m, todo)
  <2>1. SameCall(m, l)
    BY <1>11, SameCallCons
  <2>2. QED
    BY <2>1, <1>5, SameCallIs
<1>15. \A op \in {"begin", "open", "dec"}, s \in Subsystems :
         Has(m, op, s) <=> (op = "dec" /\ s = x) \/ Has(todo, op, s)
  <2>1. \A op \in {"begin", "open", "dec"}, s \in Subsystems :
          Has(m, op, s) <=> (e.op = op /\ e.s = s) \/ Has(l, op, s)
    BY <1>11, HasCons
  <2>2. QED
    BY <2>1, <1>5, <1>11
<1> HIDE DEF m
<1>16. StartingRight'
  <2> SUFFICES ASSUME NEW s \in Subsystems
               PROVE  /\ Has(m, "begin", s) => SDL_SubsystemRefCount[s] = 0
                      /\ Has(m, "open", s) => s \notin up /\ SDL_SubsystemRefCount[s] = 1
    BY <1>10 DEF StartingRight, Ref
  <2>1. QED
    BY <1>6, <1>15 DEF StartingRight, Ref
<1>17. UpRight'
  <2> SUFFICES ASSUME NEW s \in Subsystems
               PROVE  /\ s \in up => SDL_SubsystemRefCount[s] > 0
                                     /\ (Has(m, "dec", s) => SDL_SubsystemRefCount[s] > 1)
                      /\ s \notin up /\ SDL_SubsystemRefCount[s] > 0 =>
                           SDL_SubsystemRefCount[s] = 1 /\ (Has(m, "open", s) \/ Has(m, "dec", s))
    BY <1>10 DEF UpRight, Ref
  <2>1. CASE s = x
    BY <2>1, <1>6, <1>9 DEF UpRight, Ref
  <2>2. CASE s # x
    BY <2>2, <1>6, <1>15 DEF UpRight, Ref
  <2>3. QED
    BY <2>1, <2>2
<1>18. \A s \in Subsystems : SDL_SubsystemRefCount'[s] = uses[s] + HeldBy(up', s) + a[s] + Kept(s)
  <2> TAKE s \in Subsystems
  <2>1. SDL_SubsystemRefCount[s] = uses[s] + HeldBy(up, s) + a[s] + Kept(s)
    <3>1. a[s] = b[s] + One(x, s)
      BY <1>12
    <3>2. QED
      BY <3>1, <1>8
  <2>2. QED
    BY <2>1, <1>10
<1>19. SDL_SubsystemRefCount' \in [Subsystems -> Nat] /\ up' \subseteq Subsystems
  BY <1>6, <1>10 DEF SubTypes
<1>20. QED
  BY <1>10, <1>13, <1>14, <1>16, <1>17, <1>18, <1>19, CallGoesOn

LEMMA DecrementKeeps ==
  ASSUME SubInv, ~SDL_bInMainQuit, Decrement
  PROVE  SubInv'
<1>1. todo # <<>>
  BY DEF Decrement, Next_is
<1>2. PICK d \in Item, l \in Seq(Item), b \in Amounts : First(d, l, b)
  BY <1>1, FrontIs
<1> DEFINE x == d.s
<1>3. /\ d.op = "dec" /\ x \in Subsystems /\ todo = <<d>> \o l /\ Tail(todo) = l /\ This = x
      /\ Adds(l, b) /\ Fits(d, l, b)
  BY <1>2, ItemHas DEF First, Decrement, Next_is, This
<1>4. Below(x, l)
  BY <1>3 DEF Fits
<1>5. /\ SameCall(l, todo)
      /\ \A op \in {"begin", "open", "dec"}, s \in Subsystems :
           Has(todo, op, s) <=> (op = "dec" /\ s = x) \/ Has(l, op, s)
  <2>1. SameCall(l, todo)
    BY <1>3, SameCallCons DEF SameCall
  <2>2. \A op \in {"begin", "open", "dec"}, s \in Subsystems :
           Has(todo, op, s) <=> (d.op = op /\ d.s = s) \/ Has(l, op, s)
    BY <1>3, HasCons
  <2>3. QED
    BY <2>1, <2>2, <1>3
<1>6. StartingRight /\ UpRight /\ SubTypes
  BY DEF SubInv, CallRight
<1>7. \A op \in {"begin", "open", "dec"} : ~Has(l, op, x)
  BY <1>3, <1>4, BelowHas DEF UnderWay
<1>8. \A s \in Subsystems :
        /\ SDL_SubsystemRefCount[s] = uses[s] + HeldBy(up, s) + b[s] + One(x, s) + Kept(s)
        /\ uses[s] \in Nat /\ HeldBy(up, s) \in Nat /\ b[s] \in Nat /\ Kept(s) \in Nat
        /\ One(x, s) \in {0, 1} /\ One(x, x) = 1 /\ (s # x => One(x, s) = 0)
  <2> TAKE s \in Subsystems
  <2>1. Weight(d, s) = One(x, s)
    BY <1>3 DEF Weight
  <2>2. One(x, s) \in {0, 1} /\ One(x, x) = 1 /\ (s # x => One(x, s) = 0)
    BY PartsOfOne
  <2>3. /\ SDL_SubsystemRefCount[s] = uses[s] + HeldBy(up, s) + b[s] + Weight(d, s) + Kept(s)
        /\ uses[s] \in Nat /\ HeldBy(up, s) \in Nat /\ b[s] \in Nat /\ Kept(s) \in Nat
    BY <1>2, FrontCounts
  <2>4. QED
    BY <2>1, <2>2, <2>3
<1>9. SDL_SubsystemRefCount[x] \in Nat /\ SDL_SubsystemRefCount[x] > 0
  <2>1. /\ SDL_SubsystemRefCount[x] = uses[x] + HeldBy(up, x) + b[x] + 1 + Kept(x)
        /\ uses[x] \in Nat /\ HeldBy(up, x) \in Nat /\ b[x] \in Nat /\ Kept(x) \in Nat
    BY <1>3, <1>8
  <2>2. QED
    BY <2>1
<1>10. /\ UNCHANGED <<SDL_bInMainQuit, up, flags_initialized, uses, asked, former>>
       /\ up' = up /\ todo' = l
       /\ SDL_SubsystemRefCount' = [SDL_SubsystemRefCount EXCEPT ![x] = @ - 1]
  <2>1. todo' = <<>> \o l
    BY <1>3 DEF Decrement, Continue
  <2>2. SDL_SubsystemRefCount' =
          [SDL_SubsystemRefCount EXCEPT ![x] = IF @ > 0 THEN @ - 1 ELSE 0]
    BY <1>3 DEF Decrement
  <2>3. SDL_SubsystemRefCount' = [SDL_SubsystemRefCount EXCEPT ![x] = @ - 1]
    BY <2>2, <1>9
  <2>4. todo' = l
    BY <2>1
  <2>5. UNCHANGED <<SDL_bInMainQuit, up, flags_initialized, uses, asked, former>> /\ up' = up
    BY DEF Decrement
  <2>6. QED
    BY <2>3, <2>4, <2>5
<1>11. /\ SDL_SubsystemRefCount' \in [Subsystems -> Nat]
       /\ SDL_SubsystemRefCount'[x] = SDL_SubsystemRefCount[x] - 1
       /\ \A s \in Subsystems : s # x => SDL_SubsystemRefCount'[s] = SDL_SubsystemRefCount[s]
  BY <1>3, <1>6, <1>9, <1>10 DEF SubTypes
<1>12. StartingRight'
  <2> SUFFICES ASSUME NEW s \in Subsystems
               PROVE  /\ Has(l, "begin", s) => SDL_SubsystemRefCount'[s] = 0
                      /\ Has(l, "open", s) => s \notin up /\ SDL_SubsystemRefCount'[s] = 1
    BY <1>10 DEF StartingRight, Ref
  <2>1. CASE s = x
    BY <2>1, <1>7
  <2>2. CASE s # x
    BY <2>2, <1>5, <1>6, <1>11 DEF StartingRight, Ref
  <2>3. QED
    BY <2>1, <2>2
<1>13. UpRight'
  <2> SUFFICES ASSUME NEW s \in Subsystems
               PROVE  /\ s \in up => SDL_SubsystemRefCount'[s] > 0
                                     /\ (Has(l, "dec", s) => SDL_SubsystemRefCount'[s] > 1)
                      /\ s \notin up /\ SDL_SubsystemRefCount'[s] > 0 =>
                           SDL_SubsystemRefCount'[s] = 1 /\ (Has(l, "open", s) \/ Has(l, "dec", s))
    BY <1>10 DEF UpRight, Ref
  <2>1. CASE s = x
    <3>1. Has(todo, "dec", x)
      BY <1>3, <1>5
    <3>2. (x \in up => SDL_SubsystemRefCount[x] > 1) /\ (x \notin up => SDL_SubsystemRefCount[x] = 1)
      BY <3>1, <1>3, <1>6, <1>9 DEF UpRight, Ref
    <3>3. (x \in up => SDL_SubsystemRefCount'[x] > 0) /\ (x \notin up => SDL_SubsystemRefCount'[x] = 0)
      BY <3>2, <1>9, <1>11
    <3>4. QED
      BY <2>1, <3>3, <1>7
  <2>2. CASE s # x
    BY <2>2, <1>5, <1>6, <1>11 DEF UpRight, Ref
  <2>3. QED
    BY <2>1, <2>2
<1>14. \A s \in Subsystems : SDL_SubsystemRefCount'[s] = uses[s] + HeldBy(up', s) + b[s] + Kept(s)
  <2> TAKE s \in Subsystems
  <2>1. SDL_SubsystemRefCount'[s] = SDL_SubsystemRefCount[s] - One(x, s)
    <3>1. CASE s = x
      BY <3>1, <1>3, <1>8, <1>11
    <3>2. CASE s # x
      BY <3>2, <1>6, <1>8, <1>11 DEF SubTypes
    <3>3. QED
      BY <3>1, <3>2
  <2>2. SDL_SubsystemRefCount'[s] = uses[s] + HeldBy(up, s) + b[s] + Kept(s)
    BY <2>1, <1>8
  <2>3. QED
    BY <2>2, <1>10
<1>15. up' \subseteq Subsystems
  BY <1>6, <1>10 DEF SubTypes
<1>16. QED
  BY <1>3, <1>5, <1>10, <1>11, <1>12, <1>13, <1>14, <1>15, CallGoesOn

-----------------------------------------------------------------------------
(* SDL_Quit.                                                               *)
MainItems(list) ==
  /\ list \in Seq(Item) /\ EndsWith(list, "reset")
  /\ \A i \in 1 .. Len(list) :
       list[i].op \in {"quit", "dec", "reset"} /\ (list[i].op = "reset" => i = Len(list))

LEMMA MainMore ==
  ASSUME NEW d \in Item, d.op \in {"quit", "dec"}, NEW l, MainItems(l)
  PROVE  MainItems(<<d>> \o l)
<1> DEFINE m == <<d>> \o l
<1>1. l \in Seq(Item) /\ l # <<>> /\ EndsWith(l, "reset")
  BY DEF MainItems, EndsWith
<1>2. /\ m \in Seq(Item) /\ Len(m) = Len(l) + 1 /\ m[1] = d /\ Len(l) \in Nat
      /\ \A i \in 1 .. Len(l) : m[i + 1] = l[i]
  BY <1>1, ConsIs
<1>3. EndsWith(m, "reset")
  BY <1>1, EndsCons
<1> HIDE DEF m
<1>4. \A i \in 1 .. Len(m) : m[i].op \in {"quit", "dec", "reset"} /\ (m[i].op = "reset" => i = Len(m))
  <2> TAKE i \in 1 .. Len(m)
  <2>1. CASE i = 1
    BY <2>1, <1>2
  <2>2. CASE i # 1
    <3>1. i - 1 \in 1 .. Len(l) /\ (i - 1) + 1 = i
      BY <2>2, <1>2
    <3>2. m[i] = l[i - 1]
      BY <3>1, <1>2
    <3>3. l[i - 1].op \in {"quit", "dec", "reset"} /\ (l[i - 1].op = "reset" => i - 1 = Len(l))
      BY <3>1 DEF MainItems
    <3>4. QED
      BY <3>1, <3>2, <3>3, <1>2
  <2>3. QED
    BY <2>1, <2>2
<1>5. QED
  BY <1>2, <1>3, <1>4 DEF MainItems, m

LEMMA MainLess ==
  ASSUME NEW d \in Item, NEW l \in Seq(Item), MainItems(<<d>> \o l)
  PROVE  \/ d.op = "reset" /\ l = <<>>
         \/ d.op \in {"quit", "dec"} /\ MainItems(l)
<1> DEFINE m == <<d>> \o l
<1>1. /\ Len(m) = Len(l) + 1 /\ m[1] = d /\ Len(l) \in Nat
      /\ \A i \in 1 .. Len(l) : m[i + 1] = l[i]
      /\ Len(l) = 0 <=> l = <<>>
  BY ConsIs
<1> HIDE DEF m
<1>2. /\ EndsWith(m, "reset")
      /\ \A i \in 1 .. Len(m) :
           m[i].op \in {"quit", "dec", "reset"} /\ (m[i].op = "reset" => i = Len(m))
  BY DEF MainItems, m
<1>3. 1 \in 1 .. Len(m)
  BY <1>1
<1>4. CASE d.op = "reset"
  <2>1. 1 = Len(m)
    BY <1>1, <1>2, <1>3, <1>4
  <2>2. QED
    BY <2>1, <1>1, <1>4
<1>5. CASE d.op # "reset"
  <2>1. d.op \in {"quit", "dec"}
    BY <1>1, <1>2, <1>3, <1>5
  <2>2. EndsWith(l, "reset")
    BY <1>2, <1>5, EndsCons DEF m
  <2>3. ASSUME NEW i \in 1 .. Len(l)
        PROVE  l[i].op \in {"quit", "dec", "reset"} /\ (l[i].op = "reset" => i = Len(l))
    <3>1. i + 1 \in 1 .. Len(m) /\ m[i + 1] = l[i]
      BY <1>1
    <3>2. l[i].op \in {"quit", "dec", "reset"} /\ (l[i].op = "reset" => i + 1 = Len(m))
      BY <3>1, <1>2
    <3>3. QED
      BY <3>2, <1>1
  <2>4. QED
    BY <2>1, <2>2, <2>3 DEF MainItems
<1>6. QED
  BY <1>4, <1>5

(* None or one to be quit before l.                                        *)
LEMMA MainPushed ==
  ASSUME NEW holds, holds = <<>> \/ \E z \in Subsystems : holds = <<z>>,
         NEW l, MainItems(l)
  PROVE  /\ MainItems(Do("quit", holds) \o l) /\ Do("quit", holds) \in Seq(Item)
         /\ \A s : Has(l, "quit", s) => Has(Do("quit", holds) \o l, "quit", s)
         /\ \A s : Has(Do("quit", holds) \o l, "dec", s) <=> Has(l, "dec", s)
<1>1. l \in Seq(Item)
  BY DEF MainItems
<1>2. CASE holds = <<>>
  <2>1. Do("quit", holds) = <<>> /\ <<>> \o l = l /\ <<>> \in Seq(Item)
    <3>1. <<>> \o l = l /\ <<>> \in Seq(Item)
      BY <1>1
    <3>2. Do("quit", <<>>) = <<>>
      BY DoIs
    <3>3. QED
      BY <3>1, <3>2, <1>2
  <2>2. QED
    BY <2>1
<1>3. ASSUME NEW z \in Subsystems, holds = <<z>>
      PROVE  /\ MainItems(Do("quit", holds) \o l) /\ Do("quit", holds) \in Seq(Item)
             /\ \A s : Has(l, "quit", s) => Has(Do("quit", holds) \o l, "quit", s)
             /\ \A s : Has(Do("quit", holds) \o l, "dec", s) <=> Has(l, "dec", s)
  <2> DEFINE e == ItemOf("quit", z)
  <2>1. Do("quit", holds) = <<e>>
    BY <1>3, DoIs
  <2>2. e \in Item /\ e.op = "quit"
    BY ItemIs DEF Ops
  <2> HIDE DEF e
  <2>3. MainItems(<<e>> \o l) /\ <<e>> \in Seq(Item)
    BY <2>2, MainMore
  <2>4. /\ \A s : Has(l, "quit", s) => Has(<<e>> \o l, "quit", s)
        /\ \A s : Has(<<e>> \o l, "dec", s) <=> Has(l, "dec", s)
    BY <2>2, <1>1, HasCons
  <2>5. QED
    BY <2>1, <2>3, <2>4
<1>4. QED
  BY <1>2, <1>3

(* What is first.                                                          *)
MainFront(d, l) ==
  /\ d \in Item /\ l \in Seq(Item) /\ todo = <<d>> \o l /\ todo # <<>>
  /\ Head(todo) = d /\ Tail(todo) = l
  /\ \/ d.op = "reset" /\ l = <<>>
     \/ d.op \in {"quit", "dec"} /\ MainItems(l)

LEMMA MainFrontIs ==
  ASSUME SubInv, SDL_bInMainQuit
  PROVE  \E d \in Item, l \in Seq(Item) : MainFront(d, l)
<1>1. todo \in Seq(Item) /\ todo # <<>> /\ MainItems(todo)
  BY DEF SubInv, SubTypes, MainRight, MainItems, EndsWith
<1> DEFINE d == todo[1]
           l == Tail(todo)
<1>2. d \in Item /\ l \in Seq(Item) /\ todo = <<d>> \o l /\ Head(todo) = d
  BY <1>1, Rejoined, TailIs
<1>3. MainItems(<<d>> \o l)
  BY <1>1, <1>2
<1> HIDE DEF d, l
<1>4. \/ d.op = "reset" /\ l = <<>>
      \/ d.op \in {"quit", "dec"} /\ MainItems(l)
  BY <1>2, <1>3, MainLess
<1>5. MainFront(d, l)
  BY <1>1, <1>2, <1>4 DEF MainFront, l
<1>6. QED
  BY <1>2, <1>5

LEMMA MainGoesOn ==
  ASSUME SubInv, SDL_bInMainQuit, UNCHANGED <<SDL_bInMainQuit, flags_initialized, uses, asked, former>>,
         SDL_SubsystemRefCount' \in [Subsystems -> Nat], up' \subseteq Subsystems, MainItems(todo'),
         \A s \in Subsystems :
           /\ s \in up' => SDL_SubsystemRefCount'[s] > 0 /\ Has(todo', "quit", s)
           /\ Has(todo', "dec", s) => s \notin up'
  PROVE  SubInv'
<1>1. SubTypes'
  BY DEF SubInv, SubTypes, MainItems
<1>2. MainRight'
  <2>1. \A s \in Subsystems : uses'[s] = 0
    BY DEF SubInv, MainRight
  <2>2. QED
    BY <2>1 DEF MainRight, MainItems, Ref
<1>3. QED
  BY <1>1, <1>2 DEF SubInv

LEMMA MainQuitKeeps ==
  ASSUME SubInv, SDL_bInMainQuit, QuitOne
  PROVE  SubInv'
<1>1. PICK d \in Item, l \in Seq(Item) : MainFront(d, l)
  BY MainFrontIs
<1> DEFINE x == d.s
           e == ItemOf("dec", x)
           n == <<e>> \o l
<1>2. /\ d.op = "quit" /\ x \in Subsystems /\ todo = <<d>> \o l /\ Tail(todo) = l /\ This = x
      /\ MainItems(l)
  BY <1>1, ItemHas DEF MainFront, QuitOne, Next_is, This
<1>3. /\ SDL_SubsystemRefCount \in [Subsystems -> Nat] /\ up \subseteq Subsystems
      /\ \A s \in Subsystems :
           /\ s \in up => SDL_SubsystemRefCount[s] > 0 /\ Has(todo, "quit", s)
           /\ Has(todo, "dec", s) => s \notin up
  BY DEF SubInv, SubTypes, MainRight, Ref
<1>4. \A s \in Subsystems :
        /\ Has(todo, "quit", s) <=> x = s \/ Has(l, "quit", s)
        /\ Has(todo, "dec", s) <=> Has(l, "dec", s)
  <2>1. \A op, s : Has(todo, op, s) <=> (d.op = op /\ d.s = s) \/ Has(l, op, s)
    BY <1>2, HasCons
  <2>2. QED
    BY <2>1, <1>2
<1>5. e \in Item /\ e.op = "dec" /\ e.s = x /\ ToDo("dec", x) = <<e>>
  <2>1. e \in Item /\ e.op = "dec" /\ e.s = x
    BY <1>2, ItemIs DEF Ops
  <2>2. ToDo("dec", x) = <<e>>
    BY DoIs
  <2>3. QED
    BY <2>1, <2>2
<1> HIDE DEF e
<1>6. /\ MainItems(n) /\ n \in Seq(Item) /\ <<e>> \in Seq(Item)
      /\ \A s : Has(n, "quit", s) <=> Has(l, "quit", s)
      /\ \A s : Has(n, "dec", s) <=> x = s \/ Has(l, "dec", s)
  <2>1. MainItems(n)
    BY <1>2, <1>5, MainMore
  <2>2. \A op, s : Has(n, op, s) <=> (e.op = op /\ e.s = s) \/ Has(l, op, s)
    BY <1>5, HasCons
  <2>3. <<e>> \in Seq(Item)
    BY <1>5
  <2>4. QED
    BY <2>1, <2>2, <2>3, <1>5 DEF MainItems
<1>7. /\ UNCHANGED <<SDL_SubsystemRefCount, SDL_bInMainQuit, flags_initialized, uses, asked, former>>
      /\ SDL_SubsystemRefCount' = SDL_SubsystemRefCount
  BY DEF QuitOne
<1>8. CASE SDL_SubsystemRefCount[x] > 0
  <2> DEFINE t == IF x = "video" /\ x \notin up THEN <<>> ELSE Takes(x)
             i == Do("quit", Implied(x))
             k == Do("quit", t)
             li == i \o n
             m == k \o li
  <2>1. up' = up \ {x} /\ todo' = (Do("quit", t \o Implied(x)) \o <<e>>) \o l
    <3>1. ShouldQuit(x)
      BY <1>8 DEF ShouldQuit, Ref
    <3>2. QED
      BY <3>1, <1>2, <1>5 DEF QuitOne, Continue, DroppedByQuit
  <2>2. /\ Implied(x) = <<>> \/ \E z \in Subsystems : Implied(x) = <<z>>
        /\ t = <<>> \/ \E z \in Subsystems : t = <<z>>
    BY <1>2, ImpliedIs, TakesIs
  <2> HIDE DEF n, t
  <2>3. Do("quit", t \o Implied(x)) = k \o i
    BY <2>2, DoBoth
  <2>4. /\ MainItems(li) /\ i \in Seq(Item)
        /\ \A s : Has(n, "quit", s) => Has(li, "quit", s)
        /\ \A s : Has(li, "dec", s) <=> Has(n, "dec", s)
    BY <2>2, <1>6, MainPushed
  <2> HIDE DEF li, i
  <2>5. /\ MainItems(m) /\ k \in Seq(Item)
        /\ \A s : Has(li, "quit", s) => Has(m, "quit", s)
        /\ \A s : Has(m, "dec", s) <=> Has(li, "dec", s)
    BY <2>2, <2>4, MainPushed
  <2> HIDE DEF k
  <2>6. todo' = m
    <3>1. k \o i \in Seq(Item)
      BY <2>4, <2>5, Regrouped
    <3>2. ((k \o i) \o <<e>>) \o l = (k \o i) \o (<<e>> \o l)
      BY <3>1, <1>6, Regrouped
    <3>3. (k \o i) \o n = k \o (i \o n)
      BY <2>4, <2>5, <1>6, Regrouped
    <3>4. QED
      BY <2>1, <2>3, <3>2, <3>3 DEF li, n
  <2> HIDE DEF m
  <2>7. ASSUME NEW s \in Subsystems
        PROVE  /\ s \in up' => SDL_SubsystemRefCount'[s] > 0 /\ Has(m, "quit", s)
               /\ Has(m, "dec", s) => s \notin up'
    <3>1. s \in up' => SDL_SubsystemRefCount'[s] > 0 /\ Has(l, "quit", s)
      BY <2>1, <1>3, <1>4, <1>7
    <3>2. Has(l, "quit", s) => Has(m, "quit", s)
      BY <2>4, <2>5, <1>6
    <3>3. Has(m, "dec", s) => x = s \/ Has(todo, "dec", s)
      BY <2>4, <2>5, <1>4, <1>6
    <3>4. Has(m, "dec", s) => s \notin up'
      BY <3>3, <2>1, <1>3
    <3>5. QED
      BY <3>1, <3>2, <3>4
  <2>8. up' \subseteq Subsystems /\ SDL_SubsystemRefCount' \in [Subsystems -> Nat]
    BY <2>1, <1>3, <1>7
  <2>9. QED
    BY <2>5, <2>6, <2>7, <2>8, <1>7, MainGoesOn
<1>9. CASE ~(SDL_SubsystemRefCount[x] > 0)
  <2>1. up' = up /\ todo' = n
    <3>1. ~ShouldQuit(x)
      BY <1>9 DEF ShouldQuit, Ref
    <3>2. QED
      BY <3>1, <1>2, <1>5 DEF QuitOne, Continue
  <2>2. x \notin up
    BY <1>2, <1>3, <1>9
  <2> HIDE DEF n
  <2>3. ASSUME NEW s \in Subsystems
        PROVE  /\ s \in up' => SDL_SubsystemRefCount'[s] > 0 /\ Has(n, "quit", s)
               /\ Has(n, "dec", s) => s \notin up'
    BY <2>1, <2>2, <1>3, <1>4, <1>6, <1>7
  <2>4. up' \subseteq Subsystems /\ SDL_SubsystemRefCount' \in [Subsystems -> Nat]
    BY <2>1, <1>3, <1>7
  <2>5. QED
    BY <2>1, <2>3, <2>4, <1>6, <1>7, MainGoesOn
<1>10. QED
  BY <1>8, <1>9

LEMMA MainDecrementKeeps ==
  ASSUME SubInv, SDL_bInMainQuit, Decrement
  PROVE  SubInv'
<1>1. PICK d \in Item, l \in Seq(Item) : MainFront(d, l)
  BY MainFrontIs
<1> DEFINE x == d.s
<1>2. /\ d.op = "dec" /\ x \in Subsystems /\ todo = <<d>> \o l /\ Tail(todo) = l /\ This = x
      /\ MainItems(l)
  BY <1>1, ItemHas DEF MainFront, Decrement, Next_is, This
<1>3. /\ SDL_SubsystemRefCount \in [Subsystems -> Nat] /\ up \subseteq Subsystems
      /\ \A s \in Subsystems :
           /\ s \in up => SDL_SubsystemRefCount[s] > 0 /\ Has(todo, "quit", s)
           /\ Has(todo, "dec", s) => s \notin up
  BY DEF SubInv, SubTypes, MainRight, Ref
<1>4. \A s \in Subsystems :
        /\ Has(todo, "quit", s) <=> Has(l, "quit", s)
        /\ Has(todo, "dec", s) <=> x = s \/ Has(l, "dec", s)
  <2>1. \A op, s : Has(todo, op, s) <=> (d.op = op /\ d.s = s) \/ Has(l, op, s)
    BY <1>2, HasCons
  <2>2. QED
    BY <2>1, <1>2
<1>5. x \notin up
  BY <1>2, <1>3, <1>4
<1>6. /\ SDL_SubsystemRefCount' =
           [SDL_SubsystemRefCount EXCEPT ![x] = IF @ > 0 THEN @ - 1 ELSE 0]
      /\ UNCHANGED <<SDL_bInMainQuit, up, flags_initialized, uses, asked, former>>
      /\ up' = up
  BY <1>2 DEF Decrement
<1>7. todo' = l
  <2>1. todo' = <<>> \o l
    BY <1>2 DEF Decrement, Continue
  <2>2. QED
    BY <2>1
<1>8. /\ SDL_SubsystemRefCount' \in [Subsystems -> Nat]
      /\ \A s \in Subsystems : s # x => SDL_SubsystemRefCount'[s] = SDL_SubsystemRefCount[s]
  BY <1>2, <1>3, <1>6
<1>9. ASSUME NEW s \in Subsystems
      PROVE  /\ s \in up' => SDL_SubsystemRefCount'[s] > 0 /\ Has(todo', "quit", s)
             /\ Has(todo', "dec", s) => s \notin up'
  BY <1>3, <1>4, <1>5, <1>6, <1>7, <1>8
<1>10. QED
  BY <1>2, <1>3, <1>6, <1>7, <1>8, <1>9, MainGoesOn

LEMMA ResetKeeps ==
  ASSUME SubInv, SDL_bInMainQuit, Reset
  PROVE  SubInv'
<1>1. PICK d \in Item, l \in Seq(Item) : MainFront(d, l)
  BY MainFrontIs
<1>2. d.op = "reset" /\ l = <<>> /\ todo = <<d>> \o l /\ Tail(todo) = <<>>
  BY <1>1 DEF MainFront, Reset, Next_is
<1>3. \A s : ~Has(todo, "quit", s)
  <2>1. \A s : Has(todo, "quit", s) <=> (d.op = "quit" /\ d.s = s) \/ Has(l, "quit", s)
    BY <1>2, HasCons
  <2>2. \A s : ~Has(l, "quit", s)
    BY <1>2, NothingHas
  <2>3. QED
    BY <2>1, <2>2, <1>2
<1>4. up = {} /\ \A s \in Subsystems : uses[s] = 0
  BY <1>3 DEF SubInv, SubTypes, MainRight
<1>5. /\ SDL_SubsystemRefCount' = None /\ SDL_bInMainQuit' = FALSE
      /\ UNCHANGED <<up, flags_initialized, uses, asked, former>> /\ up' = {} /\ uses' = uses
      /\ todo' = <<>>
  <2>1. todo' = <<>> \o Tail(todo)
    BY DEF Reset, Continue
  <2>2. QED
    BY <2>1, <1>2, <1>4 DEF Reset
<1>6. \A s \in Subsystems : SDL_SubsystemRefCount'[s] = 0 /\ HeldBy(up', s) = 0
  BY <1>5, HeldNone DEF None
<1>7. SubTypes'
  <2>1. SDL_SubsystemRefCount' \in [Subsystems -> Nat] /\ todo' \in Seq(Item)
    BY <1>5 DEF None
  <2>2. /\ uses \in [Subsystems -> Nat] /\ former \in [Subsystems -> Nat]
        /\ flags_initialized \subseteq Subsystems /\ asked \subseteq Subsystems
    BY DEF SubInv, SubTypes
  <2>3. QED
    BY <2>1, <2>2, <1>5 DEF SubTypes
<1>8. /\ \A s \in Subsystems : SDL_SubsystemRefCount'[s] = uses'[s] + HeldBy(up', s)
      /\ \A s \in Subsystems : s \in up' <=> SDL_SubsystemRefCount'[s] > 0
  <2>1. \A s \in Subsystems : uses'[s] = 0
    BY <1>4, <1>5
  <2>2. QED
    BY <2>1, <1>5, <1>6
<1>9. QED
  BY <1>5, <1>7, <1>8, RestGoesOn

LEMMA MainOnly ==
  ASSUME SubInv, SDL_bInMainQuit, NEW op, Next_is(op)
  PROVE  op \in {"quit", "dec", "reset"}
<1>1. PICK d \in Item, l \in Seq(Item) : MainFront(d, l)
  BY MainFrontIs
<1>2. QED
  BY <1>1 DEF MainFront, Next_is

LEMMA ResetOnlyAtEnd ==
  ASSUME SubInv, Next_is("reset")
  PROVE  SDL_bInMainQuit
<1> SUFFICES ASSUME ~SDL_bInMainQuit PROVE FALSE
  OBVIOUS
<1>1. todo # <<>>
  BY DEF Next_is
<1>2. PICK d \in Item, l \in Seq(Item), b \in Amounts : First(d, l, b)
  BY <1>1, FrontIs
<1>3. QED
  BY <1>2 DEF First, Fits, Next_is

(* Between calls.                                                          *)
LEMMA AtRestIs ==
  ASSUME SubInv, todo = <<>>
  PROVE  /\ SDL_bInMainQuit = FALSE /\ SubTypes
         /\ \A s \in Subsystems : SDL_SubsystemRefCount[s] = uses[s] + HeldBy(up, s)
         /\ \A s \in Subsystems : s \in up <=> SDL_SubsystemRefCount[s] > 0
<1>1. SDL_bInMainQuit = FALSE
  BY DEF SubInv, SubTypes, MainRight, EndsWith
<1>2. SubTypes /\ UpRight
  BY <1>1 DEF SubInv, CallRight
<1>3. PICK a \in Amounts : Adds(todo, a) /\ Balance(a)
  BY <1>1 DEF SubInv, CallRight
<1>4. \A s \in Subsystems : a[s] = 0
  BY <1>3, NothingAdds
<1>5. \A s \in Subsystems : SDL_SubsystemRefCount[s] = uses[s] + HeldBy(up, s)
  <2> TAKE s \in Subsystems
  <2>1. Kept(s) = 0
    BY NothingHas DEF Kept
  <2>2. SDL_SubsystemRefCount[s] = uses[s] + HeldBy(up, s) + a[s] + Kept(s)
    BY <1>3 DEF Balance, Ref
  <2>3. uses[s] \in Nat /\ HeldBy(up, s) \in Nat
    BY <1>2, HeldType DEF SubTypes
  <2>4. QED
    BY <2>1, <2>2, <2>3, <1>4
<1>6. \A s \in Subsystems : s \in up <=> SDL_SubsystemRefCount[s] > 0
  <2>1. \A s \in Subsystems : ~Has(todo, "open", s) /\ ~Has(todo, "dec", s)
    BY NothingHas
  <2>2. QED
    BY <2>1, <1>2 DEF UpRight, Ref
<1>7. QED
  BY <1>1, <1>2, <1>5, <1>6

(* SDL_Quit quits every subsystem.                                         *)
MainList(list, Q) ==
  MainItems(list) /\ (\A s \in Q : Has(list, "quit", s)) /\ \A s : ~Has(list, "dec", s)

LEMMA MainListMore ==
  ASSUME NEW list, NEW Q, MainList(list, Q), NEW x \in Subsystems
  PROVE  MainList(QuitFlag(Subsystems, x, list), Q \cup {x})
<1> DEFINE e == ItemOf("quit", x)
<1>1. e \in Item /\ e.op = "quit" /\ e.s = x
  BY ItemIs DEF Ops
<1>2. QuitFlag(Subsystems, x, list) = <<e>> \o list
  <2>1. ToDo("quit", x) = <<e>>
    BY DoIs
  <2>2. QED
    BY <2>1 DEF QuitFlag
<1> HIDE DEF e
<1>3. MainItems(<<e>> \o list) /\ list \in Seq(Item)
  BY <1>1, MainMore DEF MainList, MainItems
<1>4. \A op, s : Has(<<e>> \o list, op, s) <=> (e.op = op /\ e.s = s) \/ Has(list, op, s)
  BY <1>1, <1>3, HasCons
<1>5. QED
  BY <1>1, <1>2, <1>3, <1>4 DEF MainList

LEMMA MainListNone == MainList(End("reset"), {})
<1> DEFINE e == ItemOf("reset", "events")
<1>1. e \in Item /\ e.op = "reset"
  <2>1. "reset" \in Ops /\ "events" \in Subsystems
    BY DEF Ops, Subsystems
  <2>2. QED
    BY <2>1, ItemIs
<1>2. End("reset") = <<e>>
  BY DoIs
<1> HIDE DEF e
<1>3. <<e>> \in Seq(Item) /\ Len(<<e>>) = 1 /\ <<e>>[1] = e /\ <<e>> # <<>>
  BY <1>1
<1>4. EndsWith(<<e>>, "reset") /\ \A s : ~Has(<<e>>, "dec", s)
  BY <1>1, <1>3 DEF EndsWith, Has
<1>5. MainItems(<<e>>)
  BY <1>1, <1>3, <1>4 DEF MainItems
<1>6. QED
  BY <1>2, <1>4, <1>5 DEF MainList

LEMMA MainListAll == MainList(Quits(Subsystems, End("reset")), Subsystems)
<1> DEFINE l0 == End("reset")
           l1 == QuitFlag(Subsystems, "events", l0)
           l2 == QuitFlag(Subsystems, "timer", l1)
           l3 == QuitFlag(Subsystems, "video", l2)
           l4 == QuitFlag(Subsystems, "audio", l3)
           l5 == QuitFlag(Subsystems, "haptic", l4)
           l6 == QuitFlag(Subsystems, "joystick", l5)
           l7 == QuitFlag(Subsystems, "gamepad", l6)
           l8 == QuitFlag(Subsystems, "sensor", l7)
           q1 == {} \cup {"events"}
           q2 == q1 \cup {"timer"}
           q3 == q2 \cup {"video"}
           q4 == q3 \cup {"audio"}
           q5 == q4 \cup {"haptic"}
           q6 == q5 \cup {"joystick"}
           q7 == q6 \cup {"gamepad"}
           q8 == q7 \cup {"sensor"}
<1>1. Quits(Subsystems, End("reset")) = l8
  BY DEF Quits
<1>2. /\ "events" \in Subsystems /\ "timer" \in Subsystems /\ "video" \in Subsystems
      /\ "audio" \in Subsystems /\ "haptic" \in Subsystems /\ "joystick" \in Subsystems
      /\ "gamepad" \in Subsystems /\ "sensor" \in Subsystems
  BY DEF Subsystems
<1>3. q8 = Subsystems
  BY DEF Subsystems
<1>4. MainList(l0, {})
  BY MainListNone
<1> HIDE DEF l8, q8, l0
<1>11. MainList(l1, q1)
  BY <1>2, <1>4, MainListMore
<1> HIDE DEF l1, q1
<1>12. MainList(l2, q2)
  BY <1>2, <1>11, MainListMore
<1> HIDE DEF l2, q2
<1>13. MainList(l3, q3)
  BY <1>2, <1>12, MainListMore
<1> HIDE DEF l3, q3
<1>14. MainList(l4, q4)
  BY <1>2, <1>13, MainListMore
<1> HIDE DEF l4, q4
<1>15. MainList(l5, q5)
  BY <1>2, <1>14, MainListMore
<1> HIDE DEF l5, q5
<1>16. MainList(l6, q6)
  BY <1>2, <1>15, MainListMore
<1> HIDE DEF l6, q6
<1>17. MainList(l7, q7)
  BY <1>2, <1>16, MainListMore
<1> HIDE DEF l7, q7
<1>18. MainList(l8, q8)
  BY <1>2, <1>17, MainListMore DEF l8, q8
<1>19. QED
  BY <1>1, <1>3, <1>18

LEMMA MainBegins ==
  ASSUME SubInv, SDL_Quit
  PROVE  SubInv'
<1>1. todo = <<>>
  BY DEF SDL_Quit
<1>2. /\ SubTypes /\ \A s \in Subsystems : s \in up <=> SDL_SubsystemRefCount[s] > 0
  BY <1>1, AtRestIs
<1> DEFINE m == Quits(Subsystems, End("reset"))
<1>3. MainList(m, Subsystems)
  BY MainListAll
<1>4. /\ SDL_bInMainQuit' = TRUE /\ todo' = m /\ uses' = None
      /\ UNCHANGED <<SDL_SubsystemRefCount, up, flags_initialized, asked, former>>
  BY DEF SDL_Quit
<1> HIDE DEF m
<1>5. uses' \in [Subsystems -> Nat] /\ \A s \in Subsystems : uses'[s] = 0
  BY <1>4 DEF None
<1>6. SubTypes'
  BY <1>2, <1>3, <1>4, <1>5 DEF SubTypes, MainList, MainItems
<1>7. MainRight'
  BY <1>2, <1>3, <1>4, <1>5 DEF MainRight, MainList, MainItems, Ref
<1>8. QED
  BY <1>4, <1>6, <1>7 DEF SubInv

LEMMA QuitBegins ==
  ASSUME SubInv, NEW flags \in SUBSET Subsystems, SDL_QuitSubSystem(flags)
  PROVE  SubInv'
<1>1. todo = <<>>
  BY DEF SDL_QuitSubSystem
<1>2. /\ SDL_bInMainQuit = FALSE /\ SubTypes
      /\ \A s \in Subsystems : SDL_SubsystemRefCount[s] = uses[s] + HeldBy(up, s)
      /\ \A s \in Subsystems : s \in up <=> SDL_SubsystemRefCount[s] > 0
  BY <1>1, AtRestIs
<1> DEFINE m == Quits(flags, <<>>)
<1>3. QuitList(<<>>, m, flags)
  BY QuitListNone, QuitListAll
<1>4. /\ todo' = m /\ \A s \in flags : uses[s] > 0
      /\ uses' = [s \in Subsystems |-> IF s \in flags THEN uses[s] - 1 ELSE uses[s]]
      /\ UNCHANGED <<SDL_SubsystemRefCount, SDL_bInMainQuit, up, flags_initialized, asked, former>>
      /\ up' = up
  BY DEF SDL_QuitSubSystem
<1> HIDE DEF m
<1>5. /\ m \in Seq(Item)
      /\ \A op \in {"return", "fail"} : ~EndsWith(m, op)
      /\ \A op \in {"mark", "begin", "open", "dec"} : \A s : ~Has(m, op, s)
  BY <1>3, NothingHas DEF QuitList, Alike
<1>6. PICK a \in Amounts : Adds(m, a) /\ \A s \in Subsystems : a[s] = IF s \in flags THEN 1 ELSE 0
  BY <1>3 DEF QuitList
<1>7. uses' \in [Subsystems -> Nat] /\ \A s \in Subsystems : uses[s] = uses'[s] + a[s]
  <2>1. uses \in [Subsystems -> Nat]
    BY <1>2 DEF SubTypes
  <2>2. \A s \in Subsystems :
          (IF s \in flags THEN uses[s] - 1 ELSE uses[s]) \in Nat
    BY <2>1, <1>4
  <2>3. uses' \in [Subsystems -> Nat]
    BY <2>2, <1>4
  <2>4. \A s \in Subsystems : uses[s] = uses'[s] + a[s]
    BY <2>1, <1>4, <1>6
  <2>5. QED
    BY <2>3, <2>4
<1>8. SubTypes'
  BY <1>2, <1>4, <1>5, <1>7 DEF SubTypes
<1>9. Balance(a)'
  <2> SUFFICES ASSUME NEW s \in Subsystems
               PROVE  SDL_SubsystemRefCount[s] = uses'[s] + HeldBy(up, s) + a[s] + 0
    BY <1>4, <1>5 DEF Balance, Ref, Kept
  <2> DEFINE us == uses'[s]
  <2>1. /\ us \in Nat /\ HeldBy(up, s) \in Nat /\ a[s] \in Nat
        /\ SDL_SubsystemRefCount[s] = us + a[s] + HeldBy(up, s)
    BY <1>2, <1>7, HeldType DEF SubTypes, Amounts
  <2> HIDE DEF us
  <2>2. SDL_SubsystemRefCount[s] = us + HeldBy(up, s) + a[s] + 0
    BY <2>1
  <2>3. QED
    BY <2>2 DEF us
<1>10. StartingRight' /\ MarksRight' /\ FormerRight'
  BY <1>4, <1>5 DEF StartingRight, MarksRight, FormerRight
<1>11. UpRight'
  <2> SUFFICES ASSUME NEW s \in Subsystems
               PROVE  /\ s \in up => SDL_SubsystemRefCount[s] > 0
                      /\ ~Has(m, "dec", s)
                      /\ ~(s \notin up /\ SDL_SubsystemRefCount[s] > 0)
    BY <1>4 DEF UpRight, Ref
  <2>1. QED
    BY <1>2, <1>5
<1>12. CallRight'
  BY <1>4, <1>6, <1>9, <1>10, <1>11 DEF CallRight
<1>13. QED
  BY <1>2, <1>4, <1>8, <1>12 DEF SubInv

-----------------------------------------------------------------------------
(* A list of subsystems to be initialized, before the end of the call.     *)
CallOps(list) == \A i \in 1 .. Len(list) : list[i].op \in {"init", "mark", "return"}

InitList(list, M) ==
  /\ list \in Seq(Item) /\ EndsWith(list, "return") /\ CallOps(list)
  /\ \A s : Has(list, "mark", s) <=> s \in M
  /\ \E a \in Amounts : Adds(list, a) /\ \A s \in Subsystems : a[s] = 0

LEMMA CallOpsMore ==
  ASSUME NEW d \in Item, d.op \in {"init", "mark", "return"}, NEW l \in Seq(Item), CallOps(l)
  PROVE  CallOps(<<d>> \o l)
<1> DEFINE m == <<d>> \o l
<1>1. /\ Len(m) = Len(l) + 1 /\ m[1] = d /\ Len(l) \in Nat
      /\ \A i \in 1 .. Len(l) : m[i + 1] = l[i]
  BY ConsIs
<1> HIDE DEF m
<1>2. \A i \in 1 .. Len(m) : m[i].op \in {"init", "mark", "return"}
  <2> TAKE i \in 1 .. Len(m)
  <2>1. CASE i = 1
    BY <2>1, <1>1
  <2>2. CASE i # 1
    <3>1. i - 1 \in 1 .. Len(l) /\ (i - 1) + 1 = i
      BY <2>2, <1>1
    <3>2. m[i] = l[i - 1]
      BY <3>1, <1>1
    <3>3. QED
      BY <3>1, <3>2 DEF CallOps
  <2>3. QED
    BY <2>1, <2>2
<1>3. QED
  BY <1>2 DEF CallOps, m

LEMMA CallOpsHas ==
  ASSUME NEW l, CallOps(l)
  PROVE  /\ \A op \in {"begin", "open", "dec", "unwind", "quit"} : \A s : ~Has(l, op, s)
         /\ \A x : Below(x, l)
  BY DEF CallOps, Has, Below, UnderWay

LEMMA InitListMore ==
  ASSUME NEW list, NEW M, InitList(list, M), NEW flags, NEW x \in Subsystems, x \notin M
  PROVE  InitList(InitFlag(flags, x, list), M \cup (flags \cap {x}))
<1>1. CASE x \notin flags
  <2>1. InitFlag(flags, x, list) = list /\ M \cup (flags \cap {x}) = M
    BY <1>1 DEF InitFlag
  <2>2. QED
    BY <2>1
<1>2. CASE x \in flags
  <2> DEFINE d == ItemOf("mark", x)
             e == ItemOf("init", x)
             l == <<d>> \o list
             m == <<e>> \o l
  <2>1. d \in Item /\ d.op = "mark" /\ d.s = x
    BY ItemIs DEF Ops
  <2>2. e \in Item /\ e.op = "init" /\ e.s = x
    BY ItemIs DEF Ops
  <2>3. InitFlag(flags, x, list) = m
    <3>1. ToDo("init", x) = <<e>> /\ ToDo("mark", x) = <<d>>
      BY DoIs
    <3>2. QED
      BY <3>1, <1>2 DEF InitFlag
  <2> HIDE DEF d, e
  <2>4. /\ list \in Seq(Item) /\ EndsWith(list, "return") /\ CallOps(list) /\ list # <<>>
        /\ \A s : Has(list, "mark", s) <=> s \in M
    BY DEF InitList, EndsWith
  <2>5. PICK a \in Amounts : Adds(list, a) /\ \A s \in Subsystems : a[s] = 0
    BY DEF InitList
  <2>6. PICK b \in Amounts : \A s \in Subsystems : b[s] = a[s] + One(x, s)
    <3>1. \A s \in Subsystems : a[s] + One(x, s) \in Nat
      BY PartsOfOne DEF Amounts
    <3>2. [s \in Subsystems |-> a[s] + One(x, s)] \in Amounts
      BY <3>1 DEF Amounts
    <3>3. QED
      BY <3>2
  <2>7. Fits(d, list, a)
    <3>1. Below(x, list) /\ ~Has(list, "mark", x)
      BY <2>4, CallOpsHas
    <3>2. \A j \in 1 .. Len(list) :
            list[j].op \in {"init", "mark", "return"} /\ (list[j].op = "mark" => list[j].s # x)
      BY <3>1, <2>4 DEF CallOps, Has
    <3>3. QED
      BY <3>1, <3>2, <2>1, <2>4, <2>5 DEF Fits, Starts, Lasts
  <2>8. Adds(l, b)
    <3>1. \A s \in Subsystems : b[s] = a[s] + Weight(d, s)
      BY <2>1, <2>6 DEF Weight
    <3>2. QED
      BY <2>1, <2>5, <2>7, <3>1, Pushed
  <2>9. /\ l \in Seq(Item) /\ l[1] = d /\ EndsWith(l, "return") /\ CallOps(l)
    <3>1. l \in Seq(Item) /\ l[1] = d
      BY <2>1, <2>4, ConsIs
    <3>2. EndsWith(l, "return")
      BY <2>1, <2>4, EndsCons
    <3>3. CallOps(l)
      BY <2>1, <2>4, CallOpsMore
    <3>4. QED
      BY <3>1, <3>2, <3>3
  <2>10. \A s : Has(l, "mark", s) <=> x = s \/ Has(list, "mark", s)
    BY <2>1, <2>4, HasCons
  <2> HIDE DEF l
  <2>11. Fits(e, l, b)
    <3>1. Below(x, l) /\ Wants(l[1], x)
      BY <2>1, <2>9, CallOpsHas DEF Wants
    <3>2. QED
      BY <3>1, <2>2, <2>9 DEF Fits, Starts, Lasts
  <2>12. Adds(m, a)
    <3>1. \A s \in Subsystems : a[s] = b[s] + Weight(e, s)
      <4> TAKE s \in Subsystems
      <4>1. One(x, s) \in {0, 1} /\ b[s] = a[s] + One(x, s) /\ a[s] = 0
        BY <2>5, <2>6, PartsOfOne
      <4>2. Weight(e, s) = -One(x, s)
        BY <2>2 DEF Weight
      <4>3. QED
        BY <4>1, <4>2
    <3>2. QED
      BY <2>2, <2>5, <2>8, <2>11, <3>1, Pushed
  <2>13. m \in Seq(Item) /\ EndsWith(m, "return") /\ CallOps(m)
    <3>1. m \in Seq(Item)
      BY <2>2, <2>9, ConsIs
    <3>2. EndsWith(m, "return")
      BY <2>2, <2>9, EndsCons
    <3>3. CallOps(m)
      BY <2>2, <2>9, CallOpsMore
    <3>4. QED
      BY <3>1, <3>2, <3>3
  <2>14. \A s : Has(m, "mark", s) <=> s \in M \cup (flags \cap {x})
    <3>1. \A s : Has(m, "mark", s) <=> Has(l, "mark", s)
      BY <2>2, <2>9, HasCons
    <3>2. QED
      BY <3>1, <2>4, <2>10, <1>2
  <2> HIDE DEF m
  <2>15. QED
    BY <2>3, <2>5, <2>12, <2>13, <2>14 DEF InitList
<1>3. QED
  BY <1>1, <1>2

LEMMA InitListNone == InitList(End("return"), {})
<1>1. "return" \in {"return", "fail"}
  OBVIOUS
<1>2. /\ \E a \in Amounts : Adds(End("return"), a) /\ \A s \in Subsystems : a[s] = 0
      /\ End("return") \in Seq(Item) /\ EndsWith(End("return"), "return")
      /\ \A o, s : Has(End("return"), o, s) => o = "return"
  BY <1>1, LastAdds
<1>3. CallOps(End("return"))
  BY DEF CallOps, End
<1>4. QED
  BY <1>2, <1>3 DEF InitList

LEMMA InitListAll ==
  ASSUME NEW flags \in SUBSET Subsystems
  PROVE  InitList(Inits(flags, End("return")), flags)
<1> DEFINE l0 == End("return")
           l1 == InitFlag(flags, "sensor", l0)
           l2 == InitFlag(flags, "haptic", l1)
           l3 == InitFlag(flags, "gamepad", l2)
           l4 == InitFlag(flags, "joystick", l3)
           l5 == InitFlag(flags, "audio", l4)
           l6 == InitFlag(flags, "video", l5)
           l7 == InitFlag(flags, "timer", l6)
           l8 == InitFlag(flags, "events", l7)
           q1 == {} \cup (flags \cap {"sensor"})
           q2 == q1 \cup (flags \cap {"haptic"})
           q3 == q2 \cup (flags \cap {"gamepad"})
           q4 == q3 \cup (flags \cap {"joystick"})
           q5 == q4 \cup (flags \cap {"audio"})
           q6 == q5 \cup (flags \cap {"video"})
           q7 == q6 \cup (flags \cap {"timer"})
           q8 == q7 \cup (flags \cap {"events"})
<1>1. Inits(flags, End("return")) = l8
  BY DEF Inits
<1>2. /\ "events" \in Subsystems /\ "timer" \in Subsystems /\ "video" \in Subsystems
      /\ "audio" \in Subsystems /\ "haptic" \in Subsystems /\ "joystick" \in Subsystems
      /\ "gamepad" \in Subsystems /\ "sensor" \in Subsystems
  BY DEF Subsystems
<1>3. /\ "haptic" \notin q1 /\ "gamepad" \notin q2 /\ "joystick" \notin q3 /\ "audio" \notin q4
      /\ "video" \notin q5 /\ "timer" \notin q6 /\ "events" \notin q7
  OBVIOUS
<1>4. q8 = flags
  BY DEF Subsystems
<1>5. InitList(l0, {})
  BY InitListNone
<1> HIDE DEF l8, q8, l0
<1>11. InitList(l1, q1)
  BY <1>2, <1>5, InitListMore
<1> HIDE DEF l1, q1
<1>12. InitList(l2, q2)
  BY <1>2, <1>3, <1>11, InitListMore
<1> HIDE DEF l2, q2
<1>13. InitList(l3, q3)
  BY <1>2, <1>3, <1>12, InitListMore
<1> HIDE DEF l3, q3
<1>14. InitList(l4, q4)
  BY <1>2, <1>3, <1>13, InitListMore
<1> HIDE DEF l4, q4
<1>15. InitList(l5, q5)
  BY <1>2, <1>3, <1>14, InitListMore
<1> HIDE DEF l5, q5
<1>16. InitList(l6, q6)
  BY <1>2, <1>3, <1>15, InitListMore
<1> HIDE DEF l6, q6
<1>17. InitList(l7, q7)
  BY <1>2, <1>3, <1>16, InitListMore
<1> HIDE DEF l7, q7
<1>18. InitList(l8, q8)
  BY <1>2, <1>3, <1>17, InitListMore DEF l8, q8
<1>19. QED
  BY <1>1, <1>4, <1>18

LEMMA InitBegins ==
  ASSUME SubInv, NEW flags \in SUBSET Subsystems, SDL_InitSubSystem(flags)
  PROVE  SubInv'
<1>1. todo = <<>>
  BY DEF SDL_InitSubSystem
<1>2. /\ SDL_bInMainQuit = FALSE /\ SubTypes
      /\ \A s \in Subsystems : SDL_SubsystemRefCount[s] = uses[s] + HeldBy(up, s)
      /\ \A s \in Subsystems : s \in up <=> SDL_SubsystemRefCount[s] > 0
  BY <1>1, AtRestIs
<1> DEFINE m == Inits(flags, End("return"))
<1>3. InitList(m, flags)
  BY InitListAll
<1>4. /\ todo' = m /\ flags_initialized' = {} /\ asked' = flags /\ former' = SDL_SubsystemRefCount
      /\ UNCHANGED <<SDL_SubsystemRefCount, SDL_bInMainQuit, up, uses>>
      /\ up' = up /\ uses' = uses
  BY DEF SDL_InitSubSystem
<1> HIDE DEF m
<1>5. /\ m \in Seq(Item) /\ EndsWith(m, "return")
      /\ \A s : Has(m, "mark", s) <=> s \in flags
      /\ \A op \in {"begin", "open", "dec"} : \A s : ~Has(m, op, s)
  BY <1>3, CallOpsHas DEF InitList
<1>6. PICK a \in Amounts : Adds(m, a) /\ \A s \in Subsystems : a[s] = 0
  BY <1>3 DEF InitList
<1>7. SubTypes'
  BY <1>2, <1>4, <1>5 DEF SubTypes
<1>8. Balance(a)'
  <2> SUFFICES ASSUME NEW s \in Subsystems
               PROVE  SDL_SubsystemRefCount[s] = uses[s] + HeldBy(up, s) + a[s] + 0
    BY <1>4 DEF Balance, Ref, Kept
  <2>1. uses[s] \in Nat /\ HeldBy(up, s) \in Nat
    BY <1>2, HeldType DEF SubTypes
  <2>2. QED
    BY <2>1, <1>2, <1>6
<1>9. StartingRight' /\ MarksRight'
  BY <1>4, <1>5 DEF StartingRight, MarksRight
<1>10. FormerRight'
  <2>1. up = Counted(SDL_SubsystemRefCount)
    BY <1>2 DEF Counted, SubTypes
  <2>2. Accounted(uses, SDL_SubsystemRefCount)
    BY <2>1, <1>2 DEF Accounted
  <2>3. QED
    BY <2>2, <1>4 DEF FormerRight
<1>11. UpRight'
  <2> SUFFICES ASSUME NEW s \in Subsystems
               PROVE  /\ s \in up => SDL_SubsystemRefCount[s] > 0
                      /\ ~Has(m, "dec", s)
                      /\ ~(s \notin up /\ SDL_SubsystemRefCount[s] > 0)
    BY <1>4 DEF UpRight, Ref
  <2>1. QED
    BY <1>2, <1>5
<1>12. CallRight'
  BY <1>4, <1>6, <1>8, <1>9, <1>10, <1>11 DEF CallRight
<1>13. QED
  BY <1>2, <1>4, <1>7, <1>12 DEF SubInv

-----------------------------------------------------------------------------
(* What the invariant is for.                                              *)
LEMMA SubBegins == SubInit => SubInv
<1> SUFFICES ASSUME SubInit PROVE SubInv
  OBVIOUS
<1>1. /\ todo = <<>> /\ SDL_bInMainQuit = FALSE /\ up = {} /\ flags_initialized = {} /\ asked = {}
      /\ SDL_SubsystemRefCount = None /\ uses = None /\ former = None
  BY DEF SubInit
<1>2. SubTypes
  <2>1. None \in [Subsystems -> Nat] /\ todo \in Seq(Item)
    BY <1>1 DEF None
  <2>2. QED
    BY <2>1, <1>1 DEF SubTypes
<1>3. PICK a \in Amounts : \A s \in Subsystems : a[s] = 0
  <2>1. [s \in Subsystems |-> 0] \in Amounts
    BY DEF Amounts
  <2>2. QED
    BY <2>1
<1>4. Adds(todo, a)
  BY <1>1, <1>3, NothingAdds
<1>5. Balance(a)
  <2> SUFFICES ASSUME NEW s \in Subsystems PROVE 0 = 0 + HeldBy(up, s) + a[s] + 0
    BY <1>1, NothingHas DEF Balance, Ref, Kept, None
  <2>1. HeldBy(up, s) = 0
    BY <1>1, HeldNone
  <2>2. QED
    BY <2>1, <1>3
<1>6. StartingRight /\ UpRight /\ MarksRight /\ FormerRight
  BY <1>1, NothingHas DEF StartingRight, UpRight, MarksRight, FormerRight, None, Ref
<1>7. QED
  BY <1>1, <1>2, <1>4, <1>5, <1>6 DEF SubInv, CallRight

LEMMA SubSteps ==
  ASSUME LeavesFail, SubInv, [SubNext]_subVars
  PROVE  SubInv'
<1>1. CASE UNCHANGED subVars
  BY <1>1 DEF subVars, SubInv, SubTypes, CallRight, MainRight, Balance, StartingRight, UpRight,
              MarksRight, FormerRight, Kept, Ref
<1>2. ASSUME NEW flags \in Flags, SDL_InitSubSystem(flags) PROVE SubInv'
  BY <1>2, InitBegins DEF Flags
<1>3. ASSUME NEW flags \in Flags, SDL_QuitSubSystem(flags) PROVE SubInv'
  BY <1>3, QuitBegins DEF Flags
<1>4. CASE SDL_Quit
  BY <1>4, MainBegins
<1>5. CASE InitOrIncrement
  <2>1. ~SDL_bInMainQuit
    BY <1>5, MainOnly DEF InitOrIncrement
  <2>2. QED
    BY <2>1, <1>5, InitKeeps
<1>6. CASE Begin
  <2>1. ~SDL_bInMainQuit
    BY <1>6, MainOnly DEF Begin
  <2>2. QED
    BY <2>1, <1>6, BeginKeeps
<1>7. CASE Open
  <2>1. ~SDL_bInMainQuit
    BY <1>7, MainOnly DEF Open
  <2>2. QED
    BY <2>1, <1>7, OpenKeeps
<1>8. CASE OpenFails
  <2>1. ~SDL_bInMainQuit
    BY <1>8, MainOnly DEF OpenFails
  <2>2. QED
    BY <2>1, <1>8, OpenFailsKeeps
<1>9. CASE Unwind
  <2>1. ~SDL_bInMainQuit
    BY <1>9, MainOnly DEF Unwind
  <2>2. QED
    BY <2>1, <1>9, UnwindKeeps
<1>10. CASE Mark
  <2>1. ~SDL_bInMainQuit
    BY <1>10, MainOnly DEF Mark
  <2>2. QED
    BY <2>1, <1>10, MarkKeeps
<1>11. CASE Return
  <2>1. ~SDL_bInMainQuit
    BY <1>11, MainOnly DEF Return
  <2>2. QED
    BY <2>1, <1>11, ReturnKeeps
<1>12. CASE Fail
  <2>1. ~SDL_bInMainQuit
    BY <1>12, MainOnly DEF Fail
  <2>2. QED
    BY <2>1, <1>12, FailKeeps
<1>13. CASE QuitOne
  BY <1>13, QuitShutsDown, QuitCountsDown, MainQuitKeeps
<1>14. CASE Decrement
  BY <1>14, DecrementKeeps, MainDecrementKeeps
<1>15. CASE Reset
  <2>1. SDL_bInMainQuit
    BY <1>15, ResetOnlyAtEnd DEF Reset
  <2>2. QED
    BY <2>1, <1>15, ResetKeeps
<1>16. QED
  BY <1>1, <1>2, <1>3, <1>4, <1>5, <1>6, <1>7, <1>8, <1>9, <1>10, <1>11, <1>12, <1>13, <1>14,
     <1>15 DEF SubNext

LEMMA BalancedIs == SubInv => Balanced
<1> SUFFICES ASSUME SubInv PROVE Balanced
  OBVIOUS
<1>1. AtRest => \A s \in Subsystems : Ref(s) = uses[s] + HeldBy(up, s) /\ (s \in up <=> Ref(s) > 0)
  BY AtRestIs DEF AtRest, Ref
<1>2. ASSUME Next_is("open") PROVE This \notin up
  <2>1. ~SDL_bInMainQuit /\ todo # <<>>
    BY <1>2, MainOnly DEF Next_is
  <2>2. PICK d \in Item, l \in Seq(Item), b \in Amounts : First(d, l, b)
    BY <2>1, FrontIs
  <2>3. d.op = "open" /\ This = d.s /\ d.s \in Subsystems /\ todo = <<d>> \o l
    BY <2>2, <1>2, ItemHas DEF First, Next_is, This
  <2>4. Has(todo, "open", d.s)
    BY <2>3, HasCons
  <2>5. QED
    BY <2>1, <2>3, <2>4 DEF SubInv, CallRight, StartingRight
<1>3. QED
  BY <1>1, <1>2 DEF Balanced

LEMMA FailureRestoresIs == SubInv => FailureRestores
  BY MainOnly, FailRestores DEF FailureRestores

(* Outside SDL_Quit a subsystem is shut down only when none that runs      *)
(* holds a reference to it.                                                *)
LEMMA UsersStopFirstIs == SubInv /\ ~SDL_bInMainQuit => UsersStopFirst
<1> SUFFICES ASSUME SubInv, ~SDL_bInMainQuit, Next_is("quit"), ShouldQuit(This)
             PROVE  HeldBy(up, This) = 0
  BY DEF UsersStopFirst
<1>1. Ref(This) = 1
  BY DEF ShouldQuit
<1>2. QED
  BY <1>1, LastReference

LEMMA NothingLeftIs == SubInv => NothingLeft
<1> SUFFICES ASSUME SubInv, todo = <<>>, uses = None PROVE up = {}
  BY DEF NothingLeft, AtRest
<1>1. /\ SubTypes
      /\ \A s \in Subsystems : SDL_SubsystemRefCount[s] = uses[s] + HeldBy(up, s)
      /\ \A s \in Subsystems : s \in up <=> SDL_SubsystemRefCount[s] > 0
  BY AtRestIs
<1>2. Accounted(None, SDL_SubsystemRefCount)
  <2>1. up = Counted(SDL_SubsystemRefCount)
    BY <1>1 DEF Counted, SubTypes
  <2>2. QED
    BY <2>1, <1>1 DEF Accounted
<1>3. Accounted(None, None) /\ None \in [Subsystems -> Nat]
  <2>1. Counted(None) = {}
    BY DEF Counted, None
  <2>2. \A s \in Subsystems : HeldBy(Counted(None), s) = 0
    BY <2>1, HeldNone
  <2>3. QED
    BY <2>2 DEF Accounted, None
<1>4. SDL_SubsystemRefCount = None
  BY <1>1, <1>2, <1>3, CountsDetermined DEF SubTypes
<1>5. QED
  BY <1>1, <1>4 DEF SubTypes, None

(* Whatever is initialized and quit, in whatever order and with whatever   *)
(* failures, the count of a subsystem is in the end what the application   *)
(* and the subsystems that run have taken of it, what runs is what is      *)
(* counted, and nothing is started that runs (SDL_InitSubSystem,           *)
(* SDL_QuitSubSystem and SDL_Quit of SDL.c).                               *)
THEOREM SubsystemsBalanced ==
  ASSUME LeavesFail
  PROVE  SubSpec => []Balanced
<1>1. SubInit => SubInv
  BY SubBegins
<1>2. SubInv /\ [SubNext]_subVars => SubInv'
  BY SubSteps
<1>3. SubInv => Balanced
  BY BalancedIs
<1>4. QED
  BY <1>1, <1>2, <1>3, PTL DEF SubSpec

(* SDL_InitSubSystem that fails leaves the counts as they were.            *)
THEOREM SubsystemsFailureRestores ==
  ASSUME LeavesFail
  PROVE  SubSpec => []FailureRestores
<1>1. SubInit => SubInv
  BY SubBegins
<1>2. SubInv /\ [SubNext]_subVars => SubInv'
  BY SubSteps
<1>3. SubInv => FailureRestores
  BY FailureRestoresIs
<1>4. QED
  BY <1>1, <1>2, <1>3, PTL DEF SubSpec

(* Outside SDL_Quit, SDL_QuitSubSystem and a call that fails shut nothing  *)
(* down under a subsystem that runs and holds a reference to it.           *)
THEOREM SubsystemsUsersStopFirst ==
  ASSUME LeavesFail
  PROVE  SubSpec => [](~SDL_bInMainQuit => UsersStopFirst)
<1>1. SubInit => SubInv
  BY SubBegins
<1>2. SubInv /\ [SubNext]_subVars => SubInv'
  BY SubSteps
<1>3. SubInv => (~SDL_bInMainQuit => UsersStopFirst)
  BY UsersStopFirstIs
<1>4. QED
  BY <1>1, <1>2, <1>3, PTL DEF SubSpec

(* When the application has given back what it got, nothing runs: the      *)
(* counts have no other solution, for a subsystem holds references only to *)
(* those of a lower rank.                                                  *)
THEOREM SubsystemsNothingLeft ==
  ASSUME LeavesFail
  PROVE  SubSpec => []NothingLeft
<1>1. SubInit => SubInv
  BY SubBegins
<1>2. SubInv /\ [SubNext]_subVars => SubInv'
  BY SubSteps
<1>3. SubInv => NothingLeft
  BY NothingLeftIs
<1>4. QED
  BY <1>1, <1>2, <1>3, PTL DEF SubSpec

=============================================================================
