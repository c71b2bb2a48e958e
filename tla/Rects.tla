------------------------------- MODULE Rects -------------------------------
(***************************************************************************)
(* The rectangle operations of src/src/video/SDL_rect_impl.h and           *)
(* SDL_rect.c on integers, against sets of points.  A rectangle stands for *)
(* its points; coordinates are far from where 32 bits would overflow.      *)
(***************************************************************************)
EXTENDS Integers, Sequences, SequencesExt, FiniteSetsExt

CONSTANTS
  Coordinates,    \* bound: where rectangles and points are
  Sizes,          \* bound: widths and heights, negative and 0 too
  MaxPoints       \* bound: points or rectangles in a list

ASSUME RectsAssumption ==
  Coordinates \subseteq Int /\ Sizes \subseteq Int /\ MaxPoints \in Nat

Rect == [x : Coordinates, y : Coordinates, w : Sizes, h : Sizes]
Point == [x : Coordinates, y : Coordinates]
Lists(S) == UNION {[1 .. n -> S] : n \in 1 .. MaxPoints}

RectEmpty(r) == r.w <= 0 \/ r.h <= 0
PointInRect(p, r) == p.x \in r.x .. r.x + r.w - 1 /\ p.y \in r.y .. r.y + r.h - 1

Least(a, b) == IF b < a THEN b ELSE a
Greatest(a, b) == IF b > a THEN b ELSE a

-----------------------------------------------------------------------------
(* Ends of a rectangle's sides, one past the last point.                   *)
Right(r) == r.x + r.w
Bottom(r) == r.y + r.h

HasRectIntersection_Touching(A, B) ==
  /\ ~RectEmpty(A) /\ ~RectEmpty(B)
  /\ Least(Right(A), Right(B)) >= Greatest(A.x, B.x)
  /\ Least(Bottom(A), Bottom(B)) >= Greatest(A.y, B.y)
HasRectIntersection(A, B) ==
  /\ ~RectEmpty(A) /\ ~RectEmpty(B)
  /\ Least(Right(A), Right(B)) > Greatest(A.x, B.x)
  /\ Least(Bottom(A), Bottom(B)) > Greatest(A.y, B.y)

(* The result in result, which had a value before, and what is returned.   *)
GetRectIntersection(A, B, before) ==
  IF RectEmpty(A) \/ RectEmpty(B)
  THEN [returns |-> FALSE, result |-> [before EXCEPT !.w = 0, !.h = 0]]
  ELSE LET x == Greatest(A.x, B.x)  y == Greatest(A.y, B.y)
           r == [x |-> x, y |-> y, w |-> Least(Right(A), Right(B)) - x,
                 h |-> Least(Bottom(A), Bottom(B)) - y]
       IN [returns |-> ~RectEmpty(r), result |-> r]

GetRectUnion_NoEmpty(A, B) ==
  LET x == Least(A.x, B.x)  y == Least(A.y, B.y) IN
  [x |-> x, y |-> y, w |-> Greatest(Right(A), Right(B)) - x,
   h |-> Greatest(Bottom(A), Bottom(B)) - y]
GetRectUnion(A, B) ==
  CASE RectEmpty(A) /\ RectEmpty(B) -> [x |-> 0, y |-> 0, w |-> 0, h |-> 0]
    [] RectEmpty(A) /\ ~RectEmpty(B) -> B
    [] ~RectEmpty(A) /\ RectEmpty(B) -> A
    [] OTHER ->
         LET x == Least(A.x, B.x)  y == Least(A.y, B.y) IN
         [x |-> x, y |-> y, w |-> Greatest(Right(A), Right(B)) - x,
          h |-> Greatest(Bottom(A), Bottom(B)) - y]

(* SDL_GetRectEnclosingPoints: a pass over the points.  clip is a set of   *)
(* no or one rectangle.                                                    *)
Skipped_Not(p, clip) == FALSE
Skipped(p, clip) == \E c \in clip : ~PointInRect(p, c)

Extend(box, p) ==
  [minx |-> Least(box.minx, p.x), maxx |-> Greatest(box.maxx, p.x),
   miny |-> Least(box.miny, p.y), maxy |-> Greatest(box.maxy, p.y)]

Include(boxes, p, clip) ==
  IF Skipped(p, clip) THEN boxes
  ELSE IF boxes = {} THEN {[minx |-> p.x, maxx |-> p.x, miny |-> p.y, maxy |-> p.y]}
  ELSE {Extend(box, p) : box \in boxes}

GetRectEnclosingPoints(points, clip) ==
  LET include(boxes, p) == Include(boxes, p, clip)
      boxes == IF \E c \in clip : RectEmpty(c) THEN {} ELSE FoldLeft(include, {}, points)
  IN {[x |-> b.minx, y |-> b.miny, w |-> b.maxx - b.minx + 1, h |-> b.maxy - b.miny + 1]
        : b \in boxes}

(* SDL_GetSpanEnclosingRect: the rows from y1 to before y2.                *)
SpanStart(y1, top) == IF top < 0 THEN 0 ELSE IF top < y1 THEN top ELSE y1
SpanEnd_Last(y2, bottom, height) == IF bottom > height THEN height ELSE bottom
SpanEnd(y2, bottom, height) ==
  IF bottom > height THEN height ELSE IF bottom > y2 THEN bottom ELSE y2

Expand(span, r, height) ==
  [y1 |-> SpanStart(span.y1, r.y), y2 |-> SpanEnd(span.y2, Bottom(r), height)]

GetSpanEnclosingRect(height, rects) ==
  LET expand(span, r) == Expand(span, r, height)
      span == FoldLeft(expand, [y1 |-> height, y2 |-> 0], rects)
  IN span.y1 .. span.y2 - 1

-----------------------------------------------------------------------------
(* Each behaviour is one call, of these or of RectLine's.                  *)
VARIABLE call

Unasked == call = [of |-> "nothing"]

Pair == call.of = "nothing" /\ \E A, B \in Rect : call' = [of |-> "pair", A |-> A, B |-> B]

Points ==
  call.of = "nothing" /\ \E points \in Lists(Point) :
    \E clip \in {{}} \cup {{r} : r \in Rect} :
      call' = [of |-> "points", points |-> points, clip |-> clip]

Span ==
  call.of = "nothing" /\ \E height \in {c \in Coordinates : c > 0} :
    \E rects \in Lists({r \in Rect : r.x = 0 /\ r.w = 1}) :
      call' = [of |-> "span", height |-> height, rects |-> rects]

-----------------------------------------------------------------------------
In(r) == [x : r.x .. r.x + r.w - 1, y : r.y .. r.y + r.h - 1]

(* The least rectangle around a set of points, as a set of points.         *)
Around(S) ==
  LET xs == {p.x : p \in S}  ys == {p.y : p \in S} IN
  IF S = {} THEN {} ELSE [x : Min(xs) .. Max(xs), y : Min(ys) .. Max(ys)]

(* Rectangles intersect when they share points, and then in these points.  *)
IntersectionIsShared ==
  call.of = "pair" =>
    LET i == GetRectIntersection(call.A, call.B, call.A) IN
    /\ In(i.result) = In(call.A) \cap In(call.B)
    /\ i.returns <=> In(i.result) # {}
    /\ i.returns <=> HasRectIntersection(call.A, call.B)

(* The union is the least rectangle around both.                           *)
UnionIsLeast ==
  call.of = "pair" =>
    In(GetRectUnion(call.A, call.B)) = Around(In(call.A) \cup In(call.B))

(* The enclosing rectangle is the least around the points in the clip.     *)
EnclosingIsLeast ==
  call.of = "points" =>
    LET found == GetRectEnclosingPoints(call.points, call.clip)
        wanted == {p \in Range(call.points) : \A c \in call.clip : PointInRect(p, c)}
    IN /\ found = {} <=> wanted = {}
       /\ \A r \in found : In(r) = Around(wanted)

(* The span has every row of the screen that is in a rectangle ...         *)
Rows(r, height) == {y \in 0 .. height - 1 : r.y <= y /\ y < Bottom(r)}
SpanCovers ==
  call.of = "span" =>
    /\ \A r \in Range(call.rects) :
         Rows(r, call.height) \subseteq GetSpanEnclosingRect(call.height, call.rects)
    /\ GetSpanEnclosingRect(call.height, call.rects) \subseteq 0 .. call.height - 1

(* What is computed is what the operation says of the points.              *)
AgreeWithPoints ==
  IntersectionIsShared /\ UnionIsLeast /\ EnclosingIsLeast /\ SpanCovers

(* "Clip out of bounds rectangles": no span is found for those alone.      *)
SpanIsUsed ==
  call.of = "span" /\ GetSpanEnclosingRect(call.height, call.rects) # {} =>
    \E r \in Range(call.rects) : Rows(r, call.height) # {}

=============================================================================
