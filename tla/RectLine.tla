----------------------------- MODULE RectLine -----------------------------
(***************************************************************************)
(* SDL_GetRectAndLineIntersection of src/src/video/SDL_rect_impl.h on      *)
(* integers: the Cohen-Sutherland algorithm, a step for each end it moves. *)
(* The rectangle is at the origin, and what is computed is relative to it. *)
(***************************************************************************)
EXTENDS Rects

CONSTANTS
  MaxSize,        \* bound: width and height of the rectangle
  Reach           \* bound: how far from it the line's ends are

ASSUME RectLineAssumption == MaxSize \in Nat \ {0} /\ Reach \in Nat

Ends == -Reach .. MaxSize - 1 + Reach

VARIABLES
  w, h,                   \* the rectangle
  x1, y1, x2, y2,         \* the line, and in the end the result
  pc,
  from                    \* history: the line as it was given

line == <<w, h, x1, y1, x2, y2, pc, from>>
vars == <<call, line>>

(* A call on a line, or one that Rects has.                                *)
LineGiven ==
  /\ call = [of |-> "line"]
  /\ w \in 1 .. MaxSize /\ h \in 1 .. MaxSize
  /\ x1 \in Ends /\ y1 \in Ends /\ x2 \in Ends /\ y2 \in Ends
  /\ pc = "start"
NoLine ==
  /\ Unasked
  /\ w = 1 /\ h = 1 /\ x1 = 0 /\ y1 = 0 /\ x2 = 0 /\ y2 = 0
  /\ pc = "none"

Init == (LineGiven \/ NoLine) /\ from = <<x1, y1, x2, y2>>

rectx2 == w - 1
recty2 == h - 1

Inside(x, y) == x \in 0 .. rectx2 /\ y \in 0 .. recty2

(* The sides an end is beyond, as ComputeOutCode tells them.               *)
OutCode_NotLast(x, y) ==
  (IF y < 0 THEN {"top"} ELSE IF y > h THEN {"bottom"} ELSE {}) \cup
  (IF x < 0 THEN {"left"} ELSE IF x > w THEN {"right"} ELSE {})
OutCode(x, y) ==
  (IF y < 0 THEN {"top"} ELSE IF y >= h THEN {"bottom"} ELSE {}) \cup
  (IF x < 0 THEN {"left"} ELSE IF x >= w THEN {"right"} ELSE {})

(* Division of integers in C.                                              *)
Abs(a) == IF a < 0 THEN -a ELSE a
Quotient(a, b) ==
  IF (a < 0) = (b < 0) THEN Abs(a) \div Abs(b) ELSE -(Abs(a) \div Abs(b))

ToOneSide ==
  \/ (x1 < 0 /\ x2 < 0) \/ (x1 > rectx2 /\ x2 > rectx2)
  \/ (y1 < 0 /\ y2 < 0) \/ (y1 > recty2 /\ y2 > recty2)

Clamp(a, last) == IF a < 0 THEN 0 ELSE IF a > last THEN last ELSE a

Start ==
  /\ pc = "start"
  /\ IF Inside(x1, y1) /\ Inside(x2, y2)
     THEN pc' = "true" /\ UNCHANGED <<x1, y1, x2, y2>>
     ELSE IF ToOneSide THEN pc' = "false" /\ UNCHANGED <<x1, y1, x2, y2>>
     ELSE IF y1 = y2
     THEN /\ x1' = Clamp(x1, rectx2) /\ x2' = Clamp(x2, rectx2)
          /\ pc' = "true" /\ UNCHANGED <<y1, y2>>
     ELSE IF x1 = x2
     THEN /\ y1' = Clamp(y1, recty2) /\ y2' = Clamp(y2, recty2)
          /\ pc' = "true" /\ UNCHANGED <<x1, x2>>
     ELSE pc' = "clip" /\ UNCHANGED <<x1, y1, x2, y2>>
  /\ UNCHANGED <<call, w, h, from>>

(* The point of the line at the first side in the order of the tests.      *)
AtY(y) == x1 + Quotient((x2 - x1) * (y - y1), y2 - y1)
AtX(x) == y1 + Quotient((y2 - y1) * (x - x1), x2 - x1)

Moved_Beyond(code) ==
  IF "top" \in code THEN <<AtY(-1), -1>>
  ELSE IF "bottom" \in code THEN <<AtY(recty2), recty2>>
  ELSE IF "left" \in code THEN <<0, AtX(0)>>
  ELSE <<rectx2, AtX(rectx2)>>
Moved(code) ==
  IF "top" \in code THEN <<AtY(0), 0>>
  ELSE IF "bottom" \in code THEN <<AtY(recty2), recty2>>
  ELSE IF "left" \in code THEN <<0, AtX(0)>>
  ELSE <<rectx2, AtX(rectx2)>>

ClipFirst ==
  /\ pc = "clip" /\ OutCode(x1, y1) # {} /\ OutCode(x1, y1) \cap OutCode(x2, y2) = {}
  /\ LET p == Moved(OutCode(x1, y1)) IN x1' = p[1] /\ y1' = p[2]
  /\ UNCHANGED <<call, w, h, x2, y2, pc, from>>

ClipSecond ==
  /\ pc = "clip" /\ OutCode(x1, y1) = {} /\ OutCode(x2, y2) # {}
  /\ LET p == Moved(OutCode(x2, y2)) IN x2' = p[1] /\ y2' = p[2]
  /\ UNCHANGED <<call, w, h, x1, y1, pc, from>>

Reject ==
  /\ pc = "clip" /\ OutCode(x1, y1) \cap OutCode(x2, y2) # {}
  /\ pc' = "false"
  /\ UNCHANGED <<call, w, h, x1, y1, x2, y2, from>>

Accept ==
  /\ pc = "clip" /\ OutCode(x1, y1) = {} /\ OutCode(x2, y2) = {}
  /\ pc' = "true"
  /\ UNCHANGED <<call, w, h, x1, y1, x2, y2, from>>

Clip == Start \/ ClipFirst \/ ClipSecond \/ Reject \/ Accept

Next ==
  \/ (Pair \/ Points \/ Span) /\ UNCHANGED line
  \/ Clip

(* A call that has begun goes on.                                          *)
Spec == Init /\ [][Next]_vars /\ WF_vars(Clip)

-----------------------------------------------------------------------------
(* The line that is returned is in the rectangle.                          *)
ResultInside == Inside(x1, y1) /\ Inside(x2, y2)

(* Ends are moved "as necessary": one in the rectangle stays.              *)
EndsKept ==
  /\ Inside(from[1], from[2]) => <<x1, y1>> = <<from[1], from[2]>>
  /\ Inside(from[3], from[4]) => <<x2, y2>> = <<from[3], from[4]>>

(* So it is with every line that is returned.                              *)
FoundIsInside == pc = "true" => ResultInside /\ EndsKept

(* How far a point is from the line, in pixels times its longer extent.    *)
Cross(x, y) == (from[3] - from[1]) * (y - from[2]) - (from[4] - from[2]) * (x - from[1])
Extent == Greatest(Abs(from[3] - from[1]), Abs(from[4] - from[2]))

(* Each of two roundings takes the result less than a pixel off the line.  *)
NearLine == Abs(Cross(x1, y1)) <= 2 * Extent /\ Abs(Cross(x2, y2)) <= 2 * Extent

OnLine(x, y) ==
  /\ Cross(x, y) = 0
  /\ (x - from[1]) * (x - from[3]) <= 0 /\ (y - from[2]) * (y - from[4]) <= 0

(* The line has no point in the rectangle, but for points on the border.   *)
NoInnerPoint == \A x \in 1 .. rectx2 - 1, y \in 1 .. recty2 - 1 : ~OnLine(x, y)

(* Every call ends, with a part of the line that is as good as two         *)
(* roundings allow, or with "no" when the line does not get inside.        *)
Answered ==
  IF pc = "true" THEN ResultInside /\ EndsKept /\ NearLine ELSE pc = "false" /\ NoInnerPoint
LineClipped == pc = "start" ~> Answered

(* "SDL_TRUE if there is an intersection": nor one with any point in it.   *)
PointsFound ==
  pc = "false" => \A x \in 0 .. rectx2, y \in 0 .. recty2 : ~OnLine(x, y)

=============================================================================
