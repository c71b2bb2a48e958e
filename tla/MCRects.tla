------------------------------ MODULE MCRects ------------------------------
(* Instances of Rects and RectLine for TLC. *)
EXTENDS RectLine

SmallCoordinates == -1 .. 2
SmallSizes == -1 .. 2

=============================================================================
