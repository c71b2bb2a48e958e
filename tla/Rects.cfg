\* Rectangles up to 2 by 2, empty ones of all kinds, and lists of two points; for
\* lines, all rectangles up to 4 by 4 and ends up to 4 pixels outside.
SPECIFICATION Spec
CONSTANTS
  Coordinates <- SmallCoordinates
  Sizes <- SmallSizes
  MaxPoints = 2
  MaxSize = 4
  Reach = 4
CHECK_DEADLOCK FALSE
INVARIANTS
  AgreeWithPoints
PROPERTIES
  LineClipped
