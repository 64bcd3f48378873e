SPECIFICATION Spec
CONSTANTS
  Segments <- SmallSegments
  Tables <- SmallTables
  MaxLost = 22
  MaxText = 3
CHECK_DEADLOCK FALSE
INVARIANT TypeOK
INVARIANT InBounds
INVARIANT Decoded
