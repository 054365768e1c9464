SPECIFICATION Spec
CONSTANTS
  b1 = b1
  b2 = b2
  x = x  y = y
  zero = zero
  Bufs = {b1, b2}
  Bytes = {x, y}
  Zero = zero
  Strings <- MCStrings
  MaxLen = 2
  MaxReadable = 3
  MaxCells = 6
CONSTRAINT FewCells
SYMMETRY Symmetry
INVARIANT TypeOK NoBloat
PROPERTY IsByteQueue
