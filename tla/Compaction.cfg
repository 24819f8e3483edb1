SPECIFICATION CompactSpec
CONSTANTS
  MaxLen = 5
  Limits = {0, 1, 2, 3, 4}
INVARIANT ReturnsKept
PROPERTY Compacts
