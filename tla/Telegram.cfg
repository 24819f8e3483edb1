SPECIFICATION Spec
CONSTANTS
  c1 = c1
  c2 = c2
  s1 = s1
  s2 = s2
  None = None
  Chats = {c1, c2}
  Sessions = {s1, s2}
  MaxChannels = 3
  MaxMessages = 2
  MaxPieces = 2
SYMMETRY MCSymmetry
INVARIANTS PostsAreTurns RoutesAreOpen ToldOnce
\* Every turn may be over and every bound reached.
CHECK_DEADLOCK FALSE
