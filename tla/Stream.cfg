SPECIFICATION Spec
CONSTANTS
  k1 = k1
  c1 = c1
  c2 = c2
  Clients = {k1}
  Sockets = {c1, c2}
  OwnerOf <- MCOwnerOf
  MaxTurns = 2
  MaxEvents = 4
  MaxUnlogged = 1
  MaxLives = 2
  NoSocket = NoSocket
SYMMETRY MCSymmetry
INVARIANTS AppliedInOrder LostOnlyInGap
\* The last turn is over and the last socket gone.
CHECK_DEADLOCK FALSE
