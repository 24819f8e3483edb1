SPECIFICATION Spec
CONSTANTS
  m1 = m1
  m2 = m2
  m3 = m3
  s1 = s1
  s2 = s2
  Messages = {m1, m2, m3}
  Sessions = {s1, s2}
  SessionOf <- MCSessionOf
  Shutdown = Shutdown
  NoMsg = NoMsg
  MaxLives = 2
  DbFaults = TRUE
SYMMETRY MCSymmetry
INVARIANTS AcceptedIsHeld DeliveredWasDispatched SerialTurns TurnsInOrder
PROPERTIES NoTurnAfterDelivery ImplementsInbox
\* The server idles for good once every message is settled.
CHECK_DEADLOCK FALSE
