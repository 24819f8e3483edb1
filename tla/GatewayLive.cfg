SPECIFICATION FairSpec
CONSTANTS
  m1 = m1
  m2 = m2
  m3 = m3
  s1 = s1
  s2 = s2
  Messages = {m1, m2}
  Sessions = {s1}
  SessionOf <- MCSessionOf
  Shutdown = Shutdown
  NoMsg = NoMsg
  MaxLives = 3
  DbFaults = TRUE
PROPERTIES AcceptedIsSettled StopCompletes
\* The server idles for good once every message is settled.
CHECK_DEADLOCK FALSE
