SPECIFICATION FairSpec
CONSTANTS
  c1 = c1
  c2 = c2
  s1 = s1
  s2 = s2
  bash = bash
  note = note
  w1 = w1
  w2 = w2
  Calls = {c1, c2}
  Sessions = {s1, s2}
  Tools = {bash, note}
  Gated = {bash}
  Trusts = {1, 2}
  MinTrust <- MCMinTrust
  Sockets = {w1, w2}
  SocketOf <- MCSocketOf
  None = None
  DbFaults = TRUE
INVARIANTS RunsWereConsented RunsWereAudited PendingIsAwaited PendingHasChannel BoundIsOpen
PROPERTIES CallsFinish
\* Once every call is over and every socket closed, only the chat may move.
CHECK_DEADLOCK FALSE
