SPECIFICATION FairSpec
CONSTANTS
  NumMessages = 2
  MaxTurns = 2
  MaxMessages = 6
  MaxCalls = 2
  Replies <- MCReplies
  MaxLives = 2
INVARIANTS TypeOK CallsAndResultsPair AsksCurrent FreshResultsSeen LogAgrees
PROPERTY TurnsEnd
\* The session is idle once its messages are delivered.
CHECK_DEADLOCK FALSE
