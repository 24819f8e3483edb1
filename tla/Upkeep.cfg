SPECIFICATION Spec
CONSTANTS
  s1 = s1
  s2 = s2
  agent = agent
  Sessions = {s1, s2}
  Agent = agent
  EveryN = 2
  Batch = 2
  Limit = 3
  MaxFacts = 1
  MaxTurns = 2
  MaxEdits = 1
  MaxLives = 2
SYMMETRY MCSymmetry
INVARIANTS TypeOK VectorsMatch ScanCovers LedgerKeeps
\* Every turn may be over and every task done.
CHECK_DEADLOCK FALSE
