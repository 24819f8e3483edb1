SPECIFICATION Spec
CONSTANTS
  s1 = s1
  s2 = s2
  Sessions = {s1, s2}
  Budget = 2
  Levels = {1, 2}
  MaxCost = 1
  Catalog = {"primary", "fallback"}
  Primary = "primary"
  Fallbacks <- MCFallbacks
  MaxRounds = 2
  MaxMessages = 1
  MaxDays = 2
  MaxLives = 2
SYMMETRY MCSymmetry
INVARIANTS SpendBounded OneModelAnswers AlertsRise
\* Every message is served and every task over.
CHECK_DEADLOCK FALSE
