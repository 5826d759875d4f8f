SPECIFICATION Spec
SYMMETRY Symmetry
CONSTANTS
  Requests = {r1, r2}
  Tokens = {t1, t2, t3}
  MAX_ATTEMPTS = 2
  LOCK_MS = 2
  REFRESH_TTL = 1
  MaxTime = 4
  MaxVersion = 2
  MaxFailures = 6
  Null = Null
INVARIANTS TypeOK StaleOnlyIfOvertaken GuessBudget RotationBudget
