CONSTANTS
  t1 = t1
  t2 = t2
  Turns <- MCTurns
  Months = 2
  MaxSentences = 2
  WorstTerra = 3
  WorstLuna = 1
  Fallback = 4
  Lock = 5
  MaxBill = 4
  Deviations <- MCDeviations
  MaxFailures = 1
CHECK_DEADLOCK FALSE
SYMMETRY Symmetry
SPECIFICATION Spec
INVARIANTS
  BelowLock
  SpendCovered
  DurableExact
