SPECIFICATION DualFairSpec
CONSTANTS
  s1 = s1
  s2 = s2
  w1 = w1
  w2 = w2
  MaxSeq = 2
  Sorters <- TwoSorters
  Workers <- TwoWorkers
  Parts = {"race", "escalate"}
INVARIANTS
  AppliedOnce
  NothingForgotten
  AppliedIsLogged
  LenSettles
PROPERTY
  EveryOrderHandled
CHECK_DEADLOCK FALSE
