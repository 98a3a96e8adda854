SPECIFICATION DualSpec
CONSTANTS
  s1 = s1
  s2 = s2
  w1 = w1
  w2 = w2
  MaxSeq = 1
  Sorters <- TwoSorters
  Workers <- TwoWorkers
  Parts = {"race"}
INVARIANT
  RemovedMeansProcessed
CHECK_DEADLOCK FALSE
