SPECIFICATION SeqFairSpec
CONSTANTS
  n1 = n1
  n2 = n2
  n3 = n3
  Nodes <- MCNodes
  NoNode = NoNode
  MaxTerm = 3
  Parts = {"election", "log"}
  FileSlots = 3
  Media = {"sync", "async", "pmem"}
  QueueCap = 1
  Interval = 2
  MaxDispatch = 4
INVARIANTS
  ElectionInv
  AckedSurvives
  OneIncumbent
  ReplayInOrder
  GapsReported
  ReplayedNotRenumbered
PROPERTIES
  TermsAdvance
  ElectionCompletes
CHECK_DEADLOCK FALSE
