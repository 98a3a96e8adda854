SPECIFICATION SeqSpec
CONSTANTS
  n1 = n1
  n2 = n2
  n3 = n3
  Nodes <- MCNodes
  NoNode = NoNode
  MaxTerm = 3
  Parts = {"election"}
  FileSlots = 3
  Media = {"sync"}
  QueueCap = 1
  Interval = 2
  MaxDispatch = 4
INVARIANT
  OneLeader
