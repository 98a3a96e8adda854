SPECIFICATION MirrorSpec
CONSTANTS
  a1 = a1
  a2 = a2
  NoTaker = NoTaker
  Accounts <- MCAccounts
  Prices <- MCPrices
  Qtys <- MCQtys
  TickFloor = 10
  NumTicks = 2
  Capacity = 2
  MaxSeq = 5
SYMMETRY Symmetry
INVARIANTS
  IInv
  OutcomesAgree
  FokScanExact
  MirrorExact
PROPERTIES
  PriceTimePriority
  LoopDescends
CHECK_DEADLOCK FALSE
