SPECIFICATION PartsSpec
CONSTANTS
  Names = {"sim"}
  Values = {v1, v2}
  Cap = 2
  Wrap = 8
  Items = {i1, i2}
  FanCap = 2
  NConsumers = 2
  MaxPushes = 4
  Readers = {r1}
  MaxUpdates = 4
  Qtys <- MCQtys
  Width = 8
  MaxKeys = 5
  PriceScale = 2
  FracScale = 5
  IntMax = 20
  FillPrices <- MCPrices
  FillQtys <- MCQtys
  Deposit = 6
  Limits <- MCLimits
  MaxFills = 4
  SimSymbols <- MCSymbols
  SimShards <- MCShards
  SimDeposit = 0
  SimFraction = 5
  SimCommands <- MCSimCommands
  MaxCommands = 5
  EscWorkers = {w1, w2}
  EscSymbols <- MCEscSymbols
  EscCommands <- MCEscCommands
  MaxEntries = 4
  Histograms <- MCHistograms
  Latencies = {0, 2}
  NumBuckets = 2
  MaxSamples = 2
  Instances = {i1, i2, i3}
INVARIANT
  ReplayIdentical
CHECK_DEADLOCK FALSE
