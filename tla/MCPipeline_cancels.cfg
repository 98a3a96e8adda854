SPECIFICATION AllSpec
CONSTANTS
  PriceScale = 1
  FracScale = 1
  IntMax = 127
  s1 = s1
  s2 = s2
  h1 = h1
  h2 = h2
  Symbols <- MCSymbols
  Accounts <- MCAccounts
  Shards <- MCShards
  Owner <- MCOwner
  Listens <- MCListens
  Deposits <- MCDeposits
  Fraction = 1
  Limits <- MCLimits
  Lanes <- MCLanes
  InboundCap = 1
  FanCap = 1
  CommandCap = 1
  OutboundCap = 1
  Interval = 4
  Books <- MCBooks
  FirstSeq = 4
  Scripts <- MCScripts
  Parts = {"loop"}
  Streams <- MCStreams
  Account = "a"
  Instruments = {"i"}
  WireSymbols = {"i"}
  ExecEvents <- MCExecEvents
  LaneCap = 1
  WriteCap = 1
  ExecCap = 2
  MdCap = 1
  MaxPublished = 3
PROPERTY
  RemovalsPublished
CHECK_DEADLOCK FALSE
