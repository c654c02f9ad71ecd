SPECIFICATION Spec

CONSTANTS
  Values = {v0}
  OffValues = {v0}
  Blank = blank
  Junk = junk
  CntMod = 1
  PollOn <- MCPollOn
  PollOff <- MCPollOff
  DebugPeriod <- MCDebugPeriod
  Timeout <- MCTimeout
  MaxGap <- MCMaxGap
  MaxLine <- MCMaxLine
  UnitBaud = "230400"
  Latency = "timeout"
  MayStop = TRUE
  Apps = {}
  AppRanges = {}
  PanelRanges = {}
  MaxLoss = 0
  MaxNoise = 0
  MaxBoot = 1
  MaxWrap = 1
  MaxPanel = 0
  MaxApp = 0
  OneOnly = TRUE

INVARIANTS
  HalfDuplex

PROPERTIES
  ConnectedForever
  LifecycleKept
