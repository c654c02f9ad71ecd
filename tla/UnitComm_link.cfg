SPECIFICATION Spec

CONSTANTS
  Values = {v0}
  OffValues = {v0}
  Blank = blank
  Junk = junk
  CntMod = 1
  PollOn <- MCPollOn
  PollOff <- MCPollOff
  DebugPeriod <- MCDebugPeriod
  Timeout <- MCTimeout
  MaxGap <- MCMaxGap
  MaxLine <- MCMaxLine
  UnitBaud = "230400"
  Latency = "timeout"
  MayStop = TRUE
  Apps = {ble}
  AppRanges <- MCAppRanges
  PanelRanges = {}
  MaxLoss = 1
  MaxNoise = 1
  MaxBoot = 0
  MaxWrap = 0
  MaxPanel = 0
  MaxApp = 1
  OneOnly = FALSE

INVARIANTS
  HalfDuplex
  ReadyImageSound

PROPERTIES
  LifecycleKept
  LifecycleGoesOn
