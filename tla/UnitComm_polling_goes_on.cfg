SPECIFICATION Spec

CONSTANTS
  Values = {v0}
  OffValues = {v0}
  Blank = blank
  Junk = junk
  CntMod = 1
  PollOn <- MCPollOn
  PollOff <- MCPollOff
  DebugPeriod <- MCDebugPeriod
  Timeout <- MCTimeout
  MaxGap <- MCMaxGap
  MaxLine <- MCMaxLine
  UnitBaud = "230400"
  Latency = "timeout"
  MayStop = FALSE
  Apps = {}
  AppRanges = {}
  PanelRanges = {}
  MaxLoss = 1
  MaxNoise = 0
  MaxBoot = 0
  MaxWrap = 0
  MaxPanel = 0
  MaxApp = 0
  OneOnly = FALSE

PROPERTIES
  PollingGoesOn
