SPECIFICATION Spec

CONSTANTS
  Values = {v0, v1}
  OffValues = {}
  Blank = blank
  Junk = junk
  CntMod = 3
  PollOn <- MCPollOn
  PollOff <- MCPollOff
  DebugPeriod <- MCDebugPeriod
  Timeout <- MCTimeout
  MaxGap <- MCMaxGap
  MaxLine <- MCMaxLine
  UnitBaud = "9600"
  Latency = "tick"
  MayStop = FALSE
  Apps = {ble}
  AppRanges <- MCAppRanges
  PanelRanges <- MCAppRanges
  MaxLoss = 0
  MaxNoise = 0
  MaxBoot = 0
  MaxWrap = 0
  MaxPanel = 2
  MaxApp = 1
  OneOnly = FALSE

INVARIANTS
  TypeOK

PROPERTIES
  QuietWriteDelivered
  IndexDrains
  LinkComesUp
  ImageFollowsUnit
