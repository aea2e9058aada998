\* Both modes Manual, no button.
CONSTANTS
  Tempo = {10, 14}
  Tolerance = 1
  MatchTol = 3
  SettleTime = 1
  RetryTime = 2
  BarLen = 2
  LoopStart = 0
  LoopEnd = 4
  Jumps = {0, 3}
  EditMax = 3
  PosMax = 6
  CmdCap = 1
  StatusCap = 1
  Forces = {}
  RateModes = {"Manual"}
  PhaseModes = {"Manual"}
SPECIFICATION Safety
PROPERTY ManualNeedsButton
