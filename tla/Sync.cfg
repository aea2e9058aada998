\* An On Change rate, with a phase that follows changes or goes on with every beat: jumps of the
\* tempo, starts and stops, a way back and a loop, over a link that comes and goes and loses packets.
CONSTANTS
  Tempo = {10, 14}
  Tolerance = 1
  MatchTol = 3
  SettleTime = 1
  RetryTime = 2
  BarLen = 2
  LoopStart = 0
  LoopEnd = 4
  Jumps = {0}
  EditMax = 3
  PosMax = 6
  CmdCap = 1
  StatusCap = 2
  Forces = {}
  RateModes = {"OnChange"}
  PhaseModes = {"OnChange", "Continuous"}
SPECIFICATION Spec
INVARIANT RetryIsCurrent
PROPERTIES NoStaleTempo ChangeArrives
