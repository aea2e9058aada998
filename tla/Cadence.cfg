SPECIFICATION TimedSpec
CONSTANTS
  a1 = a1
  a2 = a2
  d1 = d1
  d2 = d2
  Addr = {a1, a2}
  Named = {d1, d2}
  Nameless = {}
  Blank = Blank
  Fx = Fx
  NoAddr = NoAddr
  BadAddr = BadAddr
  Silent = Silent
  CmdCap = 1
  RescanAfter = 3
  FastBudget = 4
  AttemptsCap = 3
  LateCap = 2
  Ops = {}
  Picks = {}
  Typed = {}
  AutoModes = {TRUE}
  IntervalMin = 5
  IntervalMax = 30
  HeartbeatEvery = 5
  BackoffBase = 2
  BackoffCap = 10
  RecvTimeout = 1
  ScanWindow = 1
  MaxMoves = 2
  Wirings <- Roaming
INVARIANT RecoveryIsBounded
PROPERTY SearchSettles
