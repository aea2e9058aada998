SPECIFICATION Safety
CONSTANTS
  a1 = a1
  a2 = a2
  d1 = d1
  d2 = d2
  n1 = n1
  Addr = {a1, a2}
  Named = {d1, d2}
  Nameless = {n1}
  Blank = Blank
  Fx = Fx
  NoAddr = NoAddr
  BadAddr = BadAddr
  Silent = Silent
  CmdCap = 1
  RescanAfter = 2
  FastBudget = 1
  IntervalMin = 1
  IntervalMax = 2
  AttemptsCap = 1
  LateCap = 1
  Ops = {"ConnectToLast", "Disconnect", "Send", "AuditSlots"}
  Picks = {a2}
  Typed = {BadAddr}
  AutoModes = {TRUE, FALSE}
  Wirings <- OneNameless
INVARIANT HungUpIsSilent
INVARIANT ChosenByUserNotChecked
PROPERTY OnlyUserResumes
PROPERTY ImplementsLink
