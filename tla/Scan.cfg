CONSTANTS
  lo = lo
  i2 = i2
  i3 = i3
  x = x
  n = n
  Thread = {t1}
  Worker = w
  NoId = n
  Nets <- MCNets
  Failures = 2
  CmdCap = 1
  MaxGen = 2
SPECIFICATION Spec
INVARIANTS StaleStaysGone OneEntryPerConsole
PROPERTIES PanelSettles
