SPECIFICATION Spec
CONSTANTS
  Device = {usb, din, loop}
  None = none
  Loopback = {loop}
  ChangeCap = 2
  ListCap = 1
  PortCap = 1
  Restores = TRUE
INVARIANTS
  OutputIsHonest
  SelectionFollows
PROPERTY Reconnects
