SPECIFICATION Spec
CONSTANTS
  Device = {usb}
  ListCap = 3
INVARIANTS
  SentIsNewest
PROPERTY ListArrives
