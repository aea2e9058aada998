\* Two consoles of two slots, the second an insert; one packet may be late.
CONSTANTS
  SlotCount = 2
  BusCount = 1
  Console <- MCConsole
  Fx <- MCFx
  TypeIds = {1, 10}
  Empty = 99
  Unknown = 98
  NoType = 97
  Nobody = Nobody
  cA = cA
  cB = cB
  CmdCap = 1
  LateCap = 1
SPECIFICATION Spec
INVARIANTS MapIsTheConsoles MapsAgree
PROPERTIES AuditAnswered
