CONSTANTS
  Trigger = {"connect_to_last"}
  StatusCap = 1
SPECIFICATION Spec
INVARIANTS NothingUnasked ReadoutsHonest AuditOnNews
PROPERTIES PressAnswered StatusSettles
