\* CANCELLED has no successor (docs/architecture.md).
SPECIFICATION Spec
CONSTANTS
  None = None
  Reservations = {r1}
  MaxQueue = 2
  MaxFailures = 0
PROPERTY CancelledIsFinal
CHECK_DEADLOCK FALSE
