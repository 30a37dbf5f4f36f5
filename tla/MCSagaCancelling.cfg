\* A cancelled shipment reaches CANCELLED (docs/architecture.md).
SPECIFICATION FairSpec
CONSTANTS
  None = None
  Reservations = {r1}
  MaxQueue = 2
  MaxFailures = 0
PROPERTY CancellingResolves
CHECK_DEADLOCK FALSE
