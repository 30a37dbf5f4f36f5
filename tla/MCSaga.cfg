\* One reservation, three events that fail: statuses agree, requests are answered.
SPECIFICATION FairSpec
CONSTANTS
  None = None
  Reservations = {r1}
  MaxQueue = 3
  MaxFailures = 3
INVARIANTS
  TypeOK
  ServicesAgree
  NothingForgotten
PROPERTIES
  ReservationConverges
  RequestsAnswered
  OverdueReleased
CHECK_DEADLOCK FALSE
