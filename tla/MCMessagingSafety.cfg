\* Three events, two instances of the consumer, four faults.
SPECIFICATION Spec
CONSTANTS
  MaxEvents = 3
  Batch = 2
  Serial = TRUE
  Publishers = {s1}
  Attempts = 2
  Consumers = {c1, c2}
  MaxFaults = 4
SYMMETRY ConsumerSymmetry
INVARIANTS
  TypeOK
  NothingLost
PROPERTY ImplementsStream
CHECK_DEADLOCK FALSE
