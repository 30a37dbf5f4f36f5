\* Two events of transactions that commit in any order, two publishers, two
\* instances of the consumer, two faults: delivery without its order.
SPECIFICATION FairSpec
CONSTANTS
  MaxEvents = 2
  Batch = 2
  Serial = FALSE
  Publishers = {s1, s2}
  Attempts = 1
  Consumers = {c1, c2}
  MaxFaults = 2
PROPERTIES
  ImplementsStream
  EveryEventTakesEffect
CHECK_DEADLOCK FALSE
