\* A command sent twice under one key, the key reused for another body, and two
\* consumers of one event; two servers, one crash.
SPECIFICATION FairSpec
CONSTANTS
  c1 = c1  c2 = c2  c3 = c3  c4 = c4  e1 = e1  e2 = e2
  None = None
  Clients = {c1, c2, c3, c4, e1, e2}
  Servers = {s1, s2}
  Request <- MCRequest
  Units = 1
  MaxFailures = 1
INVARIANTS
  TypeOK
  AnswersAgree
PROPERTIES
  ImplementsAtomicLot
  EveryoneAnswered
CHECK_DEADLOCK FALSE
