\* Each part on an instance of its own: two products and two receipts; five audit
\* events; a layout of two of each; lists of up to three candidates; three jobs.
SPECIFICATION FairSpec
CONSTANTS
  None = None
  p1 = p1  p2 = p2
  j1 = j1  j2 = j2  j3 = j3
  w1 = w1  w2 = w2
  Products = {p1, p2}
  Receipts = {r1, r2}
  StorageTypes = {NORMAL, COLD}
  Names = {old, new}
  Events <- MCEvents
  Limits = {1, 2, 3}
  Warehouses = {w1, w2}
  Zones = {z1, z2}
  Racks = {k1, k2}
  Locations = {l1, l2}
  Codes = {A, B}
  Types = {STORAGE, PICKING}
  Servers = {s1, s2}
  Candidates <- MCCandidates
  Demands <- MCDemands
  MaxLength = 3
  Scale = 840
  Jobs = {j1, j2, j3}
  Instances = {i1, i2}
  WarehouseOf <- MCWarehouseOf
  RefusedWait = 1
  PostponedWait = 2
  MaxRefusals = 1
  MaxFailures = 1
INVARIANTS
  TypeOK
  LotsMatchProducts
  NothingSkipped
  LocationsConsistent
  ChoiceIsBest
PROPERTY
  EveryJobTried
CHECK_DEADLOCK FALSE
