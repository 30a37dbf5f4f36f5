\* Two lots, two locations, two placement instances.
SPECIFICATION Spec
CONSTANTS
  LocA = LocA  LocB = LocB  LocC = LocC
  Lots = {1, 2}
  Locations = {LocA, LocB}
  Suitable = {LocA, LocB}
  Limit <- LimitTwoOne
  Workers = {p1, p2}
  Warehouse = W
  Product = Sku
  None = None
  MaxQuantity = 2
  MaxQueue = 3
  MaxRevision = 2
  MaxFailures = 2
VIEW Tables
SYMMETRY WorkerSymmetry
INVARIANTS
  TypeOK
  NoLotForgotten
  JobsTruthful
  ProjectionTruthful
CHECK_DEADLOCK FALSE
