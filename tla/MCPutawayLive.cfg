\* Two lots, one of which fits a single location: everything is put away.
SPECIFICATION FairSpec
CONSTANTS
  LocA = LocA  LocB = LocB  LocC = LocC
  Lots = {1, 2}
  Locations = {LocA, LocB}
  Suitable = {LocA, LocB}
  Limit <- LimitTwoOne
  Workers = {p1}
  Warehouse = W
  Product = Sku
  None = None
  MaxQuantity = 1
  MaxQueue = 2
  MaxRevision = 1
  MaxFailures = 1
PROPERTIES
  ProjectionCatchesUp
  PutAway
CHECK_DEADLOCK FALSE
