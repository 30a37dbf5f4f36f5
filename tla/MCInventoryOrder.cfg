\* One product, one roomy location, dates 2, 3 and none: the order of allocation.
SPECIFICATION Spec
CONSTANTS
  None = None
  W1 = W1  W2 = W2
  LocA = LocA  LocB = LocB
  Sku1 = Sku1  Sku2 = Sku2
  Warehouses = {W1}
  Locations = {LocA}
  Products = {Sku1}
  Reservations = {r1}
  Shipments = {s1}
  Lots = {1, 2, 3}
  Rank <- Shuffled
  Orders <- UpToThree
  WarehouseOf <- InOneWarehouse
  Accepts <- AcceptsSku1
  Unit <- UnitSku1
  Limit <- LimitNone
  MaxQuantity = 2
  Horizon = 3
VIEW Tables
PROPERTIES
  FirstExpiredFirst
  
