\* Two products, two warehouses: what each transaction publishes.
SPECIFICATION Spec
CONSTANTS
  None = None
  W1 = W1  W2 = W2
  LocA = LocA  LocB = LocB
  Sku1 = Sku1  Sku2 = Sku2
  Warehouses = {W1, W2}
  Locations = {LocA, LocB}
  Products = {Sku1, Sku2}
  Reservations = {r1}
  Shipments = {s1, s2}
  Lots = {1, 2, 3}
  Rank <- Shuffled
  Orders <- MixedOrders
  WarehouseOf <- InTwoWarehouses
  Accepts <- AcceptsByType
  Unit <- UnitBoth
  Limit <- LimitWide
  MaxQuantity = 1
  Horizon = 2
VIEW Tables
INVARIANT
  PlacedWhereAllowed
PROPERTIES
  QuantityAccounted
  CapacityPublished
  OneOutcome
  ImplementsLedger
