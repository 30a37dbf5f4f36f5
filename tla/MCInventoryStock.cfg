\* One product, one warehouse, two reservations competing for three lots.
SPECIFICATION Spec
CONSTANTS
  None = None
  W1 = W1  W2 = W2
  LocA = LocA  LocB = LocB
  Sku1 = Sku1  Sku2 = Sku2
  Warehouses = {W1}
  Locations = {LocA, LocB}
  Products = {Sku1}
  Reservations = {r1, r2}
  Shipments = {s1}
  Lots = {1, 2, 3}
  Rank <- Shuffled
  Orders <- OneOrTwo
  WarehouseOf <- InOneWarehouse
  Accepts <- AcceptsSku1
  Unit <- UnitSku1
  Limit <- LimitThreeOne
  MaxQuantity = 2
  Horizon = 2
VIEW Tables
SYMMETRY ReservationSymmetry
INVARIANTS
  TypeOK
  StockBounds
  ReservedMatchesAllocations
  LedgerMatchesStock
  LedgerWithinLimits
  ShipCannotFail
