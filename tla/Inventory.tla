----------------------------- MODULE Inventory -----------------------------
(***************************************************************************)
(* The inventory service: the stock lots of the warehouses, the            *)
(* reservations of customers' orders on them, and the load of every        *)
(* storage location.  Each action is one database transaction of           *)
(* service.go (HTTP commands) or reservations.go (event handlers, expiry   *)
(* worker); a transaction acts on what it reads under the advisory lock    *)
(* of the warehouse, held to its commit, so transactions are atomic steps. *)
(*                                                                         *)
(* A handler may be invoked at any time, with any payload and any number   *)
(* of times: duplicated, delayed and reordered deliveries are behaviours   *)
(* of this module.  A transaction that fails with an error is rolled back  *)
(* and is no step at all.  The CHECK constraints of the tables are not     *)
(* guards: the invariants show that the code never trips them.             *)
(***************************************************************************)
EXTENDS Integers, FiniteSets, Functions

CONSTANTS
  Warehouses, Locations, Products, Reservations, Shipments,
  Lots,         \* stock ids, numbered in the order of (created_at, id)
  Rank,         \* position of each lot in the order of the (random) ids alone
  Orders,       \* the item sets that reservation requests carry
  WarehouseOf,  \* the warehouse of each location
  Accepts,      \* the products a location may store (STORAGE zone, same type)
  Unit,         \* weight and volume of one unit of each product
  Limit,        \* maximal weight and volume of each location
  MaxQuantity,  \* largest quantity of one receipt or adjustment (1 billion)
  Horizon,      \* the last day of the clock
  None          \* SQL null

Dims == {"weight", "volume"}
Days == 1..Horizon
Never == Horizon + 1          \* no expiration date: sorts after every date
Lines == [product : Products, quantity : Int]

ASSUME InventoryAssumption ==
  /\ IsFiniteSet(Lots) /\ Lots \subseteq Nat
  /\ Rank \in [Lots -> Nat] /\ \A l, m \in Lots : Rank[l] = Rank[m] => l = m
  /\ IsFiniteSet(Reservations)
  /\ WarehouseOf \in [Locations -> Warehouses]
  /\ Accepts \in [Locations -> SUBSET Products]
  /\ Unit \in [Products -> [Dims -> Nat \ {0}]]
  /\ Limit \in [Locations -> [Dims -> Nat]]
  /\ MaxQuantity \in Nat /\ Horizon \in Nat \ {0}
  /\ Orders \subseteq SUBSET Lines
  /\ None \notin Locations \cup Products \cup Warehouses \cup Shipments

VARIABLES
  stocks,        \* table stocks
  reservations,  \* table reservations
  allocations,   \* table allocations: units of a lot held for a reservation
  load,          \* capacities.current_weight and current_volume
  revision,      \* capacities.revision
  now,           \* the clock, in days
  emitted        \* the outbox rows the latest transaction inserted

vars == <<stocks, reservations, allocations, load, revision, now, emitted>>

Rows == [product : Products, warehouse : Warehouses,
         location : Locations \cup {None},
         quantity : Nat, reserved : Nat, expires : Days \cup {Never}]

\* The row of a stock id that was never inserted.
NoStock == [product |-> None, warehouse |-> None, location |-> None,
            quantity |-> 0, reserved |-> 0, expires |-> Never]

Statuses == {"NONE", "REJECTED", "CONFIRMED", "COMPLETED", "CANCELLED", "EXPIRED"}

ReservationRows == [status : Statuses, warehouse : Warehouses \cup {None},
                    expires : Days, shipment : Shipments \cup {None}]

\* "NONE" is a reservation id without a row.
NoReservation == [status |-> "NONE", warehouse |-> None,
                  expires |-> 1, shipment |-> None]

Available(x) == x.quantity - x.reserved

-----------------------------------------------------------------------------
(***************************************************************************)
(* Capacity of locations.                                                  *)
(***************************************************************************)

\* The load of location loc after n units of lot row x are put there.
Charged(loc, x, n) == [d \in Dims |-> load[loc][d] + n * Unit[x.product][d]]

\* Seeded fault: the volume limit is not checked.
CapacityAllows_WeightOnly(loc, x, n) ==
  /\ n > 0 => /\ WarehouseOf[loc] = x.warehouse
              /\ x.product \in Accepts[loc]
              /\ Charged(loc, x, n)["weight"] <= Limit[loc]["weight"]
  /\ \A d \in Dims : Charged(loc, x, n)[d] >= 0

\* Seeded fault: any warehouse's location is accepted.
CapacityAllows_AnyWarehouse(loc, x, n) ==
  /\ n > 0 => /\ x.product \in Accepts[loc]
              /\ \A d \in Dims : Charged(loc, x, n)[d] <= Limit[loc][d]
  /\ \A d \in Dims : Charged(loc, x, n)[d] >= 0

\* capacity() accepts the change: an increase must be stored in a compatible
\* location of the lot's warehouse, within its limits; the load stays positive.
CapacityAllows(loc, x, n) ==
  /\ n > 0 => /\ WarehouseOf[loc] = x.warehouse
              /\ x.product \in Accepts[loc]
              /\ \A d \in Dims : Charged(loc, x, n)[d] <= Limit[loc][d]
  /\ \A d \in Dims : Charged(loc, x, n)[d] >= 0

CapacityChanged(loc, l, r) ==
  [type |-> "LocationCapacityChanged", location |-> loc, load |-> l, revision |-> r]

\* Seeded fault: the event carries the revision read, not the one written.
Recharge_OldRevision(loc, x, n, event) ==
  /\ CapacityAllows(loc, x, n)
  /\ load' = [load EXCEPT ![loc] = Charged(loc, x, n)]
  /\ revision' = [revision EXCEPT ![loc] = @ + 1]
  /\ emitted' = {CapacityChanged(loc, load'[loc], revision[loc]), event}

\* The effect of one successful capacity() call and of the event the
\* transaction records next.
Recharge(loc, x, n, event) ==
  /\ CapacityAllows(loc, x, n)
  /\ load' = [load EXCEPT ![loc] = Charged(loc, x, n)]
  /\ revision' = [revision EXCEPT ![loc] = @ + 1]
  /\ emitted' = {CapacityChanged(loc, load'[loc], revision'[loc]), event}

\* A transaction that records its event and calls capacity() for no location.
EmitOnly(event) ==
  /\ emitted' = {event}
  /\ UNCHANGED <<load, revision>>

-----------------------------------------------------------------------------
(***************************************************************************)
(* HTTP commands.                                                          *)
(***************************************************************************)

\* POST /inventory/receive: a new lot, not yet in any location.
Receive(l, p, w, n, expires) ==
  /\ stocks[l] = NoStock
  /\ n \in 1..MaxQuantity
  /\ expires > now
  /\ stocks' = [stocks EXCEPT ![l] =
       [product |-> p, warehouse |-> w, location |-> None,
        quantity |-> n, reserved |-> 0, expires |-> expires]]
  /\ EmitOnly([type |-> "GoodsReceived", lot |-> l, product |-> p, quantity |-> n])
  /\ UNCHANGED <<reservations, allocations, now>>

\* Seeded fault: the target is not compared with the reserved units.
Adjust_BelowReserved(l, target) ==
  LET x == stocks[l]
      delta == target - x.quantity
      event == [type |-> "StockAdjusted", lot |-> l, product |-> x.product,
                delta |-> delta]
  IN  /\ x # NoStock
      /\ target \in 0..MaxQuantity
      /\ x.location = None => delta <= 0
      /\ stocks' = [stocks EXCEPT ![l].quantity = target]
      /\ IF x.location # None /\ delta # 0
           THEN Recharge(x.location, x, delta, event)
           ELSE EmitOnly(event)
      /\ UNCHANGED <<reservations, allocations, now>>

\* Seeded fault: the event reports the target instead of the difference.
Adjust_ReportsTarget(l, target) ==
  LET x == stocks[l]
      delta == target - x.quantity
      event == [type |-> "StockAdjusted", lot |-> l, product |-> x.product,
                delta |-> target]
  IN  /\ x # NoStock
      /\ target \in 0..MaxQuantity
      /\ target >= x.reserved
      /\ x.location = None => delta <= 0
      /\ stocks' = [stocks EXCEPT ![l].quantity = target]
      /\ IF x.location # None /\ delta # 0
           THEN Recharge(x.location, x, delta, event)
           ELSE EmitOnly(event)
      /\ UNCHANGED <<reservations, allocations, now>>

\* POST /inventory/adjust: set the quantity of a lot after a count.
Adjust(l, target) ==
  LET x == stocks[l]
      delta == target - x.quantity
      event == [type |-> "StockAdjusted", lot |-> l, product |-> x.product,
                delta |-> delta]
  IN  /\ x # NoStock
      /\ target \in 0..MaxQuantity
      /\ target >= x.reserved
      /\ x.location = None => delta <= 0
      /\ stocks' = [stocks EXCEPT ![l].quantity = target]
      /\ IF x.location # None /\ delta # 0
           THEN Recharge(x.location, x, delta, event)
           ELSE EmitOnly(event)
      /\ UNCHANGED <<reservations, allocations, now>>

\* POST /inventory/write-off: remove n units nobody reserved.
WriteOff(l, n) ==
  LET x == stocks[l]
      event == [type |-> "StockWrittenOff", lot |-> l, product |-> x.product,
                quantity |-> n]
  IN  /\ x # NoStock
      /\ n \in 1..Available(x)
      /\ stocks' = [stocks EXCEPT ![l].quantity = @ - n]
      /\ IF x.location # None
           THEN Recharge(x.location, x, -n, event)
           ELSE EmitOnly(event)
      /\ UNCHANGED <<reservations, allocations, now>>

\* POST /inventory/move: n units nobody reserved become a new lot at `to`.
Move(l, new, to, n) ==
  LET x == stocks[l]
      event == [type |-> "StockMoved", lot |-> l, product |-> x.product,
                destination |-> new, quantity |-> n]
      touched == {to, x.location} \ {None}
  IN  /\ x # NoStock
      /\ stocks[new] = NoStock
      /\ n \in 1..Available(x)
      /\ x.location # to
      /\ CapacityAllows(to, x, n)
      /\ x.location # None => CapacityAllows(x.location, x, -n)
      /\ stocks' = [stocks EXCEPT
           ![new] = [x EXCEPT !.location = to, !.quantity = n, !.reserved = 0],
           ![l].quantity = @ - n]
      /\ load' = [loc \in Locations |->
           IF loc = to THEN Charged(loc, x, n)
           ELSE IF loc = x.location THEN Charged(loc, x, -n)
           ELSE load[loc]]
      /\ revision' = [loc \in Locations |->
           IF loc \in touched THEN revision[loc] + 1 ELSE revision[loc]]
      /\ emitted' = {CapacityChanged(loc, load'[loc], revision'[loc]) : loc \in touched}
                      \cup {event}
      /\ UNCHANGED <<reservations, allocations, now>>

-----------------------------------------------------------------------------
(***************************************************************************)
(* Handle: ReservationRequested.                                           *)
(***************************************************************************)

\* Seeded fault: lots that wait for a location are candidates.
Candidates_Unplaced(w, p) ==
  {l \in Lots : /\ stocks[l].warehouse = w /\ stocks[l].product = p
                /\ stocks[l].quantity > stocks[l].reserved
                /\ stocks[l].expires > now}

\* Placed, unexpired lots of product p with units nobody reserved.
Candidates(w, p) ==
  {l \in Lots : /\ stocks[l].warehouse = w /\ stocks[l].product = p
                /\ stocks[l].location # None
                /\ stocks[l].quantity > stocks[l].reserved
                /\ stocks[l].expires > now}

\* Seeded fault: order by created_at, id.
Before_Creation(l, m) == l < m

\* order by expiration_date nulls last, created_at, id
Before(l, m) ==
  \/ stocks[l].expires < stocks[m].expires
  \/ stocks[l].expires = stocks[m].expires /\ l < m

UnitsIn(S) == SumFunctionOnSet([l \in S |-> Available(stocks[l])], S)

\* Seeded fault: what earlier lots gave is not subtracted from the line.
Take_WholeLine(w, line, l) ==
  LET C == Candidates(w, line.product)
  IN  IF l \notin C THEN 0
      ELSE IF Available(stocks[l]) <= line.quantity THEN Available(stocks[l])
      ELSE line.quantity

\* Units taken from lot l when the candidates of a line are emptied in order.
Take(w, line, l) ==
  LET C == Candidates(w, line.product)
      ahead == UnitsIn({m \in C : Before(m, l)})
  IN  IF l \notin C \/ ahead >= line.quantity THEN 0
      ELSE IF Available(stocks[l]) <= line.quantity - ahead THEN Available(stocks[l])
      ELSE line.quantity - ahead

Claim(w, items) ==
  [l \in Lots |->
     IF \E line \in items : line.product = stocks[l].product
       THEN Take(w, CHOOSE line \in items : line.product = stocks[l].product, l)
       ELSE 0]

ValidItems(items) ==
  /\ items # {}
  /\ \A line \in items : line.quantity > 0
  /\ \A i, j \in items : i.product = j.product => i = j

\* reserve() does not fail.
CanReserve(w, items, deadline) ==
  /\ deadline > now
  /\ ValidItems(items)
  /\ \A line \in items : UnitsIn(Candidates(w, line.product)) >= line.quantity

ConfirmReservation(r, w, items, deadline) ==
  /\ reservations[r].status = "NONE"
  /\ CanReserve(w, items, deadline)
  /\ LET claim == Claim(w, items)
     IN  /\ stocks' = [l \in Lots |-> [stocks[l] EXCEPT !.reserved = @ + claim[l]]]
         /\ allocations' = [allocations EXCEPT ![r] = claim]
  /\ reservations' = [reservations EXCEPT ![r] =
       [status |-> "CONFIRMED", warehouse |-> w, expires |-> deadline, shipment |-> None]]
  /\ EmitOnly([type |-> "StockReserved", reservation |-> r, items |-> items])
  /\ UNCHANGED now

\* Seeded fault: a repeated request is not recognised before it is rejected.
RejectReservation_Again(r, w, items, deadline) ==
  /\ ~ CanReserve(w, items, deadline)
  /\ reservations' = [reservations EXCEPT ![r] =
       [status |-> "REJECTED", warehouse |-> w, expires |-> now, shipment |-> None]]
  /\ EmitOnly([type |-> "ReservationRejected", reservation |-> r])
  /\ UNCHANGED <<stocks, allocations, now>>

\* The savepoint is rolled back and the rejection recorded.
RejectReservation(r, w, items, deadline) ==
  /\ reservations[r].status = "NONE"
  /\ ~ CanReserve(w, items, deadline)
  /\ reservations' = [reservations EXCEPT ![r] =
       [status |-> "REJECTED", warehouse |-> w, expires |-> now, shipment |-> None]]
  /\ EmitOnly([type |-> "ReservationRejected", reservation |-> r])
  /\ UNCHANGED <<stocks, allocations, now>>

\* The transaction commits without changing or recording anything.
Nothing ==
  /\ emitted' = {}
  /\ UNCHANGED <<stocks, reservations, allocations, load, revision, now>>

ReserveAgain(r) ==
  /\ reservations[r].status # "NONE"
  /\ Nothing

-----------------------------------------------------------------------------
(***************************************************************************)
(* Handle: ReservationCancellationRequested, and Work, the expiry worker.  *)
(***************************************************************************)

\* Seeded fault: the reserved units stay on the lots.
Freed_Nothing(r) == stocks

Freed(r) == [l \in Lots |-> [stocks[l] EXCEPT !.reserved = @ - allocations[r][l]]]

Items(r) == {[lot |-> l, product |-> stocks[l].product, quantity |-> allocations[r][l]] :
               l \in {m \in Lots : allocations[r][m] > 0}}

\* Seeded fault: the status is not checked under the lock.
ReleaseConfirmed_AnyStatus(r, outcome, event) ==
  /\ stocks' = Freed(r)
  /\ reservations' = [reservations EXCEPT ![r].status = outcome]
  /\ EmitOnly([type |-> event, reservation |-> r, items |-> Items(r)])
  /\ UNCHANGED <<allocations, now>>

ReleaseConfirmed(r, outcome, event) ==
  /\ reservations[r].status = "CONFIRMED"
  /\ stocks' = Freed(r)
  /\ reservations' = [reservations EXCEPT ![r].status = outcome]
  /\ EmitOnly([type |-> event, reservation |-> r, items |-> Items(r)])
  /\ UNCHANGED <<allocations, now>>

Release(r) == ReleaseConfirmed(r, "CANCELLED", "StockReservationCancelled")

RejectRelease(r) ==
  /\ reservations[r].status = "COMPLETED"
  /\ EmitOnly([type |-> "ReservationCancellationRejected", reservation |-> r])
  /\ UNCHANGED <<stocks, reservations, allocations, now>>

ReleaseAgain(r) ==
  /\ reservations[r].status \in {"REJECTED", "CANCELLED", "EXPIRED"}
  /\ Nothing

Expire(r) ==
  /\ reservations[r].expires <= now
  /\ ReleaseConfirmed(r, "EXPIRED", "ReservationExpired")

-----------------------------------------------------------------------------
(***************************************************************************)
(* Handle: ShipmentRequested.                                              *)
(***************************************************************************)

Allocated(r) == {l \in Lots : allocations[r][l] > 0}

\* What leaves location loc when the allocations of r in lots S are shipped.
Taken(r, S, loc, d) ==
  SumFunctionOnSet([l \in Lots |-> IF l \in S /\ stocks[l].location = loc
                                     THEN allocations[r][l] * Unit[stocks[l].product][d]
                                     ELSE 0], Lots)

\* Seeded fault: shipping does not call capacity().
LoadWithout_Kept(r, S, loc) == load[loc]

LoadWithout(r, S, loc) == [d \in Dims |-> load[loc][d] - Taken(r, S, loc, d)]

\* The allocated lots of r that share l's location and are shipped no later
\* than l: order by stock_id.
UpTo(r, l) ==
  {m \in Allocated(r) : Rank[m] <= Rank[l] /\ stocks[m].location = stocks[l].location}

At(S, loc) == {l \in S : stocks[l].location = loc}

\* Seeded fault: expiry is left to the worker.
Shippable_Overdue(r, w) ==
  /\ reservations[r].status = "CONFIRMED"
  /\ reservations[r].warehouse = w

\* The reservation is active and of the warehouse whose lock is held.
Shippable(r, w) ==
  /\ reservations[r].status = "CONFIRMED"
  /\ reservations[r].expires > now
  /\ reservations[r].warehouse = w

Ship(r, s, w) ==
  LET S == Allocated(r)
  IN  /\ Shippable(r, w)
      /\ \A l \in S : stocks[l].expires > now /\ stocks[l].location # None
      /\ \A loc \in Locations, d \in Dims : LoadWithout(r, S, loc)[d] >= 0
      /\ stocks' = [l \in Lots |-> [stocks[l] EXCEPT
                                      !.quantity = @ - allocations[r][l],
                                      !.reserved = @ - allocations[r][l]]]
      /\ load' = [loc \in Locations |-> LoadWithout(r, S, loc)]
      /\ revision' = [loc \in Locations |-> revision[loc] + Cardinality(At(S, loc))]
      /\ emitted' =
           {[type |-> "StockShipped", reservation |-> r, shipment |-> s, items |-> Items(r)]}
             \cup {LET loc == stocks[l].location
                   IN  CapacityChanged(loc, LoadWithout(r, UpTo(r, l), loc),
                                       revision[loc] + Cardinality(UpTo(r, l))) : l \in S}
      /\ reservations' = [reservations EXCEPT ![r].status = "COMPLETED", ![r].shipment = s]
      /\ UNCHANGED <<allocations, now>>

AlreadyShipped(r, s) ==
  reservations[r].status = "COMPLETED" /\ reservations[r].shipment = s

ShipAgain(r, s) ==
  /\ AlreadyShipped(r, s)
  /\ Nothing

\* Unknown, inactive or expired reservation, wrong warehouse, or expired lot.
RejectShip(r, s, w) ==
  /\ ~ AlreadyShipped(r, s)
  /\ \/ ~ Shippable(r, w)
     \/ \E l \in Allocated(r) : stocks[l].expires <= now
  /\ EmitOnly([type |-> "ShipmentRejected", reservation |-> r, shipment |-> s])
  /\ UNCHANGED <<stocks, reservations, allocations, now>>

-----------------------------------------------------------------------------
(***************************************************************************)
(* Handle: ProductPlacementAssigned.  `open` is what the warehouse service *)
(* answers about the location: neither BLOCKED nor in MAINTENANCE.         *)
(***************************************************************************)
Placeable(l, w) == stocks[l] # NoStock /\ stocks[l].warehouse = w

ToPlace(l) == stocks[l].location = None /\ stocks[l].quantity > 0

Place(l, w, loc, open) ==
  /\ Placeable(l, w)
  /\ ToPlace(l)
  /\ open
  /\ stocks' = [stocks EXCEPT ![l].location = loc]
  /\ Recharge(loc, stocks[l], stocks[l].quantity,
              [type |-> "StockAdded", lot |-> l, location |-> loc,
               quantity |-> stocks[l].quantity])
  /\ UNCHANGED <<reservations, allocations, now>>

RejectPlace(l, w, loc, open) ==
  /\ \/ ~ Placeable(l, w)
     \/ ToPlace(l) /\ ~ (open /\ CapacityAllows(loc, stocks[l], stocks[l].quantity))
  /\ EmitOnly([type |-> "PlacementRejected", lot |-> l])
  /\ UNCHANGED <<stocks, reservations, allocations, now>>

PlaceAgain(l, w) ==
  /\ Placeable(l, w)
  /\ ~ ToPlace(l)
  /\ Nothing

-----------------------------------------------------------------------------
Tick ==
  /\ now < Horizon
  /\ now' = now + 1
  /\ emitted' = {}
  /\ UNCHANGED <<stocks, reservations, allocations, load, revision>>

Init ==
  /\ stocks = [l \in Lots |-> NoStock]
  /\ reservations = [r \in Reservations |-> NoReservation]
  /\ allocations = [r \in Reservations |-> [l \in Lots |-> 0]]
  /\ load = [loc \in Locations |-> [d \in Dims |-> 0]]
  /\ revision = [loc \in Locations |-> 0]
  /\ now = 1
  /\ emitted = {}

Command ==
  \E l \in Lots :
    \/ \E p \in Products, w \in Warehouses, n \in 1..MaxQuantity, e \in Days \cup {Never} :
         Receive(l, p, w, n, e)
    \/ \E n \in 0..MaxQuantity : Adjust(l, n)
    \/ \E n \in 1..Available(stocks[l]) : WriteOff(l, n)
    \/ \E new \in Lots, to \in Locations, n \in 1..Available(stocks[l]) :
         Move(l, new, to, n)

Handle ==
  \/ \E r \in Reservations, w \in Warehouses, items \in Orders, deadline \in Days :
       \/ ConfirmReservation(r, w, items, deadline)
       \/ RejectReservation(r, w, items, deadline)
  \/ \E r \in Reservations : ReserveAgain(r) \/ Release(r) \/ RejectRelease(r) \/ ReleaseAgain(r)
  \/ \E r \in Reservations, s \in Shipments :
       \/ ShipAgain(r, s)
       \/ \E w \in Warehouses : Ship(r, s, w) \/ RejectShip(r, s, w)
  \/ \E l \in Lots, w \in Warehouses :
       \/ PlaceAgain(l, w)
       \/ \E loc \in Locations, open \in BOOLEAN :
            Place(l, w, loc, open) \/ RejectPlace(l, w, loc, open)

Work == \E r \in Reservations : Expire(r)

Next == Command \/ Handle \/ Work \/ Tick

Spec == Init /\ [][Next]_vars

-----------------------------------------------------------------------------
(***************************************************************************)
(* What the inventory promises.                                            *)
(***************************************************************************)

\* Types of the tables; quantities, reserved units and loads stay natural.
TypeOK ==
  /\ stocks \in [Lots -> Rows \cup {NoStock}]
  /\ reservations \in [Reservations -> ReservationRows]
  /\ allocations \in [Reservations -> [Lots -> Nat]]
  /\ load \in [Locations -> [Dims -> Nat]]
  /\ revision \in [Locations -> Nat]
  /\ now \in Days

\* CHECK (reserved_quantity >= 0 AND reserved_quantity <= quantity) of table
\* stocks never fires: no sequence of commands, handlers and expiries moves,
\* writes off, adjusts or ships a unit that a reservation holds.
StockBounds == \A l \in Lots : 0 <= stocks[l].reserved /\ stocks[l].reserved <= stocks[l].quantity

\* Units of lot l that reservation r holds, and that all of them hold.
Share(r, l) == IF reservations[r].status = "CONFIRMED" THEN allocations[r][l] ELSE 0
Held(l) == SumFunctionOnSet([r \in Reservations |-> Share(r, l)], Reservations)

\* stocks.reserved_quantity is exactly what the CONFIRMED reservations have
\* allocated of the lot: nothing is released twice, kept by a reservation that
\* was cancelled, expired or shipped, or lost when a delivery is repeated.
ReservedMatchesAllocations == \A l \in Lots : stocks[l].reserved = Held(l)

\* Weight or volume of lot l at location loc, and of all lots there.
Part(l, loc, d) ==
  IF stocks[l].location = loc
    THEN stocks[l].quantity * Unit[stocks[l].product][d] ELSE 0
Stored(loc, d) == SumFunctionOnSet([l \in Lots |-> Part(l, loc, d)], Lots)

\* The capacity ledger, kept incrementally by capacity() at every call site, is
\* what the lots in the location really weigh and measure.
LedgerMatchesStock ==
  \A loc \in Locations, d \in Dims : load[loc][d] = Stored(loc, d)

\* No location is ever loaded beyond its limits, whichever commands and
\* placements compete for it.
LedgerWithinLimits ==
  \A loc \in Locations, d \in Dims : load[loc][d] <= Limit[loc][d]

\* A lot in a location is in a compatible location of its own warehouse, and
\* only lots in a location are reserved.
PlacedWhereAllowed ==
  \A l \in Lots :
    /\ stocks[l].location # None =>
         /\ WarehouseOf[stocks[l].location] = stocks[l].warehouse
         /\ stocks[l].product \in Accepts[stocks[l].location]
    /\ stocks[l].reserved > 0 => stocks[l].location # None

\* The errors that roll a shipment back and, after the retries, send it to the
\* dead letter topic ("reserved stock is unplaced", "capacity invariant
\* violated", a negative quantity) cannot occur for a CONFIRMED reservation.
ShipCannotFail ==
  \A r \in Reservations : reservations[r].status = "CONFIRMED" =>
    /\ \A l \in Allocated(r) : /\ stocks[l].location # None
                               /\ allocations[r][l] <= stocks[l].reserved
    /\ \A loc \in Locations, d \in Dims : LoadWithout(r, Allocated(r), loc)[d] >= 0

Confirmed(r) == reservations[r].status = "NONE" /\ reservations'[r].status = "CONFIRMED"

\* reserve() allocates lots in the order of their expiration dates: a lot that
\* expires later is touched only after every earlier usable lot of the product
\* is exhausted, and lots without a date come last.
FirstExpiredFirst ==
  [][\A r \in Reservations, l, m \in Lots :
       /\ Confirmed(r)
       /\ stocks[l].product = stocks[m].product
       /\ stocks[l].warehouse = stocks[m].warehouse
       /\ stocks[l].location # None /\ stocks[l].expires > now
       /\ stocks[l].expires < stocks[m].expires
       /\ allocations'[r][m] > 0
       => allocations'[r][l] = Available(stocks[l])]_vars

\* A confirmed reservation holds exactly the ordered quantity of every ordered
\* product and nothing else, all of it in its own warehouse and unexpired; a
\* rejected one holds nothing.
ReservedAsOrdered ==
  [][\A r \in Reservations : Confirmed(r) =>
       /\ \A e \in {f \in emitted' : f.type = "StockReserved"}, p \in Products :
            SumFunctionOnSet([l \in Lots |-> IF stocks[l].product = p
                                               THEN allocations'[r][l] ELSE 0], Lots)
              = IF \E line \in e.items : line.product = p
                  THEN (CHOOSE line \in e.items : line.product = p).quantity ELSE 0
       /\ \A l \in Lots : allocations'[r][l] > 0 =>
            stocks[l].warehouse = reservations'[r].warehouse /\ stocks[l].expires > now]_vars

Units(p) ==
  SumFunctionOnSet([l \in Lots |-> IF stocks[l].product = p
                                     THEN stocks[l].quantity ELSE 0], Lots)

ShippedOf(items, p) ==
  SumFunctionOnSet([i \in items |-> IF i.product = p THEN i.quantity ELSE 0], items)

\* Change of the quantity of product p that event e reports.
Reported(e, p) ==
  CASE e.type = "GoodsReceived"   -> IF e.product = p THEN e.quantity ELSE 0
    [] e.type = "StockAdjusted"   -> IF e.product = p THEN e.delta ELSE 0
    [] e.type = "StockWrittenOff" -> IF e.product = p THEN -e.quantity ELSE 0
    [] e.type = "StockShipped"    -> -ShippedOf(e.items, p)
    [] OTHER                      -> 0

\* The audit trail is complete: the quantity of a product changes by exactly
\* what the events of the same transaction report, and moves conserve it.
QuantityAccounted ==
  [][\A p \in Products :
       Units(p)' - Units(p)
         = SumFunctionOnSet([e \in emitted' |-> Reported(e, p)], emitted')]_vars

\* Every change of a location's load is published: the transaction's
\* LocationCapacityChanged events carry the next revisions without a gap, and
\* the last one carries the load of the table, so a consumer that keeps the
\* highest revision ends with the true load.
CapacityPublished ==
  [][\A loc \in Locations :
       LET published == {e \in emitted' : /\ e.type = "LocationCapacityChanged"
                                          /\ e.location = loc}
       IN  /\ {e.revision : e \in published} = (revision[loc] + 1)..revision'[loc]
           /\ Cardinality(published) = revision'[loc] - revision[loc]
           /\ load'[loc] # load[loc] => published # {}
           /\ \A e \in published : e.revision = revision'[loc] => e.load = load'[loc]]_vars

\* The event that announces each status, and the status it is entered from.
Announces == [StockReserved |-> "CONFIRMED", ReservationRejected |-> "REJECTED",
              StockShipped |-> "COMPLETED", StockReservationCancelled |-> "CANCELLED",
              ReservationExpired |-> "EXPIRED"]

\* A reservation changes status exactly when one event announces it, REJECTED
\* and CONFIRMED are entered once from nothing, the final states once from
\* CONFIRMED: of ship, cancel and expire exactly one wins, and a repeated or
\* late request never announces a second outcome.
OneOutcome ==
  [][\A r \in Reservations :
       LET outcomes == {e \in emitted' : /\ e.type \in DOMAIN Announces
                                         /\ e.reservation = r}
           from == reservations[r].status
           to == reservations'[r].status
       IN  IF from = to THEN outcomes = {}
           ELSE /\ \E e \in outcomes : outcomes = {e} /\ to = Announces[e.type]
                /\ from = IF to \in {"CONFIRMED", "REJECTED"} THEN "NONE" ELSE "CONFIRMED"]_vars

-----------------------------------------------------------------------------
(***************************************************************************)
(* The inventory implements the ledger of reservations: stock, capacity    *)
(* and time decide which of the steps the ledger allows is taken.          *)
(***************************************************************************)

Overdue == {r \in Reservations : /\ reservations[r].status = "CONFIRMED"
                                 /\ reservations[r].expires <= now}

AnswerTypes == DOMAIN Announces \cup {"ReservationCancellationRejected", "ShipmentRejected"}

Answers == {[type |-> e.type, reservation |-> e.reservation] :
              e \in {f \in emitted : f.type \in AnswerTypes}}

Ledger == INSTANCE ReservationLedger WITH
  status <- [r \in Reservations |-> reservations[r].status],
  shipment <- [r \in Reservations |-> reservations[r].shipment],
  overdue <- Overdue,
  answers <- Answers

\* Every transaction is one step of the ledger: one status per reservation, at
\* most one answer per request, and an overdue reservation is never shipped.
ImplementsLedger == Ledger!Spec

=============================================================================
