-------------------------- MODULE InventoryProofs --------------------------
(***************************************************************************)
(* The stock ledger and the capacity ledger of the inventory service are   *)
(* consistent for every set of lots, locations, products and reservations, *)
(* every order and every limit; and each of its transactions allocates     *)
(* what was ordered, first expired first, publishes the capacity it        *)
(* changes, and reports the quantities it changes.                         *)
(***************************************************************************)
EXTENDS Inventory, DataTheorems

\* The inductive invariant: none of its parts is inductive alone, since what
\* a release or a shipment subtracts is bounded only by what the sums contain.
IInv == /\ TypeOK
        /\ StockBounds
        /\ ReservedMatchesAllocations
        /\ LedgerMatchesStock
        /\ LedgerWithinLimits
        /\ PlacedWhereAllowed

-----------------------------------------------------------------------------
(* Arithmetic the provers need in one piece. *)

\* A quantity times a unit's weight or volume is natural.
LEMMA ProductNat == \A n, u \in Nat : n * u \in Nat
OBVIOUS

\* The same for a change of quantity, which may be negative.
LEMMA ProductInt == \A n, u \in Int : n * u \in Int
OBVIOUS

\* Removing units never adds weight.
LEMMA ProductSign == \A n \in Int, u \in Nat : n <= 0 => n * u <= 0
OBVIOUS

\* The weight of two quantities together is the sum of their weights.
LEMMA ProductSum == \A m, n, u \in Int : (m + n) * u = m * u + n * u
OBVIOUS

\* No units weigh nothing.
LEMMA ProductZero == \A u \in Int : 0 * u = 0
OBVIOUS

-----------------------------------------------------------------------------
(* Rows and sums. *)

\* What the type of table stocks says of one row.
LEMMA RowFacts ==
  ASSUME TypeOK, NEW l \in Lots
  PROVE  /\ stocks[l].quantity \in Nat
         /\ stocks[l].reserved \in Nat
         /\ stocks[l].location \in Locations \cup {None}
         /\ stocks[l] # NoStock => stocks[l] \in Rows
         /\ stocks[l] \in Rows => /\ stocks[l].product \in Products
                                  /\ stocks[l].warehouse \in Warehouses
         /\ stocks[l].location # None => stocks[l] # NoStock
         /\ stocks[l] = NoStock => /\ stocks[l].quantity = 0
                                   /\ stocks[l].reserved = 0
                                   /\ stocks[l].location = None
BY DEF TypeOK, Rows, NoStock

\* What a lot contributes to the load of a location is natural.
LEMMA PartNat ==
  TypeOK => \A m \in Lots, k \in Locations, e \in Dims : Part(m, k, e) \in Nat
<1> SUFFICES ASSUME TypeOK, NEW l \in Lots, NEW loc \in Locations, NEW d \in Dims
             PROVE  Part(l, loc, d) \in Nat
  OBVIOUS
<1>1. CASE stocks[l].location = loc
  <2>1. stocks[l].location # None
    BY <1>1, InventoryAssumption DEF InventoryAssumption
  <2>2. stocks[l].product \in Products /\ stocks[l].quantity \in Nat
    BY <2>1, RowFacts
  <2>3. Unit[stocks[l].product][d] \in Nat
    BY <2>2, InventoryAssumption DEF InventoryAssumption
  <2> QED BY <1>1, <2>2, <2>3, ProductNat DEF Part
<1>2. CASE stocks[l].location # loc
  BY <1>2 DEF Part
<1> QED BY <1>1, <1>2

\* Only lot l changes what it stores at loc.
LEMMA StoredChange ==
  ASSUME TypeOK, TypeOK', NEW l \in Lots, NEW loc \in Locations, NEW d \in Dims,
         \A m \in Lots \ {l} : Part(m, loc, d)' = Part(m, loc, d)
  PROVE  Stored(loc, d)' = Stored(loc, d) + (Part(l, loc, d)' - Part(l, loc, d))
<1> DEFINE f == [m \in Lots |-> Part(m, loc, d)]
           g == [m \in Lots |-> Part(m, loc, d)']
<1>1. \A m \in Lots : f[m] \in Int /\ g[m] \in Int
  <2>1. \A m \in Lots : Part(m, loc, d) \in Nat
    BY PartNat
  <2>2. (TypeOK => \A m \in Lots, k \in Locations, e \in Dims : Part(m, k, e) \in Nat)'
    BY PartNat, PTL
  <2>3. \A m \in Lots : Part(m, loc, d)' \in Nat
    BY <2>2
  <2> QED BY <2>1, <2>3
<1>2. \A m \in Lots \ {l} : g[m] = f[m]
  OBVIOUS
<1>3. IsFiniteSet(Lots)
  BY InventoryAssumption DEF InventoryAssumption
<1>4. f[l] = Part(l, loc, d) /\ g[l] = Part(l, loc, d)'
  OBVIOUS
<1>5. Stored(loc, d) = SumFunctionOnSet(f, Lots) /\ Stored(loc, d)' = SumFunctionOnSet(g, Lots)
  BY DEF Stored
<1> HIDE DEF f, g
<1>6. SumFunctionOnSet(g, Lots) = SumFunctionOnSet(f, Lots) + (g[l] - f[l])
  BY <1>1, <1>2, <1>3, SumUpdate
<1> QED BY <1>4, <1>5, <1>6

\* No lot changes what it stores.
LEMMA StoredSame ==
  ASSUME \A m \in Lots, k \in Locations, e \in Dims : Part(m, k, e)' = Part(m, k, e),
         NEW loc \in Locations, NEW d \in Dims
  PROVE  Stored(loc, d)' = Stored(loc, d)
<1>1. [m \in Lots |-> Part(m, loc, d)'] = [m \in Lots |-> Part(m, loc, d)]
  OBVIOUS
<1>2. Stored(loc, d)' = SumFunctionOnSet([m \in Lots |-> Part(m, loc, d)'], Lots)
  BY DEF Stored
<1> QED BY <1>1, <1>2 DEF Stored

\* What a reservation holds of a lot is natural.
LEMMA ShareNat ==
  TypeOK => \A q \in Reservations, m \in Lots : Share(q, m) \in Nat
BY DEF TypeOK, Share

\* Only reservation r changes what it holds of lot l.
LEMMA HeldChange ==
  ASSUME TypeOK, TypeOK', NEW r \in Reservations, NEW l \in Lots,
         \A q \in Reservations \ {r} : Share(q, l)' = Share(q, l)
  PROVE  Held(l)' = Held(l) + (Share(r, l)' - Share(r, l))
<1> DEFINE f == [q \in Reservations |-> Share(q, l)]
           g == [q \in Reservations |-> Share(q, l)']
<1>1. \A q \in Reservations : f[q] \in Int /\ g[q] \in Int
  <2>1. \A q \in Reservations : Share(q, l) \in Nat
    BY ShareNat
  <2>2. (TypeOK => \A q \in Reservations, m \in Lots : Share(q, m) \in Nat)'
    BY ShareNat, PTL
  <2>3. \A q \in Reservations : Share(q, l)' \in Nat
    BY <2>2
  <2> QED BY <2>1, <2>3
<1>2. \A q \in Reservations \ {r} : g[q] = f[q]
  OBVIOUS
<1>3. IsFiniteSet(Reservations)
  BY InventoryAssumption DEF InventoryAssumption
<1>4. f[r] = Share(r, l) /\ g[r] = Share(r, l)'
  OBVIOUS
<1>5. /\ Held(l) = SumFunctionOnSet(f, Reservations)
      /\ Held(l)' = SumFunctionOnSet(g, Reservations)
  BY DEF Held
<1> HIDE DEF f, g
<1>6. SumFunctionOnSet(g, Reservations) = SumFunctionOnSet(f, Reservations) + (g[r] - f[r])
  BY <1>1, <1>2, <1>3, SumUpdate
<1> QED BY <1>4, <1>5, <1>6

\* No reservation changes what it holds of lot l.
LEMMA HeldSame ==
  ASSUME NEW l \in Lots, \A q \in Reservations : Share(q, l)' = Share(q, l)
  PROVE  Held(l)' = Held(l)
<1>1. [q \in Reservations |-> Share(q, l)'] = [q \in Reservations |-> Share(q, l)]
  OBVIOUS
<1>2. Held(l)' = SumFunctionOnSet([q \in Reservations |-> Share(q, l)'], Reservations)
  BY DEF Held
<1> QED BY <1>1, <1>2 DEF Held

\* A reservation holds at most what is reserved of the lot.
LEMMA ShareBound ==
  ASSUME TypeOK, ReservedMatchesAllocations, NEW r \in Reservations, NEW l \in Lots
  PROVE  Share(r, l) <= stocks[l].reserved
<1> DEFINE f == [q \in Reservations |-> Share(q, l)]
<1>1. \A q \in Reservations : f[q] \in Nat
  BY ShareNat
<1>2. stocks[l].reserved = SumFunctionOnSet(f, Reservations)
  BY DEF ReservedMatchesAllocations, Held
<1>3. IsFiniteSet(Reservations)
  BY InventoryAssumption DEF InventoryAssumption
<1>4. f[r] = Share(r, l)
  OBVIOUS
<1> HIDE DEF f
<1>5. f[r] <= SumFunctionOnSet(f, Reservations)
  BY <1>1, <1>3, SumTerm
<1> QED BY <1>2, <1>4, <1>5

\* What a successful capacity() call does to the ledger.
LEMMA ChargedFacts ==
  ASSUME TypeOK, LedgerWithinLimits, NEW loc \in Locations, NEW x \in Rows,
         NEW n \in Int, CapacityAllows(loc, x, n)
  PROVE  /\ Charged(loc, x, n) \in [Dims -> Nat]
         /\ \A d \in Dims : /\ Charged(loc, x, n)[d] = load[loc][d] + n * Unit[x.product][d]
                            /\ Charged(loc, x, n)[d] <= Limit[loc][d]
<1> DEFINE c == Charged(loc, x, n)
<1>1. ASSUME NEW d \in Dims
      PROVE  /\ c[d] = load[loc][d] + n * Unit[x.product][d]
             /\ c[d] \in Nat
             /\ c[d] <= Limit[loc][d]
  <2>1. load[loc][d] \in Nat /\ load[loc][d] <= Limit[loc][d]
    BY DEF TypeOK, LedgerWithinLimits
  <2>2. Unit[x.product][d] \in Nat /\ Limit[loc][d] \in Nat
    BY InventoryAssumption DEF InventoryAssumption, Rows
  <2>3. n * Unit[x.product][d] \in Int
    BY <2>2, ProductInt
  <2>4. c[d] = load[loc][d] + n * Unit[x.product][d]
    BY DEF Charged
  <2>5. c[d] >= 0 /\ (n > 0 => c[d] <= Limit[loc][d])
    BY DEF CapacityAllows
  <2>6. n <= 0 => n * Unit[x.product][d] <= 0
    BY <2>2, ProductSign
  <2> HIDE DEF c
  <2> QED BY <2>1, <2>2, <2>3, <2>4, <2>5, <2>6
<1>2. c = [d \in Dims |-> c[d]]
  BY DEF Charged
<1>3. c \in [Dims -> Nat]
  <2> HIDE DEF c
  <2> QED BY <1>1, <1>2
<1> QED BY <1>1, <1>3

-----------------------------------------------------------------------------
(* Steps that leave one of the two ledgers alone. *)

\* Steps that leave reservations, allocations and reserved units alone keep
\* ReservedMatchesAllocations.
LEMMA HeldFrame ==
  ASSUME ReservedMatchesAllocations, reservations' = reservations,
         allocations' = allocations,
         \A m \in Lots : stocks'[m].reserved = stocks[m].reserved
  PROVE  ReservedMatchesAllocations'
<1>1. ASSUME NEW l \in Lots
      PROVE  stocks'[l].reserved = Held(l)'
  <2>1. \A q \in Reservations : Share(q, l)' = Share(q, l)
    BY DEF Share
  <2>2. Held(l)' = Held(l)
    BY <2>1, HeldSame
  <2> QED BY <2>2 DEF ReservedMatchesAllocations
<1> QED BY <1>1 DEF ReservedMatchesAllocations

\* Steps that leave lots' places and quantities and the load alone keep the
\* capacity ledger.
LEMMA LoadFrame ==
  ASSUME LedgerMatchesStock, LedgerWithinLimits, load' = load,
         \A m \in Lots, k \in Locations, e \in Dims : Part(m, k, e)' = Part(m, k, e)
  PROVE  LedgerMatchesStock' /\ LedgerWithinLimits'
<1>1. ASSUME NEW loc \in Locations, NEW d \in Dims
      PROVE  load'[loc][d] = Stored(loc, d)'
  BY StoredSame DEF LedgerMatchesStock
<1> QED BY <1>1 DEF LedgerMatchesStock, LedgerWithinLimits

\* Steps that keep quantity, location and product of every lot.
LEMMA PartFrame ==
  ASSUME \A m \in Lots : /\ stocks'[m].quantity = stocks[m].quantity
                         /\ stocks'[m].location = stocks[m].location
                         /\ stocks'[m].product = stocks[m].product
  PROVE  \A m \in Lots, k \in Locations, e \in Dims : Part(m, k, e)' = Part(m, k, e)
BY DEF Part

\* One capacity() call matches the change of one lot.
LEMMA RechargeLedger ==
  ASSUME TypeOK, LedgerMatchesStock, LedgerWithinLimits, TypeOK',
         NEW l \in Lots, stocks[l] \in Rows,
         NEW loc \in Locations, NEW n \in Int, CapacityAllows(loc, stocks[l], n),
         load' = [load EXCEPT ![loc] = Charged(loc, stocks[l], n)],
         \A m \in Lots \ {l} : stocks'[m] = stocks[m],
         \A k \in Locations, e \in Dims :
           Part(l, k, e)' = Part(l, k, e)
             + (IF k = loc THEN n * Unit[stocks[l].product][e] ELSE 0)
  PROVE  LedgerMatchesStock' /\ LedgerWithinLimits'
<1>1. ASSUME NEW k \in Locations, NEW e \in Dims
      PROVE  load'[k][e] = Stored(k, e)' /\ load'[k][e] <= Limit[k][e]
  <2> DEFINE delta == IF k = loc THEN n * Unit[stocks[l].product][e] ELSE 0
  <2>1. \A m \in Lots \ {l} : Part(m, k, e)' = Part(m, k, e)
    BY DEF Part
  <2>2. Stored(k, e)' = Stored(k, e) + (Part(l, k, e)' - Part(l, k, e))
    BY <2>1, StoredChange
  <2>3. Part(l, k, e) \in Nat
    BY PartNat
  <2>4. delta \in Int
    <3>1. Unit[stocks[l].product][e] \in Int
      BY InventoryAssumption DEF InventoryAssumption, Rows
    <3> QED BY <3>1, ProductInt
  <2>5. Part(l, k, e)' = Part(l, k, e) + delta
    OBVIOUS
  <2>6. load[k][e] \in Nat /\ load[k][e] = Stored(k, e) /\ load[k][e] <= Limit[k][e]
    BY DEF TypeOK, LedgerMatchesStock, LedgerWithinLimits
  <2>7. load'[k][e] = load[k][e] + delta /\ load'[k][e] <= Limit[k][e]
    <3>1. CASE k = loc
      <4>1. load'[k] = Charged(loc, stocks[l], n)
        BY <3>1 DEF TypeOK
      <4>2. /\ Charged(loc, stocks[l], n)[e] = load[loc][e] + n * Unit[stocks[l].product][e]
            /\ Charged(loc, stocks[l], n)[e] <= Limit[loc][e]
        BY ChargedFacts
      <4> QED BY <3>1, <4>1, <4>2
    <3>2. CASE k # loc
      <4>1. load'[k] = load[k]
        BY <3>2 DEF TypeOK
      <4> QED BY <3>2, <4>1, <2>6
    <3> QED BY <3>1, <3>2
  <2> HIDE DEF delta
  <2> QED BY <2>2, <2>3, <2>4, <2>5, <2>6, <2>7
<1> QED BY <1>1 DEF LedgerMatchesStock, LedgerWithinLimits

-----------------------------------------------------------------------------
(* One lemma per action: HTTP commands. *)

\* Receive inserts an unplaced, unreserved lot: no sum changes.
LEMMA ReceiveStep ==
  ASSUME IInv, NEW l \in Lots, NEW p \in Products, NEW w \in Warehouses,
         NEW n \in 1..MaxQuantity, NEW x \in Days \cup {Never}, Receive(l, p, w, n, x)
  PROVE  IInv'
<1> USE DEF IInv
<1> DEFINE row == [product |-> p, warehouse |-> w, location |-> None,
                   quantity |-> n, reserved |-> 0, expires |-> x]
<1>1. row \in Rows /\ n \in Nat
  BY InventoryAssumption DEF InventoryAssumption, Rows
<1>2. stocks' = [stocks EXCEPT ![l] = row] /\ stocks[l] = NoStock
  BY DEF Receive
<1>3. UNCHANGED <<reservations, allocations, load, revision, now>>
  BY DEF Receive, EmitOnly
<1>4. stocks'[l] = row /\ \A m \in Lots \ {l} : stocks'[m] = stocks[m]
  BY <1>2 DEF TypeOK
<1>5. TypeOK'
  BY <1>1, <1>2, <1>3 DEF TypeOK
<1>6. StockBounds'
  BY <1>1, <1>4 DEF StockBounds
<1>7. ReservedMatchesAllocations'
  <2>1. \A m \in Lots : stocks'[m].reserved = stocks[m].reserved
    BY <1>2, <1>4 DEF NoStock
  <2> QED BY <1>3, <2>1, HeldFrame
<1>8. LedgerMatchesStock' /\ LedgerWithinLimits'
  <2>1. \A m \in Lots, k \in Locations, e \in Dims : Part(m, k, e)' = Part(m, k, e)
    BY <1>2, <1>4, InventoryAssumption DEF InventoryAssumption, Part, NoStock
  <2> QED BY <1>3, <2>1, LoadFrame
<1>9. PlacedWhereAllowed'
  BY <1>4 DEF PlacedWhereAllowed
<1> QED BY <1>5, <1>6, <1>7, <1>8, <1>9

\* What adjustments and write-offs have in common: the quantity of one lot
\* changes by n and, if the lot is in a location, capacity() is told.
LEMMA QuantityStep ==
  ASSUME IInv, NEW l \in Lots, stocks[l] # NoStock, NEW n \in Int, NEW event,
         stocks[l].quantity + n \in Nat, stocks[l].reserved <= stocks[l].quantity + n,
         stocks' = [stocks EXCEPT ![l].quantity = stocks[l].quantity + n],
         reservations' = reservations, allocations' = allocations, now' = now,
         IF stocks[l].location # None /\ n # 0
           THEN Recharge(stocks[l].location, stocks[l], n, event)
           ELSE EmitOnly(event)
  PROVE  IInv'
<1> USE DEF IInv
<1> DEFINE x == stocks[l]
           y == [x EXCEPT !.quantity = x.quantity + n]
<1>1. x \in Rows /\ y \in Rows
  <2>1. x \in Rows
    BY RowFacts
  <2> QED BY <2>1 DEF Rows
<1>2. stocks'[l] = y /\ \A m \in Lots \ {l} : stocks'[m] = stocks[m]
  BY DEF TypeOK
<1>3. /\ y.quantity = x.quantity + n /\ y.reserved = x.reserved
      /\ y.location = x.location /\ y.product = x.product /\ y.warehouse = x.warehouse
  BY <1>1 DEF Rows
<1>4. load' \in [Locations -> [Dims -> Nat]] /\ revision' \in [Locations -> Nat]
  <2>1. CASE x.location # None /\ n # 0
    <3>1. x.location \in Locations
      BY <2>1, <1>1 DEF Rows
    <3>2. Charged(x.location, x, n) \in [Dims -> Nat]
      BY <1>1, <2>1, <3>1, ChargedFacts DEF Recharge
    <3>3. /\ load' = [load EXCEPT ![x.location] = Charged(x.location, x, n)]
          /\ revision' = [revision EXCEPT ![x.location] = revision[x.location] + 1]
      BY <2>1 DEF Recharge
    <3>4. /\ load \in [Locations -> [Dims -> Nat]]
          /\ revision \in [Locations -> Nat]
      BY DEF TypeOK
    <3> HIDE DEF x, IInv
    <3> QED BY <3>1, <3>2, <3>3, <3>4
  <2>2. CASE ~ (x.location # None /\ n # 0)
    BY <2>2 DEF EmitOnly, TypeOK
  <2> QED BY <2>1, <2>2
<1>5. TypeOK'
  <2>1. stocks' \in [Lots -> Rows \cup {NoStock}]
    BY <1>1, <1>2 DEF TypeOK
  <2> QED BY <1>4, <2>1 DEF TypeOK
<1>6. StockBounds'
  BY <1>2, <1>3, RowFacts DEF StockBounds
<1>7. ReservedMatchesAllocations'
  <2>1. \A m \in Lots : stocks'[m].reserved = stocks[m].reserved
    BY <1>2, <1>3
  <2> QED BY <2>1, HeldFrame
<1>8. LedgerMatchesStock' /\ LedgerWithinLimits'
  <2>1. CASE x.location # None /\ n # 0
    <3>1. x.location \in Locations
      BY <2>1, <1>1 DEF Rows
    <3>2. ASSUME NEW k \in Locations, NEW e \in Dims
          PROVE  Part(l, k, e)' = Part(l, k, e)
                   + (IF k = x.location THEN n * Unit[x.product][e] ELSE 0)
      <4>1. Unit[x.product][e] \in Int /\ x.quantity \in Int
        BY <1>1, InventoryAssumption DEF InventoryAssumption, Rows
      <4>2. (x.quantity + n) * Unit[x.product][e]
              = x.quantity * Unit[x.product][e] + n * Unit[x.product][e]
        BY <4>1, ProductSum
      <4>3. x.quantity * Unit[x.product][e] \in Int /\ n * Unit[x.product][e] \in Int
        BY <4>1, ProductInt
      <4>4. CASE k = x.location
        <5>1. Part(l, k, e)' = (x.quantity + n) * Unit[x.product][e]
          BY <1>2, <1>3, <4>4 DEF Part
        <5>2. Part(l, k, e) = x.quantity * Unit[x.product][e]
          BY <4>4 DEF Part
        <5> QED BY <4>2, <4>4, <5>1, <5>2
      <4>5. CASE k # x.location
        <5>1. Part(l, k, e)' = 0 /\ Part(l, k, e) = 0
          BY <1>2, <1>3, <4>5 DEF Part
        <5> QED BY <4>5, <5>1
      <4> QED BY <4>4, <4>5
    <3>3. /\ CapacityAllows(x.location, x, n)
          /\ load' = [load EXCEPT ![x.location] = Charged(x.location, x, n)]
      BY <2>1 DEF Recharge
    <3> QED BY <1>1, <1>2, <1>5, <3>1, <3>2, <3>3, RechargeLedger
  <2>2. CASE ~ (x.location # None /\ n # 0)
    <3>1. \A k \in Locations, e \in Dims : Part(l, k, e)' = Part(l, k, e)
      <4>1. CASE x.location = None
        BY <1>2, <1>3, <4>1, InventoryAssumption DEF InventoryAssumption, Part
      <4>2. CASE n = 0
        <5>1. y.quantity = x.quantity
          BY <1>1, <1>3, <4>2 DEF Rows
        <5> QED BY <1>2, <1>3, <5>1 DEF Part
      <4> QED BY <2>2, <4>1, <4>2
    <3>2. \A m \in Lots, k \in Locations, e \in Dims : Part(m, k, e)' = Part(m, k, e)
      BY <1>2, <3>1 DEF Part
    <3> QED BY <2>2, <3>2, LoadFrame DEF EmitOnly
  <2> QED BY <2>1, <2>2
<1>9. PlacedWhereAllowed'
  BY <1>2, <1>3 DEF PlacedWhereAllowed
<1> QED BY <1>5, <1>6, <1>7, <1>8, <1>9

\* Adjust keeps the invariant: the difference goes to the ledger.
LEMMA AdjustStep ==
  ASSUME IInv, NEW l \in Lots, NEW target \in 0..MaxQuantity, Adjust(l, target)
  PROVE  IInv'
<1> DEFINE x == stocks[l]
           delta == target - x.quantity
           event == [type |-> "StockAdjusted", lot |-> l, product |-> x.product,
                     delta |-> delta]
<1>1. target \in Nat /\ x.quantity \in Nat /\ delta \in Int /\ x.quantity + delta = target
  BY InventoryAssumption, RowFacts DEF InventoryAssumption, IInv
<1>2. /\ x # NoStock /\ target >= x.reserved
      /\ stocks' = [stocks EXCEPT ![l].quantity = target]
      /\ reservations' = reservations /\ allocations' = allocations /\ now' = now
      /\ IF x.location # None /\ delta # 0
           THEN Recharge(x.location, x, delta, event)
           ELSE EmitOnly(event)
  BY DEF Adjust
<1> HIDE DEF event, delta
<1>3. /\ x.quantity + delta \in Nat
      /\ x.reserved <= x.quantity + delta
      /\ stocks' = [stocks EXCEPT ![l].quantity = x.quantity + delta]
  BY <1>1, <1>2, RowFacts DEF IInv
<1> QED BY <1>1, <1>2, <1>3, QuantityStep

\* WriteOff keeps the invariant: only available units leave.
LEMMA WriteOffStep ==
  ASSUME IInv, NEW l \in Lots, NEW n \in Int, WriteOff(l, n)
  PROVE  IInv'
<1> DEFINE x == stocks[l]
           event == [type |-> "StockWrittenOff", lot |-> l, product |-> x.product,
                     quantity |-> n]
<1>1. x.quantity \in Nat /\ x.reserved \in Nat
  BY RowFacts DEF IInv
<1>2. /\ x # NoStock /\ n \in 1..(x.quantity - x.reserved)
      /\ stocks' = [stocks EXCEPT ![l].quantity = x.quantity - n]
      /\ reservations' = reservations /\ allocations' = allocations /\ now' = now
      /\ IF x.location # None
           THEN Recharge(x.location, x, -n, event)
           ELSE EmitOnly(event)
  BY DEF WriteOff, Available
<1> HIDE DEF event
<1>3. -n \in Int /\ -n # 0 /\ x.quantity + (-n) = x.quantity - n
  BY <1>1, <1>2
<1>4. x.quantity + (-n) \in Nat /\ x.reserved <= x.quantity + (-n)
  BY <1>1, <1>2
<1>5. stocks' = [stocks EXCEPT ![l].quantity = x.quantity + (-n)]
  BY <1>2, <1>3
<1>6. IF x.location # None /\ -n # 0
        THEN Recharge(x.location, x, -n, event)
        ELSE EmitOnly(event)
  BY <1>2, <1>3
<1> QED BY <1>2, <1>3, <1>4, <1>5, <1>6, QuantityStep

\* Two lots change what they store at loc.
LEMMA StoredChangeTwo ==
  ASSUME TypeOK, TypeOK', NEW a \in Lots, NEW b \in Lots, a # b,
         NEW loc \in Locations, NEW d \in Dims,
         \A m \in Lots \ {a, b} : Part(m, loc, d)' = Part(m, loc, d)
  PROVE  Stored(loc, d)' = Stored(loc, d) + (Part(a, loc, d)' - Part(a, loc, d))
                                          + (Part(b, loc, d)' - Part(b, loc, d))
<1> DEFINE f == [m \in Lots |-> Part(m, loc, d)]
           g == [m \in Lots |-> Part(m, loc, d)']
           h == [m \in Lots |-> IF m = b THEN Part(m, loc, d) ELSE Part(m, loc, d)']
<1>1. \A m \in Lots : f[m] \in Int /\ g[m] \in Int /\ h[m] \in Int
  <2>1. \A m \in Lots : Part(m, loc, d) \in Nat
    BY PartNat
  <2>2. (TypeOK => \A m \in Lots, k \in Locations, e \in Dims : Part(m, k, e) \in Nat)'
    BY PartNat, PTL
  <2>3. \A m \in Lots : Part(m, loc, d)' \in Nat
    BY <2>2
  <2> QED BY <2>1, <2>3
<1>2. \A m \in Lots \ {a} : h[m] = f[m]
  OBVIOUS
<1>3. \A m \in Lots \ {b} : g[m] = h[m]
  OBVIOUS
<1>4. IsFiniteSet(Lots)
  BY InventoryAssumption DEF InventoryAssumption
<1>5. /\ f[a] = Part(a, loc, d) /\ f[b] = Part(b, loc, d)
      /\ h[a] = Part(a, loc, d)' /\ h[b] = Part(b, loc, d)
      /\ g[b] = Part(b, loc, d)'
  OBVIOUS
<1>6. Stored(loc, d) = SumFunctionOnSet(f, Lots) /\ Stored(loc, d)' = SumFunctionOnSet(g, Lots)
  BY DEF Stored
<1> HIDE DEF f, g, h
<1>7. SumFunctionOnSet(h, Lots) = SumFunctionOnSet(f, Lots) + (h[a] - f[a])
  BY <1>1, <1>2, <1>4, SumUpdate
<1>8. SumFunctionOnSet(g, Lots) = SumFunctionOnSet(h, Lots) + (g[b] - h[b])
  BY <1>1, <1>3, <1>4, SumUpdate
<1> QED BY <1>5, <1>6, <1>7, <1>8

\* Move keeps the invariant: what one location loses the other gains, and the
\* new lot has no reserved units.
LEMMA MoveStep ==
  ASSUME IInv, NEW l \in Lots, NEW new \in Lots, NEW to \in Locations, NEW n \in Int,
         Move(l, new, to, n)
  PROVE  IInv'
<1> USE DEF IInv
<1> DEFINE x == stocks[l]
           y == [x EXCEPT !.quantity = x.quantity - n]
           z == [x EXCEPT !.location = to, !.quantity = n, !.reserved = 0]
<1>1. /\ x # NoStock /\ stocks[new] = NoStock
      /\ n \in 1..Available(x) /\ x.location # to
      /\ CapacityAllows(to, x, n)
      /\ x.location # None => CapacityAllows(x.location, x, -n)
      /\ UNCHANGED <<reservations, allocations, now>>
  BY DEF Move
<1>2. x.quantity \in Nat /\ x.reserved \in Nat /\ n \in Nat /\ n <= x.quantity - x.reserved
  BY <1>1, RowFacts DEF Available
<1>3. x \in Rows /\ y \in Rows /\ z \in Rows
  <2>1. x \in Rows
    BY <1>1, RowFacts
  <2>2. x.quantity - n \in Nat
    BY <1>1, <1>2
  <2> QED BY <1>2, <2>1, <2>2 DEF Rows
<1>4. l # new
  BY <1>1
<1>5. /\ stocks'[l] = y /\ stocks'[new] = z
      /\ \A m \in Lots \ {l, new} : stocks'[m] = stocks[m]
      /\ stocks' \in [Lots -> Rows \cup {NoStock}]
  <2>1. stocks' = [stocks EXCEPT ![new] = z, ![l].quantity = @ - n]
    BY DEF Move
  <2>2. stocks \in [Lots -> Rows \cup {NoStock}]
    BY DEF TypeOK
  <2> QED BY <1>3, <1>4, <2>1, <2>2
<1>6. /\ y.quantity = x.quantity - n /\ y.reserved = x.reserved
      /\ y.location = x.location /\ y.product = x.product /\ y.warehouse = x.warehouse
      /\ z.quantity = n /\ z.reserved = 0
      /\ z.location = to /\ z.product = x.product /\ z.warehouse = x.warehouse
  BY <1>3 DEF Rows
<1> HIDE DEF y, z
<1>7. \A d \in Dims : /\ Unit[x.product][d] \in Int
                      /\ n * Unit[x.product][d] \in Int
                      /\ (-n) * Unit[x.product][d] = -(n * Unit[x.product][d])
                      /\ x.quantity * Unit[x.product][d] \in Int
                      /\ (x.quantity - n) * Unit[x.product][d]
                           = x.quantity * Unit[x.product][d] - n * Unit[x.product][d]
  <2> SUFFICES ASSUME NEW d \in Dims
               PROVE  /\ Unit[x.product][d] \in Int
                      /\ n * Unit[x.product][d] \in Int
                      /\ (-n) * Unit[x.product][d] = -(n * Unit[x.product][d])
                      /\ x.quantity * Unit[x.product][d] \in Int
                      /\ (x.quantity - n) * Unit[x.product][d]
                           = x.quantity * Unit[x.product][d] - n * Unit[x.product][d]
    OBVIOUS
  <2>1. Unit[x.product][d] \in Int
    BY <1>3, InventoryAssumption DEF InventoryAssumption, Rows
  <2>2. \A m, k, u \in Int : /\ m * u \in Int /\ k * u \in Int
                             /\ (-m) * u = -(m * u) /\ (k - m) * u = k * u - m * u
    OBVIOUS
  <2> QED BY <1>2, <2>1, <2>2
\* The ledger entry of every location, by cases.
<1>8. ASSUME NEW k \in Locations, NEW d \in Dims
      PROVE  /\ load'[k] \in [Dims -> Nat]
             /\ load'[k][d] <= Limit[k][d]
             /\ load'[k][d] = load[k][d]
                  + (IF k = to THEN n * Unit[x.product][d] ELSE 0)
                  + (IF k = x.location THEN -(n * Unit[x.product][d]) ELSE 0)
  <2>1. load'[k] = IF k = to THEN Charged(k, x, n)
                   ELSE IF k = x.location THEN Charged(k, x, -n)
                   ELSE load[k]
    BY DEF Move
  <2>2. load[k] \in [Dims -> Nat] /\ load[k][d] \in Nat /\ load[k][d] <= Limit[k][d]
    BY DEF TypeOK, LedgerWithinLimits
  <2>3. CASE k = to
    <3>1. /\ Charged(to, x, n) \in [Dims -> Nat]
          /\ Charged(to, x, n)[d] = load[to][d] + n * Unit[x.product][d]
          /\ Charged(to, x, n)[d] <= Limit[to][d]
      BY <1>1, <1>2, <1>3, ChargedFacts
    <3>2. k # x.location
      BY <1>1, <2>3
    <3> QED BY <1>7, <2>1, <2>2, <2>3, <3>1, <3>2
  <2>4. CASE k # to /\ k = x.location
    <3>1. -n \in Int /\ x.location # None
      BY <1>2, <2>4, InventoryAssumption DEF InventoryAssumption
    <3>2. /\ Charged(k, x, -n) \in [Dims -> Nat]
          /\ Charged(k, x, -n)[d] = load[k][d] + (-n) * Unit[x.product][d]
          /\ Charged(k, x, -n)[d] <= Limit[k][d]
      BY <1>1, <1>3, <2>4, <3>1, ChargedFacts
    <3> QED BY <1>7, <2>1, <2>2, <2>4, <3>2
  <2>5. CASE k # to /\ k # x.location
    BY <2>1, <2>2, <2>5
  <2> QED BY <2>3, <2>4, <2>5
<1>9. TypeOK'
  <2>1. load' \in [Locations -> [Dims -> Nat]]
    <3>1. load' = [k \in Locations |-> load'[k]]
      BY DEF Move
    <3>2. \A k \in Locations : load'[k] \in [Dims -> Nat]
      BY <1>8 DEF Dims
    <3> QED BY <3>1, <3>2
  <2>2. revision' \in [Locations -> Nat]
    BY DEF Move, TypeOK
  <2> QED BY <1>1, <1>5, <2>1, <2>2 DEF TypeOK
<1>10. StockBounds'
  <2>1. \A m \in Lots \ {l, new} : 0 <= stocks'[m].reserved /\ stocks'[m].reserved <= stocks'[m].quantity
    BY <1>5 DEF StockBounds
  <2>2. 0 <= y.reserved /\ y.reserved <= y.quantity /\ 0 <= z.reserved /\ z.reserved <= z.quantity
    BY <1>2, <1>6
  <2> QED BY <1>5, <2>1, <2>2 DEF StockBounds
<1>11. ReservedMatchesAllocations'
  <2>1. \A m \in Lots : stocks'[m].reserved = stocks[m].reserved
    BY <1>1, <1>5, <1>6 DEF NoStock
  <2> QED BY <1>1, <2>1, HeldFrame
<1>12. LedgerMatchesStock' /\ LedgerWithinLimits'
  <2>1. ASSUME NEW k \in Locations, NEW d \in Dims
        PROVE  load'[k][d] = Stored(k, d)' /\ load'[k][d] <= Limit[k][d]
    <3> DEFINE u == n * Unit[x.product][d]
    <3>1. \A m \in Lots \ {new, l} : Part(m, k, d)' = Part(m, k, d)
      BY <1>5 DEF Part
    <3>2. Stored(k, d)' = Stored(k, d) + (Part(new, k, d)' - Part(new, k, d))
                                       + (Part(l, k, d)' - Part(l, k, d))
      BY <1>4, <1>9, <3>1, StoredChangeTwo
    <3>3. Part(new, k, d) = 0 /\ Part(new, k, d)' = IF k = to THEN u ELSE 0
      BY <1>1, <1>5, <1>6, InventoryAssumption DEF InventoryAssumption, Part, NoStock
    <3>4. Part(l, k, d)' = Part(l, k, d) + (IF k = x.location THEN -u ELSE 0)
      <4>1. CASE k = x.location
        <5>1. Part(l, k, d)' = (x.quantity - n) * Unit[x.product][d]
          BY <1>5, <1>6, <4>1 DEF Part
        <5>2. Part(l, k, d) = x.quantity * Unit[x.product][d]
          BY <4>1 DEF Part
        <5> QED BY <1>7, <4>1, <5>1, <5>2
      <4>2. CASE k # x.location
        <5>1. Part(l, k, d)' = 0 /\ Part(l, k, d) = 0
          BY <1>5, <1>6, <4>2 DEF Part
        <5> QED BY <4>2, <5>1
      <4> QED BY <4>1, <4>2
    <3>5. load[k][d] = Stored(k, d) /\ load[k][d] \in Nat /\ Part(l, k, d) \in Nat /\ u \in Int
      BY <1>7, PartNat DEF LedgerMatchesStock, TypeOK
    <3>6. /\ load'[k][d] = load[k][d] + (IF k = to THEN u ELSE 0)
                                      + (IF k = x.location THEN -u ELSE 0)
          /\ load'[k][d] <= Limit[k][d]
      BY <1>8
    <3> HIDE DEF u
    <3> QED BY <3>2, <3>3, <3>4, <3>5, <3>6
  <2> QED BY <2>1 DEF LedgerMatchesStock, LedgerWithinLimits
<1>13. PlacedWhereAllowed'
  <2>1. WarehouseOf[to] = x.warehouse /\ x.product \in Accepts[to]
    BY <1>1 DEF CapacityAllows
  <2>2. /\ z.location = to /\ WarehouseOf[to] = z.warehouse /\ z.product \in Accepts[to]
        /\ to # None
    BY <1>6, <2>1, InventoryAssumption DEF InventoryAssumption
  <2> QED BY <1>5, <1>6, <2>2 DEF PlacedWhereAllowed
<1> QED BY <1>9, <1>10, <1>11, <1>12, <1>13

-----------------------------------------------------------------------------
(* One lemma per action: event handlers and the expiry worker. *)

\* Place keeps the invariant: the whole lot is charged to its location.
LEMMA PlaceStep ==
  ASSUME IInv, NEW l \in Lots, NEW w \in Warehouses, NEW loc \in Locations,
         NEW open \in BOOLEAN, Place(l, w, loc, open)
  PROVE  IInv'
<1> USE DEF IInv
<1> DEFINE x == stocks[l]
           n == x.quantity
           y == [x EXCEPT !.location = loc]
<1>1. /\ x # NoStock /\ x.location = None /\ n > 0
      /\ stocks' = [stocks EXCEPT ![l].location = loc]
      /\ CapacityAllows(loc, x, n)
      /\ load' = [load EXCEPT ![loc] = Charged(loc, x, n)]
      /\ revision' = [revision EXCEPT ![loc] = revision[loc] + 1]
      /\ UNCHANGED <<reservations, allocations, now>>
  BY DEF Place, Placeable, ToPlace, Recharge
<1>2. x \in Rows /\ y \in Rows /\ n \in Nat
  <2>1. x \in Rows /\ n \in Nat
    BY <1>1, RowFacts
  <2> QED BY <2>1 DEF Rows
<1>3. /\ stocks'[l] = y /\ \A m \in Lots \ {l} : stocks'[m] = stocks[m]
      /\ stocks' \in [Lots -> Rows \cup {NoStock}]
  BY <1>1, <1>2 DEF TypeOK
<1>4. /\ y.quantity = n /\ y.reserved = x.reserved /\ y.location = loc
      /\ y.product = x.product /\ y.warehouse = x.warehouse
  BY <1>2 DEF Rows
<1> HIDE DEF y
<1>5. TypeOK'
  <2>1. Charged(loc, x, n) \in [Dims -> Nat]
    BY <1>1, <1>2, ChargedFacts
  <2>2. load' \in [Locations -> [Dims -> Nat]] /\ revision' \in [Locations -> Nat]
    BY <1>1, <2>1 DEF TypeOK
  <2> QED BY <1>1, <1>3, <2>2 DEF TypeOK
<1>6. StockBounds'
  BY <1>3, <1>4 DEF StockBounds
<1>7. ReservedMatchesAllocations'
  <2>1. \A m \in Lots : stocks'[m].reserved = stocks[m].reserved
    BY <1>3, <1>4
  <2> QED BY <1>1, <2>1, HeldFrame
<1>8. LedgerMatchesStock' /\ LedgerWithinLimits'
  <2>1. ASSUME NEW k \in Locations, NEW e \in Dims
        PROVE  Part(l, k, e)' = Part(l, k, e) + (IF k = loc THEN n * Unit[x.product][e] ELSE 0)
    <3>1. Part(l, k, e) = 0
      BY <1>1, InventoryAssumption DEF InventoryAssumption, Part
    <3>2. Part(l, k, e)' = IF k = loc THEN n * Unit[x.product][e] ELSE 0
      BY <1>3, <1>4 DEF Part
    <3>3. n * Unit[x.product][e] \in Int
      <4>1. Unit[x.product][e] \in Int /\ n \in Int
        BY <1>2, InventoryAssumption DEF InventoryAssumption, Rows
      <4> QED BY <4>1, ProductInt
    <3> HIDE DEF n
    <3> QED BY <3>1, <3>2, <3>3
  <2>2. n \in Int
    BY <1>2
  <2> QED BY <1>1, <1>2, <1>3, <1>5, <2>1, <2>2, RechargeLedger
<1>9. PlacedWhereAllowed'
  <2>1. WarehouseOf[loc] = x.warehouse /\ x.product \in Accepts[loc] /\ loc # None
    BY <1>1, InventoryAssumption DEF CapacityAllows, InventoryAssumption
  <2> QED BY <1>3, <1>4, <2>1 DEF PlacedWhereAllowed
<1> QED BY <1>5, <1>6, <1>7, <1>8, <1>9

\* The units available in any set of lots are a natural number.
LEMMA UnitsNat ==
  ASSUME TypeOK, StockBounds, NEW S, S \subseteq Lots
  PROVE  UnitsIn(S) \in Nat
<1> DEFINE f == [l \in S |-> Available(stocks[l])]
<1>1. \A l \in S : f[l] \in Nat
  BY RowFacts DEF Available, StockBounds
<1>2. IsFiniteSet(S)
  BY FS_Subset, InventoryAssumption DEF InventoryAssumption
<1> HIDE DEF f
<1>3. SumFunctionOnSet(f, S) \in Nat
  BY <1>1, <1>2, SumNat
<1> QED BY <1>3 DEF UnitsIn, f

\* One line takes from a lot no more than nobody reserved, and only from a lot
\* that is in a location.
LEMMA TakeFacts ==
  ASSUME TypeOK, StockBounds, NEW w \in Warehouses, NEW line \in Lines, NEW l \in Lots
  PROVE  /\ Take(w, line, l) \in Nat
         /\ Take(w, line, l) <= Available(stocks[l])
         /\ Take(w, line, l) > 0 => stocks[l].location # None
<1> DEFINE C == Candidates(w, line.product)
           ahead == UnitsIn({m \in C : Before(m, l)})
<1>1. Available(stocks[l]) \in Nat
  BY RowFacts DEF Available, StockBounds
<1>2. line.quantity \in Int
  BY DEF Lines
<1>3. ahead \in Nat
  <2>1. {m \in C : Before(m, l)} \subseteq Lots
    BY DEF Candidates
  <2> QED BY <2>1, UnitsNat
<1>4. l \in C => stocks[l].location # None
  BY DEF Candidates
<1>5. Take(w, line, l) =
        IF l \notin C \/ ahead >= line.quantity THEN 0
        ELSE IF Available(stocks[l]) <= line.quantity - ahead THEN Available(stocks[l])
        ELSE line.quantity - ahead
  BY DEF Take
<1> HIDE DEF ahead, C
<1> QED BY <1>1, <1>2, <1>3, <1>4, <1>5

\* The same of a claim for all lines of an order.
LEMMA ClaimFacts ==
  ASSUME TypeOK, StockBounds, NEW w \in Warehouses, NEW items \in Orders, NEW l \in Lots
  PROVE  /\ Claim(w, items)[l] \in Nat
         /\ Claim(w, items)[l] <= Available(stocks[l])
         /\ Claim(w, items)[l] > 0 => stocks[l].location # None
<1>1. Available(stocks[l]) \in Nat
  BY RowFacts DEF Available, StockBounds
<1>2. items \subseteq Lines
  BY InventoryAssumption DEF InventoryAssumption
<1>3. CASE \E line \in items : line.product = stocks[l].product
  <2> DEFINE line == CHOOSE line \in items : line.product = stocks[l].product
  <2>1. line \in items
    BY <1>3
  <2>2. Claim(w, items)[l] = Take(w, line, l)
    BY <1>3 DEF Claim
  <2> QED BY <1>2, <2>1, <2>2, TakeFacts
<1>4. CASE ~ \E line \in items : line.product = stocks[l].product
  <2>1. Claim(w, items)[l] = 0
    BY <1>4 DEF Claim
  <2> QED BY <1>1, <2>1
<1> QED BY <1>3, <1>4

\* ConfirmReservation keeps the invariant: the claim is added to the lots'
\* reserved units and to what the reservations hold.
LEMMA ConfirmStep ==
  ASSUME IInv, NEW r \in Reservations, NEW w \in Warehouses, NEW items \in Orders,
         NEW deadline \in Days, ConfirmReservation(r, w, items, deadline)
  PROVE  IInv'
<1> USE DEF IInv
<1> DEFINE claim == Claim(w, items)
           row == [status |-> "CONFIRMED", warehouse |-> w, expires |-> deadline, shipment |-> None]
<1>1. /\ reservations[r].status = "NONE"
      /\ stocks' = [l \in Lots |-> [stocks[l] EXCEPT !.reserved = @ + claim[l]]]
      /\ allocations' = [allocations EXCEPT ![r] = claim]
      /\ reservations' = [reservations EXCEPT ![r] = row]
      /\ UNCHANGED <<load, revision, now>>
  BY DEF ConfirmReservation, EmitOnly
<1>2. /\ claim = [l \in Lots |-> claim[l]]
      /\ \A l \in Lots : /\ claim[l] \in Nat
                         /\ claim[l] <= stocks[l].quantity - stocks[l].reserved
                         /\ claim[l] > 0 => stocks[l].location # None
  <2>1. claim = [l \in Lots |-> claim[l]]
    BY DEF Claim
  <2>2. \A l \in Lots : /\ claim[l] \in Nat
                        /\ claim[l] <= Available(stocks[l])
                        /\ claim[l] > 0 => stocks[l].location # None
    BY ClaimFacts
  <2> HIDE DEF claim
  <2> QED BY <2>1, <2>2 DEF Available
<1> HIDE DEF claim
<1>3. ASSUME NEW l \in Lots
      PROVE  /\ stocks'[l] \in Rows \cup {NoStock}
             /\ stocks'[l].reserved = stocks[l].reserved + claim[l]
             /\ stocks'[l].quantity = stocks[l].quantity
             /\ stocks'[l].location = stocks[l].location
             /\ stocks'[l].product = stocks[l].product
             /\ stocks'[l].warehouse = stocks[l].warehouse
  <2>1. stocks'[l] = [stocks[l] EXCEPT !.reserved = stocks[l].reserved + claim[l]]
    BY <1>1
  <2>2. CASE stocks[l] = NoStock
    <3>1. claim[l] = 0
      BY <1>2, <2>2, RowFacts
    <3>2. stocks[l].reserved + claim[l] = 0
      BY <2>2, <3>1, RowFacts
    <3> QED BY <2>1, <2>2, <3>1, <3>2 DEF NoStock
  <2>3. CASE stocks[l] \in Rows
    <3>1. stocks[l].reserved + claim[l] \in Nat
      BY <1>2, RowFacts
    <3> QED BY <2>1, <2>3, <3>1 DEF Rows
  <2> QED BY <2>2, <2>3 DEF TypeOK
<1>4. row \in ReservationRows
  BY DEF ReservationRows, Statuses
<1>5. TypeOK'
  <2>1. stocks' \in [Lots -> Rows \cup {NoStock}]
    BY <1>1, <1>3
  <2>2. claim \in [Lots -> Nat]
    BY <1>2
  <2>3. /\ allocations' \in [Reservations -> [Lots -> Nat]]
        /\ reservations' \in [Reservations -> ReservationRows]
    BY <1>1, <1>4, <2>2 DEF TypeOK
  <2> QED BY <1>1, <2>1, <2>3 DEF TypeOK
<1>6. StockBounds'
  <2>1. ASSUME NEW l \in Lots
        PROVE  0 <= stocks'[l].reserved /\ stocks'[l].reserved <= stocks'[l].quantity
    BY <1>2, <1>3, RowFacts
  <2> QED BY <2>1 DEF StockBounds
<1>7. ReservedMatchesAllocations'
  <2>1. ASSUME NEW l \in Lots
        PROVE  stocks'[l].reserved = Held(l)'
    <3>1. \A q \in Reservations \ {r} : Share(q, l)' = Share(q, l)
      BY <1>1 DEF Share, TypeOK
    <3>2. Share(r, l) = 0
      BY <1>1 DEF Share
    <3>3. Share(r, l)' = claim[l]
      BY <1>1 DEF Share, TypeOK
    <3>4. Held(l)' = Held(l) + (Share(r, l)' - Share(r, l))
      BY <1>5, <3>1, HeldChange
    <3>5. stocks[l].reserved = Held(l) /\ Held(l) \in Nat
      BY RowFacts DEF ReservedMatchesAllocations
    <3> QED BY <1>2, <1>3, <3>2, <3>3, <3>4, <3>5
  <2> QED BY <2>1 DEF ReservedMatchesAllocations
<1>8. LedgerMatchesStock' /\ LedgerWithinLimits'
  <2>1. \A m \in Lots, k \in Locations, e \in Dims : Part(m, k, e)' = Part(m, k, e)
    BY <1>3, PartFrame
  <2> QED BY <1>1, <2>1, LoadFrame
<1>9. PlacedWhereAllowed'
  <2>1. ASSUME NEW l \in Lots, stocks'[l].reserved > 0
        PROVE  stocks'[l].location # None
    <3>1. stocks[l].reserved > 0 \/ claim[l] > 0
      BY <1>2, <1>3, <2>1, RowFacts
    <3> QED BY <1>2, <1>3, <3>1 DEF PlacedWhereAllowed
  <2> QED BY <1>3, <2>1 DEF PlacedWhereAllowed
<1> QED BY <1>5, <1>6, <1>7, <1>8, <1>9

\* Cancelling or expiring a CONFIRMED reservation keeps the invariant.
LEMMA ReleaseStep ==
  ASSUME IInv, NEW r \in Reservations, NEW outcome \in {"CANCELLED", "EXPIRED"}, NEW event,
         ReleaseConfirmed(r, outcome, event)
  PROVE  IInv'
<1> USE DEF IInv
<1> DEFINE a == allocations[r]
<1>1. /\ reservations[r].status = "CONFIRMED"
      /\ stocks' = [l \in Lots |-> [stocks[l] EXCEPT !.reserved = @ - a[l]]]
      /\ reservations' = [reservations EXCEPT ![r].status = outcome]
      /\ UNCHANGED <<allocations, load, revision, now>>
  BY DEF ReleaseConfirmed, EmitOnly, Freed
<1>2. \A l \in Lots : a[l] \in Nat /\ a[l] <= stocks[l].reserved
  BY <1>1, ShareBound DEF Share, TypeOK
<1> HIDE DEF a
<1>3. ASSUME NEW l \in Lots
      PROVE  /\ stocks'[l] \in Rows \cup {NoStock}
             /\ stocks'[l].reserved = stocks[l].reserved - a[l]
             /\ stocks'[l].quantity = stocks[l].quantity
             /\ stocks'[l].location = stocks[l].location
             /\ stocks'[l].product = stocks[l].product
             /\ stocks'[l].warehouse = stocks[l].warehouse
  <2>1. stocks'[l] = [stocks[l] EXCEPT !.reserved = stocks[l].reserved - a[l]]
    BY <1>1
  <2>2. CASE stocks[l] = NoStock
    <3>1. a[l] = 0 /\ stocks[l].reserved - a[l] = 0
      BY <1>2, <2>2, RowFacts
    <3> QED BY <2>1, <2>2, <3>1 DEF NoStock
  <2>3. CASE stocks[l] \in Rows
    <3>1. stocks[l].reserved - a[l] \in Nat
      BY <1>2, RowFacts
    <3> QED BY <2>1, <2>3, <3>1 DEF Rows
  <2> QED BY <2>2, <2>3 DEF TypeOK
<1>4. /\ reservations' \in [Reservations -> ReservationRows]
      /\ reservations'[r].status = outcome
      /\ \A q \in Reservations \ {r} : reservations'[q] = reservations[q]
  BY <1>1 DEF TypeOK, ReservationRows, Statuses
<1>5. TypeOK'
  <2>1. stocks' \in [Lots -> Rows \cup {NoStock}]
    BY <1>1, <1>3
  <2> QED BY <1>1, <1>4, <2>1 DEF TypeOK
<1>6. StockBounds'
  <2>1. ASSUME NEW l \in Lots
        PROVE  0 <= stocks'[l].reserved /\ stocks'[l].reserved <= stocks'[l].quantity
    BY <1>2, <1>3, RowFacts DEF StockBounds
  <2> QED BY <2>1 DEF StockBounds
<1>7. ReservedMatchesAllocations'
  <2>1. ASSUME NEW l \in Lots
        PROVE  stocks'[l].reserved = Held(l)'
    <3>1. \A q \in Reservations \ {r} : Share(q, l)' = Share(q, l)
      BY <1>1, <1>4 DEF Share
    <3>2. Share(r, l) = a[l]
      BY <1>1 DEF Share, a
    <3>3. Share(r, l)' = 0
      BY <1>4 DEF Share
    <3>4. Held(l)' = Held(l) + (Share(r, l)' - Share(r, l))
      BY <1>5, <3>1, HeldChange
    <3>5. stocks[l].reserved = Held(l) /\ Held(l) \in Nat
      BY RowFacts DEF ReservedMatchesAllocations
    <3> QED BY <1>2, <1>3, <3>2, <3>3, <3>4, <3>5
  <2> QED BY <2>1 DEF ReservedMatchesAllocations
<1>8. LedgerMatchesStock' /\ LedgerWithinLimits'
  <2>1. \A m \in Lots, k \in Locations, e \in Dims : Part(m, k, e)' = Part(m, k, e)
    BY <1>3, PartFrame
  <2> QED BY <1>1, <2>1, LoadFrame
<1>9. PlacedWhereAllowed'
  <2>1. ASSUME NEW l \in Lots, stocks'[l].reserved > 0
        PROVE  stocks'[l].location # None
    <3>1. stocks[l].reserved > 0
      BY <1>2, <1>3, <2>1, RowFacts
    <3> QED BY <1>3, <3>1 DEF PlacedWhereAllowed
  <2> QED BY <1>3, <2>1 DEF PlacedWhereAllowed
<1> QED BY <1>5, <1>6, <1>7, <1>8, <1>9

\* What a shipment takes from a location is a natural number.
LEMMA TakenNat ==
  ASSUME TypeOK, NEW r \in Reservations, NEW S, S \subseteq Lots,
         NEW loc \in Locations, NEW d \in Dims
  PROVE  Taken(r, S, loc, d) \in Nat
<1> DEFINE t == [l \in Lots |-> IF l \in S /\ stocks[l].location = loc
                                  THEN allocations[r][l] * Unit[stocks[l].product][d]
                                  ELSE 0]
<1>1. ASSUME NEW l \in Lots
      PROVE  t[l] \in Nat
  <2>1. CASE l \in S /\ stocks[l].location = loc
    <3>1. stocks[l].product \in Products
      BY <2>1, RowFacts, InventoryAssumption DEF InventoryAssumption
    <3>2. Unit[stocks[l].product][d] \in Nat
      BY <3>1, InventoryAssumption DEF InventoryAssumption
    <3>3. allocations[r][l] \in Nat
      BY DEF TypeOK
    <3>4. allocations[r][l] * Unit[stocks[l].product][d] \in Nat
      BY <3>2, <3>3, ProductNat
    <3> QED BY <2>1, <3>4
  <2>2. CASE ~ (l \in S /\ stocks[l].location = loc)
    BY <2>2
  <2> QED BY <2>1, <2>2
<1>2. IsFiniteSet(Lots)
  BY InventoryAssumption DEF InventoryAssumption
<1>3. Taken(r, S, loc, d) = SumFunctionOnSet(t, Lots)
  BY DEF Taken
<1> HIDE DEF t
<1> QED BY <1>1, <1>2, <1>3, SumNat

\* Ship keeps the invariant: units leave the lots, the reserved units and the
\* load of their locations together.
LEMMA ShipStep ==
  ASSUME IInv, NEW r \in Reservations, NEW s \in Shipments, NEW w \in Warehouses,
         Ship(r, s, w)
  PROVE  IInv'
<1> USE DEF IInv
<1> DEFINE a == allocations[r]
           S == Allocated(r)
<1>1. /\ reservations[r].status = "CONFIRMED"
      /\ \A loc \in Locations, d \in Dims : LoadWithout(r, S, loc)[d] >= 0
      /\ stocks' = [l \in Lots |-> [stocks[l] EXCEPT !.quantity = @ - a[l], !.reserved = @ - a[l]]]
      /\ load' = [loc \in Locations |-> LoadWithout(r, S, loc)]
      /\ revision' = [loc \in Locations |-> revision[loc] + Cardinality(At(S, loc))]
      /\ reservations' = [reservations EXCEPT ![r].status = "COMPLETED", ![r].shipment = s]
      /\ UNCHANGED <<allocations, now>>
  BY DEF Ship, Shippable
<1>2. \A l \in Lots : a[l] \in Nat /\ a[l] <= stocks[l].reserved
  BY <1>1, ShareBound DEF Share, TypeOK
<1>3. S \subseteq Lots /\ \A l \in Lots : l \notin S => a[l] = 0
  BY <1>2 DEF Allocated
<1> HIDE DEF a, S
<1>4. ASSUME NEW l \in Lots
      PROVE  /\ stocks'[l] \in Rows \cup {NoStock}
             /\ stocks'[l].reserved = stocks[l].reserved - a[l]
             /\ stocks'[l].quantity = stocks[l].quantity - a[l]
             /\ stocks'[l].location = stocks[l].location
             /\ stocks'[l].product = stocks[l].product
             /\ stocks'[l].warehouse = stocks[l].warehouse
  <2>1. stocks'[l] = [stocks[l] EXCEPT !.quantity = stocks[l].quantity - a[l],
                                       !.reserved = stocks[l].reserved - a[l]]
    BY <1>1
  <2>2. CASE stocks[l] = NoStock
    <3>1. /\ a[l] = 0 /\ stocks[l].reserved - a[l] = 0 /\ stocks[l].quantity - a[l] = 0
          /\ stocks[l].reserved = 0 /\ stocks[l].quantity = 0
      BY <1>2, <2>2, RowFacts
    <3>2. stocks'[l] = [NoStock EXCEPT !.quantity = 0, !.reserved = 0]
      BY <2>1, <2>2, <3>1
    <3>3. stocks'[l] = NoStock
      BY <3>2 DEF NoStock
    <3> QED BY <2>2, <3>1, <3>3
  <2>3. CASE stocks[l] \in Rows
    <3>1. stocks[l].reserved - a[l] \in Nat /\ stocks[l].quantity - a[l] \in Nat
      BY <1>2, RowFacts DEF StockBounds
    <3> QED BY <2>1, <2>3, <3>1 DEF Rows
  <2> QED BY <2>2, <2>3 DEF TypeOK
<1>5. /\ reservations' \in [Reservations -> ReservationRows]
      /\ reservations'[r].status = "COMPLETED"
      /\ \A q \in Reservations \ {r} : reservations'[q] = reservations[q]
  BY <1>1 DEF TypeOK, ReservationRows, Statuses
<1>6. ASSUME NEW k \in Locations
      PROVE  /\ load'[k] \in [Dims -> Nat]
             /\ \A d \in Dims : /\ load'[k][d] = load[k][d] - Taken(r, S, k, d)
                                /\ load'[k][d] <= load[k][d]
  <2>1. load'[k] = [d \in Dims |-> load[k][d] - Taken(r, S, k, d)]
    BY <1>1 DEF LoadWithout
  <2>2. ASSUME NEW d \in Dims
        PROVE  load'[k][d] \in Nat /\ load'[k][d] <= load[k][d]
    <3>1. Taken(r, S, k, d) \in Nat
      BY <1>3, TakenNat
    <3>2. load[k][d] \in Nat
      BY DEF TypeOK
    <3>3. load'[k][d] >= 0
      BY <1>1
    <3>4. load'[k][d] = load[k][d] - Taken(r, S, k, d)
      BY <2>1
    <3> QED BY <3>1, <3>2, <3>3, <3>4
  <2>3. load'[k] = [d \in Dims |-> load'[k][d]]
    BY <2>1
  <2>4. load'[k] \in [Dims -> Nat]
    BY <2>2, <2>3
  <2> QED BY <2>1, <2>2, <2>4
<1>7. TypeOK'
  <2>1. stocks' \in [Lots -> Rows \cup {NoStock}]
    BY <1>1, <1>4
  <2>2. load' \in [Locations -> [Dims -> Nat]]
    <3>1. load' = [k \in Locations |-> load'[k]]
      BY <1>1
    <3> QED BY <1>6, <3>1
  <2>3. revision' \in [Locations -> Nat]
    <3>1. \A k \in Locations : Cardinality(At(S, k)) \in Nat
      <4>1. \A k \in Locations : IsFiniteSet(At(S, k))
        BY <1>3, FS_Subset, InventoryAssumption DEF At, InventoryAssumption
      <4> QED BY <4>1, FS_CardinalityType
    <3>2. \A k \in Locations : revision[k] \in Nat
      BY DEF TypeOK
    <3>3. \A k \in Locations : revision[k] + Cardinality(At(S, k)) \in Nat
      BY <3>1, <3>2
    <3> HIDE DEF IInv
    <3> QED BY <1>1, <3>3
  <2> QED BY <1>1, <1>5, <2>1, <2>2, <2>3 DEF TypeOK
<1>8. StockBounds'
  <2>1. ASSUME NEW l \in Lots
        PROVE  0 <= stocks'[l].reserved /\ stocks'[l].reserved <= stocks'[l].quantity
    BY <1>2, <1>4, RowFacts DEF StockBounds
  <2> QED BY <2>1 DEF StockBounds
<1>9. ReservedMatchesAllocations'
  <2>1. ASSUME NEW l \in Lots
        PROVE  stocks'[l].reserved = Held(l)'
    <3>1. \A q \in Reservations \ {r} : Share(q, l)' = Share(q, l)
      BY <1>1, <1>5 DEF Share
    <3>2. Share(r, l) = a[l]
      BY <1>1 DEF Share, a
    <3>3. Share(r, l)' = 0
      BY <1>5 DEF Share
    <3>4. Held(l)' = Held(l) + (Share(r, l)' - Share(r, l))
      BY <1>7, <3>1, HeldChange
    <3>5. stocks[l].reserved = Held(l) /\ Held(l) \in Nat
      BY RowFacts DEF ReservedMatchesAllocations
    <3> QED BY <1>2, <1>4, <3>2, <3>3, <3>4, <3>5
  <2> QED BY <2>1 DEF ReservedMatchesAllocations
<1>10. LedgerMatchesStock' /\ LedgerWithinLimits'
  <2>1. ASSUME NEW k \in Locations, NEW d \in Dims
        PROVE  load'[k][d] = Stored(k, d)' /\ load'[k][d] <= Limit[k][d]
    <3> DEFINE f == [m \in Lots |-> Part(m, k, d)]
               g == [m \in Lots |-> Part(m, k, d)']
               t == [l \in Lots |-> IF l \in S /\ stocks[l].location = k
                                      THEN allocations[r][l] * Unit[stocks[l].product][d]
                                      ELSE 0]
    <3>1. ASSUME NEW m \in Lots
          PROVE  g[m] \in Int /\ t[m] \in Int /\ f[m] = g[m] + t[m]
      <4>1. CASE stocks[m].location = k
        <5>1. stocks[m].product \in Products
          BY <4>1, RowFacts, InventoryAssumption DEF InventoryAssumption
        <5> DEFINE u == Unit[stocks[m].product][d]
        <5>2. u \in Int /\ a[m] \in Int /\ stocks[m].quantity \in Int
          BY <1>2, <5>1, RowFacts, InventoryAssumption DEF InventoryAssumption
        <5>3. f[m] = stocks[m].quantity * u
          BY <4>1 DEF Part
        <5>4. g[m] = (stocks[m].quantity - a[m]) * u
          BY <1>4, <4>1 DEF Part
        <5>5. t[m] = a[m] * u
          BY <1>3, <4>1, <5>2, ProductZero DEF a
        <5> HIDE DEF u, f, g, t
        <5>6. \A q, n, v \in Int : /\ n * v \in Int /\ (q - n) * v \in Int
                                   /\ q * v = (q - n) * v + n * v
          OBVIOUS
        <5> QED BY <5>2, <5>3, <5>4, <5>5, <5>6
      <4>2. CASE stocks[m].location # k
        <5>1. f[m] = 0 /\ g[m] = 0 /\ t[m] = 0
          BY <1>4, <4>2 DEF Part
        <5> HIDE DEF f, g, t
        <5> QED BY <5>1
      <4> QED BY <4>1, <4>2
    <3>2. IsFiniteSet(Lots)
      BY InventoryAssumption DEF InventoryAssumption
    <3>3. /\ Stored(k, d) = SumFunctionOnSet(f, Lots)
          /\ Stored(k, d)' = SumFunctionOnSet(g, Lots)
          /\ Taken(r, S, k, d) = SumFunctionOnSet(t, Lots)
      BY DEF Stored, Taken
    <3> HIDE DEF f, g, t
    <3>4. /\ SumFunctionOnSet(f, Lots) = SumFunctionOnSet(g, Lots) + SumFunctionOnSet(t, Lots)
          /\ SumFunctionOnSet(g, Lots) \in Int /\ SumFunctionOnSet(t, Lots) \in Int
      BY <3>1, <3>2, SumAdd, SumType
    <3>5. /\ load'[k][d] = load[k][d] - Taken(r, S, k, d) /\ load'[k][d] <= load[k][d]
          /\ load[k][d] \in Nat /\ load'[k][d] \in Nat
      BY <1>6 DEF TypeOK
    <3>6. load[k][d] = Stored(k, d) /\ load[k][d] <= Limit[k][d] /\ Limit[k][d] \in Nat
      BY InventoryAssumption DEF LedgerMatchesStock, LedgerWithinLimits, InventoryAssumption
    <3> QED BY <3>3, <3>4, <3>5, <3>6
  <2> QED BY <2>1 DEF LedgerMatchesStock, LedgerWithinLimits
<1>11. PlacedWhereAllowed'
  <2>1. ASSUME NEW l \in Lots, stocks'[l].reserved > 0
        PROVE  stocks'[l].location # None
    <3>1. stocks[l].reserved > 0
      BY <1>2, <1>4, <2>1, RowFacts
    <3> QED BY <1>4, <3>1 DEF PlacedWhereAllowed
  <2> QED BY <1>4, <2>1 DEF PlacedWhereAllowed
<1> QED BY <1>7, <1>8, <1>9, <1>10, <1>11

\* Recording a rejection keeps the invariant: nothing is held by it.
LEMMA RejectReservationStep ==
  ASSUME IInv, NEW r \in Reservations, NEW w \in Warehouses, NEW items \in Orders,
         NEW deadline \in Days, RejectReservation(r, w, items, deadline)
  PROVE  IInv'
<1> USE DEF IInv
<1> DEFINE row == [status |-> "REJECTED", warehouse |-> w, expires |-> now, shipment |-> None]
<1>1. /\ reservations[r].status = "NONE"
      /\ reservations' = [reservations EXCEPT ![r] = row]
      /\ UNCHANGED <<stocks, allocations, load, revision, now>>
  BY DEF RejectReservation, EmitOnly
<1>2. row \in ReservationRows
  BY DEF ReservationRows, Statuses, TypeOK
<1>3. TypeOK'
  BY <1>1, <1>2 DEF TypeOK
<1>4. StockBounds' /\ PlacedWhereAllowed'
  BY <1>1 DEF StockBounds, PlacedWhereAllowed
<1>5. ReservedMatchesAllocations'
  <2>1. ASSUME NEW l \in Lots
        PROVE  stocks'[l].reserved = Held(l)'
    <3>1. \A q \in Reservations : Share(q, l)' = Share(q, l)
      BY <1>1 DEF Share, TypeOK
    <3>2. Held(l)' = Held(l)
      BY <3>1, HeldSame
    <3> QED BY <1>1, <3>2 DEF ReservedMatchesAllocations
  <2> QED BY <2>1 DEF ReservedMatchesAllocations
<1>6. LedgerMatchesStock' /\ LedgerWithinLimits'
  <2>1. \A m \in Lots, k \in Locations, e \in Dims : Part(m, k, e)' = Part(m, k, e)
    BY <1>1, PartFrame
  <2> QED BY <1>1, <2>1, LoadFrame
<1> QED BY <1>3, <1>4, <1>5, <1>6

\* Steps that change at most the clock and the outbox.
LEMMA IdleStep ==
  ASSUME IInv, UNCHANGED <<stocks, reservations, allocations, load, revision>>, now' \in Days
  PROVE  IInv'
<1> USE DEF IInv
<1>1. TypeOK' /\ StockBounds' /\ PlacedWhereAllowed'
  BY DEF TypeOK, StockBounds, PlacedWhereAllowed
<1>2. ReservedMatchesAllocations'
  BY HeldFrame
<1>3. LedgerMatchesStock' /\ LedgerWithinLimits'
  <2>1. \A m \in Lots, k \in Locations, e \in Dims : Part(m, k, e)' = Part(m, k, e)
    BY PartFrame
  <2> QED BY <2>1, LoadFrame
<1> QED BY <1>1, <1>2, <1>3

\* The empty tables satisfy the invariant.
LEMMA InitIInv == Init => IInv
<1> SUFFICES ASSUME Init PROVE IInv
  OBVIOUS
<1> USE DEF Init
<1>1. TypeOK
  BY InventoryAssumption
     DEF TypeOK, InventoryAssumption, NoReservation, ReservationRows, Statuses, Days
<1>2. StockBounds /\ PlacedWhereAllowed
  BY DEF StockBounds, PlacedWhereAllowed, NoStock
<1>3. ReservedMatchesAllocations
  <2>1. ASSUME NEW l \in Lots
        PROVE  stocks[l].reserved = Held(l)
    <3> DEFINE f == [r \in Reservations |-> Share(r, l)]
    <3>1. \A r \in Reservations : f[r] = 0
      BY DEF Share, NoReservation
    <3>2. IsFiniteSet(Reservations)
      BY InventoryAssumption DEF InventoryAssumption
    <3> HIDE DEF f
    <3>3. SumFunctionOnSet(f, Reservations) = 0
      BY <3>1, <3>2, SumZero
    <3> QED BY <3>3 DEF Held, NoStock, f
  <2> QED BY <2>1 DEF ReservedMatchesAllocations
<1>4. LedgerMatchesStock /\ LedgerWithinLimits
  <2>1. ASSUME NEW loc \in Locations, NEW d \in Dims
        PROVE  load[loc][d] = Stored(loc, d) /\ load[loc][d] <= Limit[loc][d]
    <3> DEFINE f == [l \in Lots |-> Part(l, loc, d)]
    <3>1. \A l \in Lots : f[l] = 0
      BY InventoryAssumption DEF InventoryAssumption, Part, NoStock
    <3>2. IsFiniteSet(Lots)
      BY InventoryAssumption DEF InventoryAssumption
    <3>3. Stored(loc, d) = SumFunctionOnSet(f, Lots)
      BY DEF Stored
    <3> HIDE DEF f
    <3>4. Stored(loc, d) = 0
      BY <3>1, <3>2, <3>3, SumZero
    <3>5. load[loc][d] = 0
      OBVIOUS
    <3>6. Limit[loc][d] \in Nat
      BY InventoryAssumption DEF InventoryAssumption
    <3> QED BY <3>4, <3>5, <3>6
  <2> QED BY <2>1 DEF LedgerMatchesStock, LedgerWithinLimits
<1> QED BY <1>1, <1>2, <1>3, <1>4 DEF IInv

\* Every transaction, and every stuttering step, keeps the invariant.
LEMMA NextIInv == IInv /\ [Next]_vars => IInv'
<1> SUFFICES ASSUME IInv, [Next]_vars PROVE IInv'
  OBVIOUS
<1>1. now \in Days
  BY DEF IInv, TypeOK
<1>2. CASE Command
  <2>1. PICK l \in Lots :
          \/ \E p \in Products, w \in Warehouses, n \in 1..MaxQuantity, e \in Days \cup {Never} :
               Receive(l, p, w, n, e)
          \/ \E n \in 0..MaxQuantity : Adjust(l, n)
          \/ \E n \in 1..Available(stocks[l]) : WriteOff(l, n)
          \/ \E new \in Lots, to \in Locations, n \in 1..Available(stocks[l]) :
               Move(l, new, to, n)
    BY <1>2 DEF Command
  <2>2. CASE \E p \in Products, w \in Warehouses, n \in 1..MaxQuantity, e \in Days \cup {Never} :
               Receive(l, p, w, n, e)
    BY <2>2, ReceiveStep
  <2>3. CASE \E n \in 0..MaxQuantity : Adjust(l, n)
    BY <2>3, AdjustStep
  <2>4. CASE \E n \in 1..Available(stocks[l]) : WriteOff(l, n)
    BY <2>4, WriteOffStep
  <2>5. CASE \E new \in Lots, to \in Locations, n \in 1..Available(stocks[l]) :
               Move(l, new, to, n)
    BY <2>5, MoveStep
  <2> QED BY <2>1, <2>2, <2>3, <2>4, <2>5
<1>3. CASE Handle
  <2>1. CASE \E r \in Reservations, w \in Warehouses, items \in Orders, deadline \in Days :
               \/ ConfirmReservation(r, w, items, deadline)
               \/ RejectReservation(r, w, items, deadline)
    BY <2>1, ConfirmStep, RejectReservationStep
  <2>2. CASE \E r \in Reservations :
               ReserveAgain(r) \/ Release(r) \/ RejectRelease(r) \/ ReleaseAgain(r)
    <3>1. PICK r \in Reservations :
            ReserveAgain(r) \/ Release(r) \/ RejectRelease(r) \/ ReleaseAgain(r)
      BY <2>2
    <3>2. CASE Release(r)
      BY <3>2, ReleaseStep DEF Release
    <3>3. CASE ReserveAgain(r) \/ RejectRelease(r) \/ ReleaseAgain(r)
      BY <1>1, <3>3, IdleStep DEF ReserveAgain, RejectRelease, ReleaseAgain, Nothing, EmitOnly
    <3> QED BY <3>1, <3>2, <3>3
  <2>3. CASE \E r \in Reservations, s \in Shipments :
               \/ ShipAgain(r, s)
               \/ \E w \in Warehouses : Ship(r, s, w) \/ RejectShip(r, s, w)
    <3>1. PICK r \in Reservations, s \in Shipments :
               \/ ShipAgain(r, s)
               \/ \E w \in Warehouses : Ship(r, s, w) \/ RejectShip(r, s, w)
      BY <2>3
    <3>2. CASE \E w \in Warehouses : Ship(r, s, w)
      BY <3>2, ShipStep
    <3>3. CASE ShipAgain(r, s) \/ \E w \in Warehouses : RejectShip(r, s, w)
      BY <1>1, <3>3, IdleStep DEF ShipAgain, RejectShip, Nothing, EmitOnly
    <3> QED BY <3>1, <3>2, <3>3
  <2>4. CASE \E l \in Lots, w \in Warehouses :
               \/ PlaceAgain(l, w)
               \/ \E loc \in Locations, open \in BOOLEAN :
                    Place(l, w, loc, open) \/ RejectPlace(l, w, loc, open)
    <3>1. PICK l \in Lots, w \in Warehouses :
               \/ PlaceAgain(l, w)
               \/ \E loc \in Locations, open \in BOOLEAN :
                    Place(l, w, loc, open) \/ RejectPlace(l, w, loc, open)
      BY <2>4
    <3>2. CASE \E loc \in Locations, open \in BOOLEAN : Place(l, w, loc, open)
      BY <3>2, PlaceStep
    <3>3. CASE PlaceAgain(l, w) \/ \E loc \in Locations, open \in BOOLEAN :
                                     RejectPlace(l, w, loc, open)
      BY <1>1, <3>3, IdleStep DEF PlaceAgain, RejectPlace, Nothing, EmitOnly
    <3> QED BY <3>1, <3>2, <3>3
  <2> QED BY <1>3, <2>1, <2>2, <2>3, <2>4 DEF Handle
<1>4. CASE Work
  BY <1>4, ReleaseStep DEF Work, Expire
<1>5. CASE Tick
  <2>1. now' \in Days
    BY <1>1, <1>5, InventoryAssumption DEF Tick, Days, InventoryAssumption
  <2> QED BY <1>5, <2>1, IdleStep DEF Tick
<1>6. CASE UNCHANGED vars
  BY <1>1, <1>6, IdleStep DEF vars
<1> QED BY <1>2, <1>3, <1>4, <1>5, <1>6 DEF Next

-----------------------------------------------------------------------------
(* The theorems. *)

\* The inductive invariant holds in every reachable state.
THEOREM InventoryInvariant == Spec => []IInv
<1>1. Init => IInv
  BY InitIInv
<1>2. IInv /\ [Next]_vars => IInv'
  BY NextIInv
<1> QED BY <1>1, <1>2, PTL DEF Spec

\* The tables keep their types: no quantity, reserved count or load of
\* service.go and reservations.go ever becomes negative.
THEOREM InventoryTypes == Spec => []TypeOK
<1>1. IInv => TypeOK
  BY DEF IInv
<1> QED BY <1>1, InventoryInvariant, PTL

\* The CHECK constraint of table stocks never fires.
THEOREM InventoryStockBounds == Spec => []StockBounds
<1>1. IInv => StockBounds
  BY DEF IInv
<1> QED BY <1>1, InventoryInvariant, PTL

\* reserved_quantity is what the confirmed reservations allocated.
THEOREM InventoryReserved == Spec => []ReservedMatchesAllocations
<1>1. IInv => ReservedMatchesAllocations
  BY DEF IInv
<1> QED BY <1>1, InventoryInvariant, PTL

\* The incremental capacity ledger is the weight and volume of the lots.
THEOREM InventoryLedger == Spec => []LedgerMatchesStock
<1>1. IInv => LedgerMatchesStock
  BY DEF IInv
<1> QED BY <1>1, InventoryInvariant, PTL

\* No location exceeds its limits.
THEOREM InventoryLimits == Spec => []LedgerWithinLimits
<1>1. IInv => LedgerWithinLimits
  BY DEF IInv
<1> QED BY <1>1, InventoryInvariant, PTL

\* Lots are where they may be, and only placed lots are reserved.
THEOREM InventoryPlacement == Spec => []PlacedWhereAllowed
<1>1. IInv => PlacedWhereAllowed
  BY DEF IInv
<1> QED BY <1>1, InventoryInvariant, PTL

\* What a confirmed reservation takes is at most what the location holds.
LEMMA ShipmentFits ==
  ASSUME IInv, NEW r \in Reservations, reservations[r].status = "CONFIRMED",
         NEW loc \in Locations, NEW d \in Dims
  PROVE  LoadWithout(r, Allocated(r), loc)[d] >= 0
<1> USE DEF IInv
<1> DEFINE S == Allocated(r)
           f == [l \in Lots |-> Part(l, loc, d)]
           t == [l \in Lots |-> IF l \in S /\ stocks[l].location = loc
                                  THEN allocations[r][l] * Unit[stocks[l].product][d]
                                  ELSE 0]
<1>1. ASSUME NEW l \in Lots
      PROVE  t[l] \in Nat /\ f[l] \in Nat /\ t[l] <= f[l]
  <2>1. f[l] \in Nat
    BY PartNat
  <2>2. CASE l \in S /\ stocks[l].location = loc
    <3>1. stocks[l].product \in Products
      BY <2>2, RowFacts, InventoryAssumption DEF InventoryAssumption
    <3> DEFINE u == Unit[stocks[l].product][d]
    <3>2. u \in Nat
      BY <3>1, InventoryAssumption DEF InventoryAssumption
    <3>3. /\ allocations[r][l] \in Nat /\ stocks[l].quantity \in Nat
          /\ allocations[r][l] <= stocks[l].quantity
      BY ShareBound, RowFacts DEF Share, StockBounds, TypeOK
    <3>4. \A m, n, v \in Nat : m <= n => m * v \in Nat /\ m * v <= n * v
      OBVIOUS
    <3>5. t[l] = allocations[r][l] * u /\ f[l] = stocks[l].quantity * u
      BY <2>2 DEF Part
    <3> HIDE DEF u, t, f
    <3> QED BY <2>1, <3>2, <3>3, <3>4, <3>5
  <2>3. CASE ~ (l \in S /\ stocks[l].location = loc)
    <3>1. t[l] = 0
      BY <2>3
    <3> HIDE DEF t, f
    <3> QED BY <2>1, <3>1
  <2> QED BY <2>2, <2>3
<1>2. IsFiniteSet(Lots)
  BY InventoryAssumption DEF InventoryAssumption
<1>3. Taken(r, S, loc, d) = SumFunctionOnSet(t, Lots) /\ Stored(loc, d) = SumFunctionOnSet(f, Lots)
  BY DEF Taken, Stored
<1>4. load[loc][d] = Stored(loc, d) /\ load[loc][d] \in Nat
  BY DEF LedgerMatchesStock, TypeOK
<1>5. LoadWithout(r, S, loc)[d] = load[loc][d] - Taken(r, S, loc, d)
  BY DEF LoadWithout
<1> HIDE DEF t, f, S
<1>6. SumFunctionOnSet(t, Lots) <= SumFunctionOnSet(f, Lots) /\ SumFunctionOnSet(t, Lots) \in Nat
  BY <1>1, <1>2, SumMonotone, SumNat
<1>7. LoadWithout(r, S, loc)[d] >= 0
  BY <1>3, <1>4, <1>5, <1>6
<1> QED BY <1>7 DEF S

\* A shipment of a confirmed reservation never meets the errors that would
\* block the partition and end in the dead letter topic.
THEOREM InventoryShipCannotFail == Spec => []ShipCannotFail
<1>1. IInv => ShipCannotFail
  <2> SUFFICES ASSUME IInv, NEW r \in Reservations, reservations[r].status = "CONFIRMED"
               PROVE  /\ \A l \in Allocated(r) : /\ stocks[l].location # None
                                                 /\ allocations[r][l] <= stocks[l].reserved
                      /\ \A loc \in Locations, d \in Dims :
                           LoadWithout(r, Allocated(r), loc)[d] >= 0
    BY DEF ShipCannotFail
  <2>1. ASSUME NEW l \in Allocated(r)
        PROVE  stocks[l].location # None /\ allocations[r][l] <= stocks[l].reserved
    <3>1. l \in Lots /\ allocations[r][l] > 0 /\ allocations[r][l] \in Nat
      BY DEF Allocated, IInv, TypeOK
    <3>2. allocations[r][l] <= stocks[l].reserved
      BY <3>1, ShareBound DEF Share, IInv
    <3>3. stocks[l].reserved > 0
      BY <3>1, <3>2, RowFacts DEF IInv
    <3> QED BY <3>1, <3>2, <3>3 DEF IInv, PlacedWhereAllowed
  <2>2. \A loc \in Locations, d \in Dims : LoadWithout(r, Allocated(r), loc)[d] >= 0
    BY ShipmentFits
  <2> QED BY <2>1, <2>2
<1> QED BY <1>1, InventoryInvariant, PTL

-----------------------------------------------------------------------------
(* Which units a reservation takes: reserve() empties the candidates of a  *)
(* line one after the other, so it takes the first units of the order.     *)

\* Units of each lot that nobody reserved.
Free == [l \in Lots |-> Available(stocks[l])]

\* UnitsIn is the sum of one function over any set of lots.
LEMMA UnitsFree ==
  ASSUME TypeOK, StockBounds, NEW S, S \subseteq Lots
  PROVE  /\ IsFiniteSet(S) /\ \A l \in S : Free[l] \in Nat
         /\ UnitsIn(S) = SumFunctionOnSet(Free, S)
<1> DEFINE f == [l \in S |-> Available(stocks[l])]
<1>1. IsFiniteSet(S)
  BY FS_Subset, InventoryAssumption DEF InventoryAssumption
<1>2. \A l \in S : Free[l] \in Nat /\ f[l] = Free[l]
  BY RowFacts DEF Available, StockBounds, Free
<1>3. UnitsIn(S) = SumFunctionOnSet(f, S)
  BY DEF UnitsIn
<1> HIDE DEF f
<1>4. SumFunctionOnSet(f, S) = SumFunctionOnSet(Free, S)
  BY <1>1, <1>2, SumCongruence
<1> QED BY <1>1, <1>2, <1>3, <1>4

\* One lot more holds its units more.
LEMMA UnitsMore ==
  ASSUME TypeOK, StockBounds, NEW S, S \subseteq Lots, NEW l \in S
  PROVE  UnitsIn(S) = UnitsIn(S \ {l}) + Available(stocks[l])
<1>1. SumFunctionOnSet(Free, S) = Free[l] + SumFunctionOnSet(Free, S \ {l})
  BY UnitsFree, SumAt
<1>2. S \ {l} \subseteq Lots
  OBVIOUS
<1>3. UnitsIn(S \ {l}) = SumFunctionOnSet(Free, S \ {l}) /\ UnitsIn(S \ {l}) \in Nat
  BY <1>2, UnitsFree, UnitsNat
<1>4. UnitsIn(S) = SumFunctionOnSet(Free, S) /\ Free[l] \in Nat
  BY UnitsFree
<1>5. Free[l] = Available(stocks[l])
  BY DEF Free
<1> QED BY <1>1, <1>3, <1>4, <1>5

\* More lots hold no fewer units.
LEMMA UnitsGrow ==
  ASSUME TypeOK, StockBounds, NEW T, T \subseteq Lots, NEW S, S \subseteq T
  PROVE  UnitsIn(S) <= UnitsIn(T)
<1> DEFINE g == [l \in T |-> IF l \in S THEN Free[l] ELSE 0]
<1>1. S \subseteq Lots
  OBVIOUS
<1>2. IsFiniteSet(T) /\ \A l \in T : Free[l] \in Nat
  BY UnitsFree
<1>3. UnitsIn(S) = SumFunctionOnSet(Free, S) /\ UnitsIn(T) = SumFunctionOnSet(Free, T)
  BY <1>1, UnitsFree
<1>4. /\ \A l \in T : Free[l] \in Int /\ g[l] = IF l \in S THEN Free[l] ELSE 0
      /\ \A l \in T : g[l] \in Nat /\ Free[l] \in Nat /\ g[l] <= Free[l]
  BY <1>2
<1> HIDE DEF g
<1>5. SumFunctionOnSet(g, T) = SumFunctionOnSet(Free, S)
  BY <1>2, <1>4, SumSubset
<1>6. SumFunctionOnSet(g, T) <= SumFunctionOnSet(Free, T)
  BY <1>2, <1>4, SumMonotone
<1> QED BY <1>3, <1>5, <1>6

\* order by expiration_date nulls last, created_at, id is a total order.
LEMMA BeforeOrders ==
  ASSUME TypeOK, NEW l \in Lots, NEW m \in Lots
  PROVE  /\ ~ Before(l, l)
         /\ l = m \/ Before(l, m) \/ Before(m, l)
         /\ Before(l, m) => ~ Before(m, l)
         /\ \A n \in Lots : Before(l, m) /\ Before(m, n) => Before(l, n)
<1>1. \A n \in Lots : stocks[n].expires \in Int /\ n \in Int
  <2>1. Days \cup {Never} \subseteq Int /\ Lots \subseteq Int
    BY InventoryAssumption DEF InventoryAssumption, Days, Never
  <2>2. \A n \in Lots : stocks[n].expires \in Days \cup {Never}
    BY DEF TypeOK, Rows, NoStock
  <2> QED BY <2>1, <2>2
<1> QED BY <1>1 DEF Before

\* What reserve() takes of the candidates of a line: all of them, or as much
\* as the line orders.
LEMMA TakenInOrder ==
  ASSUME TypeOK, StockBounds, NEW w \in Warehouses, NEW line \in Lines, line.quantity > 0,
         NEW take, take = [l \in Lots |-> Take(w, line, l)],
         NEW C, C = Candidates(w, line.product)
  PROVE  SumFunctionOnSet(take, C) = IF UnitsIn(C) <= line.quantity
                                       THEN UnitsIn(C) ELSE line.quantity
<1> DEFINE q == line.quantity
           Filled(D) == SumFunctionOnSet(take, D) = IF UnitsIn(D) <= q THEN UnitsIn(D) ELSE q
           First(D) == \A l \in D, m \in C : Before(m, l) => m \in D
           Bad == {D \in SUBSET C : First(D) /\ ~ Filled(D)}
<1>1. q \in Nat /\ C \subseteq Lots /\ IsFiniteSet(C)
  <2>1. q \in Nat
    BY DEF Lines
  <2>2. C \subseteq Lots
    BY DEF Candidates
  <2> QED BY <2>1, <2>2, FS_Subset, InventoryAssumption DEF InventoryAssumption
<1>2. Bad = {}
  <2>1. SUFFICES ASSUME Bad # {} PROVE FALSE
    OBVIOUS
  <2>2. PICK D \in Bad : \A U \in Bad : ~ (U \subseteq D /\ U # D)
    <3>1. Bad \subseteq SUBSET C
      OBVIOUS
    <3> HIDE DEF Bad
    <3> QED BY <1>1, <2>1, <3>1, MinimalSubset
  <2>3. D \subseteq C /\ D \subseteq Lots /\ First(D) /\ ~ Filled(D) /\ IsFiniteSet(D)
    BY <1>1, <2>2, FS_Subset
  <2>4. D # {}
    <3>1. SumFunctionOnSet(take, {}) = 0
      BY SumEmpty
    <3>2. UnitsIn({}) = 0
      BY UnitsFree, SumEmpty
    <3>3. Filled({})
      BY <1>1, <3>1, <3>2
    <3> QED BY <2>3, <3>3, Zenon
  <2> DEFINE below == [l \in D |-> {m \in D : Before(m, l)}]
  <2>5. PICK x \in D : below[x] = D \ {x}
    <3>1. \A e \in D : below[e] \in SUBSET (D \ {e})
      BY <2>3, BeforeOrders
    <3>2. \A e, f \in D : e \in below[f] => below[e] \subseteq below[f]
      BY <2>3, BeforeOrders
    <3>3. \A e, f \in D : e = f \/ e \in below[f] \/ f \in below[e]
      BY <2>3, BeforeOrders
    <3> HIDE DEF below
    <3> QED BY <2>3, <2>4, <3>1, <3>2, <3>3, LastElement
  <2> DEFINE U == D \ {x}
  <2>6. \A l \in U : Before(l, x) /\ ~ Before(x, l)
    BY <2>3, <2>5, BeforeOrders
  <2>7. U \subseteq C /\ First(U) /\ U \subseteq D /\ U # D /\ x \in C /\ x \in Lots
    BY <1>1, <2>3, <2>6
  <2>8. Filled(U)
    BY <2>2, <2>7
  <2>9. {m \in C : Before(m, x)} = U
    BY <1>1, <2>3, <2>6, BeforeOrders
  <2>10. UnitsIn({m \in C : Before(m, x)}) = UnitsIn(U)
    BY <2>9, Zenon
  <2>11. take[x] = IF UnitsIn(U) >= q THEN 0
                   ELSE IF Available(stocks[x]) <= q - UnitsIn(U) THEN Available(stocks[x])
                   ELSE q - UnitsIn(U)
    BY <2>7, <2>10 DEF Take
  <2>12. UnitsIn(D) = UnitsIn(U) + Available(stocks[x])
    BY <2>3, UnitsMore
  <2>13. UnitsIn(U) \in Nat /\ Available(stocks[x]) \in Nat
    <3>1. U \subseteq Lots
      BY <2>3
    <3> QED BY <2>7, <3>1, UnitsNat, RowFacts DEF Available, StockBounds
  <2>14. SumFunctionOnSet(take, D) = take[x] + SumFunctionOnSet(take, U)
    <3>1. \A l \in D : take[l] \in Int
      BY <2>3, TakeFacts
    <3> QED BY <2>3, <3>1, SumAt
  <2>15. Filled(D)
    <3> HIDE DEF U, q
    <3> QED BY <1>1, <2>8, <2>11, <2>12, <2>13, <2>14
  <2> QED BY <2>3, <2>15
<1>3. C \in SUBSET C /\ First(C)
  OBVIOUS
<1>4. Filled(C)
  <2> HIDE DEF Filled, First
  <2> QED BY <1>2, <1>3
<1> QED BY <1>4

\* A confirmation is reserve() for that reservation: no other transaction
\* makes a reservation CONFIRMED.
LEMMA ConfirmedBy ==
  ASSUME TypeOK, Next, NEW r \in Reservations, Confirmed(r)
  PROVE  \E w \in Warehouses, items \in Orders, deadline \in Days :
           ConfirmReservation(r, w, items, deadline)
<1>1. reservations' # reservations
  BY DEF Confirmed
<1>2. ~ Command /\ ~ Tick
  <2>1. ~ Tick /\ \A l : \A p, w, n, e : ~ Receive(l, p, w, n, e)
    BY <1>1 DEF Receive, Tick
  <2>2. \A l : \A n : ~ Adjust(l, n) /\ ~ WriteOff(l, n)
    BY <1>1 DEF Adjust, WriteOff
  <2>3. \A l, new, to, n : ~ Move(l, new, to, n)
    BY <1>1 DEF Move
  <2> QED BY <2>1, <2>2, <2>3 DEF Command
<1>3. ASSUME NEW q \in Reservations, NEW outcome \in {"CANCELLED", "EXPIRED", "COMPLETED"},
             \A o \in Reservations \ {q} : reservations'[o] = reservations[o],
             reservations'[q].status = outcome
      PROVE  FALSE
  BY <1>3 DEF Confirmed
<1>4. ASSUME NEW q \in Reservations, NEW outcome \in {"CANCELLED", "EXPIRED"}, NEW event,
             ReleaseConfirmed(q, outcome, event)
      PROVE  FALSE
  <2>1. reservations' = [reservations EXCEPT ![q].status = outcome]
    BY <1>4 DEF ReleaseConfirmed
  <2>2. reservations'[q].status = outcome
    BY <2>1 DEF TypeOK, ReservationRows
  <2>3. \A o \in Reservations \ {q} : reservations'[o] = reservations[o]
    BY <2>1 DEF TypeOK
  <2> QED BY <1>3, <2>2, <2>3
<1>5. ~ Work
  BY <1>4 DEF Work, Expire
<1>6. CASE Handle
  <2>1. CASE \E q \in Reservations, w \in Warehouses, items \in Orders, deadline \in Days :
               \/ ConfirmReservation(q, w, items, deadline)
               \/ RejectReservation(q, w, items, deadline)
    <3>1. PICK q \in Reservations, w \in Warehouses, items \in Orders, deadline \in Days :
               \/ ConfirmReservation(q, w, items, deadline)
               \/ RejectReservation(q, w, items, deadline)
      BY <2>1
    <3>2. \A o \in Reservations \ {q} : reservations'[o] = reservations[o]
      BY <3>1 DEF ConfirmReservation, RejectReservation, TypeOK
    <3>3. q = r
      BY <3>2 DEF Confirmed
    <3>4. ~ RejectReservation(q, w, items, deadline)
      BY <3>3 DEF RejectReservation, TypeOK, Confirmed
    <3> QED BY <3>1, <3>3, <3>4
  <2>2. CASE \E q \in Reservations :
               ReserveAgain(q) \/ Release(q) \/ RejectRelease(q) \/ ReleaseAgain(q)
    BY <1>1, <1>4, <2>2 DEF ReserveAgain, Release, RejectRelease, ReleaseAgain, Nothing
  <2>3. CASE \E q \in Reservations, s \in Shipments :
               \/ ShipAgain(q, s)
               \/ \E w \in Warehouses : Ship(q, s, w) \/ RejectShip(q, s, w)
    <3>1. PICK q \in Reservations, s \in Shipments, w \in Warehouses : Ship(q, s, w)
      BY <1>1, <2>3 DEF ShipAgain, Nothing, RejectShip
    <3>2. reservations' = [reservations EXCEPT ![q].status = "COMPLETED", ![q].shipment = s]
      BY <3>1 DEF Ship
    <3>3. reservations'[q].status = "COMPLETED"
      BY <3>2 DEF TypeOK, ReservationRows
    <3>4. \A o \in Reservations \ {q} : reservations'[o] = reservations[o]
      BY <3>2 DEF TypeOK
    <3> QED BY <1>3, <3>3, <3>4
  <2>4. CASE \E l \in Lots, w \in Warehouses :
               \/ PlaceAgain(l, w)
               \/ \E loc \in Locations, open \in BOOLEAN :
                    Place(l, w, loc, open) \/ RejectPlace(l, w, loc, open)
    BY <1>1, <2>4 DEF PlaceAgain, Nothing, Place, RejectPlace
  <2> QED BY <1>6, <2>1, <2>2, <2>3, <2>4 DEF Handle
<1> QED BY <1>2, <1>5, <1>6 DEF Next

\* What a claim takes of a lot: its part of the one line that orders the product.
LEMMA ClaimOfLine ==
  ASSUME TypeOK, StockBounds, NEW w \in Warehouses, NEW items \in Orders, ValidItems(items),
         NEW l \in Lots
  PROVE  /\ \A line \in items :
              line.product = stocks[l].product => Claim(w, items)[l] = Take(w, line, l)
         /\ (\A line \in items : line.product # stocks[l].product) => Claim(w, items)[l] = 0
<1>1. \A line \in items : line.product = stocks[l].product =>
        line = CHOOSE i \in items : i.product = stocks[l].product
  BY DEF ValidItems
<1> QED BY <1>1 DEF Claim

\* Lots are taken in the order of their expiration dates.
LEMMA FirstExpired ==
  ASSUME TypeOK, StockBounds, NEW w \in Warehouses, NEW line \in Lines, line.quantity > 0,
         NEW l \in Lots, NEW m \in Lots,
         stocks[l].product = stocks[m].product, stocks[l].warehouse = stocks[m].warehouse,
         stocks[l].location # None, stocks[l].expires > now,
         stocks[l].expires < stocks[m].expires,
         Take(w, line, m) > 0
  PROVE  Take(w, line, l) = Available(stocks[l])
<1> DEFINE C == Candidates(w, line.product)
           ahead(k) == {n \in C : Before(n, k)}
<1>1. C \subseteq Lots /\ \A k : ahead(k) \subseteq Lots
  BY DEF Candidates
<1>2. m \in C /\ UnitsIn(ahead(m)) < line.quantity
  BY <1>1, UnitsNat DEF Take, Lines
<1>3. /\ Available(stocks[l]) \in Nat
      /\ l \in C <=> stocks[l].quantity > stocks[l].reserved
      /\ l \notin C => Available(stocks[l]) = 0
  BY <1>2, RowFacts DEF Candidates, Available, StockBounds
<1>4. CASE l \in C
  <2>1. l \in ahead(m) /\ ahead(l) \subseteq ahead(m) \ {l}
    BY <1>1, <1>4, BeforeOrders DEF Before
  <2>2. UnitsIn(ahead(m)) = UnitsIn(ahead(m) \ {l}) + Available(stocks[l])
    BY <1>1, <2>1, UnitsMore
  <2>3. UnitsIn(ahead(l)) <= UnitsIn(ahead(m) \ {l})
    <3>1. ahead(m) \ {l} \subseteq Lots
      BY <1>1
    <3> HIDE DEF ahead
    <3> QED BY <2>1, <3>1, UnitsGrow
  <2>4. UnitsIn(ahead(l)) \in Nat /\ UnitsIn(ahead(m) \ {l}) \in Nat
    <3>1. ahead(m) \ {l} \subseteq Lots /\ ahead(l) \subseteq Lots
      BY <1>1
    <3> HIDE DEF ahead
    <3> QED BY <3>1, UnitsNat
  <2>5. Take(w, line, l) =
          IF UnitsIn(ahead(l)) >= line.quantity THEN 0
          ELSE IF Available(stocks[l]) <= line.quantity - UnitsIn(ahead(l))
                 THEN Available(stocks[l])
          ELSE line.quantity - UnitsIn(ahead(l))
    BY <1>4 DEF Take
  <2> HIDE DEF ahead
  <2> QED BY <1>2, <1>3, <2>2, <2>3, <2>4, <2>5 DEF Lines
<1>5. CASE l \notin C
  BY <1>3, <1>5 DEF Take
<1> QED BY <1>4, <1>5

\* reserve() is first expired, first out: FirstExpiredFirst holds of every behaviour.
THEOREM InventoryFirstExpiredFirst == Spec => FirstExpiredFirst
<1>1. ASSUME IInv, Next, NEW r \in Reservations, NEW l \in Lots, NEW m \in Lots,
             Confirmed(r),
             stocks[l].product = stocks[m].product, stocks[l].warehouse = stocks[m].warehouse,
             stocks[l].location # None, stocks[l].expires > now,
             stocks[l].expires < stocks[m].expires,
             allocations'[r][m] > 0
      PROVE  allocations'[r][l] = Available(stocks[l])
  <2> USE DEF IInv
  <2>1. PICK w \in Warehouses, items \in Orders, deadline \in Days :
          ConfirmReservation(r, w, items, deadline)
    BY <1>1, ConfirmedBy
  <2>2. allocations'[r] = Claim(w, items) /\ ValidItems(items)
    BY <1>1, <2>1 DEF ConfirmReservation, TypeOK, CanReserve
  <2>3. PICK line \in items : line.product = stocks[m].product
    BY <1>1, <2>2, ClaimOfLine
  <2>4. /\ Claim(w, items)[m] = Take(w, line, m)
        /\ Claim(w, items)[l] = Take(w, line, l)
    BY <1>1, <2>2, <2>3, ClaimOfLine
  <2>5. line \in Lines /\ line.quantity > 0
    BY <2>2, <2>3, InventoryAssumption DEF InventoryAssumption, ValidItems
  <2> QED BY <1>1, <2>2, <2>4, <2>5, FirstExpired
<1>2. IInv /\ [Next]_vars =>
        [\A r \in Reservations, l, m \in Lots :
           /\ Confirmed(r)
           /\ stocks[l].product = stocks[m].product
           /\ stocks[l].warehouse = stocks[m].warehouse
           /\ stocks[l].location # None /\ stocks[l].expires > now
           /\ stocks[l].expires < stocks[m].expires
           /\ allocations'[r][m] > 0
           => allocations'[r][l] = Available(stocks[l])]_vars
  BY <1>1
<1> QED BY <1>2, InventoryInvariant, PTL DEF Spec, FirstExpiredFirst

\* A confirmation holds the ordered quantity of a product.
LEMMA OrderedQuantity ==
  ASSUME TypeOK, StockBounds, NEW w \in Warehouses, NEW items \in Orders, NEW deadline,
         CanReserve(w, items, deadline), NEW claim, claim = Claim(w, items),
         NEW p \in Products
  PROVE  SumFunctionOnSet([l \in Lots |-> IF stocks[l].product = p THEN claim[l] ELSE 0], Lots)
           = IF \E line \in items : line.product = p
               THEN (CHOOSE line \in items : line.product = p).quantity ELSE 0
<1> DEFINE g == [l \in Lots |-> IF stocks[l].product = p THEN claim[l] ELSE 0]
<1>1. IsFiniteSet(Lots) /\ ValidItems(items) /\ items \subseteq Lines
  BY InventoryAssumption DEF InventoryAssumption, CanReserve
<1>2. CASE \E line \in items : line.product = p
  <2> DEFINE line == CHOOSE line \in items : line.product = p
             C == Candidates(w, p)
             take == [l \in Lots |-> Take(w, line, l)]
  <2>1. line \in items /\ line.product = p
    BY <1>2
  <2> HIDE DEF line
  <2>2. line \in Lines /\ line.quantity > 0 /\ line.quantity \in Nat
    BY <1>1, <2>1 DEF ValidItems, Lines
  <2>3. C \subseteq Lots /\ \A l \in C : stocks[l].product = p
    BY DEF Candidates
  <2>4. \A l \in Lots : take[l] \in Int /\ (l \notin C => take[l] = 0)
    BY <2>1, <2>2, TakeFacts DEF Take
  <2>5. \A l \in Lots : stocks[l].product = p => claim[l] = take[l]
    BY <1>1, <2>1, ClaimOfLine
  <2>6. \A l \in Lots : take[l] \in Int /\ g[l] = IF l \in C THEN take[l] ELSE 0
    BY <2>3, <2>4, <2>5
  <2>7. SumFunctionOnSet(take, C)
          = IF UnitsIn(C) <= line.quantity THEN UnitsIn(C) ELSE line.quantity
    BY <2>1, <2>2, TakenInOrder
  <2>8. UnitsIn(C) >= line.quantity /\ UnitsIn(C) \in Nat
    BY <2>1, <2>3, UnitsNat DEF CanReserve
  <2> HIDE DEF g, take, C
  <2>9. SumFunctionOnSet(g, Lots) = SumFunctionOnSet(take, C)
    BY <1>1, <2>3, <2>6, SumSubset
  <2>10. SumFunctionOnSet(g, Lots) = line.quantity
    BY <2>2, <2>7, <2>8, <2>9
  <2> QED BY <1>2, <2>10 DEF g, line
<1>3. CASE ~ \E line \in items : line.product = p
  <2>1. \A l \in Lots : g[l] = 0
    BY <1>1, <1>3, ClaimOfLine
  <2> HIDE DEF g
  <2>2. SumFunctionOnSet(g, Lots) = 0
    BY <1>1, <2>1, SumZero
  <2> QED BY <1>3, <2>2 DEF g
<1> QED BY <1>2, <1>3

\* A confirmed reservation holds what was ordered: ReservedAsOrdered holds of
\* every behaviour.
THEOREM InventoryReservedAsOrdered == Spec => ReservedAsOrdered
<1>1. ASSUME IInv, Next, NEW r \in Reservations, Confirmed(r)
      PROVE  /\ \A e \in {f \in emitted' : f.type = "StockReserved"}, p \in Products :
                  SumFunctionOnSet([l \in Lots |-> IF stocks[l].product = p
                                                     THEN allocations'[r][l] ELSE 0], Lots)
                    = IF \E line \in e.items : line.product = p
                        THEN (CHOOSE line \in e.items : line.product = p).quantity ELSE 0
             /\ \A l \in Lots : allocations'[r][l] > 0 =>
                  stocks[l].warehouse = reservations'[r].warehouse /\ stocks[l].expires > now
  <2> USE DEF IInv
  <2>1. PICK w \in Warehouses, items \in Orders, deadline \in Days :
          ConfirmReservation(r, w, items, deadline)
    BY <1>1, ConfirmedBy
  <2>2. /\ allocations'[r] = Claim(w, items) /\ CanReserve(w, items, deadline)
        /\ ValidItems(items)
        /\ reservations'[r].warehouse = w
        /\ \A e \in emitted' : e.items = items
    BY <1>1, <2>1 DEF ConfirmReservation, TypeOK, CanReserve, EmitOnly
  <2>3. ASSUME NEW e \in emitted', NEW p \in Products
        PROVE  SumFunctionOnSet([l \in Lots |-> IF stocks[l].product = p
                                                  THEN allocations'[r][l] ELSE 0], Lots)
                 = IF \E line \in e.items : line.product = p
                     THEN (CHOOSE line \in e.items : line.product = p).quantity ELSE 0
    <3>1. e.items = items
      BY <2>2
    <3>2. SumFunctionOnSet([l \in Lots |-> IF stocks[l].product = p
                                             THEN allocations'[r][l] ELSE 0], Lots)
            = IF \E line \in items : line.product = p
                THEN (CHOOSE line \in items : line.product = p).quantity ELSE 0
      BY <1>1, <2>2, OrderedQuantity
    <3> QED BY <3>1, <3>2, Zenon
  <2>4. ASSUME NEW l \in Lots, allocations'[r][l] > 0
        PROVE  stocks[l].warehouse = w /\ stocks[l].expires > now
    <3>1. PICK line \in items : Claim(w, items)[l] = Take(w, line, l)
      BY <1>1, <2>2, <2>4, ClaimOfLine
    <3>2. l \in Candidates(w, line.product)
      BY <2>2, <2>4, <3>1 DEF Take
    <3> QED BY <3>2 DEF Candidates
  <2> QED BY <2>2, <2>3, <2>4
<1>2. IInv /\ [Next]_vars =>
        [\A r \in Reservations : Confirmed(r) =>
           /\ \A e \in {f \in emitted' : f.type = "StockReserved"}, p \in Products :
                SumFunctionOnSet([l \in Lots |-> IF stocks[l].product = p
                                                   THEN allocations'[r][l] ELSE 0], Lots)
                  = IF \E line \in e.items : line.product = p
                      THEN (CHOOSE line \in e.items : line.product = p).quantity ELSE 0
           /\ \A l \in Lots : allocations'[r][l] > 0 =>
                stocks[l].warehouse = reservations'[r].warehouse /\ stocks[l].expires > now]_vars
  BY <1>1, Zenon
<1> QED BY <1>2, InventoryInvariant, PTL DEF Spec, ReservedAsOrdered

-----------------------------------------------------------------------------
(* The events of the capacity ledger.                                      *)

\* The changes of location loc that the transaction records.
Published(loc) == {e \in emitted' : /\ e.type = "LocationCapacityChanged"
                                    /\ e.location = loc}

\* They carry the revisions after the old one, up to the new load and revision.
Publishes(loc) ==
  /\ {e.revision : e \in Published(loc)} = (revision[loc] + 1)..revision'[loc]
  /\ Cardinality(Published(loc)) = revision'[loc] - revision[loc]
  /\ load'[loc] # load[loc] => Published(loc) # {}
  /\ \A e \in Published(loc) : e.revision = revision'[loc] => e.load = load'[loc]

\* A location that a transaction leaves alone.
LEMMA PublishesNone ==
  ASSUME TypeOK, NEW loc \in Locations, Published(loc) = {},
         load'[loc] = load[loc], revision'[loc] = revision[loc]
  PROVE  Publishes(loc)
<1>1. revision[loc] \in Nat /\ Cardinality({}) = 0
  BY FS_EmptySet DEF TypeOK
<1>2. (revision[loc] + 1)..revision'[loc] = {}
  BY <1>1
<1>3. {e.revision : e \in Published(loc)} = {}
  OBVIOUS
<1>4. Cardinality(Published(loc)) = 0
  BY <1>1, Zenon
<1>5. revision'[loc] - revision[loc] = 0
  BY <1>1
<1> QED BY <1>2, <1>3, <1>4, <1>5, Zenon DEF Publishes

\* A location whose load one capacity() call changes.
LEMMA PublishesOne ==
  ASSUME TypeOK, NEW loc \in Locations, revision'[loc] = revision[loc] + 1,
         Published(loc) = {CapacityChanged(loc, load'[loc], revision'[loc])}
  PROVE  Publishes(loc)
<1> DEFINE e == CapacityChanged(loc, load'[loc], revision'[loc])
<1>1. e.revision = revision'[loc] /\ e.load = load'[loc]
  BY DEF CapacityChanged
<1>2. Published(loc) = {e}
  OBVIOUS
<1> HIDE DEF e
<1>3. revision[loc] \in Nat
  BY DEF TypeOK
<1>4. (revision[loc] + 1)..revision'[loc] = {revision'[loc]}
  BY <1>3
<1>5. {f.revision : f \in Published(loc)} = {revision'[loc]}
  BY <1>1, <1>2
<1>6. Cardinality(Published(loc)) = 1
  BY <1>2, FS_Singleton, Zenon
<1>7. revision'[loc] - revision[loc] = 1
  BY <1>3
<1> QED BY <1>1, <1>2, <1>4, <1>5, <1>6, <1>7, Zenon DEF Publishes

\* Transactions that record no change of a location and change none.
LEMMA PublishesNothing ==
  ASSUME TypeOK, UNCHANGED <<load, revision>>,
         \A e \in emitted' : e.type # "LocationCapacityChanged"
  PROVE  \A loc \in Locations : Publishes(loc)
BY PublishesNone DEF Published

\* Transactions with one successful capacity() call.
LEMMA RechargePublishes ==
  ASSUME TypeOK, NEW at \in Locations, NEW x, NEW n, NEW event,
         event.type # "LocationCapacityChanged", Recharge(at, x, n, event)
  PROVE  \A loc \in Locations : Publishes(loc)
<1> DEFINE e == CapacityChanged(at, load'[at], revision'[at])
<1>1. /\ emitted' = {e, event} /\ e.type = "LocationCapacityChanged" /\ e.location = at
      /\ revision' = [revision EXCEPT ![at] = revision[at] + 1]
      /\ load' = [load EXCEPT ![at] = Charged(at, x, n)]
  BY DEF Recharge, CapacityChanged
<1>2. \A loc \in Locations : Published(loc) = IF loc = at THEN {e} ELSE {}
  <2> HIDE DEF e
  <2> QED BY <1>1 DEF Published
<1>3. revision'[at] = revision[at] + 1
  BY <1>1 DEF TypeOK
<1>4. \A loc \in Locations : loc # at => load'[loc] = load[loc] /\ revision'[loc] = revision[loc]
  BY <1>1 DEF TypeOK
<1>5. Publishes(at)
  BY <1>2, <1>3, PublishesOne
<1>6. \A loc \in Locations : loc # at => Publishes(loc)
  BY <1>2, <1>4, PublishesNone
<1> QED BY <1>5, <1>6

\* A transfer changes the location it leaves and the one it enters.
LEMMA MovePublishes ==
  ASSUME TypeOK, NEW l \in Lots, NEW new \in Lots, NEW to \in Locations, NEW n,
         Move(l, new, to, n)
  PROVE  \A loc \in Locations : Publishes(loc)
<1> DEFINE x == stocks[l]
           touched == {to, x.location} \ {None}
           event == [type |-> "StockMoved", lot |-> l, product |-> x.product,
                     destination |-> new, quantity |-> n]
           h(loc) == CapacityChanged(loc, load'[loc], revision'[loc])
<1>1. /\ emitted' = {h(loc) : loc \in touched} \cup {event}
      /\ load' = [loc \in Locations |->
           IF loc = to THEN Charged(loc, x, n)
           ELSE IF loc = x.location THEN Charged(loc, x, -n)
           ELSE load[loc]]
      /\ revision' = [loc \in Locations |->
           IF loc \in touched THEN revision[loc] + 1 ELSE revision[loc]]
  BY DEF Move
<1>2. /\ event.type = "StockMoved"
      /\ \A loc : h(loc).type = "LocationCapacityChanged" /\ h(loc).location = loc
  BY DEF CapacityChanged
<1> HIDE DEF h, event
<1>3. \A loc \in Locations : Published(loc) = IF loc \in touched THEN {h(loc)} ELSE {}
  <2> HIDE DEF touched
  <2> QED BY <1>1, <1>2 DEF Published
<1>4. ASSUME NEW loc \in Locations, loc \in touched
      PROVE  Publishes(loc)
  <2>1. revision'[loc] = revision[loc] + 1
    BY <1>1, <1>4
  <2> QED BY <1>3, <1>4, <2>1, PublishesOne DEF h
<1>5. ASSUME NEW loc \in Locations, loc \notin touched
      PROVE  Publishes(loc)
  <2>1. loc # None
    BY InventoryAssumption DEF InventoryAssumption
  <2>2. revision'[loc] = revision[loc] /\ load'[loc] = load[loc]
    BY <1>1, <1>5, <2>1
  <2> QED BY <1>3, <1>5, <2>2, PublishesNone
<1> QED BY <1>4, <1>5

\* A shipment changes a location once for each lot it takes there, in the
\* order of the lots' ids.
LEMMA ShipPublishes ==
  ASSUME IInv, NEW r \in Reservations, NEW s \in Shipments, NEW w \in Warehouses,
         Ship(r, s, w), NEW loc \in Locations
  PROVE  Publishes(loc)
<1> USE DEF IInv
<1> DEFINE S == Allocated(r)
           T == At(S, loc)
           below == [l \in T |-> {m \in T : Rank[m] < Rank[l]}]
           h == [l \in T |-> CapacityChanged(loc, LoadWithout(r, UpTo(r, l), loc),
                                             revision[loc] + Cardinality(UpTo(r, l)))]
           all(l) == LET at == stocks[l].location
                     IN  CapacityChanged(at, LoadWithout(r, UpTo(r, l), at),
                                         revision[at] + Cardinality(UpTo(r, l)))
           event == [type |-> "StockShipped", reservation |-> r, shipment |-> s,
                     items |-> Items(r)]
<1>1. /\ load'[loc] = LoadWithout(r, S, loc)
      /\ revision'[loc] = revision[loc] + Cardinality(T)
      /\ emitted' = {event} \cup {all(l) : l \in S}
  BY DEF Ship
<1>2. T \subseteq Lots /\ IsFiniteSet(T) /\ T = {l \in S : stocks[l].location = loc}
  <2>1. T \subseteq Lots /\ T = {l \in S : stocks[l].location = loc}
    BY DEF At, Allocated
  <2> QED BY <2>1, FS_Subset, InventoryAssumption DEF InventoryAssumption
<1>3. revision[loc] \in Nat
  BY DEF TypeOK
<1>4. Published(loc) = {h[l] : l \in T}
  <2>1. event.type = "StockShipped"
    OBVIOUS
  <2>2. \A l : all(l).type = "LocationCapacityChanged" /\ all(l).location = stocks[l].location
    BY DEF CapacityChanged
  <2>3. \A l \in T : h[l] = all(l)
    BY <1>2
  <2> HIDE DEF event, h, all, T, S
  <2> QED BY <1>1, <1>2, <2>1, <2>2, <2>3 DEF Published
<1>5. /\ \A l \in T : below[l] \in SUBSET (T \ {l})
      /\ \A l, m \in T : l \in below[m] => below[l] \subseteq below[m]
      /\ \A l, m \in T : l = m \/ l \in below[m] \/ m \in below[l]
  <2>1. \A l \in T : Rank[l] \in Nat
    BY <1>2, InventoryAssumption DEF InventoryAssumption
  <2>2. \A l, m \in T : Rank[l] = Rank[m] => l = m
    BY <1>2, InventoryAssumption DEF InventoryAssumption
  <2> HIDE DEF T
  <2> QED BY <2>1, <2>2
<1>6. ASSUME NEW l \in T
      PROVE  UpTo(r, l) = below[l] \cup {l}
  <2>1. \A m \in T : Rank[m] \in Nat
    BY <1>2, InventoryAssumption DEF InventoryAssumption
  <2>2. \A m \in T : Rank[l] = Rank[m] => l = m
    BY <1>2, InventoryAssumption DEF InventoryAssumption
  <2>3. UpTo(r, l) = {m \in T : Rank[m] <= Rank[l]}
    BY <1>2 DEF UpTo
  <2> HIDE DEF T
  <2> QED BY <2>1, <2>2, <2>3
<1> DEFINE n == Cardinality(T)
           rank(l) == Cardinality(below[l])
<1>7. /\ n \in Nat
      /\ \A l \in T : rank(l) \in 0 .. n - 1
      /\ \A l, m \in T : rank(l) = rank(m) => l = m
      /\ \A k \in 0 .. n - 1 : \E l \in T : rank(l) = k
  <2> HIDE DEF T, below
  <2>1. IsFiniteSet(T)
    BY <1>2
  <2>2. /\ Cardinality(T) \in Nat
        /\ \A l \in T : Cardinality(below[l]) \in 0 .. Cardinality(T) - 1
        /\ \A l, m \in T : l \in below[m] => Cardinality(below[l]) < Cardinality(below[m])
        /\ \A l, m \in T : Cardinality(below[l]) = Cardinality(below[m]) => l = m
        /\ \A k \in 0 .. Cardinality(T) - 1 : \E l \in T : Cardinality(below[l]) = k
    BY <1>5, <2>1, RankOrder
  <2> QED BY <2>2
<1>8. \A l \in T : /\ UpTo(r, l) \subseteq T /\ Cardinality(UpTo(r, l)) = rank(l) + 1
  <2> SUFFICES ASSUME NEW l \in T
               PROVE  UpTo(r, l) \subseteq T /\ Cardinality(UpTo(r, l)) = rank(l) + 1
    OBVIOUS
  <2>1. below[l] \in SUBSET T /\ l \notin below[l]
    BY <1>5
  <2>2. IsFiniteSet(below[l])
    BY <1>2, <2>1, FS_Subset
  <2>3. Cardinality(below[l] \cup {l}) = Cardinality(below[l]) + 1
    BY <2>1, <2>2, FS_AddElement
  <2> HIDE DEF below, T
  <2> QED BY <1>6, <2>1, <2>3, Zenon
<1>9. \A l \in T : /\ h[l].revision = revision[loc] + (rank(l) + 1)
                   /\ h[l].load = LoadWithout(r, UpTo(r, l), loc)
  BY <1>8 DEF CapacityChanged
<1> HIDE DEF h, below, T, n, rank
<1>10. {e.revision : e \in Published(loc)} = (revision[loc] + 1) .. revision'[loc]
  <2>1. \A l \in T : h[l].revision \in (revision[loc] + 1) .. revision'[loc]
    BY <1>1, <1>3, <1>7, <1>9 DEF n
  <2>2. ASSUME NEW v \in (revision[loc] + 1) .. revision'[loc]
        PROVE  \E l \in T : h[l].revision = v
    <3>1. (v - revision[loc]) - 1 \in 0 .. n - 1
      BY <1>1, <1>3, <1>7 DEF n
    <3>2. PICK l \in T : rank(l) = (v - revision[loc]) - 1
      BY <1>7, <3>1
    <3>3. v = revision[loc] + (rank(l) + 1)
      BY <1>3, <3>1, <3>2
    <3> QED BY <1>9, <3>3
  <2> QED BY <1>4, <2>1, <2>2
<1>11. Cardinality(Published(loc)) = revision'[loc] - revision[loc]
  <2>1. \A l, m \in T : h[l] = h[m] => l = m
    BY <1>3, <1>7, <1>9
  <2>2. Cardinality({h[l] : l \in T}) = n
    <3>1. IsFiniteSet(T)
      BY <1>2
    <3> QED BY <2>1, <3>1, ImageSize, Zenon DEF n
  <2>3. n = revision'[loc] - revision[loc]
    BY <1>1, <1>3, <1>7 DEF n
  <2> QED BY <1>4, <2>2, <2>3, Zenon
<1>12. ASSUME Published(loc) = {}
       PROVE  load'[loc] = load[loc]
  <2>1. T = {}
    BY <1>4, <1>12
  <2>2. ASSUME NEW d \in Dims
        PROVE  Taken(r, S, loc, d) = 0
    <3> DEFINE t == [l \in Lots |-> IF l \in S /\ stocks[l].location = loc
                                      THEN allocations[r][l] * Unit[stocks[l].product][d]
                                      ELSE 0]
    <3>1. \A l \in Lots : t[l] = 0
      BY <1>2, <2>1
    <3>2. IsFiniteSet(Lots)
      BY InventoryAssumption DEF InventoryAssumption
    <3>3. Taken(r, S, loc, d) = SumFunctionOnSet(t, Lots)
      BY DEF Taken
    <3> HIDE DEF t
    <3> QED BY <3>1, <3>2, <3>3, SumZero
  <2>3. load[loc] \in [Dims -> Nat]
    BY DEF TypeOK
  <2>4. LoadWithout(r, S, loc) = [d \in Dims |-> load[loc][d]]
    BY <2>2, <2>3 DEF LoadWithout
  <2> QED BY <1>1, <2>3, <2>4
<1>13. ASSUME NEW e \in Published(loc), e.revision = revision'[loc]
       PROVE  e.load = load'[loc]
  <2>1. PICK l \in T : e = h[l]
    BY <1>4
  <2>2. Cardinality(UpTo(r, l)) = Cardinality(T)
    BY <1>1, <1>3, <1>7, <1>8, <1>9, <1>13, <2>1 DEF n
  <2>3. UpTo(r, l) \in SUBSET T
    BY <1>8
  <2>4. UpTo(r, l) = T
    BY <1>2, <2>2, <2>3, FS_Subset
  <2>5. \A d \in Dims : Taken(r, T, loc, d) = Taken(r, S, loc, d)
    <3> SUFFICES ASSUME NEW d \in Dims PROVE Taken(r, T, loc, d) = Taken(r, S, loc, d)
      OBVIOUS
    <3>1. [l2 \in Lots |-> IF l2 \in T /\ stocks[l2].location = loc
                             THEN allocations[r][l2] * Unit[stocks[l2].product][d] ELSE 0]
          = [l2 \in Lots |-> IF l2 \in S /\ stocks[l2].location = loc
                             THEN allocations[r][l2] * Unit[stocks[l2].product][d] ELSE 0]
      BY <1>2
    <3> QED BY <3>1, Zenon DEF Taken
  <2>6. LoadWithout(r, T, loc) = LoadWithout(r, S, loc)
    BY <2>5 DEF LoadWithout
  <2>7. h[l].load = LoadWithout(r, UpTo(r, l), loc)
    BY <1>9
  <2>8. LoadWithout(r, UpTo(r, l), loc) = LoadWithout(r, T, loc)
    BY <2>4, Zenon
  <2> QED BY <1>1, <2>1, <2>6, <2>7, <2>8
<1> QED BY <1>10, <1>11, <1>12, <1>13 DEF Publishes

\* Every transaction publishes what it does to the capacity ledger.
LEMMA NextPublishes ==
  ASSUME IInv, Next
  PROVE  \A loc \in Locations : Publishes(loc)
<1> USE DEF IInv
<1>1. CASE Command
  <2>1. PICK l \in Lots :
          \/ \E p \in Products, w \in Warehouses, n \in 1..MaxQuantity, e \in Days \cup {Never} :
               Receive(l, p, w, n, e)
          \/ \E n \in 0..MaxQuantity : Adjust(l, n)
          \/ \E n \in 1..Available(stocks[l]) : WriteOff(l, n)
          \/ \E new \in Lots, to \in Locations, n \in 1..Available(stocks[l]) :
               Move(l, new, to, n)
    BY <1>1 DEF Command
  <2>2. stocks[l].location # None => stocks[l].location \in Locations
    BY RowFacts
  <2>3. CASE \E p \in Products, w \in Warehouses, n \in 1..MaxQuantity, e \in Days \cup {Never} :
               Receive(l, p, w, n, e)
    BY <2>3, PublishesNothing DEF Receive, EmitOnly
  <2>4. CASE \E n \in 0..MaxQuantity : Adjust(l, n)
    <3>1. PICK n \in 0..MaxQuantity : Adjust(l, n)
      BY <2>4
    <3> DEFINE event == [type |-> "StockAdjusted", lot |-> l, product |-> stocks[l].product,
                         delta |-> n - stocks[l].quantity]
    <3>2. /\ event.type = "StockAdjusted"
          /\ \/ /\ stocks[l].location # None
                /\ Recharge(stocks[l].location, stocks[l], n - stocks[l].quantity, event)
             \/ EmitOnly(event)
      BY <3>1 DEF Adjust
    <3> HIDE DEF event
    <3>3. CASE EmitOnly(event)
      BY <3>2, <3>3, PublishesNothing DEF EmitOnly
    <3>4. CASE ~ EmitOnly(event)
      BY <2>2, <3>2, <3>4, RechargePublishes
    <3> QED BY <3>3, <3>4
  <2>5. CASE \E n \in 1..Available(stocks[l]) : WriteOff(l, n)
    <3>1. PICK n \in 1..Available(stocks[l]) : WriteOff(l, n)
      BY <2>5
    <3> DEFINE event == [type |-> "StockWrittenOff", lot |-> l, product |-> stocks[l].product,
                         quantity |-> n]
    <3>2. /\ event.type = "StockWrittenOff"
          /\ \/ stocks[l].location # None /\ Recharge(stocks[l].location, stocks[l], -n, event)
             \/ EmitOnly(event)
      BY <3>1 DEF WriteOff
    <3> HIDE DEF event
    <3>3. CASE EmitOnly(event)
      BY <3>2, <3>3, PublishesNothing DEF EmitOnly
    <3>4. CASE ~ EmitOnly(event)
      BY <2>2, <3>2, <3>4, RechargePublishes
    <3> QED BY <3>3, <3>4
  <2>6. CASE \E new \in Lots, to \in Locations, n \in 1..Available(stocks[l]) :
               Move(l, new, to, n)
    BY <2>6, MovePublishes
  <2> QED BY <2>1, <2>3, <2>4, <2>5, <2>6
<1>2. CASE Handle
  <2>1. CASE \E r \in Reservations, w \in Warehouses, items \in Orders, deadline \in Days :
               \/ ConfirmReservation(r, w, items, deadline)
               \/ RejectReservation(r, w, items, deadline)
    BY <2>1, PublishesNothing DEF ConfirmReservation, RejectReservation, EmitOnly
  <2>2. CASE \E r \in Reservations :
               ReserveAgain(r) \/ Release(r) \/ RejectRelease(r) \/ ReleaseAgain(r)
    BY <2>2, PublishesNothing
       DEF ReserveAgain, Release, RejectRelease, ReleaseAgain, ReleaseConfirmed, Nothing, EmitOnly
  <2>3. CASE \E r \in Reservations, s \in Shipments :
               \/ ShipAgain(r, s)
               \/ \E w \in Warehouses : Ship(r, s, w) \/ RejectShip(r, s, w)
    <3>1. PICK r \in Reservations, s \in Shipments :
               \/ ShipAgain(r, s)
               \/ \E w \in Warehouses : Ship(r, s, w) \/ RejectShip(r, s, w)
      BY <2>3
    <3>2. CASE \E w \in Warehouses : Ship(r, s, w)
      BY <3>2, ShipPublishes
    <3>3. CASE ShipAgain(r, s) \/ \E w \in Warehouses : RejectShip(r, s, w)
      BY <3>3, PublishesNothing DEF ShipAgain, RejectShip, Nothing, EmitOnly
    <3> QED BY <3>1, <3>2, <3>3
  <2>4. CASE \E l \in Lots, w \in Warehouses :
               \/ PlaceAgain(l, w)
               \/ \E loc \in Locations, open \in BOOLEAN :
                    Place(l, w, loc, open) \/ RejectPlace(l, w, loc, open)
    <3>1. PICK l \in Lots, w \in Warehouses :
               \/ PlaceAgain(l, w)
               \/ \E loc \in Locations, open \in BOOLEAN :
                    Place(l, w, loc, open) \/ RejectPlace(l, w, loc, open)
      BY <2>4
    <3>2. CASE \E loc \in Locations, open \in BOOLEAN : Place(l, w, loc, open)
      <4>1. PICK loc \in Locations, open \in BOOLEAN : Place(l, w, loc, open)
        BY <3>2
      <4> DEFINE event == [type |-> "StockAdded", lot |-> l, location |-> loc,
                           quantity |-> stocks[l].quantity]
      <4>2. /\ event.type = "StockAdded"
            /\ Recharge(loc, stocks[l], stocks[l].quantity, event)
        BY <4>1 DEF Place
      <4> HIDE DEF event
      <4> QED BY <4>2, RechargePublishes
    <3>3. CASE PlaceAgain(l, w) \/ \E loc \in Locations, open \in BOOLEAN :
                                     RejectPlace(l, w, loc, open)
      BY <3>3, PublishesNothing DEF PlaceAgain, RejectPlace, Nothing, EmitOnly
    <3> QED BY <3>1, <3>2, <3>3
  <2> QED BY <1>2, <2>1, <2>2, <2>3, <2>4 DEF Handle
<1>3. CASE Work
  BY <1>3, PublishesNothing DEF Work, Expire, ReleaseConfirmed, EmitOnly
<1>4. CASE Tick
  BY <1>4, PublishesNothing DEF Tick
<1> QED BY <1>1, <1>2, <1>3, <1>4 DEF Next

\* No change of the capacity ledger is unpublished: CapacityPublished holds of
\* every behaviour.
THEOREM InventoryCapacityPublished == Spec => CapacityPublished
<1>1. IInv /\ [Next]_vars =>
        [\A loc \in Locations :
           LET published == {e \in emitted' : /\ e.type = "LocationCapacityChanged"
                                              /\ e.location = loc}
           IN  /\ {e.revision : e \in published} = (revision[loc] + 1)..revision'[loc]
               /\ Cardinality(published) = revision'[loc] - revision[loc]
               /\ load'[loc] # load[loc] => published # {}
               /\ \A e \in published : e.revision = revision'[loc] => e.load = load'[loc]]_vars
  BY NextPublishes, Zenon DEF Publishes, Published
<1> QED BY <1>1, InventoryInvariant, PTL DEF Spec, CapacityPublished

-----------------------------------------------------------------------------
(* The audit trail: what the events report is what happened to the stock.  *)

\* Quantity of product p in lot l.
Amount(l, p) == IF stocks[l].product = p THEN stocks[l].quantity ELSE 0

\* Amounts are natural.
LEMMA AmountNat == TypeOK => \A p \in Products, l \in Lots : Amount(l, p) \in Nat
BY RowFacts DEF Amount

\* The same of the next state.
LEMMA AmountNatNext == (TypeOK => \A p \in Products, l \in Lots : Amount(l, p) \in Nat)'
BY AmountNat, PTL

\* Units is the sum of the lots' amounts.
LEMMA UnitsFacts ==
  ASSUME NEW p \in Products
  PROVE  /\ Units(p) = SumFunctionOnSet([l \in Lots |-> Amount(l, p)], Lots)
         /\ Units(p)' = SumFunctionOnSet([l \in Lots |-> Amount(l, p)'], Lots)
         /\ IsFiniteSet(Lots)
         /\ TypeOK => \A l \in Lots : Amount(l, p) \in Int
         /\ TypeOK' => \A l \in Lots : Amount(l, p)' \in Int
<1>1. IsFiniteSet(Lots)
  BY InventoryAssumption DEF InventoryAssumption
<1>2. /\ TypeOK => \A l \in Lots : Amount(l, p) \in Int
      /\ TypeOK' => \A l \in Lots : Amount(l, p)' \in Int
  BY AmountNat, AmountNatNext
<1> QED BY <1>1, <1>2 DEF Units, Amount

\* Nothing changes when no lot does.
LEMMA UnitsSame ==
  ASSUME TypeOK, NEW p \in Products, \A l \in Lots : Amount(l, p)' = Amount(l, p)
  PROVE  Units(p)' - Units(p) = 0
<1> DEFINE f == [l \in Lots |-> Amount(l, p)]
           g == [l \in Lots |-> Amount(l, p)']
<1>1. /\ Units(p) = SumFunctionOnSet(f, Lots)
      /\ Units(p)' = SumFunctionOnSet(g, Lots)
      /\ IsFiniteSet(Lots)
  BY UnitsFacts
<1>2. f = g /\ \A l \in Lots : f[l] \in Int
  <2>1. \A l \in Lots : Amount(l, p) \in Int
    BY UnitsFacts
  <2> QED BY <2>1
<1> HIDE DEF f, g
<1>3. SumFunctionOnSet(f, Lots) \in Int
  BY <1>1, <1>2, SumType
<1> QED BY <1>1, <1>2, <1>3

\* One lot changes by n.
LEMMA UnitsChange ==
  ASSUME TypeOK, TypeOK', NEW p \in Products, NEW l \in Lots, NEW n \in Int,
         \A m \in Lots \ {l} : Amount(m, p)' = Amount(m, p),
         Amount(l, p)' = Amount(l, p) + n
  PROVE  Units(p)' - Units(p) = n
<1> DEFINE f == [m \in Lots |-> Amount(m, p)]
           g == [m \in Lots |-> Amount(m, p)']
<1>1. /\ Units(p) = SumFunctionOnSet(f, Lots)
      /\ Units(p)' = SumFunctionOnSet(g, Lots)
      /\ IsFiniteSet(Lots)
  BY UnitsFacts
<1>2. /\ \A m \in Lots : f[m] \in Int /\ g[m] \in Int
      /\ \A m \in Lots \ {l} : g[m] = f[m]
      /\ g[l] = f[l] + n
  <2>1. \A m \in Lots : Amount(m, p) \in Int /\ Amount(m, p)' \in Int
    BY UnitsFacts
  <2> QED BY <2>1
<1> HIDE DEF f, g
<1>3. SumFunctionOnSet(g, Lots) = SumFunctionOnSet(f, Lots) + (g[l] - f[l])
  BY <1>1, <1>2, SumUpdate
<1>4. SumFunctionOnSet(f, Lots) \in Int
  BY <1>1, <1>2, SumType
<1> QED BY <1>1, <1>2, <1>3, <1>4

\* One lot gives n to another.
LEMMA UnitsMoved ==
  ASSUME TypeOK, TypeOK', NEW p \in Products, NEW l \in Lots, NEW k \in Lots, k # l, NEW n \in Int,
         \A m \in Lots \ {l, k} : Amount(m, p)' = Amount(m, p),
         Amount(l, p)' = Amount(l, p) - n, Amount(k, p)' = Amount(k, p) + n
  PROVE  Units(p)' - Units(p) = 0
<1> DEFINE f == [m \in Lots |-> Amount(m, p)]
           g == [m \in Lots |-> Amount(m, p)']
           h == [m \in Lots |-> IF m = k THEN g[k] ELSE f[m]]
<1>1. /\ Units(p) = SumFunctionOnSet(f, Lots)
      /\ Units(p)' = SumFunctionOnSet(g, Lots)
      /\ IsFiniteSet(Lots)
  BY UnitsFacts
<1>2. /\ \A m \in Lots : f[m] \in Int /\ g[m] \in Int
      /\ \A m \in Lots \ {l, k} : g[m] = f[m]
      /\ g[l] = f[l] - n
      /\ g[k] = f[k] + n
  <2>1. \A m \in Lots : Amount(m, p) \in Int /\ Amount(m, p)' \in Int
    BY UnitsFacts
  <2> QED BY <2>1
<1> HIDE DEF f, g
<1>3. /\ \A m \in Lots : h[m] \in Int
      /\ \A m \in Lots \ {k} : h[m] = f[m]
      /\ \A m \in Lots \ {l} : g[m] = h[m]
      /\ h[k] = g[k] /\ h[l] = f[l]
  BY <1>2
<1> HIDE DEF h
<1>4. SumFunctionOnSet(h, Lots) = SumFunctionOnSet(f, Lots) + (h[k] - f[k])
  BY <1>1, <1>2, <1>3, SumUpdate
<1>5. SumFunctionOnSet(g, Lots) = SumFunctionOnSet(h, Lots) + (g[l] - h[l])
  BY <1>1, <1>2, <1>3, SumUpdate
<1>6. SumFunctionOnSet(f, Lots) \in Int
  BY <1>1, <1>2, SumType
<1> QED BY <1>1, <1>2, <1>3, <1>4, <1>5, <1>6

\* What each event reports.
LEMMA ReportedFacts ==
  ASSUME NEW e, NEW p
  PROVE  /\ e.type = "GoodsReceived" =>
              Reported(e, p) = IF e.product = p THEN e.quantity ELSE 0
         /\ e.type = "StockAdjusted" =>
              Reported(e, p) = IF e.product = p THEN e.delta ELSE 0
         /\ e.type = "StockWrittenOff" =>
              Reported(e, p) = IF e.product = p THEN -e.quantity ELSE 0
         /\ e.type = "StockShipped" => Reported(e, p) = -ShippedOf(e.items, p)
         /\ e.type \notin {"GoodsReceived", "StockAdjusted", "StockWrittenOff", "StockShipped"} =>
              Reported(e, p) = 0
BY DEF Reported

\* What a transaction reports with the event and the changes of capacity it records.
LEMMA ReportedSum ==
  ASSUME NEW p, NEW event, NEW changes, IsFiniteSet(changes),
         \A e \in changes : e.type = "LocationCapacityChanged",
         event.type # "LocationCapacityChanged", Reported(event, p) \in Int,
         NEW E, E = changes \cup {event}
  PROVE  SumFunctionOnSet([e \in E |-> Reported(e, p)], E) = Reported(event, p)
<1> DEFINE f == [e \in E |-> Reported(e, p)]
<1>1. \A e \in changes : Reported(e, p) = 0
  BY ReportedFacts
<1>2. /\ IsFiniteSet(E) /\ event \in E /\ E \ {event} = changes
      /\ \A e \in E : f[e] \in Int
      /\ \A e \in changes : f[e] = 0
      /\ f[event] = Reported(event, p)
  BY <1>1, FS_AddElement
<1> HIDE DEF f
<1>3. SumFunctionOnSet(f, E) = f[event] + SumFunctionOnSet(f, E \ {event})
  BY <1>2, SumAt
<1>4. SumFunctionOnSet(f, changes) = 0
  BY <1>2, SumZero
<1>5. SumFunctionOnSet(f, E \ {event}) = 0
  BY <1>2, <1>4, Zenon
<1>6. SumFunctionOnSet(f, E) = Reported(event, p)
  BY <1>2, <1>3, <1>5
<1> QED BY <1>6 DEF f

\* What the transaction reports of product p.
Report(p) == SumFunctionOnSet([e \in emitted' |-> Reported(e, p)], emitted')

\* A transaction with one event that is no change of capacity.
LEMMA ReportOfEmit ==
  ASSUME NEW p, NEW event, event.type # "LocationCapacityChanged", Reported(event, p) \in Int,
         EmitOnly(event) \/ \E loc, x, n : Recharge(loc, x, n, event)
  PROVE  Report(p) = Reported(event, p)
<1>1. CASE EmitOnly(event)
  <2>1. IsFiniteSet({}) /\ emitted' = {} \cup {event}
    BY <1>1, FS_EmptySet DEF EmitOnly
  <2> QED BY <2>1, ReportedSum DEF Report
<1>2. ASSUME NEW loc, NEW x, NEW n, Recharge(loc, x, n, event)
      PROVE  Report(p) = Reported(event, p)
  <2> DEFINE change == CapacityChanged(loc, load'[loc], revision'[loc])
  <2>1. emitted' = {change} \cup {event} /\ change.type = "LocationCapacityChanged"
    BY <1>2 DEF Recharge, CapacityChanged
  <2>2. IsFiniteSet({change})
    BY FS_Singleton
  <2> HIDE DEF change
  <2> QED BY <2>1, <2>2, ReportedSum DEF Report
<1> QED BY <1>1, <1>2

\* A transaction whose events report no change of quantity.
LEMMA ReportOfNothing ==
  ASSUME NEW p, IsFiniteSet(emitted'),
         \A e \in emitted' :
           e.type \notin {"GoodsReceived", "StockAdjusted", "StockWrittenOff", "StockShipped"}
  PROVE  Report(p) = 0
<1> DEFINE f == [e \in emitted' |-> Reported(e, p)]
<1>1. \A e \in emitted' : f[e] = 0
  BY ReportedFacts
<1> HIDE DEF f
<1>2. SumFunctionOnSet(f, emitted') = 0
  BY <1>1, SumZero
<1> QED BY <1>2 DEF Report, f

\* A transaction that leaves quantities alone and reports nothing.
LEMMA QuietAccounted ==
  ASSUME TypeOK, IsFiniteSet(emitted'),
         \A m \in Lots : /\ stocks'[m].quantity = stocks[m].quantity
                         /\ stocks'[m].product = stocks[m].product,
         \A e \in emitted' :
           e.type \notin {"GoodsReceived", "StockAdjusted", "StockWrittenOff", "StockShipped"},
         NEW p \in Products
  PROVE  Units(p)' - Units(p) = Report(p)
<1>1. \A m \in Lots : Amount(m, p)' = Amount(m, p)
  BY DEF Amount
<1> QED BY <1>1, UnitsSame, ReportOfNothing

\* A transaction with a single event.
LEMMA OneEvent ==
  ASSUME NEW event, EmitOnly(event)
  PROVE  IsFiniteSet(emitted') /\ \A e \in emitted' : e = event
<1>1. IsFiniteSet({event}) /\ emitted' = {event}
  BY FS_Singleton DEF EmitOnly
<1>2. IsFiniteSet(emitted')
  BY <1>1, Zenon
<1> QED BY <1>1, <1>2

\* A transaction with a change of capacity and an event.
LEMMA RechargeEvents ==
  ASSUME NEW loc, NEW x, NEW n, NEW event, Recharge(loc, x, n, event)
  PROVE  /\ IsFiniteSet(emitted')
         /\ \A e \in emitted' : e = event \/ e.type = "LocationCapacityChanged"
<1> DEFINE change == CapacityChanged(loc, load'[loc], revision'[loc])
<1>1. emitted' = {change} \cup {event} /\ change.type = "LocationCapacityChanged"
  BY DEF Recharge, CapacityChanged
<1> HIDE DEF change
<1>2. IsFiniteSet({change} \cup {event})
  BY FS_Singleton, FS_AddElement
<1>3. IsFiniteSet(emitted')
  BY <1>1, <1>2, Zenon
<1> QED BY <1>1, <1>3

\* A transaction that writes nothing.
LEMMA NothingAccounted ==
  ASSUME TypeOK, emitted' = {}, stocks' = stocks, NEW p \in Products
  PROVE  Units(p)' - Units(p) = Report(p)
<1>1. IsFiniteSet(emitted')
  BY FS_EmptySet, Zenon
<1> QED BY <1>1, QuietAccounted

\* A transaction that only records its answer.
LEMMA AnswerAccounted ==
  ASSUME TypeOK, NEW event, EmitOnly(event),
         event.type \notin {"GoodsReceived", "StockAdjusted", "StockWrittenOff", "StockShipped"},
         \A m \in Lots : /\ stocks'[m].quantity = stocks[m].quantity
                         /\ stocks'[m].product = stocks[m].product,
         NEW p \in Products
  PROVE  Units(p)' - Units(p) = Report(p)
BY OneEvent, QuietAccounted

\* A receipt reports what it adds.
LEMMA ReceiveAccounted ==
  ASSUME TypeOK, TypeOK', NEW l \in Lots, NEW q \in Products, NEW w \in Warehouses,
         NEW n \in 1..MaxQuantity, NEW x \in Days \cup {Never}, Receive(l, q, w, n, x),
         NEW p \in Products
  PROVE  Units(p)' - Units(p) = Report(p)
<1> DEFINE event == [type |-> "GoodsReceived", lot |-> l, product |-> q, quantity |-> n]
           row == [product |-> q, warehouse |-> w, location |-> None,
                   quantity |-> n, reserved |-> 0, expires |-> x]
           d == IF q = p THEN n ELSE 0
<1>1. n \in Nat /\ d \in Int
  BY InventoryAssumption DEF InventoryAssumption
<1>2. stocks[l] = NoStock /\ stocks'[l] = row /\ \A m \in Lots \ {l} : stocks'[m] = stocks[m]
  BY DEF Receive, TypeOK
<1>3. Amount(l, p) = 0 /\ Amount(l, p)' = d
  BY <1>2 DEF Amount, NoStock
<1>4. \A m \in Lots \ {l} : Amount(m, p)' = Amount(m, p)
  BY <1>2 DEF Amount
<1>5. Units(p)' - Units(p) = d
  <2> HIDE DEF d
  <2> QED BY <1>1, <1>3, <1>4, UnitsChange
<1>6. Reported(event, p) = d /\ event.type = "GoodsReceived"
  BY ReportedFacts
<1>7. EmitOnly(event)
  BY DEF Receive
<1> HIDE DEF event, d
<1>8. Report(p) = Reported(event, p)
  BY <1>1, <1>6, <1>7, ReportOfEmit
<1> QED BY <1>5, <1>6, <1>8

\* Adjustments and write-offs report the difference they make to one lot.
LEMMA QuantityAccountedStep ==
  ASSUME TypeOK, TypeOK', NEW l \in Lots, NEW n \in Int,
         stocks' = [stocks EXCEPT ![l].quantity = stocks[l].quantity + n],
         NEW event, event.type # "LocationCapacityChanged", NEW p \in Products,
         Reported(event, p) = IF stocks[l].product = p THEN n ELSE 0,
         EmitOnly(event) \/ \E loc, x, k : Recharge(loc, x, k, event)
  PROVE  Units(p)' - Units(p) = Report(p)
<1> DEFINE d == IF stocks[l].product = p THEN n ELSE 0
<1>1. d \in Int /\ Reported(event, p) = d
  OBVIOUS
<1>2. /\ stocks'[l].product = stocks[l].product
      /\ stocks'[l].quantity = stocks[l].quantity + n
      /\ \A m \in Lots \ {l} : stocks'[m] = stocks[m]
  BY DEF TypeOK, Rows, NoStock
<1>3. /\ Amount(l, p)' = Amount(l, p) + d
      /\ \A m \in Lots \ {l} : Amount(m, p)' = Amount(m, p)
  BY <1>2 DEF Amount
<1> HIDE DEF d
<1>4. Units(p)' - Units(p) = d
  BY <1>1, <1>3, UnitsChange
<1>5. Report(p) = Reported(event, p)
  BY <1>1, ReportOfEmit
<1> QED BY <1>1, <1>4, <1>5

\* A transfer reports nothing, because it changes nothing.
LEMMA MoveAccounted ==
  ASSUME TypeOK, TypeOK', NEW l \in Lots, NEW new \in Lots, NEW to \in Locations,
         NEW n \in 1..Available(stocks[l]), Move(l, new, to, n), NEW p \in Products
  PROVE  Units(p)' - Units(p) = Report(p)
<1> DEFINE x == stocks[l]
           touched == {to, x.location} \ {None}
           event == [type |-> "StockMoved", lot |-> l, product |-> x.product,
                     destination |-> new, quantity |-> n]
           h == [loc \in touched |-> CapacityChanged(loc, load'[loc], revision'[loc])]
           y == [x EXCEPT !.location = to, !.quantity = n, !.reserved = 0]
           d == IF x.product = p THEN n ELSE 0
<1>1. /\ x # NoStock /\ stocks[new] = NoStock /\ new # l
      /\ stocks' = [stocks EXCEPT ![new] = y, ![l].quantity = x.quantity - n]
      /\ emitted' = {h[loc] : loc \in touched} \cup {event}
  BY DEF Move
<1>2. /\ y.product = x.product /\ y.quantity = n
      /\ stocks'[new] = y
      /\ stocks'[l].product = x.product /\ stocks'[l].quantity = x.quantity - n
      /\ \A m \in Lots \ {l, new} : stocks'[m] = stocks[m]
  BY <1>1 DEF TypeOK, Rows, NoStock
<1>3. d \in Int /\ n \in Int /\ x.quantity \in Int
  BY RowFacts
<1>4. /\ Amount(new, p) = 0 /\ Amount(new, p)' = d
      /\ Amount(l, p)' = Amount(l, p) - d
      /\ \A m \in Lots \ {l, new} : Amount(m, p)' = Amount(m, p)
  <2>1. Amount(new, p) = 0
    BY <1>1 DEF Amount, NoStock
  <2> HIDE DEF y
  <2> QED BY <1>2, <1>3, <2>1 DEF Amount
<1> HIDE DEF d
<1>5. Units(p)' - Units(p) = 0
  BY <1>1, <1>3, <1>4, UnitsMoved
<1>6. IsFiniteSet(emitted')
  <2>1. IsFiniteSet({to, x.location})
    <3>1. IsFiniteSet({to} \cup {x.location})
      BY FS_Singleton, FS_AddElement
    <3>2. {to} \cup {x.location} = {to, x.location}
      OBVIOUS
    <3> QED BY <3>1, <3>2, Zenon
  <2>2. IsFiniteSet(touched)
    BY <2>1, FS_Subset
  <2>3. IsFiniteSet({h[loc] : loc \in touched})
    <3> HIDE DEF h, touched
    <3> QED BY <2>2, ImageSize
  <2> QED BY <1>1, <2>3, FS_AddElement
<1>7. \A e \in emitted' : e.type \in {"LocationCapacityChanged", "StockMoved"}
  <2>1. event.type = "StockMoved" /\ \A loc \in touched : h[loc].type = "LocationCapacityChanged"
    BY DEF CapacityChanged
  <2> HIDE DEF h, touched, event
  <2> QED BY <1>1, <2>1
<1>8. Report(p) = 0
  BY <1>6, <1>7, ReportOfNothing
<1> QED BY <1>5, <1>8

\* A shipment reports the allocations it takes from the lots.
LEMMA ShipAccounted ==
  ASSUME IInv, TypeOK', NEW r \in Reservations, NEW s \in Shipments, NEW w \in Warehouses,
         Ship(r, s, w), NEW p \in Products
  PROVE  Units(p)' - Units(p) = Report(p)
<1> USE DEF IInv
<1> DEFINE S == Allocated(r)
           a == allocations[r]
           item == [l \in S |-> [lot |-> l, product |-> stocks[l].product, quantity |-> a[l]]]
           part == [l \in Lots |-> IF stocks[l].product = p THEN a[l] ELSE 0]
           event == [type |-> "StockShipped", reservation |-> r, shipment |-> s,
                     items |-> Items(r)]
           h == [l \in S |-> LET loc == stocks[l].location
                             IN  CapacityChanged(loc, LoadWithout(r, UpTo(r, l), loc),
                                                 revision[loc] + Cardinality(UpTo(r, l)))]
<1>1. /\ stocks' = [l \in Lots |-> [stocks[l] EXCEPT !.quantity = @ - a[l], !.reserved = @ - a[l]]]
      /\ emitted' = {h[l] : l \in S} \cup {event}
  BY DEF Ship
<1>2. /\ IsFiniteSet(Lots) /\ S \subseteq Lots /\ IsFiniteSet(S)
      /\ \A l \in Lots : a[l] \in Nat /\ (l \notin S => a[l] = 0)
  <2>1. IsFiniteSet(Lots) /\ S \subseteq Lots
    BY InventoryAssumption DEF InventoryAssumption, Allocated
  <2>2. \A l \in Lots : a[l] \in Nat
    BY DEF TypeOK
  <2>3. \A l \in Lots : l \notin S => a[l] = 0
    BY <2>2 DEF Allocated
  <2> QED BY <2>1, <2>2, <2>3, FS_Subset
<1>3. ShippedOf(event.items, p) = SumFunctionOnSet(part, Lots)
  <2> DEFINE f == [i \in Items(r) |-> IF i.product = p THEN i.quantity ELSE 0]
  <2>1. Items(r) = {item[l] : l \in S}
    BY DEF Items, Allocated
  <2>2. \A l \in S : /\ item[l] \in Items(r)
                     /\ item[l].lot = l /\ item[l].product = stocks[l].product
                     /\ item[l].quantity = a[l]
    BY <2>1
  <2>3. \A l, m \in S : item[l] = item[m] => l = m
    <3> HIDE DEF item
    <3> QED BY <2>2
  <2>4. \A l \in S : part[l] \in Int /\ f[item[l]] = part[l]
    <3> HIDE DEF item
    <3> QED BY <1>2, <2>2
  <2>5. \A l \in Lots : part[l] \in Int /\ part[l] = IF l \in S THEN part[l] ELSE 0
    BY <1>2
  <2>6. ShippedOf(event.items, p) = SumFunctionOnSet(f, Items(r))
    BY DEF ShippedOf
  <2> HIDE DEF f, item, part, event, S
  <2>7. SumFunctionOnSet(f, {item[l] : l \in S}) = SumFunctionOnSet(part, S)
    BY <1>2, <2>3, <2>4, SumImage
  <2>8. SumFunctionOnSet(part, Lots) = SumFunctionOnSet(part, S)
    BY <1>2, <2>5, SumSubset
  <2> QED BY <2>1, <2>6, <2>7, <2>8, Zenon
<1>4. SumFunctionOnSet(part, Lots) \in Int
  <2>1. \A l \in Lots : part[l] \in Int
    BY <1>2
  <2> HIDE DEF part
  <2> QED BY <1>2, <2>1, SumType
<1>5. Units(p) = Units(p)' + SumFunctionOnSet(part, Lots) /\ Units(p)' \in Int
  <2> DEFINE f == [l \in Lots |-> Amount(l, p)]
             g == [l \in Lots |-> Amount(l, p)']
  <2>1. /\ Units(p) = SumFunctionOnSet(f, Lots)
        /\ Units(p)' = SumFunctionOnSet(g, Lots)
    BY UnitsFacts
  <2>2. \A l \in Lots : f[l] \in Int /\ g[l] \in Int
    <3>1. \A l \in Lots : Amount(l, p) \in Int /\ Amount(l, p)' \in Int
      BY UnitsFacts
    <3> QED BY <3>1
  <2>3. \A l \in Lots : /\ stocks'[l].product = stocks[l].product
                        /\ stocks'[l].quantity = stocks[l].quantity - a[l]
    <3> SUFFICES ASSUME NEW l \in Lots
                 PROVE  /\ stocks'[l].product = stocks[l].product
                        /\ stocks'[l].quantity = stocks[l].quantity - a[l]
      OBVIOUS
    <3> HIDE DEF a
    <3>1. /\ stocks'[l] = [stocks[l] EXCEPT !.quantity = @ - a[l], !.reserved = @ - a[l]]
          /\ stocks[l] \in Rows \cup {NoStock}
      BY <1>1 DEF TypeOK
    <3>2. CASE stocks[l] \in Rows
      BY <3>1, <3>2 DEF Rows
    <3>3. CASE stocks[l] = NoStock
      BY <3>1, <3>3 DEF NoStock
    <3> QED BY <3>1, <3>2, <3>3
  <2>4. \A l \in Lots : part[l] \in Int /\ f[l] = g[l] + part[l]
    <3>1. \A l \in Lots : stocks[l].quantity \in Nat /\ a[l] \in Nat
      BY <1>2, RowFacts
    <3> HIDE DEF a
    <3> QED BY <2>3, <3>1 DEF Amount
  <2> HIDE DEF f, g, part
  <2>5. SumFunctionOnSet(f, Lots) = SumFunctionOnSet(g, Lots) + SumFunctionOnSet(part, Lots)
    BY <1>2, <2>2, <2>4, SumAdd
  <2>6. SumFunctionOnSet(g, Lots) \in Int
    BY <1>2, <2>2, SumType
  <2> QED BY <2>1, <2>5, <2>6
<1>6. Reported(event, p) = -ShippedOf(event.items, p) /\ event.type = "StockShipped"
  BY ReportedFacts
<1>7. Report(p) = Reported(event, p)
  <2>1. IsFiniteSet({h[l] : l \in S})
    <3> HIDE DEF h, S
    <3> QED BY <1>2, ImageSize
  <2>2. \A e \in {h[l] : l \in S} : e.type = "LocationCapacityChanged"
    BY DEF CapacityChanged
  <2> HIDE DEF h, S, event, part
  <2>3. Reported(event, p) \in Int
    BY <1>3, <1>4, <1>6
  <2> QED BY <1>1, <1>6, <2>1, <2>2, <2>3, ReportedSum DEF Report
<1> HIDE DEF event, part
<1> QED BY <1>3, <1>4, <1>5, <1>6, <1>7

\* A release moves no units.
LEMMA ReleaseAccounted ==
  ASSUME TypeOK, NEW r \in Reservations, NEW outcome,
         NEW event \in {"StockReservationCancelled", "ReservationExpired"},
         ReleaseConfirmed(r, outcome, event), NEW p \in Products
  PROVE  Units(p)' - Units(p) = Report(p)
<1>1. \A m \in Lots : /\ stocks'[m].quantity = stocks[m].quantity
                      /\ stocks'[m].product = stocks[m].product
  BY DEF ReleaseConfirmed, Freed, TypeOK, Rows, NoStock
<1>2. EmitOnly([type |-> event, reservation |-> r, items |-> Items(r)])
  BY DEF ReleaseConfirmed
<1> QED BY <1>1, <1>2, AnswerAccounted

\* Every transaction reports what it does to the stock.
LEMMA NextAccounted ==
  ASSUME IInv, TypeOK', Next, NEW p \in Products
  PROVE  Units(p)' - Units(p) = Report(p)
<1> USE DEF IInv
<1>1. CASE Command
  <2>1. PICK l \in Lots :
          \/ \E q \in Products, w \in Warehouses, n \in 1..MaxQuantity, e \in Days \cup {Never} :
               Receive(l, q, w, n, e)
          \/ \E n \in 0..MaxQuantity : Adjust(l, n)
          \/ \E n \in 1..Available(stocks[l]) : WriteOff(l, n)
          \/ \E new \in Lots, to \in Locations, n \in 1..Available(stocks[l]) :
               Move(l, new, to, n)
    BY <1>1 DEF Command
  <2>2. stocks[l].quantity \in Nat
    BY RowFacts
  <2>3. CASE \E q \in Products, w \in Warehouses, n \in 1..MaxQuantity, e \in Days \cup {Never} :
               Receive(l, q, w, n, e)
    BY <2>3, ReceiveAccounted
  <2>4. CASE \E n \in 0..MaxQuantity : Adjust(l, n)
    <3>1. PICK target \in 0..MaxQuantity : Adjust(l, target)
      BY <2>4
    <3> DEFINE n == target - stocks[l].quantity
               event == [type |-> "StockAdjusted", lot |-> l, product |-> stocks[l].product,
                         delta |-> n]
    <3>2. target \in Int /\ n \in Int /\ target = stocks[l].quantity + n
      BY <2>2, InventoryAssumption DEF InventoryAssumption
    <3>3. /\ stocks' = [stocks EXCEPT ![l].quantity = target]
          /\ EmitOnly(event) \/ \E loc, x, k : Recharge(loc, x, k, event)
      BY <3>1 DEF Adjust
    <3>4. /\ event.type = "StockAdjusted"
          /\ Reported(event, p) = IF stocks[l].product = p THEN n ELSE 0
      BY ReportedFacts
    <3> HIDE DEF event, n
    <3> QED BY <3>2, <3>3, <3>4, QuantityAccountedStep
  <2>5. CASE \E n \in 1..Available(stocks[l]) : WriteOff(l, n)
    <3>1. PICK n \in 1..Available(stocks[l]) : WriteOff(l, n)
      BY <2>5
    <3> DEFINE event == [type |-> "StockWrittenOff", lot |-> l, product |-> stocks[l].product,
                         quantity |-> n]
    <3>2. n \in Int /\ -n \in Int /\ stocks[l].quantity - n = stocks[l].quantity + (-n)
      BY <2>2
    <3>3. /\ stocks' = [stocks EXCEPT ![l].quantity = stocks[l].quantity - n]
          /\ EmitOnly(event) \/ \E loc, x, k : Recharge(loc, x, k, event)
      BY <3>1 DEF WriteOff
    <3>4. /\ event.type = "StockWrittenOff"
          /\ Reported(event, p) = IF stocks[l].product = p THEN -n ELSE 0
      BY ReportedFacts
    <3>5. stocks' = [stocks EXCEPT ![l].quantity = stocks[l].quantity + (-n)]
      BY <3>2, <3>3
    <3> HIDE DEF event
    <3> QED BY <3>2, <3>3, <3>4, <3>5, QuantityAccountedStep
  <2>6. CASE \E new \in Lots, to \in Locations, n \in 1..Available(stocks[l]) :
               Move(l, new, to, n)
    BY <2>6, MoveAccounted
  <2> QED BY <2>1, <2>3, <2>4, <2>5, <2>6
<1>2. CASE Handle
  <2>1. CASE \E r \in Reservations, w \in Warehouses, items \in Orders, deadline \in Days :
               \/ ConfirmReservation(r, w, items, deadline)
               \/ RejectReservation(r, w, items, deadline)
    <3>1. PICK r \in Reservations, w \in Warehouses, items \in Orders, deadline \in Days :
               \/ ConfirmReservation(r, w, items, deadline)
               \/ RejectReservation(r, w, items, deadline)
      BY <2>1
    <3>2. \A m \in Lots : /\ stocks'[m].quantity = stocks[m].quantity
                          /\ stocks'[m].product = stocks[m].product
      BY <3>1 DEF ConfirmReservation, RejectReservation, TypeOK, Rows, NoStock
    <3>3. \/ EmitOnly([type |-> "StockReserved", reservation |-> r, items |-> items])
          \/ EmitOnly([type |-> "ReservationRejected", reservation |-> r])
      BY <3>1 DEF ConfirmReservation, RejectReservation
    <3> QED BY <3>2, <3>3, AnswerAccounted
  <2>2. CASE \E r \in Reservations :
               ReserveAgain(r) \/ Release(r) \/ RejectRelease(r) \/ ReleaseAgain(r)
    <3>1. PICK r \in Reservations :
            ReserveAgain(r) \/ Release(r) \/ RejectRelease(r) \/ ReleaseAgain(r)
      BY <2>2
    <3>2. CASE Release(r)
      BY <3>2, ReleaseAccounted DEF Release
    <3>3. CASE ReserveAgain(r) \/ ReleaseAgain(r)
      BY <3>3, NothingAccounted DEF ReserveAgain, ReleaseAgain, Nothing
    <3>4. CASE RejectRelease(r)
      <4>1. /\ stocks' = stocks
            /\ EmitOnly([type |-> "ReservationCancellationRejected", reservation |-> r])
        BY <3>4 DEF RejectRelease
      <4> QED BY <4>1, AnswerAccounted
    <3> QED BY <3>1, <3>2, <3>3, <3>4
  <2>3. CASE \E r \in Reservations, s \in Shipments :
               \/ ShipAgain(r, s)
               \/ \E w \in Warehouses : Ship(r, s, w) \/ RejectShip(r, s, w)
    <3>1. PICK r \in Reservations, s \in Shipments :
               \/ ShipAgain(r, s)
               \/ \E w \in Warehouses : Ship(r, s, w) \/ RejectShip(r, s, w)
      BY <2>3
    <3>2. CASE \E w \in Warehouses : Ship(r, s, w)
      BY <3>2, ShipAccounted
    <3>3. CASE ShipAgain(r, s)
      BY <3>3, NothingAccounted DEF ShipAgain, Nothing
    <3>4. CASE \E w \in Warehouses : RejectShip(r, s, w)
      <4>1. /\ stocks' = stocks
            /\ EmitOnly([type |-> "ShipmentRejected", reservation |-> r, shipment |-> s])
        BY <3>4 DEF RejectShip
      <4> QED BY <4>1, AnswerAccounted
    <3> QED BY <3>1, <3>2, <3>3, <3>4
  <2>4. CASE \E l \in Lots, w \in Warehouses :
               \/ PlaceAgain(l, w)
               \/ \E loc \in Locations, open \in BOOLEAN :
                    Place(l, w, loc, open) \/ RejectPlace(l, w, loc, open)
    <3>1. PICK l \in Lots, w \in Warehouses :
               \/ PlaceAgain(l, w)
               \/ \E loc \in Locations, open \in BOOLEAN :
                    Place(l, w, loc, open) \/ RejectPlace(l, w, loc, open)
      BY <2>4
    <3>2. CASE \E loc \in Locations, open \in BOOLEAN : Place(l, w, loc, open)
      <4>1. PICK loc \in Locations, open \in BOOLEAN : Place(l, w, loc, open)
        BY <3>2
      <4>2. \A m \in Lots : /\ stocks'[m].quantity = stocks[m].quantity
                            /\ stocks'[m].product = stocks[m].product
        BY <4>1 DEF Place, TypeOK, Rows, NoStock
      <4> DEFINE event == [type |-> "StockAdded", lot |-> l, location |-> loc,
                           quantity |-> stocks[l].quantity]
      <4>3. Recharge(loc, stocks[l], stocks[l].quantity, event) /\ event.type = "StockAdded"
        BY <4>1 DEF Place
      <4> HIDE DEF event
      <4>4. /\ IsFiniteSet(emitted')
            /\ \A e \in emitted' : e = event \/ e.type = "LocationCapacityChanged"
        BY <4>3, RechargeEvents
      <4>5. \A e \in emitted' : e.type \in {"StockAdded", "LocationCapacityChanged"}
        BY <4>3, <4>4
      <4> QED BY <4>2, <4>4, <4>5, QuietAccounted
    <3>3. CASE PlaceAgain(l, w)
      BY <3>3, NothingAccounted DEF PlaceAgain, Nothing
    <3>4. CASE \E loc \in Locations, open \in BOOLEAN : RejectPlace(l, w, loc, open)
      <4>1. stocks' = stocks /\ EmitOnly([type |-> "PlacementRejected", lot |-> l])
        BY <3>4 DEF RejectPlace
      <4> QED BY <4>1, AnswerAccounted
    <3> QED BY <3>1, <3>2, <3>3, <3>4
  <2> QED BY <1>2, <2>1, <2>2, <2>3, <2>4 DEF Handle
<1>3. CASE Work
  BY <1>3, ReleaseAccounted DEF Work, Expire
<1>4. CASE Tick
  BY <1>4, NothingAccounted DEF Tick
<1> QED BY <1>1, <1>2, <1>3, <1>4 DEF Next

\* The audit trail is complete: QuantityAccounted holds of every behaviour.
THEOREM InventoryQuantityAccounted == Spec => QuantityAccounted
<1>1. IInv /\ TypeOK' /\ [Next]_vars =>
        [\A p \in Products :
           Units(p)' - Units(p)
             = SumFunctionOnSet([e \in emitted' |-> Reported(e, p)], emitted')]_vars
  BY NextAccounted, Zenon DEF Report
<1> QED BY <1>1, InventoryInvariant, InventoryTypes, PTL DEF Spec, QuantityAccounted

=============================================================================
