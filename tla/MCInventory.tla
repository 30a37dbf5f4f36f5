---------------------------- MODULE MCInventory ----------------------------
(***************************************************************************)
(* Small instances of the inventory service.                               *)
(***************************************************************************)
EXTENDS Inventory, TLC

CONSTANTS W1, W2, LocA, LocB, Sku1, Sku2

\* The ids of the lots are in another order than their dates of creation.
Shuffled == [l \in Lots |-> (l + 1) % 3]

\* One warehouse: LocA takes three units of the product by weight, LocB one by
\* volume.
InOneWarehouse == [loc \in Locations |-> W1]
AcceptsSku1 == [loc \in Locations |-> {Sku1}]
UnitSku1 == Sku1 :> [weight |-> 2, volume |-> 1]
LimitThreeOne == LocA :> [weight |-> 6, volume |-> 9] @@ LocB :> [weight |-> 9, volume |-> 1]

\* An order of one unit, and one of two.
OneOrTwo == {{[product |-> Sku1, quantity |-> n]} : n \in {1, 2}}

\* One location without effective limits, and orders of up to three units.
LimitNone == [loc \in {LocA} |-> [weight |-> 99, volume |-> 99]]
UpToThree == {{[product |-> Sku1, quantity |-> n]} : n \in 1..3}

\* Two warehouses with one location each; LocA takes both products, LocB only
\* the first.
InTwoWarehouses == LocA :> W1 @@ LocB :> W2
AcceptsByType == LocA :> {Sku1, Sku2} @@ LocB :> {Sku1}
UnitBoth == Sku1 :> [weight |-> 1, volume |-> 1] @@ Sku2 :> [weight |-> 1, volume |-> 2]
LimitWide == [loc \in {LocA, LocB} |-> [weight |-> 4, volume |-> 5]]

\* One line, two lines, a duplicate line, a line of no unit, no line.
MixedOrders ==
  {{[product |-> Sku1, quantity |-> 1], [product |-> Sku2, quantity |-> 1]},
   {[product |-> Sku1, quantity |-> 2]},
   {[product |-> Sku1, quantity |-> 1], [product |-> Sku1, quantity |-> 2]},
   {[product |-> Sku2, quantity |-> 0]},
   {}}

\* No guard reads revision or emitted: states that differ only there have the
\* same behaviours.
Tables == <<stocks, reservations, allocations, load, now>>
\* Reservation ids are interchangeable.
ReservationSymmetry == Permutations(Reservations)
=============================================================================
