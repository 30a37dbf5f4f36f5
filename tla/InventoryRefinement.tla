------------------------ MODULE InventoryRefinement ------------------------
(***************************************************************************)
(* Proof that the inventory service implements the ledger of reservations. *)
(***************************************************************************)
EXTENDS InventoryProofs

\* Only a COMPLETED reservation has a shipment.
Unshipped ==
  \A r \in Reservations : reservations[r].status # "COMPLETED" => reservations[r].shipment = None

LInv == TypeOK /\ Unshipped

\* No event of S answers a request about a reservation.
Silent(S) == \A e \in S : e.type \notin AnswerTypes

-----------------------------------------------------------------------------
(* The steps of the ledger, one lemma for each. *)

\* A transaction that leaves the reservations alone and answers nothing is
\* quiet, and so is the passage of time.
LEMMA QuietRefined ==
  ASSUME TypeOK, reservations' = reservations, now' \in Int, now <= now', Silent(emitted')
  PROVE  Ledger!Quiet
<1>1. Answers' = {}
  BY DEF Silent, Answers
<1>2. Overdue \subseteq Overdue'
  BY DEF Overdue, TypeOK, ReservationRows, Days
<1>3. \A r \in Overdue' : r \in Reservations /\ reservations[r].status = "CONFIRMED"
  BY DEF Overdue
<1> QED BY <1>1, <1>2, <1>3 DEF Ledger!Quiet

\* A transaction whose only answer is event e.
LEMMA AnswerRefined ==
  ASSUME NEW e, e \in emitted', e.type \in AnswerTypes,
         \A f \in emitted' : f = e \/ f.type \notin AnswerTypes
  PROVE  Ledger!Answer(e.type, e.reservation)
BY DEF Answers, Ledger!Answer

\* A transaction that changes no reservation.
LEMMA SameRefined ==
  ASSUME reservations' = reservations, now' = now
  PROVE  Overdue' = Overdue
BY DEF Overdue

\* A transaction that gives one reservation a new status and announces it.
LEMMA EnterRefined ==
  ASSUME TypeOK, NEW r \in Reservations, NEW row,
         reservations' = [reservations EXCEPT ![r] = row], now' = now,
         row.status # "CONFIRMED" \/ ~ (row.expires <= now)
  PROVE  Ledger!Enter(r, row.status)
<1>1. /\ reservations'[r] = row
      /\ \A q \in Reservations : q # r => reservations'[q] = reservations[q]
  BY DEF TypeOK
<1>2. [q \in Reservations |-> reservations'[q].status]
        = [[q \in Reservations |-> reservations[q].status] EXCEPT ![r] = row.status]
  <2> DEFINE new == [q \in Reservations |-> reservations'[q].status]
             old == [q \in Reservations |-> reservations[q].status]
  <2>1. \A q \in Reservations : new[q] = IF q = r THEN row.status ELSE old[q]
    BY <1>1
  <2>2. [old EXCEPT ![r] = row.status]
          = [q \in Reservations |-> IF q = r THEN row.status ELSE old[q]]
    BY Zenon
  <2> QED BY <2>1, <2>2
<1>3. Overdue' = Overdue \ {r}
  BY <1>1 DEF Overdue
<1> QED BY <1>2, <1>3 DEF Ledger!Enter

-----------------------------------------------------------------------------
(* The transactions. *)

\* The empty tables map to the initial ledger.
LEMMA InitRefined == Init => Ledger!Init
BY InventoryAssumption
   DEF Init, NoReservation, Ledger!Init, Overdue, Answers

\* A transaction that leaves the reservations and the clock alone.
LEMMA CommandQuiet ==
  ASSUME TypeOK, UNCHANGED <<reservations, now>>, Silent(emitted')
  PROVE  Ledger!Quiet
<1>1. now' \in Int /\ now <= now' /\ reservations' = reservations
  BY DEF TypeOK, Days
<1> QED BY <1>1, QuietRefined

\* Commands on stock are no steps of the ledger.
LEMMA CommandRefined == TypeOK /\ Command => Ledger!Quiet
<1> SUFFICES ASSUME TypeOK, Command PROVE Ledger!Quiet
  OBVIOUS
<1>1. PICK l \in Lots :
        \/ \E p \in Products, w \in Warehouses, n \in 1..MaxQuantity, e \in Days \cup {Never} :
             Receive(l, p, w, n, e)
        \/ \E n \in 0..MaxQuantity : Adjust(l, n)
        \/ \E n \in 1..Available(stocks[l]) : WriteOff(l, n)
        \/ \E new \in Lots, to \in Locations, n \in 1..Available(stocks[l]) : Move(l, new, to, n)
  BY DEF Command
<1>2. CASE \E p \in Products, w \in Warehouses, n \in 1..MaxQuantity, e \in Days \cup {Never} :
             Receive(l, p, w, n, e)
  BY <1>2, CommandQuiet DEF Receive, EmitOnly, Silent, AnswerTypes, Announces
<1>3. CASE \E n \in 0..MaxQuantity : Adjust(l, n)
  <2>1. PICK n \in 0..MaxQuantity : Adjust(l, n)
    BY <1>3
  <2> DEFINE e == [type |-> "StockAdjusted", lot |-> l, product |-> stocks[l].product,
                   delta |-> n - stocks[l].quantity]
  <2>2. /\ UNCHANGED <<reservations, now>>
        /\ \/ Recharge(stocks[l].location, stocks[l], n - stocks[l].quantity, e)
           \/ EmitOnly(e)
    BY <2>1 DEF Adjust
  <2>3. Silent(emitted')
    BY <2>2 DEF EmitOnly, Recharge, CapacityChanged, Silent, AnswerTypes, Announces
  <2> QED BY <2>2, <2>3, CommandQuiet
<1>4. CASE \E n \in 1..Available(stocks[l]) : WriteOff(l, n)
  <2>1. PICK n \in 1..Available(stocks[l]) : WriteOff(l, n)
    BY <1>4
  <2> DEFINE e == [type |-> "StockWrittenOff", lot |-> l, product |-> stocks[l].product,
                   quantity |-> n]
  <2>2. /\ UNCHANGED <<reservations, now>>
        /\ Recharge(stocks[l].location, stocks[l], -n, e) \/ EmitOnly(e)
    BY <2>1 DEF WriteOff
  <2>3. Silent(emitted')
    BY <2>2 DEF EmitOnly, Recharge, CapacityChanged, Silent, AnswerTypes, Announces
  <2> QED BY <2>2, <2>3, CommandQuiet
<1>5. CASE \E new \in Lots, to \in Locations, n \in 1..Available(stocks[l]) : Move(l, new, to, n)
  <2>1. PICK new \in Lots, to \in Locations, n \in 1..Available(stocks[l]) : Move(l, new, to, n)
    BY <1>5
  <2> DEFINE e == [type |-> "StockMoved", lot |-> l, product |-> stocks[l].product,
                   destination |-> new, quantity |-> n]
             changes == {CapacityChanged(loc, load'[loc], revision'[loc]) :
                           loc \in {to, stocks[l].location} \ {None}}
  <2>2. UNCHANGED <<reservations, now>> /\ emitted' = changes \cup {e}
    BY <2>1 DEF Move
  <2>3. /\ \A f \in changes : f.type = "LocationCapacityChanged"
        /\ e.type = "StockMoved"
    BY DEF CapacityChanged
  <2> HIDE DEF changes, e
  <2>4. Silent(emitted')
    BY <2>2, <2>3 DEF Silent, AnswerTypes, Announces
  <2> QED BY <2>2, <2>4, CommandQuiet
<1> QED BY <1>1, <1>2, <1>3, <1>4, <1>5

\* reserve() confirms.
LEMMA ConfirmRefined ==
  ASSUME LInv, NEW r \in Reservations, NEW w \in Warehouses, NEW items \in Orders,
         NEW deadline \in Days, ConfirmReservation(r, w, items, deadline)
  PROVE  Ledger!Confirm(r)
<1> DEFINE row == [status |-> "CONFIRMED", warehouse |-> w, expires |-> deadline, shipment |-> None]
           e == [type |-> "StockReserved", reservation |-> r, items |-> items]
<1>1. /\ row.status = "CONFIRMED" /\ ~ (row.expires <= now) /\ row.shipment = None
      /\ reservations' = [reservations EXCEPT ![r] = row] /\ now' = now
  BY DEF ConfirmReservation, CanReserve, LInv, TypeOK, Days
<1>2. /\ e.type = "StockReserved" /\ e.reservation = r /\ emitted' = {e}
      /\ "StockReserved" \in AnswerTypes
  BY DEF ConfirmReservation, EmitOnly, AnswerTypes, Announces
<1>3. reservations[r].status = "NONE"
  BY DEF ConfirmReservation
<1> HIDE DEF row, e
<1>4. Ledger!Enter(r, "CONFIRMED")
  BY <1>1, EnterRefined DEF LInv
<1>5. Ledger!Answer("StockReserved", r)
  BY <1>2, AnswerRefined
<1>6. [q \in Reservations |-> reservations'[q].shipment]
        = [q \in Reservations |-> reservations[q].shipment]
  BY <1>1, <1>3 DEF LInv, Unshipped, TypeOK
<1> QED BY <1>3, <1>4, <1>5, <1>6 DEF Ledger!Confirm

\* reserve() fails, and the savepoint is rolled back.
LEMMA RejectRefined ==
  ASSUME LInv, NEW r \in Reservations, NEW w \in Warehouses, NEW items \in Orders,
         NEW deadline \in Days, RejectReservation(r, w, items, deadline)
  PROVE  Ledger!Reject(r)
<1> DEFINE row == [status |-> "REJECTED", warehouse |-> w, expires |-> now, shipment |-> None]
           e == [type |-> "ReservationRejected", reservation |-> r]
<1>1. /\ row.status = "REJECTED" /\ row.shipment = None
      /\ reservations' = [reservations EXCEPT ![r] = row] /\ now' = now
  BY DEF RejectReservation
<1>2. /\ e.type = "ReservationRejected" /\ e.reservation = r /\ emitted' = {e}
      /\ "ReservationRejected" \in AnswerTypes
  BY DEF RejectReservation, EmitOnly, AnswerTypes, Announces
<1>3. reservations[r].status = "NONE"
  BY DEF RejectReservation
<1> HIDE DEF row, e
<1>4. Ledger!Enter(r, "REJECTED")
  BY <1>1, EnterRefined DEF LInv
<1>5. Ledger!Answer("ReservationRejected", r)
  BY <1>2, AnswerRefined
<1>6. [q \in Reservations |-> reservations'[q].shipment]
        = [q \in Reservations |-> reservations[q].shipment]
  BY <1>1, <1>3 DEF LInv, Unshipped, TypeOK
<1> QED BY <1>3, <1>4, <1>5, <1>6 DEF Ledger!Reject

\* release() of a confirmed reservation, for a cancellation or the worker.
LEMMA ReleaseRefined ==
  ASSUME LInv, NEW r \in Reservations, NEW outcome, NEW event,
         outcome # "CONFIRMED", event \in AnswerTypes,
         ReleaseConfirmed(r, outcome, event)
  PROVE  /\ reservations[r].status = "CONFIRMED"
         /\ Ledger!Enter(r, outcome)
         /\ Ledger!Answer(event, r)
         /\ [q \in Reservations |-> reservations'[q].shipment]
              = [q \in Reservations |-> reservations[q].shipment]
<1> DEFINE row == [reservations[r] EXCEPT !.status = outcome]
           e == [type |-> event, reservation |-> r, items |-> Items(r)]
<1>1. /\ reservations[r].status = "CONFIRMED"
      /\ row.status = outcome /\ row.shipment = reservations[r].shipment
      /\ reservations' = [reservations EXCEPT ![r] = row] /\ now' = now
  BY DEF ReleaseConfirmed, LInv, TypeOK, ReservationRows
<1>2. e.type = event /\ e.reservation = r /\ emitted' = {e}
  BY DEF ReleaseConfirmed, EmitOnly
<1> HIDE DEF row, e
<1>3. Ledger!Enter(r, outcome)
  BY <1>1, EnterRefined DEF LInv
<1>4. Ledger!Answer(event, r)
  BY <1>2, AnswerRefined
<1>5. [q \in Reservations |-> reservations'[q].shipment]
        = [q \in Reservations |-> reservations[q].shipment]
  BY <1>1 DEF LInv, TypeOK
<1> QED BY <1>1, <1>3, <1>4, <1>5

\* A shipment answers with StockShipped and nothing else.
LEMMA ShipAnswer ==
  ASSUME NEW r \in Reservations, NEW s \in Shipments, NEW w \in Warehouses, Ship(r, s, w)
  PROVE  LET e == [type |-> "StockShipped", reservation |-> r, shipment |-> s, items |-> Items(r)]
         IN  /\ e.type = "StockShipped" /\ e.reservation = r /\ e \in emitted'
             /\ \A f \in emitted' : f = e \/ f.type \notin AnswerTypes
             /\ "StockShipped" \in AnswerTypes
<1> DEFINE e == [type |-> "StockShipped", reservation |-> r, shipment |-> s, items |-> Items(r)]
           changes == {LET loc == stocks[l].location
                       IN  CapacityChanged(loc, LoadWithout(r, UpTo(r, l), loc),
                                           revision[loc] + Cardinality(UpTo(r, l))) :
                         l \in Allocated(r)}
<1>1. emitted' = {e} \cup changes
  BY DEF Ship
<1>2. \A f \in changes : f.type = "LocationCapacityChanged"
  BY DEF CapacityChanged
<1>3. "LocationCapacityChanged" \notin AnswerTypes /\ "StockShipped" \in AnswerTypes
  BY DEF AnswerTypes, Announces
<1>4. e.type = "StockShipped" /\ e.reservation = r
  OBVIOUS
<1> HIDE DEF changes, e
<1>5. /\ e.type = "StockShipped" /\ e.reservation = r /\ e \in emitted'
      /\ \A f \in emitted' : f = e \/ f.type \notin AnswerTypes
      /\ "StockShipped" \in AnswerTypes
  BY <1>1, <1>2, <1>3, <1>4
<1> QED BY <1>5 DEF e

\* ship() succeeds.
LEMMA ShipRefined ==
  ASSUME LInv, NEW r \in Reservations, NEW s \in Shipments, NEW w \in Warehouses,
         Ship(r, s, w)
  PROVE  Ledger!Ship(r, s)
<1> DEFINE row == [reservations[r] EXCEPT !.status = "COMPLETED", !.shipment = s]
           e == [type |-> "StockShipped", reservation |-> r, shipment |-> s, items |-> Items(r)]
<1>1. /\ reservations[r].status = "CONFIRMED" /\ ~ (reservations[r].expires <= now)
      /\ row.status = "COMPLETED" /\ row.shipment = s
      /\ reservations' = [reservations EXCEPT ![r] = row] /\ now' = now
  <2>1. Shippable(r, w) /\ now' = now /\ reservations' =
          [reservations EXCEPT ![r].status = "COMPLETED", ![r].shipment = s]
    BY DEF Ship
  <2>2. /\ reservations[r].status = "CONFIRMED" /\ ~ (reservations[r].expires <= now)
        /\ reservations[r] \in ReservationRows
    BY <2>1 DEF Shippable, LInv, TypeOK, ReservationRows, Days
  <2>3. row.status = "COMPLETED" /\ row.shipment = s
    BY <2>2 DEF ReservationRows
  <2>4. [reservations EXCEPT ![r].status = "COMPLETED", ![r].shipment = s]
          = [reservations EXCEPT ![r] = row]
    BY DEF LInv, TypeOK
  <2> QED BY <2>1, <2>2, <2>3, <2>4
<1>2. /\ e.type = "StockShipped" /\ e.reservation = r /\ e \in emitted'
      /\ \A f \in emitted' : f = e \/ f.type \notin AnswerTypes
      /\ "StockShipped" \in AnswerTypes
  BY ShipAnswer
<1> HIDE DEF row, e
<1>3. Ledger!Enter(r, "COMPLETED")
  BY <1>1, EnterRefined DEF LInv
<1>4. Ledger!Answer("StockShipped", r)
  BY <1>2, AnswerRefined
<1>5. [q \in Reservations |-> reservations'[q].shipment]
        = [[q \in Reservations |-> reservations[q].shipment] EXCEPT ![r] = s]
  <2> DEFINE old == [q \in Reservations |-> reservations[q].shipment]
  <2>1. \A q \in Reservations : reservations'[q].shipment = IF q = r THEN s ELSE old[q]
    BY <1>1 DEF LInv, TypeOK
  <2>2. [old EXCEPT ![r] = s] = [q \in Reservations |-> IF q = r THEN s ELSE old[q]]
    BY Zenon
  <2> QED BY <2>1, <2>2
<1>6. r \notin Overdue
  BY <1>1 DEF Overdue
<1> QED BY <1>1, <1>3, <1>4, <1>5, <1>6 DEF Ledger!Ship

\* A placement answers no request about a reservation.
LEMMA PlacementRefined ==
  ASSUME TypeOK, NEW l \in Lots, NEW w \in Warehouses,
         \/ PlaceAgain(l, w)
         \/ \E loc \in Locations, open \in BOOLEAN :
              Place(l, w, loc, open) \/ RejectPlace(l, w, loc, open)
  PROVE  Ledger!Quiet
<1>1. CASE PlaceAgain(l, w)
  BY <1>1, CommandQuiet DEF PlaceAgain, Nothing, Silent
<1>2. ASSUME NEW loc \in Locations, NEW open \in BOOLEAN, Place(l, w, loc, open)
      PROVE  Ledger!Quiet
  BY <1>2, CommandQuiet DEF Place, Recharge, CapacityChanged, Silent, AnswerTypes, Announces
<1>3. ASSUME NEW loc \in Locations, NEW open \in BOOLEAN, RejectPlace(l, w, loc, open)
      PROVE  Ledger!Quiet
  BY <1>3, CommandQuiet DEF RejectPlace, EmitOnly, Silent, AnswerTypes, Announces
<1> QED BY <1>1, <1>2, <1>3

\* A rejected request changes nothing but the outbox.
LEMMA RefusalRefined ==
  ASSUME TypeOK, NEW r \in Reservations, NEW e,
         UNCHANGED <<reservations, now>>, emitted' = {e},
         e.reservation = r, e.type \in AnswerTypes
  PROVE  /\ Ledger!Answer(e.type, r)
         /\ UNCHANGED <<[q \in Reservations |-> reservations[q].status],
                        [q \in Reservations |-> reservations[q].shipment], Overdue>>
<1>1. Ledger!Answer(e.type, r)
  BY AnswerRefined
<1>2. Overdue' = Overdue
  BY SameRefined
<1> QED BY <1>1, <1>2

-----------------------------------------------------------------------------
\* Every transaction of the inventory is a step of the ledger.
LEMMA StepRefined == LInv /\ Next => Ledger!Next
<1> SUFFICES ASSUME LInv, Next PROVE Ledger!Next
  OBVIOUS
<1>0. TypeOK
  BY DEF LInv
<1>1. CASE Command
  BY <1>0, <1>1, CommandRefined DEF Ledger!Next
<1>2. CASE Handle
  <2>1. CASE \E r \in Reservations, w \in Warehouses, items \in Orders, deadline \in Days :
               \/ ConfirmReservation(r, w, items, deadline)
               \/ RejectReservation(r, w, items, deadline)
    BY <2>1, ConfirmRefined, RejectRefined DEF Ledger!Next
  <2>2. CASE \E r \in Reservations :
               ReserveAgain(r) \/ Release(r) \/ RejectRelease(r) \/ ReleaseAgain(r)
    <3>1. PICK r \in Reservations :
            ReserveAgain(r) \/ Release(r) \/ RejectRelease(r) \/ ReleaseAgain(r)
      BY <2>2
    <3>2. CASE Release(r)
      <4>1. "StockReservationCancelled" \in AnswerTypes
        BY DEF AnswerTypes, Announces
      <4> QED BY <3>2, <4>1, ReleaseRefined DEF Release, Ledger!Next, Ledger!Cancel
    <3>3. CASE RejectRelease(r)
      <4> DEFINE e == [type |-> "ReservationCancellationRejected", reservation |-> r]
      <4>1. /\ reservations[r].status = "COMPLETED"
            /\ UNCHANGED <<reservations, now>> /\ emitted' = {e}
            /\ e.type = "ReservationCancellationRejected" /\ e.reservation = r
            /\ "ReservationCancellationRejected" \in AnswerTypes
        BY <3>3 DEF RejectRelease, EmitOnly, AnswerTypes
      <4> HIDE DEF e
      <4>2. Ledger!RejectCancel(r)
        BY <1>0, <4>1, RefusalRefined DEF Ledger!RejectCancel
      <4> QED BY <4>2 DEF Ledger!Next
    <3>4. CASE ReserveAgain(r) \/ ReleaseAgain(r)
      BY <1>0, <3>4, CommandQuiet DEF ReserveAgain, ReleaseAgain, Nothing, Silent, Ledger!Next
    <3> QED BY <3>1, <3>2, <3>3, <3>4
  <2>3. CASE \E r \in Reservations, s \in Shipments :
               \/ ShipAgain(r, s)
               \/ \E w \in Warehouses : Ship(r, s, w) \/ RejectShip(r, s, w)
    <3>1. PICK r \in Reservations, s \in Shipments :
               \/ ShipAgain(r, s)
               \/ \E w \in Warehouses : Ship(r, s, w) \/ RejectShip(r, s, w)
      BY <2>3
    <3>2. CASE ShipAgain(r, s)
      BY <1>0, <3>2, CommandQuiet DEF ShipAgain, Nothing, Silent, Ledger!Next
    <3>3. CASE \E w \in Warehouses : Ship(r, s, w)
      BY <3>3, ShipRefined DEF Ledger!Next
    <3>4. CASE \E w \in Warehouses : RejectShip(r, s, w)
      <4> DEFINE e == [type |-> "ShipmentRejected", reservation |-> r, shipment |-> s]
      <4>1. /\ ~ AlreadyShipped(r, s)
            /\ UNCHANGED <<reservations, now>> /\ emitted' = {e}
            /\ e.type = "ShipmentRejected" /\ e.reservation = r
            /\ "ShipmentRejected" \in AnswerTypes
        BY <3>4 DEF RejectShip, EmitOnly, AnswerTypes
      <4> HIDE DEF e
      <4>2. Ledger!RejectShip(r, s)
        BY <1>0, <4>1, RefusalRefined DEF Ledger!RejectShip, AlreadyShipped
      <4> QED BY <4>2 DEF Ledger!Next
    <3> QED BY <3>1, <3>2, <3>3, <3>4
  <2>4. CASE \E l \in Lots, w \in Warehouses :
               \/ PlaceAgain(l, w)
               \/ \E loc \in Locations, open \in BOOLEAN :
                    Place(l, w, loc, open) \/ RejectPlace(l, w, loc, open)
    BY <1>0, <2>4, PlacementRefined DEF Ledger!Next
  <2> QED BY <1>2, <2>1, <2>2, <2>3, <2>4 DEF Handle
<1>3. CASE Work
  <2>1. PICK r \in Reservations : Expire(r)
    BY <1>3 DEF Work
  <2>2. "ReservationExpired" \in AnswerTypes
    BY DEF AnswerTypes, Announces
  <2>3. reservations[r].expires <= now /\ ReleaseConfirmed(r, "EXPIRED", "ReservationExpired")
    BY <2>1 DEF Expire
  <2>4. r \in Overdue
    BY <2>3 DEF Overdue, ReleaseConfirmed
  <2> QED BY <2>2, <2>3, <2>4, ReleaseRefined DEF Ledger!Next, Ledger!Expire
<1>4. CASE Tick
  <2>1. reservations' = reservations /\ now' \in Int /\ now <= now' /\ Silent(emitted')
    BY <1>0, <1>4 DEF Tick, TypeOK, Days, Silent
  <2> QED BY <1>0, <2>1, QuietRefined DEF Ledger!Next
<1> QED BY <1>1, <1>2, <1>3, <1>4 DEF Next

\* The same with the steps that change nothing.
LEMMA NextRefined == LInv /\ [Next]_vars => [Ledger!Next]_(Ledger!ledgerVars)
<1>1. UNCHANGED vars => UNCHANGED Ledger!ledgerVars
  BY DEF vars, Ledger!ledgerVars, Answers, Overdue
<1> QED BY <1>1, StepRefined

\* A step of the ledger that does not complete reservation r keeps its shipment,
\* and a completed reservation stays so.
LEMMA LedgerShipment ==
  ASSUME NEW r \in Reservations, [Ledger!Next]_(Ledger!ledgerVars),
         reservations'[r].status # "COMPLETED"
  PROVE  /\ reservations[r].status # "COMPLETED"
         /\ reservations'[r].shipment = reservations[r].shipment
<1> DEFINE st == [q \in Reservations |-> reservations[q].status]
           sh == [q \in Reservations |-> reservations[q].shipment]
<1>1. /\ st[r] = reservations[r].status /\ sh[r] = reservations[r].shipment
      /\ st'[r] = reservations'[r].status /\ sh'[r] = reservations'[r].shipment
      /\ DOMAIN st = Reservations /\ DOMAIN sh = Reservations
  OBVIOUS
<1>2. \/ UNCHANGED <<st, sh>>
      \/ \E q \in Reservations, new \in {"CONFIRMED", "REJECTED", "CANCELLED", "EXPIRED"} :
           st[q] # "COMPLETED" /\ st' = [st EXCEPT ![q] = new] /\ UNCHANGED sh
      \/ \E q \in Reservations, s \in Shipments :
           /\ st' = [st EXCEPT ![q] = "COMPLETED"] /\ st[q] # "COMPLETED"
           /\ sh' = [sh EXCEPT ![q] = s]
  <2>1. CASE \E q \in Reservations : Ledger!Confirm(q) \/ Ledger!Reject(q) \/ Ledger!Cancel(q) \/ Ledger!Expire(q)
    BY <2>1 DEF Ledger!Confirm, Ledger!Reject, Ledger!Cancel, Ledger!Expire, Ledger!Enter
  <2>2. CASE \E q \in Reservations, s \in Shipments : Ledger!Ship(q, s)
    BY <2>2 DEF Ledger!Ship, Ledger!Enter
  <2>3. CASE \E q \in Reservations : \/ Ledger!RejectCancel(q)
                                    \/ \E s \in Shipments : Ledger!RejectShip(q, s)
    BY <2>3 DEF Ledger!RejectCancel, Ledger!RejectShip
  <2>4. CASE Ledger!Quiet \/ UNCHANGED Ledger!ledgerVars
    BY <2>4 DEF Ledger!Quiet, Ledger!ledgerVars
  <2> QED BY <2>1, <2>2, <2>3, <2>4 DEF Ledger!Next
<1> HIDE DEF st, sh
<1> QED BY <1>1, <1>2

\* Only ship() writes shipment_id, with the status COMPLETED.
LEMMA UnshippedStep == LInv /\ TypeOK' /\ [Next]_vars => LInv'
BY NextRefined, LedgerShipment DEF LInv, Unshipped

\* The inventory service implements the ledger of reservations.
THEOREM InventoryImplementsLedger == Spec => ImplementsLedger
<1>1. Init => LInv /\ Ledger!Init
  BY InitIInv, InitRefined DEF IInv, LInv, Unshipped, Init, NoReservation
<1>2. LInv /\ TypeOK' /\ [Next]_vars => LInv'
  BY UnshippedStep
<1>3. LInv /\ [Next]_vars => [Ledger!Next]_(Ledger!ledgerVars)
  BY NextRefined
<1> QED BY <1>1, <1>2, <1>3, InventoryTypes, PTL DEF Spec, ImplementsLedger, Ledger!Spec

-----------------------------------------------------------------------------
(* One outcome per reservation. *)

\* A quiet step of the ledger answers nothing.
LEMMA QuietSilent == Ledger!Quiet => Silent(emitted')
BY DEF Ledger!Quiet, Answers, Silent

\* A transaction records at most one answer in the outbox.
LEMMA OneAnswer ==
  ASSUME LInv, Next,
         NEW e \in emitted', NEW f \in emitted', e.type \in AnswerTypes, f.type \in AnswerTypes
  PROVE  e = f
<1>0. TypeOK /\ ~ Silent(emitted')
  BY DEF LInv, Silent
<1>1. ~ Command /\ ~ Tick
  BY <1>0, CommandRefined, QuietSilent DEF Tick
<1>2. CASE Work
  BY <1>2 DEF Work, Expire, ReleaseConfirmed, EmitOnly
<1>3. CASE Handle
  <2>1. CASE \E r \in Reservations, w \in Warehouses, items \in Orders, deadline \in Days :
               \/ ConfirmReservation(r, w, items, deadline)
               \/ RejectReservation(r, w, items, deadline)
    BY <2>1 DEF ConfirmReservation, RejectReservation, EmitOnly
  <2>2. CASE \E r \in Reservations :
               ReserveAgain(r) \/ Release(r) \/ RejectRelease(r) \/ ReleaseAgain(r)
    BY <2>2 DEF ReserveAgain, Release, RejectRelease, ReleaseAgain, Nothing, ReleaseConfirmed,
                EmitOnly
  <2>3. CASE \E r \in Reservations, s \in Shipments :
               \/ ShipAgain(r, s)
               \/ \E w \in Warehouses : Ship(r, s, w) \/ RejectShip(r, s, w)
    <3>1. PICK r \in Reservations, s \in Shipments :
               \/ ShipAgain(r, s)
               \/ \E w \in Warehouses : Ship(r, s, w) \/ RejectShip(r, s, w)
      BY <2>3
    <3>2. CASE \E w \in Warehouses : Ship(r, s, w)
      BY <3>2, ShipAnswer
    <3>3. CASE ShipAgain(r, s) \/ \E w \in Warehouses : RejectShip(r, s, w)
      BY <3>3 DEF ShipAgain, Nothing, RejectShip, EmitOnly
    <3> QED BY <3>1, <3>2, <3>3
  <2>4. CASE \E l \in Lots, w \in Warehouses :
               \/ PlaceAgain(l, w)
               \/ \E loc \in Locations, open \in BOOLEAN :
                    Place(l, w, loc, open) \/ RejectPlace(l, w, loc, open)
    BY <1>0, <2>4, PlacementRefined, QuietSilent
  <2> QED BY <1>3, <2>1, <2>2, <2>3, <2>4 DEF Handle
<1> QED BY <1>1, <1>2, <1>3 DEF Next

\* What a step of the ledger says of each reservation: it keeps its status and
\* no outcome is announced, or it enters the status the answer announces.
LEMMA LedgerOutcome ==
  ASSUME Ledger!Next, NEW r \in Reservations
  PROVE  \/ /\ reservations'[r].status = reservations[r].status
            /\ \A a \in Answers' : a.reservation = r => a.type \notin DOMAIN Announces
         \/ /\ reservations'[r].status # reservations[r].status
            /\ reservations[r].status = IF reservations'[r].status \in {"CONFIRMED", "REJECTED"}
                                          THEN "NONE" ELSE "CONFIRMED"
            /\ \E type \in DOMAIN Announces :
                 /\ Answers' = {[type |-> type, reservation |-> r]}
                 /\ reservations'[r].status = Announces[type]
<1> DEFINE st == [q \in Reservations |-> reservations[q].status]
<1>1. /\ st[r] = reservations[r].status /\ st'[r] = reservations'[r].status
      /\ DOMAIN st = Reservations
  OBVIOUS
<1>2. \/ /\ UNCHANGED st
         /\ \A a \in Answers' : a.type \in {"ReservationCancellationRejected", "ShipmentRejected"}
      \/ \E q \in Reservations, type \in DOMAIN Announces :
           /\ st' = [st EXCEPT ![q] = Announces[type]]
           /\ st[q] = IF Announces[type] \in {"CONFIRMED", "REJECTED"} THEN "NONE" ELSE "CONFIRMED"
           /\ Answers' = {[type |-> type, reservation |-> q]}
  <2>1. CASE \E q \in Reservations : \/ Ledger!Confirm(q) \/ Ledger!Reject(q)
                                    \/ Ledger!Cancel(q) \/ Ledger!Expire(q)
                                    \/ \E s \in Shipments : Ledger!Ship(q, s)
    BY <2>1 DEF Ledger!Confirm, Ledger!Reject, Ledger!Cancel, Ledger!Expire, Ledger!Ship,
                Ledger!Enter, Ledger!Answer, Announces
  <2>2. CASE \E q \in Reservations : \/ Ledger!RejectCancel(q)
                                    \/ \E s \in Shipments : Ledger!RejectShip(q, s)
    BY <2>2 DEF Ledger!RejectCancel, Ledger!RejectShip, Ledger!Answer
  <2>3. CASE Ledger!Quiet
    BY <2>3 DEF Ledger!Quiet
  <2> QED BY <2>1, <2>2, <2>3 DEF Ledger!Next
<1> HIDE DEF st
<1>3. \A type \in DOMAIN Announces :
        /\ type \notin {"ReservationCancellationRejected", "ShipmentRejected"}
        /\ Announces[type] \notin {"NONE"}
        /\ Announces[type] \notin {"CONFIRMED", "REJECTED"} => Announces[type] # "CONFIRMED"
  BY DEF Announces
<1> QED BY <1>1, <1>2, <1>3

\* A reservation changes status exactly when one event announces it, and each
\* status is entered once: OneOutcome holds of every behaviour.
THEOREM InventoryOneOutcome == Spec => OneOutcome
<1>1. LInv /\ [Next]_vars =>
        [\A r \in Reservations :
           LET outcomes == {e \in emitted' : /\ e.type \in DOMAIN Announces
                                             /\ e.reservation = r}
               from == reservations[r].status
               to == reservations'[r].status
           IN  IF from = to THEN outcomes = {}
               ELSE /\ \E e \in outcomes : outcomes = {e} /\ to = Announces[e.type]
                    /\ from = IF to \in {"CONFIRMED", "REJECTED"} THEN "NONE" ELSE "CONFIRMED"]_vars
  <2> SUFFICES ASSUME LInv, Next, NEW r \in Reservations
               PROVE  LET outcomes == {e \in emitted' : /\ e.type \in DOMAIN Announces
                                                        /\ e.reservation = r}
                          from == reservations[r].status
                          to == reservations'[r].status
                      IN  IF from = to THEN outcomes = {}
                          ELSE /\ \E e \in outcomes : outcomes = {e} /\ to = Announces[e.type]
                               /\ from = IF to \in {"CONFIRMED", "REJECTED"}
                                           THEN "NONE" ELSE "CONFIRMED"
    BY Zenon
  <2> DEFINE outcomes == {e \in emitted' : /\ e.type \in DOMAIN Announces
                                           /\ e.reservation = r}
             from == reservations[r].status
             to == reservations'[r].status
  <2>1. DOMAIN Announces \subseteq AnswerTypes
    BY DEF AnswerTypes
  <2>2. \A e, f \in outcomes : e = f
    BY <2>1, OneAnswer
  <2>3. ASSUME NEW e \in outcomes
        PROVE  \E a \in Answers' : a.type = e.type /\ a.reservation = r
    <3> DEFINE a == [type |-> e.type, reservation |-> e.reservation]
    <3>1. e \in emitted' /\ e.type \in AnswerTypes /\ e.reservation = r
      BY <2>1
    <3>2. a \in Answers'
      BY <3>1 DEF Answers
    <3> QED BY <3>1, <3>2
  <2>4. \A a \in Answers' : a.type \in DOMAIN Announces /\ a.reservation = r
                              => \E e \in outcomes : e.type = a.type
    BY DEF Answers
  <2>5. Ledger!Next
    BY StepRefined
  <2>6. from = to => outcomes = {}
    BY <2>3, <2>5, LedgerOutcome
  <2>7. ASSUME from # to
        PROVE  /\ \E e \in outcomes : outcomes = {e} /\ to = Announces[e.type]
               /\ from = IF to \in {"CONFIRMED", "REJECTED"} THEN "NONE" ELSE "CONFIRMED"
    <3>1. PICK type \in DOMAIN Announces :
            Answers' = {[type |-> type, reservation |-> r]} /\ to = Announces[type]
      BY <2>5, <2>7, LedgerOutcome
    <3>2. PICK e \in outcomes : e.type = type
      BY <2>4, <3>1
    <3>3. outcomes = {e}
      BY <2>2, <3>2
    <3>4. from = IF to \in {"CONFIRMED", "REJECTED"} THEN "NONE" ELSE "CONFIRMED"
      BY <2>5, <2>7, LedgerOutcome
    <3> HIDE DEF outcomes, from, to
    <3> QED BY <3>1, <3>2, <3>3, <3>4
  <2> QED BY <2>6, <2>7, Zenon
<1>2. Init => LInv
  BY InitIInv DEF IInv, LInv, Unshipped, Init, NoReservation
<1> QED BY <1>1, <1>2, UnshippedStep, InventoryTypes, PTL DEF Spec, OneOutcome

=============================================================================
