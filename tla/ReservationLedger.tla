------------------------- MODULE ReservationLedger -------------------------
(***************************************************************************)
(* What the inventory service promises about reservations, without stock:  *)
(* every reservation has one status, a request is answered by at most one  *)
(* event, and of shipping, cancelling and expiring a confirmed reservation *)
(* exactly one happens.  Module Inventory implements this specification;   *)
(* module Saga composes it with the reservation and shipment services.     *)
(***************************************************************************)
CONSTANTS Reservations, Shipments, None

VARIABLES
  status,    \* reservations.status, "NONE" without a row
  shipment,  \* reservations.shipment_id
  overdue,   \* the confirmed reservations whose expires_at has passed
  answers    \* the answers the latest transaction recorded in the outbox

ledgerVars == <<status, shipment, overdue, answers>>

Statuses == {"NONE", "REJECTED", "CONFIRMED", "COMPLETED", "CANCELLED", "EXPIRED"}
AnswerTypes == {"StockReserved", "ReservationRejected", "StockReservationCancelled",
                "ReservationCancellationRejected", "ReservationExpired",
                "StockShipped", "ShipmentRejected"}
Answers == [type : AnswerTypes, reservation : Reservations]

Answer(type, r) == answers' = {[type |-> type, reservation |-> r]}

\* Seeded fault: the expiry scan does not look at the status.
Enter_Overdue(r, new) ==
  /\ status' = [status EXCEPT ![r] = new]
  /\ UNCHANGED overdue

\* Reservation r gets status new; the expiry scan skips it once it is not
\* CONFIRMED.
Enter(r, new) ==
  /\ status' = [status EXCEPT ![r] = new]
  /\ overdue' = overdue \ {r}

Init ==
  /\ status = [r \in Reservations |-> "NONE"]
  /\ shipment = [r \in Reservations |-> None]
  /\ overdue = {}
  /\ answers = {}

-----------------------------------------------------------------------------
\* reserve(): a request is confirmed or rejected once.  A deadline that is
\* reached later makes the reservation overdue.
Confirm(r) ==
  /\ status[r] = "NONE"
  /\ Enter(r, "CONFIRMED")
  /\ Answer("StockReserved", r)
  /\ UNCHANGED shipment

Reject(r) ==
  /\ status[r] = "NONE"
  /\ Enter(r, "REJECTED")
  /\ Answer("ReservationRejected", r)
  /\ UNCHANGED shipment

\* release() for a cancellation request.
Cancel(r) ==
  /\ status[r] = "CONFIRMED"
  /\ Enter(r, "CANCELLED")
  /\ Answer("StockReservationCancelled", r)
  /\ UNCHANGED shipment

RejectCancel(r) ==
  /\ status[r] = "COMPLETED"
  /\ Answer("ReservationCancellationRejected", r)
  /\ UNCHANGED <<status, shipment, overdue>>

\* release() for the expiry worker.
Expire(r) ==
  /\ status[r] = "CONFIRMED"
  /\ r \in overdue
  /\ Enter(r, "EXPIRED")
  /\ Answer("ReservationExpired", r)
  /\ UNCHANGED shipment

\* ship(): an overdue reservation is not shipped, whether or not the worker
\* has come by.
Ship(r, s) ==
  /\ status[r] = "CONFIRMED"
  /\ r \notin overdue
  /\ Enter(r, "COMPLETED")
  /\ shipment' = [shipment EXCEPT ![r] = s]
  /\ Answer("StockShipped", r)

RejectShip(r, s) ==
  /\ ~ (status[r] = "COMPLETED" /\ shipment[r] = s)
  /\ Answer("ShipmentRejected", r)
  /\ UNCHANGED <<status, shipment, overdue>>

\* Requests answered before, work on stock, and the passage of time.
Quiet ==
  /\ answers' = {}
  /\ overdue \subseteq overdue'
  /\ \A r \in overdue' \ overdue : status[r] = "CONFIRMED"
  /\ UNCHANGED <<status, shipment>>

Next ==
  \/ \E r \in Reservations :
       \/ Confirm(r) \/ Reject(r) \/ Cancel(r) \/ RejectCancel(r) \/ Expire(r)
       \/ \E s \in Shipments : Ship(r, s) \/ RejectShip(r, s)
  \/ Quiet

Spec == Init /\ [][Next]_ledgerVars
=============================================================================
