-------------------------------- MODULE Saga --------------------------------
(***************************************************************************)
(* Reservation and shipment sagas.  The reservation service keeps a        *)
(* projection of each reservation, the shipment service one shipment per   *)
(* reservation (its table is UNIQUE on reservation_id), and the inventory  *)
(* service the authoritative ledger of module ReservationLedger.  They     *)
(* exchange events over outbox, Kafka and inbox, here one channel for each *)
(* pair of producer and consumer: every event is handled exactly once and, *)
(* but for the dead letter topic, in the order it was recorded.            *)
(*                                                                         *)
(* A handler that keeps failing parks its event in the dead letter topic,  *)
(* and an operator replays it later: this is how events get reordered.     *)
(***************************************************************************)
EXTENDS Naturals, Sequences, SequencesExt

CONSTANTS
  Reservations,
  None,
  MaxQueue,     \* clients issue no command while this many events wait
  MaxFailures   \* number of events that fail for a reason outside this model

ASSUME SagaAssumption == MaxFailures \in Nat

VARIABLES
  status, shipment, overdue, answers,  \* the ledger of the inventory service
  reservation,  \* reservation service: status of each reservation
  shipments,    \* shipment service: status of the shipment of each reservation
  looked,       \* reservations a pending shipment creation has read as CONFIRMED
  channel,      \* events recorded by a producer, not yet handled by a consumer
  parked,       \* the dead letter topic
  failures      \* events that failed so far

ledgerVars == <<status, shipment, overdue, answers>>
vars == <<ledgerVars, reservation, shipments, looked, channel, parked, failures>>

\* The id of the shipment of reservation r is r itself.
Ledger == INSTANCE ReservationLedger WITH Shipments <- Reservations

Channels == {"reservation>inventory", "shipment>inventory",
             "inventory>reservation", "inventory>shipment"}
Inboxes == {"reservation>inventory", "shipment>inventory"}  \* of the inventory
Requests == {"ReservationRequested", "ReservationCancellationRequested", "ShipmentRequested"}
EventTypes == Requests \cup Ledger!AnswerTypes
Events == [type : EventTypes, reservation : Reservations]

ReservationStatuses == {"NONE", "PENDING", "CONFIRMED", "CANCELLING",
                        "COMPLETED", "CANCELLED", "EXPIRED", "REJECTED"}
Final == {"COMPLETED", "CANCELLED", "EXPIRED", "REJECTED"}
ShipmentStatuses == {"NONE", "RESERVED", "PICKING", "PACKED", "READY_FOR_SHIPMENT",
                     "SHIPPING", "SHIPPED", "FAILED", "CANCELLING", "CANCELLED"}

Event(type, r) == [type |-> type, reservation |-> r]

\* A client command of a service records a request in its outbox.
Send(c, e) ==
  /\ Len(channel[c]) + Len(parked) < MaxQueue
  /\ channel' = [channel EXCEPT ![c] = Append(@, e)]

Init ==
  /\ Ledger!Init
  /\ reservation = [r \in Reservations |-> "NONE"]
  /\ shipments = [r \in Reservations |-> "NONE"]
  /\ looked = {}
  /\ channel = [c \in Channels |-> <<>>]
  /\ parked = <<>>
  /\ failures = 0

-----------------------------------------------------------------------------
(***************************************************************************)
(* Reservation service.                                                    *)
(***************************************************************************)

\* ReservationService.create
CreateReservation(r) ==
  /\ reservation[r] = "NONE"
  /\ reservation' = [reservation EXCEPT ![r] = "PENDING"]
  /\ Send("reservation>inventory", Event("ReservationRequested", r))
  /\ UNCHANGED <<ledgerVars, shipments, looked, parked, failures>>

\* ReservationService.cancel, also while CANCELLING
CancelReservation(r) ==
  /\ reservation[r] \notin {"NONE", "COMPLETED", "EXPIRED", "REJECTED", "CANCELLED"}
  /\ reservation' = [reservation EXCEPT ![r] = "CANCELLING"]
  /\ Send("reservation>inventory", Event("ReservationCancellationRequested", r))
  /\ UNCHANGED <<ledgerVars, shipments, looked, parked, failures>>

\* The status an event of the inventory announces.
Announced(type) ==
  CASE type = "StockReserved"             -> "CONFIRMED"
    [] type = "ReservationRejected"       -> "REJECTED"
    [] type = "StockReservationCancelled" -> "CANCELLED"
    [] type = "ReservationExpired"        -> "EXPIRED"
    [] type = "StockShipped"              -> "COMPLETED"

\* Seeded fault: a late event reopens a reservation.
ReservationAfter_Reopens(old, type) ==
  IF old = "CANCELLING" /\ Announced(type) = "CONFIRMED" THEN old ELSE Announced(type)

\* Seeded fault: a reservation being cancelled waits for the cancellation only.
ReservationAfter_Waits(old, type) ==
  IF \/ old \in Final
     \/ old = "CANCELLING" /\ Announced(type) \in {"CONFIRMED", "EXPIRED"}
    THEN old ELSE Announced(type)

\* ReservationService.handle
ReservationAfter(old, type) ==
  IF \/ old \in Final
     \/ old = "CANCELLING" /\ Announced(type) = "CONFIRMED"
    THEN old ELSE Announced(type)

ReservationHandles ==
  LET c == "inventory>reservation"
      e == Head(channel[c])
  IN  /\ channel[c] # <<>>
      /\ reservation' = [reservation EXCEPT ![e.reservation] = ReservationAfter(@, e.type)]
      /\ channel' = [channel EXCEPT ![c] = Tail(@)]
      /\ UNCHANGED <<ledgerVars, shipments, looked, parked, failures>>

-----------------------------------------------------------------------------
(***************************************************************************)
(* Shipment service.                                                       *)
(***************************************************************************)

\* ShipmentService.create reads the reservation over HTTP, without a lock ...
LookUp(r) ==
  /\ shipments[r] = "NONE"
  /\ reservation[r] = "CONFIRMED"
  /\ looked' = looked \cup {r}
  /\ UNCHANGED <<ledgerVars, reservation, shipments, channel, parked, failures>>

\* ... and then inserts the shipment.
CreateShipment(r) ==
  /\ r \in looked
  /\ shipments[r] = "NONE"
  /\ shipments' = [shipments EXCEPT ![r] = "RESERVED"]
  /\ looked' = looked \ {r}
  /\ UNCHANGED <<ledgerVars, reservation, channel, parked, failures>>

\* transition: start-picking, pack, ready
Prepare(r) ==
  /\ \E step \in {<<"RESERVED", "PICKING">>, <<"PICKING", "PACKED">>,
                  <<"PACKED", "READY_FOR_SHIPMENT">>} :
       /\ shipments[r] = step[1]
       /\ shipments' = [shipments EXCEPT ![r] = step[2]]
  /\ UNCHANGED <<ledgerVars, reservation, looked, channel, parked, failures>>

\* transition: ship
RequestShip(r) ==
  /\ shipments[r] \in {"PACKED", "READY_FOR_SHIPMENT"}
  /\ shipments' = [shipments EXCEPT ![r] = "SHIPPING"]
  /\ Send("shipment>inventory", Event("ShipmentRequested", r))
  /\ UNCHANGED <<ledgerVars, reservation, looked, parked, failures>>

\* Seeded fault: a shipment whose ship request is on its way can be cancelled.
CancelShipment_WhileShipping(r) ==
  /\ shipments[r] \notin {"NONE", "SHIPPED", "CANCELLED"}
  /\ shipments' = [shipments EXCEPT ![r] = "CANCELLING"]
  /\ Send("shipment>inventory", Event("ReservationCancellationRequested", r))
  /\ UNCHANGED <<ledgerVars, reservation, looked, parked, failures>>

\* transition: cancel, also while CANCELLING and after FAILED
CancelShipment(r) ==
  /\ shipments[r] \notin {"NONE", "SHIPPING", "SHIPPED", "CANCELLED"}
  /\ shipments' = [shipments EXCEPT ![r] = "CANCELLING"]
  /\ Send("shipment>inventory", Event("ReservationCancellationRequested", r))
  /\ UNCHANGED <<ledgerVars, reservation, looked, parked, failures>>

\* ShipmentService.handle; an event about a reservation without a shipment is
\* consumed and forgotten.
ShipmentAfter(old, type) ==
  IF old = "NONE" THEN "NONE"
  ELSE IF type = "StockShipped" \/ old = "SHIPPED" THEN "SHIPPED"
  ELSE IF type = "ShipmentRejected" THEN "FAILED"
  ELSE "CANCELLED"

ShipmentHandles ==
  LET c == "inventory>shipment"
      e == Head(channel[c])
  IN  /\ channel[c] # <<>>
      /\ shipments' = [shipments EXCEPT ![e.reservation] = ShipmentAfter(@, e.type)]
      /\ channel' = [channel EXCEPT ![c] = Tail(@)]
      /\ UNCHANGED <<ledgerVars, reservation, looked, parked, failures>>

-----------------------------------------------------------------------------
(***************************************************************************)
(* Inventory service.                                                      *)
(***************************************************************************)

\* Event types each consumer acts upon.
Interests ==
  [c \in {"inventory>reservation", "inventory>shipment"} |->
     IF c = "inventory>reservation"
       THEN {"StockReserved", "ReservationRejected", "StockReservationCancelled",
             "ReservationExpired", "StockShipped"}
       ELSE {"StockShipped", "ShipmentRejected", "StockReservationCancelled",
             "ReservationExpired"}]

\* The answers of a ledger step go to the services that act upon them.
Publish(queues) ==
  channel' = [c \in Channels |->
    IF c \in DOMAIN Interests
      THEN queues[c] \o SetToSeq({e \in answers' : e.type \in Interests[c]})
      ELSE queues[c]]

\* Seeded fault: the cancellation of an unknown reservation is no error.
Answered_Unknown(e) ==
  LET r == e.reservation
  IN  \/ e.type = "ReservationRequested" /\ status[r] # "NONE"
      \/ e.type = "ReservationCancellationRequested"
           /\ status[r] \in {"NONE", "REJECTED", "CANCELLED", "EXPIRED"}
      \/ e.type = "ShipmentRequested" /\ status[r] = "COMPLETED" /\ shipment[r] = r

\* The request was answered before, or is for a reservation without stock.
Answered(e) ==
  LET r == e.reservation
  IN  \/ e.type = "ReservationRequested" /\ status[r] # "NONE"
      \/ e.type = "ReservationCancellationRequested"
           /\ status[r] \in {"REJECTED", "CANCELLED", "EXPIRED"}
      \/ e.type = "ShipmentRequested" /\ status[r] = "COMPLETED" /\ shipment[r] = r

\* One request, in the ledger.  A cancellation of an unknown reservation is an
\* error ("reservation command not yet processed").
Serve(e) ==
  LET r == e.reservation
  IN  \/ e.type = "ReservationRequested" /\ (Ledger!Confirm(r) \/ Ledger!Reject(r))
      \/ e.type = "ReservationCancellationRequested" /\ (Ledger!Cancel(r) \/ Ledger!RejectCancel(r))
      \/ e.type = "ShipmentRequested" /\ (Ledger!Ship(r, r) \/ Ledger!RejectShip(r, r))
      \/ Answered(e) /\ UNCHANGED overdue /\ Ledger!Quiet

InventoryHandles(c) ==
  /\ c \in Inboxes
  /\ channel[c] # <<>>
  /\ Serve(Head(channel[c]))
  /\ Publish([channel EXCEPT ![c] = Tail(@)])
  /\ UNCHANGED <<reservation, shipments, looked, parked, failures>>

\* Work
ExpiryWorker(r) ==
  /\ Ledger!Expire(r)
  /\ Publish(channel)
  /\ UNCHANGED <<reservation, shipments, looked, parked, failures>>

\* expires_at passes.
Elapse(r) ==
  /\ status[r] = "CONFIRMED"
  /\ r \notin overdue
  /\ overdue' = overdue \cup {r}
  /\ Ledger!Quiet
  /\ UNCHANGED <<reservation, shipments, looked, channel, parked, failures>>

-----------------------------------------------------------------------------
(***************************************************************************)
(* Dead letter topic.                                                      *)
(***************************************************************************)
\* A cancellation that overtook the request of its reservation.
TooEarly(e) == e.type = "ReservationCancellationRequested" /\ status[e.reservation] = "NONE"

\* After five attempts the consumer copies the event to the topic and goes on.
Park(c) ==
  /\ channel[c] # <<>>
  /\ IF c \in Inboxes /\ TooEarly(Head(channel[c]))
       THEN UNCHANGED failures
       ELSE failures < MaxFailures /\ failures' = failures + 1
  /\ parked' = Append(parked, [channel |-> c, event |-> Head(channel[c])])
  /\ channel' = [channel EXCEPT ![c] = Tail(@)]
  /\ UNCHANGED <<ledgerVars, reservation, shipments, looked>>

ParkEarly(c) ==
  c \in Inboxes /\ channel[c] # <<>> /\ TooEarly(Head(channel[c])) /\ Park(c)

\* The operator publishes the event again, with its id.
Replay ==
  /\ parked # <<>>
  /\ LET x == Head(parked)
     IN  channel' = [channel EXCEPT ![x.channel] = Append(@, x.event)]
  /\ parked' = Tail(parked)
  /\ UNCHANGED <<ledgerVars, reservation, shipments, looked, failures>>

-----------------------------------------------------------------------------
Client(r) ==
  \/ CreateReservation(r) \/ CancelReservation(r)
  \/ LookUp(r) \/ CreateShipment(r) \/ Prepare(r) \/ RequestShip(r) \/ CancelShipment(r)

Next ==
  \/ \E r \in Reservations : Client(r) \/ ExpiryWorker(r) \/ Elapse(r)
  \/ ReservationHandles
  \/ ShipmentHandles
  \/ \E c \in Channels : InventoryHandles(c) \/ Park(c)
  \/ Replay

Spec == Init /\ [][Next]_vars

\* Consumers and the expiry worker run forever and retry; an event that cannot
\* be handled is parked and parked events are replayed.  Clients may stop at any
\* point, events other than these need not fail, and time need not pass.
Fairness ==
  /\ WF_vars(ReservationHandles)
  /\ WF_vars(ShipmentHandles)
  /\ \A c \in Inboxes : WF_vars(InventoryHandles(c)) /\ WF_vars(ParkEarly(c))
  /\ \A r \in Reservations : WF_vars(ExpiryWorker(r))
  /\ WF_vars(Replay)

FairSpec == Spec /\ Fairness

-----------------------------------------------------------------------------
(***************************************************************************)
(* What the sagas promise.                                                 *)
(***************************************************************************)

\* Types of the tables and of the events in transit.
TypeOK ==
  /\ status \in [Reservations -> Ledger!Statuses]
  /\ shipment \in [Reservations -> Reservations \cup {None}]
  /\ overdue \subseteq {r \in Reservations : status[r] = "CONFIRMED"}
  /\ answers \subseteq Ledger!Answers
  /\ reservation \in [Reservations -> ReservationStatuses]
  /\ shipments \in [Reservations -> ShipmentStatuses]
  /\ looked \subseteq Reservations
  /\ channel \in [Channels -> Seq(Events)]
  /\ parked \in Seq([channel : Channels, event : Events])
  /\ failures \in 0..MaxFailures

\* Final statuses of the two services never contradict the ledger, whatever is
\* in transit, parked or cancelled concurrently: goods that left the warehouse
\* belong to a shipment that is SHIPPING or SHIPPED, never to one that was
\* cancelled, failed or is being cancelled; a SHIPPED shipment has left; a
\* CANCELLED shipment and a final reservation match the ledger's outcome.
ServicesAgree ==
  \A r \in Reservations :
    /\ reservation[r] \in Final => reservation[r] = status[r]
    /\ status[r] = "COMPLETED" => shipments[r] \in {"SHIPPING", "SHIPPED"}
    /\ shipments[r] = "SHIPPED" => status[r] = "COMPLETED"
    /\ shipments[r] = "CANCELLED" => status[r] \in {"CANCELLED", "EXPIRED"}

\* Event e is on its way over channel c, or parked.
Waits(c, e) ==
  \/ e \in Range(channel[c])
  \/ [channel |-> c, event |-> e] \in Range(parked)

\* The reservation service shows what the ledger says, or has asked to change it.
Settled(r) ==
  \/ reservation[r] = status[r]
  \/ reservation[r] = "CANCELLING" /\ status[r] = "CONFIRMED"

\* What a service waits for is under way or parked, however events fail, come
\* back out of order or cross a client's command: the request of a reservation
\* the ledger does not know; the ledger's latest word where the reservation
\* service shows another; the cancellation of a CANCELLING reservation that is
\* not decided; the request of a SHIPPING shipment, or the answer to it.
NothingForgotten ==
  \A r \in Reservations :
    LET Asked(c, type) == Waits(c, Event(type, r))
        Told(c, type)  == Announced(type) = status[r] /\ Waits(c, Event(type, r))
    IN  /\ status[r] = "NONE" =>
             reservation[r] = "NONE" \/ Asked("reservation>inventory", "ReservationRequested")
        /\ status[r] # "NONE" =>
             \/ Settled(r)
             \/ \E type \in Interests["inventory>reservation"] : Told("inventory>reservation", type)
        /\ reservation[r] = "CANCELLING" /\ status[r] \in {"NONE", "CONFIRMED"} =>
             Asked("reservation>inventory", "ReservationCancellationRequested")
        /\ shipments[r] = "SHIPPING" =>
             \/ Asked("shipment>inventory", "ShipmentRequested")
             \/ Asked("inventory>shipment", "ShipmentRejected")
             \/ Told("inventory>shipment", "StockShipped")

\* Once the ledger has decided, the reservation service shows that outcome
\* forever, even if events were parked and replayed out of order.
ReservationConverges ==
  \A r \in Reservations, s \in Final : status[r] = s ~> [](reservation[r] = s)

\* Every request a client waits for is answered: a reservation does not stay
\* PENDING or CANCELLING, and a shipment does not stay SHIPPING.
RequestsAnswered ==
  \A r \in Reservations :
    /\ reservation[r] = "PENDING" ~> reservation[r] # "PENDING"
    /\ reservation[r] = "CANCELLING" ~> reservation[r] # "CANCELLING"
    /\ shipments[r] = "SHIPPING" ~> shipments[r] # "SHIPPING"

\* An overdue reservation gives its units back, and its client learns it, also
\* when expiry races with a cancellation or a shipment.
OverdueReleased ==
  \A r \in Reservations : r \in overdue ~> reservation[r] \in {"EXPIRED", "CANCELLED"}

\* The state diagram of docs/architecture.md leads from CANCELLING to
\* CANCELLED; the code has no answer to the cancellation of a shipment whose
\* reservation is over already, and the shipment waits forever.
CancellingResolves ==
  \A r \in Reservations : shipments[r] = "CANCELLING" ~> shipments[r] # "CANCELLING"

\* The state diagram of docs/architecture.md has no transition out of CANCELLED;
\* in the code a ShipmentRejected that comes later turns CANCELLED into FAILED.
CancelledIsFinal ==
  [][\A r \in Reservations : shipments[r] = "CANCELLED" => shipments'[r] = "CANCELLED"]_vars
=============================================================================
