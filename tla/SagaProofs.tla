------------------------------ MODULE SagaProofs ------------------------------
(***************************************************************************)
(* The statuses of the reservation service, the shipment service and the   *)
(* ledger agree, for every set of reservations, any length of the queues,  *)
(* any number of failures and any order in which parked events come back.  *)
(***************************************************************************)
EXTENDS Saga, DataTheorems

-----------------------------------------------------------------------------
(***************************************************************************)
(* The inductive invariant. ServicesAgree says nothing of the events under *)
(* way, and these decide what the services will believe.                   *)
(***************************************************************************)
\* What each channel carries.
Carries(c) ==
  CASE c = "reservation>inventory" -> {"ReservationRequested", "ReservationCancellationRequested"}
    [] c = "shipment>inventory"    -> {"ShipmentRequested", "ReservationCancellationRequested"}
    [] OTHER                       -> Interests[c]

Routed == \A c \in Channels, e \in Events : Waits(c, e) => e.type \in Carries(c)

\* An outcome that is announced is the ledger's, and stays so.
Outcomes == {"ReservationRejected", "StockReservationCancelled", "ReservationExpired", "StockShipped"}
OutcomesTrue ==
  \A c \in DOMAIN Interests, e \in Events :
    Waits(c, e) /\ e.type \in Outcomes => status[e.reservation] = Announced(e.type)

ShipRequest(r) == Event("ShipmentRequested", r)
ShipRefusal(r) == Event("ShipmentRejected", r)
Requested(r) == Waits("shipment>inventory", ShipRequest(r))
Refused(r)   == Waits("inventory>shipment", ShipRefusal(r))

\* A shipment is requested at most once, ...
RequestedOnce ==
  \A r \in Reservations :
    LET c == "shipment>inventory"
        p == [channel |-> c, event |-> ShipRequest(r)]
    IN  /\ Once(channel[c], {ShipRequest(r)}) /\ Once(parked, {p})
        /\ ~ (ShipRequest(r) \in Range(channel[c]) /\ p \in Range(parked))

\* ... not before it is packed, ...
Unrequested == {"NONE", "RESERVED", "PICKING", "PACKED", "READY_FOR_SHIPMENT"}
RequestedLate ==
  \A r \in Reservations :
    shipments[r] \in Unrequested => ~ Requested(r) /\ ~ Refused(r) /\ status[r] # "COMPLETED"

\* ... is SHIPPING as long as the request may still be granted, ...
RequestedShips ==
  \A r \in Reservations : Requested(r) =>
    /\ ~ Refused(r) /\ status[r] # "COMPLETED"
    /\ status[r] \in {"NONE", "CONFIRMED"} => shipments[r] = "SHIPPING"

\* ... and a refusal is the last word about it.
RefusedStays == \A r \in Reservations : Refused(r) => status[r] # "COMPLETED"

Inv ==
  /\ TypeOK /\ Routed /\ OutcomesTrue
  /\ RequestedOnce /\ RequestedLate /\ RequestedShips /\ RefusedStays /\ ServicesAgree

-----------------------------------------------------------------------------
(***************************************************************************)
(* Channels and the dead letter topic.                                     *)
(***************************************************************************)
Parked == [channel : Channels, event : Events]

\* The two services that hear from the inventory, and what they act upon.
LEMMA InterestsOf ==
  /\ DOMAIN Interests = {"inventory>reservation", "inventory>shipment"}
  /\ Interests["inventory>reservation"] =
       {"StockReserved", "ReservationRejected", "StockReservationCancelled",
        "ReservationExpired", "StockShipped"}
  /\ Interests["inventory>shipment"] =
       {"StockShipped", "ShipmentRejected", "StockReservationCancelled", "ReservationExpired"}
BY DEF Interests

\* Recording an event.
LEMMA SendWaits ==
  ASSUME TypeOK, NEW c \in Channels, NEW e \in Events, Send(c, e), parked' = parked
  PROVE  /\ channel' \in [Channels -> Seq(Events)]
         /\ \A d \in Channels, f \in Events : Waits(d, f)' <=> Waits(d, f) \/ (d = c /\ f = e)
<1>1. channel[c] \in Seq(Events) /\ channel' = [channel EXCEPT ![c] = Append(@, e)]
  BY DEF TypeOK, Send
<1>2. Range(Append(channel[c], e)) = Range(channel[c]) \cup {e}
  BY <1>1, RangeAppend
<1>3. channel' \in [Channels -> Seq(Events)]
  BY <1>1, AppendProperties DEF TypeOK
<1>4. \A d \in Channels : Range(channel'[d]) = IF d = c THEN Range(channel[d]) \cup {e}
                                                      ELSE Range(channel[d])
  BY <1>1, <1>2 DEF TypeOK
<1> QED BY <1>3, <1>4 DEF Waits

\* Handling the first event of a channel.
LEMMA TakeWaits ==
  ASSUME TypeOK, NEW c \in Channels, channel[c] # <<>>
  PROVE  LET e == Head(channel[c])
             rest == [channel EXCEPT ![c] = Tail(@)]
         IN  /\ e \in Events /\ Waits(c, e)
             /\ rest \in [Channels -> Seq(Events)]
             /\ Range(channel[c]) = {e} \cup Range(rest[c])
             /\ \A d \in Channels : d # c => rest[d] = channel[d]
<1>1. channel[c] \in Seq(Events)
  BY DEF TypeOK
<1>2. /\ Head(channel[c]) \in Events /\ Tail(channel[c]) \in Seq(Events)
      /\ Range(channel[c]) = {Head(channel[c])} \cup Range(Tail(channel[c]))
  BY <1>1, RangeTail
<1>3. [channel EXCEPT ![c] = Tail(@)] \in [Channels -> Seq(Events)]
  BY <1>2 DEF TypeOK
<1> QED BY <1>2, <1>3 DEF TypeOK, Waits

\* Publishing the answers of a ledger step.
LEMMA PublishWaits ==
  ASSUME NEW queues \in [Channels -> Seq(Events)], Publish(queues),
         answers' \subseteq Events, IsFiniteSet(answers')
  PROVE  /\ channel' \in [Channels -> Seq(Events)]
         /\ \A d \in Inboxes : channel'[d] = queues[d]
         /\ \A d \in Channels : \A f \in Range(channel'[d]) :
              \/ f \in Range(queues[d])
              \/ d \in DOMAIN Interests /\ f \in answers' /\ f.type \in Interests[d]
         /\ \A d \in Channels : Range(queues[d]) \subseteq Range(channel'[d])
         /\ \A d \in DOMAIN Interests : \A f \in answers' :
              f.type \in Interests[d] => f \in Range(channel'[d])
<1> DEFINE new(d) == {e \in answers' : e.type \in Interests[d]}
<1>1. ASSUME NEW d \in Channels
      PROVE  /\ SetToSeq(new(d)) \in Seq(Events)
             /\ Range(SetToSeq(new(d))) = new(d)
  <2>1. IsFiniteSet(new(d)) /\ new(d) \subseteq Events
    BY FS_Subset
  <2>2. SetToSeq(new(d)) \in Seq(new(d)) /\ Range(SetToSeq(new(d))) = new(d)
    BY <2>1, SetToSeqElements
  <2> HIDE DEF new
  <2> QED BY <2>1, <2>2, SeqMonotonic
<1>2. \A d \in Channels : channel'[d] = IF d \in DOMAIN Interests THEN queues[d] \o SetToSeq(new(d))
                                                              ELSE queues[d]
  BY DEF Publish
<1>3. DOMAIN channel' = Channels /\ channel' = [d \in Channels |-> channel'[d]]
  BY DEF Publish
<1>4. ASSUME NEW d \in Channels
      PROVE  /\ channel'[d] \in Seq(Events)
             /\ \A f \in Range(channel'[d]) :
                  \/ f \in Range(queues[d])
                  \/ d \in DOMAIN Interests /\ f \in answers' /\ f.type \in Interests[d]
             /\ Range(queues[d]) \subseteq Range(channel'[d])
             /\ d \in DOMAIN Interests => new(d) \subseteq Range(channel'[d])
  <2>1. CASE d \in DOMAIN Interests
    <3> DEFINE q == SetToSeq(new(d))
    <3>1. /\ q \in Seq(Events) /\ queues[d] \in Seq(Events) /\ Range(q) = new(d)
          /\ channel'[d] = queues[d] \o q
      BY <1>1, <1>2, <2>1
    <3> HIDE DEF q
    <3>2. queues[d] \o q \in Seq(Events) /\ Range(queues[d] \o q) = Range(queues[d]) \cup Range(q)
      BY <3>1, ConcatProperties, RangeConcatenation
    <3> QED BY <2>1, <3>1, <3>2
  <2>2. CASE d \notin DOMAIN Interests
    BY <1>2, <2>2
  <2> QED BY <2>1, <2>2
<1>5. /\ \A d \in Inboxes : d \in Channels /\ d \notin DOMAIN Interests
      /\ DOMAIN Interests \subseteq Channels
  BY InterestsOf DEF Inboxes, Channels
<1>6. \A d \in DOMAIN Interests : \A f \in answers' :
        f.type \in Interests[d] => f \in Range(channel'[d])
  BY <1>4, <1>5
<1> HIDE DEF new
<1> QED BY <1>2, <1>3, <1>4, <1>5, <1>6

-----------------------------------------------------------------------------
(***************************************************************************)
(* The ledger.                                                             *)
(***************************************************************************)
LedgerTypes ==
  /\ status \in [Reservations -> Ledger!Statuses]
  /\ shipment \in [Reservations -> Reservations \cup {None}]
  /\ overdue \subseteq {r \in Reservations : status[r] = "CONFIRMED"}
  /\ answers \subseteq Ledger!Answers

\* What a step of the ledger may do when it serves the ship requests of the
\* reservations of S: an outcome stays, what is announced is so, goods leave
\* only on request, and a refused request changes nothing.
LedgerStep(S) ==
  /\ LedgerTypes' /\ IsFiniteSet(answers')
  /\ \A r \in Reservations : status[r] \in Final => status'[r] = status[r]
  /\ \A f \in answers' : f.type \in Outcomes => status'[f.reservation] = Announced(f.type)
  /\ \A r \in Reservations : status'[r] = "COMPLETED" /\ status[r] # "COMPLETED" =>
       r \in S /\ status[r] = "CONFIRMED"
  /\ \A r \in Reservations : ShipRefusal(r) \in answers' => r \in S /\ status' = status

\* A reservation enters a status and one event tells it.
LEMMA EnterStep ==
  ASSUME TypeOK, NEW r \in Reservations, status[r] \in {"NONE", "CONFIRMED"},
         NEW type \in {"StockReserved"} \cup Outcomes,
         NEW new \in Ledger!Statuses, new = Announced(type),
         Ledger!Enter(r, new), Ledger!Answer(type, r),
         shipment' = shipment \/ shipment' = [shipment EXCEPT ![r] = r],
         NEW S, new = "COMPLETED" => r \in S /\ status[r] = "CONFIRMED"
  PROVE  LedgerStep(S)
<1>1. /\ status' \in [Reservations -> Ledger!Statuses] /\ status'[r] = new
      /\ \A q \in Reservations : q # r => status'[q] = status[q]
  BY DEF TypeOK, Ledger!Enter
<1>2. overdue' \subseteq {q \in Reservations : status'[q] = "CONFIRMED"}
  BY <1>1 DEF TypeOK, Ledger!Enter
<1>3. shipment' \in [Reservations -> Reservations \cup {None}]
  BY DEF TypeOK
<1>4. /\ answers' = {[type |-> type, reservation |-> r]}
      /\ answers' \subseteq Ledger!Answers /\ IsFiniteSet(answers')
  <2>1. type \in Ledger!AnswerTypes
    BY DEF Outcomes, Ledger!AnswerTypes
  <2>2. answers' = {[type |-> type, reservation |-> r]}
    BY DEF Ledger!Answer
  <2>3. answers' \subseteq Ledger!Answers
    BY <2>1, <2>2 DEF Ledger!Answers
  <2> QED BY <2>2, <2>3, FS_Singleton
<1>5. \A q \in Reservations : ShipRefusal(q) \notin answers'
  BY <1>4 DEF ShipRefusal, Event, Outcomes
<1>6. \A q \in Reservations : status[q] \in Final => status'[q] = status[q]
  BY <1>1 DEF Final
<1> QED BY <1>1, <1>2, <1>3, <1>4, <1>5, <1>6 DEF LedgerStep, LedgerTypes

\* The ledger refuses a request, or has answered it before.
LEMMA SameStep ==
  ASSUME TypeOK, UNCHANGED <<status, shipment, overdue>>, NEW S,
         \/ answers' = {}
         \/ \E r \in Reservations, type \in {"ReservationCancellationRejected", "ShipmentRejected"} :
              Ledger!Answer(type, r) /\ (type = "ShipmentRejected" => r \in S)
  PROVE  LedgerStep(S)
<1> DEFINE Refusals == /\ answers' \subseteq Ledger!Answers /\ IsFiniteSet(answers')
                       /\ \A f \in answers' : f.type \notin Outcomes
                       /\ \A r \in Reservations : ShipRefusal(r) \in answers' => r \in S
<1>1. CASE answers' = {}
  <2>1. Refusals
    BY <1>1, FS_EmptySet
  <2> QED BY <2>1 DEF LedgerStep, LedgerTypes, TypeOK
<1>2. ASSUME NEW r \in Reservations, NEW type \in {"ReservationCancellationRejected", "ShipmentRejected"},
             Ledger!Answer(type, r), type = "ShipmentRejected" => r \in S
      PROVE  LedgerStep(S)
  <2>1. answers' = {[type |-> type, reservation |-> r]} /\ IsFiniteSet(answers')
    BY <1>2, FS_Singleton DEF Ledger!Answer
  <2>2. Refusals
    BY <1>2, <2>1 DEF Ledger!Answers, Ledger!AnswerTypes, Outcomes, ShipRefusal, Event
  <2> QED BY <2>2 DEF LedgerStep, LedgerTypes, TypeOK
<1> QED BY <1>1, <1>2

\* The events a request or the expiry worker leads to.
LEMMA ServeStep ==
  ASSUME TypeOK, NEW e \in Events, Serve(e)
  PROVE  LedgerStep(IF e.type = "ShipmentRequested" THEN {e.reservation} ELSE {})
<1> DEFINE r == e.reservation
           S == IF e.type = "ShipmentRequested" THEN {r} ELSE {}
<1>1. r \in Reservations
  BY DEF Events
<1>2. /\ Announced("StockReserved") = "CONFIRMED" /\ Announced("ReservationRejected") = "REJECTED"
      /\ Announced("StockReservationCancelled") = "CANCELLED" /\ Announced("StockShipped") = "COMPLETED"
  BY DEF Announced
<1>3. {"CONFIRMED", "REJECTED", "CANCELLED", "COMPLETED"} \subseteq Ledger!Statuses
  BY DEF Ledger!Statuses
<1>4. CASE Ledger!Confirm(r)
  BY <1>1, <1>2, <1>3, <1>4, EnterStep DEF Ledger!Confirm
<1>5. CASE Ledger!Reject(r)
  BY <1>1, <1>2, <1>3, <1>5, EnterStep DEF Ledger!Reject, Outcomes
<1>6. CASE Ledger!Cancel(r)
  BY <1>1, <1>2, <1>3, <1>6, EnterStep DEF Ledger!Cancel, Outcomes
<1>7. CASE e.type = "ShipmentRequested" /\ Ledger!Ship(r, r)
  BY <1>1, <1>2, <1>3, <1>7, EnterStep DEF Ledger!Ship, Outcomes
<1>8. CASE Ledger!RejectCancel(r)
  BY <1>1, <1>8, SameStep DEF Ledger!RejectCancel
<1>9. CASE e.type = "ShipmentRequested" /\ Ledger!RejectShip(r, r)
  BY <1>1, <1>9, SameStep DEF Ledger!RejectShip
<1>10. CASE UNCHANGED overdue /\ Ledger!Quiet
  BY <1>10, SameStep DEF Ledger!Quiet
<1> QED BY <1>4, <1>5, <1>6, <1>7, <1>8, <1>9, <1>10 DEF Serve

LEMMA ExpireStep ==
  ASSUME TypeOK, NEW r \in Reservations, Ledger!Expire(r)
  PROVE  LedgerStep({})
<1>1. Announced("ReservationExpired") = "EXPIRED" /\ "EXPIRED" \in Ledger!Statuses
  BY DEF Announced, Ledger!Statuses
<1> QED BY <1>1, EnterStep DEF Ledger!Expire, Outcomes

-----------------------------------------------------------------------------
(***************************************************************************)
(* What keeps each part of the invariant.                                  *)
(***************************************************************************)
ShipInbox == "shipment>inventory"

\* A step of the ledger: requests of S are served, answers are under way.
LEMMA LedgerInv ==
  ASSUME Inv, NEW S, LedgerStep(S), UNCHANGED <<reservation, shipments>>, TypeOK', RequestedOnce',
         \A d \in Channels, f \in Events :
           Waits(d, f)' => Waits(d, f) \/ (d \in DOMAIN Interests /\ f \in answers' /\ f.type \in Interests[d]),
         \A r \in S \cap Reservations : Requested(r) /\ ~ Requested(r)'
  PROVE  Inv'
<1>1. \A r \in Reservations :
        /\ ShipRequest(r) \in Events /\ ShipRequest(r).type = "ShipmentRequested"
        /\ ShipRefusal(r) \in Events
  BY DEF Events, EventTypes, Requests, Ledger!AnswerTypes, ShipRequest, ShipRefusal, Event
<1>2. ShipInbox \in Channels /\ ShipInbox \notin DOMAIN Interests /\ "inventory>shipment" \in Channels
  BY InterestsOf DEF ShipInbox, Channels
<1>3. \A r \in Reservations : Requested(r)' => Requested(r)
  BY <1>1, <1>2 DEF Requested, ShipInbox
<1>4. \A r \in Reservations : Refused(r)' => Refused(r) \/ ShipRefusal(r) \in answers'
  BY <1>1, <1>2 DEF Refused
<1>5. /\ \A r \in Reservations : status[r] \in Final => status'[r] = status[r]
      /\ \A r \in Reservations : status'[r] = "COMPLETED" /\ status[r] # "COMPLETED" =>
           Requested(r) /\ ~ Requested(r)' /\ status[r] = "CONFIRMED"
      /\ \A r \in Reservations : ShipRefusal(r) \in answers' =>
           Requested(r) /\ ~ Requested(r)' /\ status'[r] = status[r]
  BY DEF LedgerStep
<1>6. Routed'
  <2>1. \A d \in DOMAIN Interests : Carries(d) = Interests[d]
    BY InterestsOf DEF Carries
  <2> QED BY <2>1 DEF Inv, Routed
<1>7. OutcomesTrue'
  <2>1. DOMAIN Interests \subseteq Channels
    BY InterestsOf DEF Channels
  <2>2. ASSUME NEW d \in DOMAIN Interests, NEW f \in Events, Waits(d, f)', f.type \in Outcomes
        PROVE  status'[f.reservation] = Announced(f.type)
    <3>1. CASE Waits(d, f)
      <4>1. status[f.reservation] = Announced(f.type)
        BY <2>2, <3>1 DEF Inv, OutcomesTrue
      <4>2. Announced(f.type) \in Final /\ f.reservation \in Reservations
        BY <2>2 DEF Announced, Outcomes, Final, Events
      <4> QED BY <1>5, <4>1, <4>2
    <3>2. CASE f \in answers'
      BY <2>2, <3>2 DEF LedgerStep
    <3> QED BY <2>1, <2>2, <3>1, <3>2
  <2> QED BY <2>2 DEF OutcomesTrue
<1>8. RequestedLate'
  BY <1>3, <1>4, <1>5 DEF Inv, RequestedLate
<1>9. RequestedShips'
  <2>1. \A r \in Reservations : status'[r] \in {"NONE", "CONFIRMED"} => status[r] \in {"NONE", "CONFIRMED"}
    BY <1>5 DEF Inv, TypeOK, Ledger!Statuses, Final
  <2> QED BY <1>3, <1>4, <1>5, <2>1 DEF Inv, RequestedShips
<1>10. RefusedStays'
  BY <1>3, <1>4, <1>5 DEF Inv, RefusedStays, RequestedShips
<1>11. ServicesAgree'
  <2>1. \A r \in Reservations : status'[r] = "COMPLETED" => shipments'[r] \in {"SHIPPING", "SHIPPED"}
    BY <1>5 DEF Inv, ServicesAgree, RequestedShips
  <2>2. \A r \in Reservations :
          /\ reservation'[r] \in Final => reservation'[r] = status'[r]
          /\ shipments'[r] = "SHIPPED" => status'[r] = "COMPLETED"
          /\ shipments'[r] = "CANCELLED" => status'[r] \in {"CANCELLED", "EXPIRED"}
    BY <1>5 DEF Inv, ServicesAgree, Final
  <2> QED BY <2>1, <2>2 DEF ServicesAgree
<1> QED BY <1>6, <1>7, <1>8, <1>9, <1>10, <1>11 DEF Inv

\* A step that leaves the ledger alone and requests no shipment.
LEMMA ServiceInv ==
  ASSUME Inv, status' = status, TypeOK', RequestedOnce', ServicesAgree',
         \A d \in Channels, f \in Events :
           Waits(d, f)' => Waits(d, f) \/ (d \in Inboxes /\ f.type \in Carries(d) \ {"ShipmentRequested"}),
         \A r \in Reservations :
           /\ shipments'[r] \in Unrequested => shipments[r] \in Unrequested
           /\ shipments[r] = "SHIPPING" /\ shipments'[r] # "SHIPPING" =>
                ~ Requested(r) \/ status[r] \notin {"NONE", "CONFIRMED"}
  PROVE  Inv'
<1>1. \A r \in Reservations :
        /\ ShipRequest(r) \in Events /\ ShipRequest(r).type = "ShipmentRequested"
        /\ ShipRefusal(r) \in Events
  BY DEF Events, EventTypes, Requests, Ledger!AnswerTypes, ShipRequest, ShipRefusal, Event
<1>2. /\ ShipInbox \in Channels /\ "inventory>shipment" \in Channels
      /\ "inventory>shipment" \notin Inboxes /\ \A d \in DOMAIN Interests : d \in Channels \ Inboxes
  BY InterestsOf DEF ShipInbox, Channels, Inboxes
<1>3. \A r \in Reservations : (Requested(r)' => Requested(r)) /\ (Refused(r)' => Refused(r))
  BY <1>1, <1>2 DEF Requested, Refused, ShipInbox
<1>4. Routed' /\ OutcomesTrue'
  BY <1>2 DEF Inv, Routed, OutcomesTrue
<1>5. RequestedLate' /\ RequestedShips' /\ RefusedStays'
  BY <1>3 DEF Inv, RequestedLate, RequestedShips, RefusedStays
<1> QED BY <1>4, <1>5 DEF Inv

\* Nothing about ship requests changes, or another event joins their queue.
LEMMA OnceKept ==
  ASSUME TypeOK, RequestedOnce, parked' = parked,
         \/ channel'[ShipInbox] = channel[ShipInbox]
         \/ \E e \in Events :
              e.type # "ShipmentRequested" /\ channel'[ShipInbox] = Append(channel[ShipInbox], e)
  PROVE  RequestedOnce'
<1>1. CASE channel'[ShipInbox] = channel[ShipInbox]
  BY <1>1 DEF RequestedOnce, ShipInbox
<1>2. ASSUME NEW e \in Events, e.type # "ShipmentRequested",
             channel'[ShipInbox] = Append(channel[ShipInbox], e)
      PROVE  RequestedOnce'
  <2>1. channel[ShipInbox] \in Seq(Events)
    BY DEF TypeOK, ShipInbox, Channels
  <2>2. Range(channel'[ShipInbox]) = Range(channel[ShipInbox]) \cup {e}
    BY <1>2, <2>1, RangeAppend
  <2>3. \A r \in Reservations : e # ShipRequest(r)
    BY <1>2 DEF ShipRequest, Event
  <2>4. \A r \in Reservations : Once(channel[ShipInbox], {ShipRequest(r)})
    BY DEF RequestedOnce, ShipInbox
  <2>5. \A r \in Reservations : Once(channel'[ShipInbox], {ShipRequest(r)})
    BY <1>2, <2>1, <2>3, <2>4, OnceAppend
  <2> QED BY <2>2, <2>3, <2>5 DEF RequestedOnce, ShipInbox
<1> QED BY <1>1, <1>2

\* A client's command other than ship records one request.
LEMMA CommandSent ==
  ASSUME Inv, NEW c \in Inboxes, NEW r \in Reservations,
         NEW type \in Carries(c) \ {"ShipmentRequested"},
         Send(c, Event(type, r)), parked' = parked
  PROVE  /\ channel' \in [Channels -> Seq(Events)]
         /\ RequestedOnce'
         /\ \A d \in Channels, f \in Events :
              Waits(d, f)' => Waits(d, f) \/ (d \in Inboxes /\ f.type \in Carries(d) \ {"ShipmentRequested"})
<1>1. c \in Channels /\ ShipInbox \in Channels
  BY DEF Inboxes, Channels, ShipInbox
<1>2. /\ Event(type, r) \in Events /\ Event(type, r).type = type
      /\ type # "ShipmentRequested"
  BY DEF Events, EventTypes, Requests, Event, Carries, Inboxes
<1>3. /\ channel' \in [Channels -> Seq(Events)]
      /\ \A d \in Channels, f \in Events :
           Waits(d, f)' <=> Waits(d, f) \/ (d = c /\ f = Event(type, r))
  BY <1>1, <1>2, SendWaits DEF Inv
<1>4. channel' = [channel EXCEPT ![c] = Append(@, Event(type, r))]
  BY DEF Send
<1>5. RequestedOnce'
  <2>1. CASE c = ShipInbox
    <3>1. channel'[ShipInbox] = Append(channel[ShipInbox], Event(type, r))
      BY <1>1, <1>4, <2>1 DEF Inv, TypeOK
    <3> QED BY <1>2, <3>1, OnceKept DEF Inv
  <2>2. CASE c # ShipInbox
    <3>1. channel'[ShipInbox] = channel[ShipInbox]
      BY <1>1, <1>4, <2>2 DEF Inv, TypeOK
    <3> QED BY <3>1, OnceKept DEF Inv
  <2> QED BY <2>1, <2>2
<1> QED BY <1>2, <1>3, <1>5

\* The first event of a service's own channel is handled.
LEMMA EventTaken ==
  ASSUME Inv, NEW c \in DOMAIN Interests, channel[c] # <<>>,
         channel' = [channel EXCEPT ![c] = Tail(@)], parked' = parked
  PROVE  /\ Head(channel[c]) \in Events /\ Waits(c, Head(channel[c]))
         /\ Head(channel[c]).type \in Interests[c]
         /\ Head(channel[c]).type \in Outcomes =>
              status[Head(channel[c]).reservation] = Announced(Head(channel[c]).type)
         /\ channel' \in [Channels -> Seq(Events)]
         /\ RequestedOnce'
         /\ \A d \in Channels, f \in Events : Waits(d, f)' => Waits(d, f)
<1>1. c \in Channels /\ c # ShipInbox /\ ShipInbox \in Channels /\ Carries(c) = Interests[c]
  BY InterestsOf DEF Channels, ShipInbox, Carries
<1>2. /\ Head(channel[c]) \in Events /\ Waits(c, Head(channel[c]))
      /\ channel' \in [Channels -> Seq(Events)]
      /\ Range(channel[c]) = {Head(channel[c])} \cup Range(channel'[c])
      /\ \A d \in Channels : d # c => channel'[d] = channel[d]
  BY <1>1, TakeWaits DEF Inv
<1>3. \A d \in Channels, f \in Events : Waits(d, f)' => Waits(d, f)
  BY <1>2 DEF Waits
<1>4. RequestedOnce'
  BY <1>1, <1>2, OnceKept DEF Inv
<1>5. /\ Head(channel[c]).type \in Interests[c]
      /\ Head(channel[c]).type \in Outcomes =>
           status[Head(channel[c]).reservation] = Announced(Head(channel[c]).type)
  BY <1>1, <1>2 DEF Inv, Routed, OutcomesTrue
<1> QED BY <1>2, <1>3, <1>4, <1>5

-----------------------------------------------------------------------------
(***************************************************************************)
(* The actions.                                                            *)
(***************************************************************************)
LEMMA InitInv == Init => Inv
<1> SUFFICES ASSUME Init PROVE Inv
  OBVIOUS
<1>1. /\ channel = [c \in Channels |-> <<>>] /\ parked = <<>>
      /\ Range(<<>>) = {}
  BY DEF Init, Range
<1>2. \A c \in Channels, e \in Events : ~ Waits(c, e)
  BY <1>1 DEF Waits
<1>3. TypeOK
  <2>1. channel \in [Channels -> Seq(Events)] /\ parked \in Seq(Parked)
    BY <1>1, EmptySeq
  <2> QED BY <2>1, SagaAssumption DEF Init, Ledger!Init, TypeOK, Ledger!Statuses, ReservationStatuses,
                                   ShipmentStatuses, Parked
<1>4. Routed /\ OutcomesTrue
  <2>1. DOMAIN Interests \subseteq Channels
    BY InterestsOf DEF Channels
  <2> QED BY <1>2, <2>1 DEF Routed, OutcomesTrue
<1>5. RequestedOnce
  BY <1>1 DEF RequestedOnce, Once, Channels
<1>6. \A r \in Reservations : ~ Requested(r) /\ ~ Refused(r)
  <2>1. \A r \in Reservations : ShipRequest(r) \in Events /\ ShipRefusal(r) \in Events
    BY DEF Events, EventTypes, Requests, Ledger!AnswerTypes, ShipRequest, ShipRefusal, Event
  <2> QED BY <1>2, <2>1 DEF Requested, Refused, Channels
<1>7. \A r \in Reservations : status[r] = "NONE" /\ reservation[r] = "NONE" /\ shipments[r] = "NONE"
  BY DEF Init, Ledger!Init
<1>8. RequestedLate /\ RequestedShips /\ RefusedStays
  BY <1>6, <1>7 DEF RequestedLate, RequestedShips, RefusedStays
<1>9. ServicesAgree
  BY <1>7 DEF ServicesAgree, Final
<1> QED BY <1>3, <1>4, <1>5, <1>8, <1>9 DEF Inv

\* Commands of the reservation service.
LEMMA ReservationClientInv ==
  ASSUME Inv, NEW r \in Reservations, CreateReservation(r) \/ CancelReservation(r)
  PROVE  Inv'
<1>1. PICK type \in Carries("reservation>inventory") \ {"ShipmentRequested"} :
        Send("reservation>inventory", Event(type, r))
  BY DEF CreateReservation, CancelReservation, Carries
<1>2. UNCHANGED <<ledgerVars, shipments, looked, parked, failures>>
  BY DEF CreateReservation, CancelReservation
<1>3. "reservation>inventory" \in Inboxes
  BY DEF Inboxes
<1>4. /\ channel' \in [Channels -> Seq(Events)]
      /\ RequestedOnce'
      /\ \A d \in Channels, f \in Events :
           Waits(d, f)' => Waits(d, f) \/ (d \in Inboxes /\ f.type \in Carries(d) \ {"ShipmentRequested"})
  BY <1>1, <1>2, <1>3, CommandSent
<1>5. /\ reservation' \in [Reservations -> ReservationStatuses]
      /\ \A q \in Reservations : reservation'[q] = reservation[q] \/ reservation'[q] \notin Final
  BY DEF CreateReservation, CancelReservation, Inv, TypeOK, ReservationStatuses, Final
<1>6. TypeOK'
  BY <1>2, <1>4, <1>5 DEF Inv, TypeOK, ledgerVars
<1>7. ServicesAgree'
  BY <1>2, <1>5 DEF Inv, ServicesAgree, ledgerVars
<1> QED BY <1>2, <1>4, <1>6, <1>7, ServiceInv DEF ledgerVars

\* The reservation service hears from the inventory.
LEMMA ReservationHandlesInv ==
  ASSUME Inv, ReservationHandles
  PROVE  Inv'
<1> DEFINE c == "inventory>reservation"
           e == Head(channel[c])
<1>1. /\ channel[c] # <<>> /\ channel' = [channel EXCEPT ![c] = Tail(@)]
      /\ reservation' = [reservation EXCEPT ![e.reservation] = ReservationAfter(@, e.type)]
      /\ UNCHANGED <<ledgerVars, shipments, looked, parked, failures>>
  BY DEF ReservationHandles
<1>2. c \in DOMAIN Interests
  BY InterestsOf
<1>3. /\ e \in Events /\ e.type \in Interests[c]
      /\ e.type \in Outcomes => status[e.reservation] = Announced(e.type)
      /\ channel' \in [Channels -> Seq(Events)]
      /\ RequestedOnce'
      /\ \A d \in Channels, f \in Events : Waits(d, f)' => Waits(d, f)
  BY <1>1, <1>2, EventTaken
<1> HIDE DEF c, e
<1>4. /\ e.reservation \in Reservations
      /\ e.type \in {"StockReserved"} \cup Outcomes
  BY <1>3, InterestsOf DEF Events, Outcomes, c
<1> DEFINE old == reservation[e.reservation]
           new == ReservationAfter(old, e.type)
<1>5. /\ new \in ReservationStatuses
      /\ new \in Final => new = old \/ (e.type \in Outcomes /\ new = Announced(e.type))
  <2>1. old \in ReservationStatuses
    BY <1>4 DEF Inv, TypeOK
  <2>2. /\ Announced(e.type) \in ReservationStatuses
        /\ e.type = "StockReserved" => Announced(e.type) \notin Final
    BY <1>4 DEF Announced, ReservationStatuses, Outcomes, Final
  <2> QED BY <1>4, <2>1, <2>2 DEF ReservationAfter
<1>6. \A q \in Reservations : reservation'[q] = IF q = e.reservation THEN new ELSE reservation[q]
  BY <1>1, <1>4 DEF Inv, TypeOK
<1>7. reservation' \in [Reservations -> ReservationStatuses]
  BY <1>1, <1>4, <1>5 DEF Inv, TypeOK
<1> HIDE DEF old, new
<1>8. ServicesAgree'
  BY <1>1, <1>3, <1>4, <1>5, <1>6 DEF Inv, ServicesAgree, ledgerVars, old
<1>9. TypeOK'
  BY <1>1, <1>3, <1>7 DEF Inv, TypeOK, ledgerVars
<1> QED BY <1>1, <1>3, <1>8, <1>9, ServiceInv DEF ledgerVars

\* The shipment service without a request: no queue changes, and a shipment
\* that was not requested is not requested yet.
LEMMA PrepareInv ==
  ASSUME Inv, NEW r \in Reservations, LookUp(r) \/ CreateShipment(r) \/ Prepare(r)
  PROVE  Inv'
<1>1. /\ UNCHANGED <<ledgerVars, reservation, channel, parked, failures>>
      /\ looked' \subseteq Reservations
  BY DEF LookUp, CreateShipment, Prepare, Inv, TypeOK
<1>2. /\ shipments' \in [Reservations -> ShipmentStatuses]
      /\ \A q \in Reservations :
           shipments'[q] = shipments[q] \/ (shipments[q] \in Unrequested /\ shipments'[q] \in Unrequested)
  <2>1. CASE LookUp(r)
    BY <2>1 DEF LookUp, Inv, TypeOK
  <2>2. CASE CreateShipment(r)
    BY <2>2 DEF CreateShipment, Inv, TypeOK, ShipmentStatuses, Unrequested
  <2>3. CASE Prepare(r)
    BY <2>3 DEF Prepare, Inv, TypeOK, ShipmentStatuses, Unrequested
  <2> QED BY <2>1, <2>2, <2>3
<1>3. TypeOK'
  BY <1>1, <1>2 DEF Inv, TypeOK, ledgerVars
<1>4. RequestedOnce'
  BY <1>1, OnceKept DEF Inv
<1>5. ServicesAgree'
  BY <1>1, <1>2 DEF Inv, ServicesAgree, RequestedLate, Unrequested, ledgerVars
<1>6. \A d \in Channels, f \in Events : Waits(d, f)' => Waits(d, f)
  BY <1>1 DEF Waits
<1>7. \A q \in Reservations :
        /\ shipments'[q] \in Unrequested => shipments[q] \in Unrequested
        /\ ~ (shipments[q] = "SHIPPING" /\ shipments'[q] # "SHIPPING")
  BY <1>2 DEF Unrequested
<1> QED BY <1>1, <1>3, <1>4, <1>5, <1>6, <1>7, ServiceInv DEF ledgerVars

\* A shipment that is not under way is cancelled.
LEMMA CancelShipmentInv ==
  ASSUME Inv, NEW r \in Reservations, CancelShipment(r)
  PROVE  Inv'
<1>1. /\ Send(ShipInbox, Event("ReservationCancellationRequested", r))
      /\ shipments[r] \notin {"NONE", "SHIPPING", "SHIPPED", "CANCELLED"}
      /\ shipments' = [shipments EXCEPT ![r] = "CANCELLING"]
      /\ UNCHANGED <<ledgerVars, reservation, looked, parked, failures>>
  BY DEF CancelShipment, ShipInbox
<1>2. /\ ShipInbox \in Inboxes
      /\ "ReservationCancellationRequested" \in Carries(ShipInbox) \ {"ShipmentRequested"}
  BY DEF ShipInbox, Inboxes, Carries
<1>3. /\ channel' \in [Channels -> Seq(Events)]
      /\ RequestedOnce'
      /\ \A d \in Channels, f \in Events :
           Waits(d, f)' => Waits(d, f) \/ (d \in Inboxes /\ f.type \in Carries(d) \ {"ShipmentRequested"})
  BY <1>1, <1>2, CommandSent
<1>4. \A q \in Reservations : shipments'[q] = IF q = r THEN "CANCELLING" ELSE shipments[q]
  BY <1>1 DEF Inv, TypeOK
<1>5. TypeOK'
  BY <1>1, <1>3 DEF Inv, TypeOK, ShipmentStatuses, ledgerVars
<1>6. ServicesAgree'
  BY <1>1, <1>4 DEF Inv, ServicesAgree, ledgerVars
<1>7. \A q \in Reservations :
        /\ shipments'[q] \in Unrequested => shipments[q] \in Unrequested
        /\ ~ (shipments[q] = "SHIPPING" /\ shipments'[q] # "SHIPPING")
  BY <1>1, <1>4 DEF Unrequested
<1> QED BY <1>1, <1>3, <1>5, <1>6, <1>7, ServiceInv DEF ledgerVars

\* The shipment service hears from the inventory. A shipment whose request may
\* still be granted stays SHIPPING: nothing that says otherwise is under way.
LEMMA ShipmentHandlesInv ==
  ASSUME Inv, ShipmentHandles
  PROVE  Inv'
<1> DEFINE c == "inventory>shipment"
           e == Head(channel[c])
<1>1. /\ channel[c] # <<>> /\ channel' = [channel EXCEPT ![c] = Tail(@)]
      /\ shipments' = [shipments EXCEPT ![e.reservation] = ShipmentAfter(@, e.type)]
      /\ UNCHANGED <<ledgerVars, reservation, looked, parked, failures>>
  BY DEF ShipmentHandles
<1>2. c \in DOMAIN Interests
  BY InterestsOf
<1>3. /\ e \in Events /\ Waits(c, e) /\ e.type \in Interests[c]
      /\ e.type \in Outcomes => status[e.reservation] = Announced(e.type)
      /\ channel' \in [Channels -> Seq(Events)]
      /\ RequestedOnce'
      /\ \A d \in Channels, f \in Events : Waits(d, f)' => Waits(d, f)
  BY <1>1, <1>2, EventTaken
<1> DEFINE r == e.reservation
           old == shipments[r]
           new == ShipmentAfter(old, e.type)
<1>4. Refused(r) \/ e.type # "ShipmentRejected"
  BY <1>3 DEF Refused, ShipRefusal, Event, Events
<1> HIDE DEF c, e
<1>5. /\ r \in Reservations
      /\ e.type \in {"StockShipped", "ShipmentRejected", "StockReservationCancelled", "ReservationExpired"}
  BY <1>3, InterestsOf DEF Events, c
<1>6. /\ e.type = "StockShipped" => status[r] = "COMPLETED"
      /\ e.type = "StockReservationCancelled" => status[r] = "CANCELLED"
      /\ e.type = "ReservationExpired" => status[r] = "EXPIRED"
      /\ e.type = "ShipmentRejected" => Refused(r) /\ status[r] # "COMPLETED" /\ ~ Requested(r)
  BY <1>3, <1>4, <1>5 DEF Outcomes, Announced, Inv, RefusedStays, RequestedShips
<1>7. /\ \A q \in Reservations : shipments'[q] = IF q = r THEN new ELSE shipments[q]
      /\ old \in ShipmentStatuses
  BY <1>1, <1>5 DEF Inv, TypeOK
<1>8. /\ new \in ShipmentStatuses
      /\ new \in Unrequested => old = "NONE"
      /\ old = "NONE" => new = "NONE"
      /\ old # "NONE" =>
           \/ new = "SHIPPED" /\ (e.type = "StockShipped" \/ old = "SHIPPED")
           \/ new = "FAILED" /\ e.type = "ShipmentRejected"
           \/ new = "CANCELLED" /\ e.type \in {"StockReservationCancelled", "ReservationExpired"} /\ old # "SHIPPED"
  <2> HIDE DEF old, r
  <2>1. new = ShipmentAfter(old, e.type)
    OBVIOUS
  <2> HIDE DEF new
  <2>2. CASE old = "NONE"
    <3>1. new = "NONE"
      BY <2>1, <2>2 DEF ShipmentAfter
    <3> QED BY <2>2, <3>1 DEF ShipmentStatuses
  <2>3. CASE old # "NONE"
    <3>1. \/ new = "SHIPPED" /\ (e.type = "StockShipped" \/ old = "SHIPPED")
          \/ new = "FAILED" /\ e.type = "ShipmentRejected"
          \/ new = "CANCELLED" /\ e.type \in {"StockReservationCancelled", "ReservationExpired"} /\ old # "SHIPPED"
      BY <1>5, <2>1, <2>3 DEF ShipmentAfter
    <3> QED BY <2>3, <3>1 DEF ShipmentStatuses, Unrequested
  <2> QED BY <2>2, <2>3
<1>9. shipments' \in [Reservations -> ShipmentStatuses]
  BY <1>1, <1>5, <1>8 DEF Inv, TypeOK
<1> HIDE DEF r, old, new
<1>10. ServicesAgree'
  BY <1>1, <1>5, <1>6, <1>7, <1>8 DEF Inv, ServicesAgree, ledgerVars, old
<1>11. TypeOK'
  BY <1>1, <1>3, <1>9 DEF Inv, TypeOK, ledgerVars
<1>12. \A q \in Reservations :
         /\ shipments'[q] \in Unrequested => shipments[q] \in Unrequested
         /\ shipments[q] = "SHIPPING" /\ shipments'[q] # "SHIPPING" =>
              ~ Requested(q) \/ status[q] \notin {"NONE", "CONFIRMED"}
  BY <1>5, <1>6, <1>7, <1>8 DEF Unrequested, old, Inv, RequestedShips
<1> QED BY <1>1, <1>3, <1>10, <1>11, <1>12, ServiceInv DEF ledgerVars

\* The shipment is requested, for the first time.
LEMMA RequestShipInv ==
  ASSUME Inv, NEW r \in Reservations, RequestShip(r)
  PROVE  Inv'
<1> DEFINE e == ShipRequest(r)
<1>1. /\ shipments[r] \in {"PACKED", "READY_FOR_SHIPMENT"}
      /\ shipments' = [shipments EXCEPT ![r] = "SHIPPING"]
      /\ Send(ShipInbox, e)
      /\ UNCHANGED <<ledgerVars, reservation, looked, parked, failures>>
  BY DEF RequestShip, ShipInbox, ShipRequest
<1>2. /\ ShipInbox \in Channels /\ "inventory>shipment" \in Channels
      /\ \A d \in DOMAIN Interests : d \in Channels /\ d # ShipInbox
      /\ e \in Events /\ e.type = "ShipmentRequested" /\ e.type \in Carries(ShipInbox)
      /\ \A q \in Reservations :
           /\ ShipRequest(q) \in Events /\ ShipRefusal(q) \in Events
           /\ ShipRequest(q) = e => q = r
  BY InterestsOf DEF ShipInbox, Channels, Events, EventTypes, Requests, Ledger!AnswerTypes, ShipRequest,
                     ShipRefusal, Event, Carries
<1>3. /\ ~ Requested(r) /\ ~ Refused(r) /\ status[r] # "COMPLETED"
      /\ shipments[r] \in Unrequested
  BY <1>1 DEF Inv, RequestedLate, Unrequested
<1>4. /\ channel' \in [Channels -> Seq(Events)]
      /\ \A d \in Channels, f \in Events : Waits(d, f)' <=> Waits(d, f) \/ (d = ShipInbox /\ f = e)
  BY <1>1, <1>2, SendWaits DEF Inv
<1>5. RequestedOnce'
  <2>1. channel'[ShipInbox] = Append(channel[ShipInbox], e) /\ channel[ShipInbox] \in Seq(Events)
    BY <1>1, <1>2 DEF Send, Inv, TypeOK
  <2>2. Range(channel'[ShipInbox]) = Range(channel[ShipInbox]) \cup {e}
    BY <1>2, <2>1, RangeAppend
  <2>3. e \notin Range(channel[ShipInbox]) /\ [channel |-> ShipInbox, event |-> e] \notin Range(parked)
    BY <1>3 DEF Requested, Waits, ShipInbox
  <2>4. \A q \in Reservations : Once(channel[ShipInbox], {ShipRequest(q)})
    BY DEF Inv, RequestedOnce, ShipInbox
  <2>5. \A q \in Reservations : Once(channel'[ShipInbox], {ShipRequest(q)})
    BY <1>2, <2>1, <2>3, <2>4, OnceAppend
  <2> HIDE DEF e
  <2> QED BY <1>1, <1>2, <2>2, <2>3, <2>5 DEF Inv, RequestedOnce, ShipInbox
<1> HIDE DEF e
<1>6. \A q \in Reservations :
        /\ Requested(q)' => Requested(q) \/ q = r
        /\ Refused(q)' => Refused(q)
  <2>1. \A q \in Reservations : Waits(ShipInbox, ShipRequest(q))' => Waits(ShipInbox, ShipRequest(q)) \/ q = r
    BY <1>2, <1>4
  <2>2. \A q \in Reservations :
          Waits("inventory>shipment", ShipRefusal(q))' => Waits("inventory>shipment", ShipRefusal(q))
    BY <1>2, <1>4 DEF ShipInbox
  <2> QED BY <2>1, <2>2 DEF Requested, Refused, ShipInbox
<1>7. \A q \in Reservations : shipments'[q] = IF q = r THEN "SHIPPING" ELSE shipments[q]
  BY <1>1 DEF Inv, TypeOK
<1>8. TypeOK'
  BY <1>1, <1>4 DEF Inv, TypeOK, ShipmentStatuses, ledgerVars
<1>9. Routed'
  BY <1>2, <1>4 DEF Inv, Routed
<1>10. OutcomesTrue'
  BY <1>1, <1>2, <1>4 DEF Inv, OutcomesTrue, ledgerVars
<1>11. RequestedLate' /\ RequestedShips' /\ RefusedStays'
  BY <1>1, <1>3, <1>6, <1>7 DEF Inv, RequestedLate, RequestedShips, RefusedStays, Unrequested, ledgerVars
<1>12. ServicesAgree'
  BY <1>1, <1>3, <1>7 DEF Inv, ServicesAgree, ledgerVars
<1> QED BY <1>5, <1>8, <1>9, <1>10, <1>11, <1>12 DEF Inv

\* The inventory serves a request.
LEMMA InventoryHandlesInv ==
  ASSUME Inv, NEW c \in Channels, InventoryHandles(c)
  PROVE  Inv'
<1> DEFINE e == Head(channel[c])
           rest == [channel EXCEPT ![c] = Tail(@)]
           S == IF e.type = "ShipmentRequested" THEN {e.reservation} ELSE {}
<1>1. /\ c \in Inboxes /\ channel[c] # <<>> /\ Serve(e) /\ Publish(rest)
      /\ UNCHANGED <<reservation, shipments, looked, parked, failures>>
  BY DEF InventoryHandles
<1>2. /\ e \in Events /\ Waits(c, e)
      /\ rest \in [Channels -> Seq(Events)]
      /\ Range(channel[c]) = {e} \cup Range(rest[c])
      /\ \A d \in Channels : d # c => rest[d] = channel[d]
      /\ rest[c] = Tail(channel[c])
  BY <1>1, TakeWaits DEF Inv, TypeOK
<1> HIDE DEF e, rest
<1>3. LedgerStep(S)
  BY <1>1, <1>2, ServeStep DEF Inv
<1>4. answers' \subseteq Events /\ IsFiniteSet(answers')
  BY <1>3 DEF LedgerStep, LedgerTypes, Ledger!Answers, Events, EventTypes
<1>5. /\ channel' \in [Channels -> Seq(Events)]
      /\ \A d \in Inboxes : channel'[d] = rest[d]
      /\ \A d \in Channels : \A f \in Range(channel'[d]) :
           \/ f \in Range(rest[d])
           \/ d \in DOMAIN Interests /\ f \in answers' /\ f.type \in Interests[d]
  BY <1>1, <1>2, <1>4, PublishWaits
<1>6. \A d \in Channels, f \in Events :
        Waits(d, f)' =>
          Waits(d, f) \/ (d \in DOMAIN Interests /\ f \in answers' /\ f.type \in Interests[d])
  <2>1. \A d \in Channels : Range(rest[d]) \subseteq Range(channel[d])
    BY <1>2
  <2> QED BY <1>1, <1>5, <2>1 DEF Waits
<1>7. /\ ShipInbox \in Inboxes /\ channel[ShipInbox] \in Seq(Events)
      /\ channel'[ShipInbox] = IF c = ShipInbox THEN Tail(channel[ShipInbox]) ELSE channel[ShipInbox]
  BY <1>1, <1>2, <1>5 DEF ShipInbox, Inboxes, Channels, Inv, TypeOK
<1>8. \A r \in Reservations :
        /\ Once(channel[ShipInbox], {ShipRequest(r)})
        /\ Once(channel'[ShipInbox], {ShipRequest(r)})
        /\ Range(channel'[ShipInbox]) \subseteq Range(channel[ShipInbox])
  <2>1. \A r \in Reservations : Once(channel[ShipInbox], {ShipRequest(r)})
    BY DEF Inv, RequestedOnce, ShipInbox
  <2>2. CASE c = ShipInbox
    <3>1. /\ channel[ShipInbox] # <<>> /\ channel'[ShipInbox] = Tail(channel[ShipInbox])
          /\ Range(channel'[ShipInbox]) \subseteq Range(channel[ShipInbox])
      BY <1>1, <1>2, <1>7, <2>2
    <3> QED BY <1>7, <2>1, <3>1, OnceTail
  <2>3. CASE c # ShipInbox
    BY <1>7, <2>1, <2>3
  <2> QED BY <2>1, <2>2, <2>3
<1>9. RequestedOnce'
  BY <1>1, <1>8 DEF Inv, RequestedOnce, ShipInbox
<1>10. \A r \in S \cap Reservations : Requested(r) /\ ~ Requested(r)'
  <2>1. SUFFICES ASSUME NEW r \in Reservations, e.type = "ShipmentRequested", r = e.reservation
                 PROVE  Requested(r) /\ ~ Requested(r)'
    OBVIOUS
  <2>2. e = ShipRequest(r)
    BY <1>2, <2>1 DEF Events, ShipRequest, Event
  <2>3. c = ShipInbox
    BY <1>1, <1>2, <2>1 DEF Inv, Routed, Carries, Inboxes, ShipInbox, Channels
  <2>4. Requested(r) /\ ShipRequest(r) \in Range(channel[ShipInbox])
    BY <1>2, <2>2, <2>3 DEF Requested, ShipInbox
  <2>5. ShipRequest(r) \notin Range(channel'[ShipInbox])
    BY <1>1, <1>7, <1>8, <2>2, <2>3, OnceTail DEF e
  <2>6. [channel |-> ShipInbox, event |-> ShipRequest(r)] \notin Range(parked)
    BY <2>4 DEF Inv, RequestedOnce, ShipInbox
  <2> QED BY <1>1, <2>4, <2>5, <2>6 DEF Requested, Waits, ShipInbox
<1>11. TypeOK'
  BY <1>1, <1>3, <1>5 DEF Inv, TypeOK, LedgerStep, LedgerTypes
<1> HIDE DEF S
<1> QED BY <1>1, <1>3, <1>6, <1>9, <1>10, <1>11, LedgerInv

\* The expiry worker.
LEMMA ExpiryInv ==
  ASSUME Inv, NEW r \in Reservations, ExpiryWorker(r)
  PROVE  Inv'
<1>1. /\ Ledger!Expire(r) /\ Publish(channel)
      /\ UNCHANGED <<reservation, shipments, looked, parked, failures>>
  BY DEF ExpiryWorker
<1>2. LedgerStep({})
  BY <1>1, ExpireStep DEF Inv
<1>3. answers' \subseteq Events /\ IsFiniteSet(answers')
  BY <1>2 DEF LedgerStep, LedgerTypes, Ledger!Answers, Events, EventTypes
<1>4. /\ channel' \in [Channels -> Seq(Events)]
      /\ \A d \in Inboxes : channel'[d] = channel[d]
      /\ \A d \in Channels : \A f \in Range(channel'[d]) :
           \/ f \in Range(channel[d])
           \/ d \in DOMAIN Interests /\ f \in answers' /\ f.type \in Interests[d]
  BY <1>1, <1>3, PublishWaits DEF Inv, TypeOK
<1>5. \A d \in Channels, f \in Events :
        Waits(d, f)' =>
          Waits(d, f) \/ (d \in DOMAIN Interests /\ f \in answers' /\ f.type \in Interests[d])
  BY <1>1, <1>4 DEF Waits
<1>6. RequestedOnce'
  BY <1>1, <1>4, OnceKept DEF Inv, Inboxes, ShipInbox
<1>7. TypeOK'
  BY <1>1, <1>2, <1>4 DEF Inv, TypeOK, LedgerStep, LedgerTypes
<1> QED BY <1>1, <1>2, <1>5, <1>6, <1>7, LedgerInv

\* Time passes.
LEMMA ElapseInv ==
  ASSUME Inv, NEW r \in Reservations, Elapse(r)
  PROVE  Inv'
<1>1. /\ status[r] = "CONFIRMED" /\ overdue' = overdue \cup {r} /\ answers' = {}
      /\ UNCHANGED <<status, shipment, reservation, shipments, looked, channel, parked, failures>>
  BY DEF Elapse, Ledger!Quiet
<1>2. TypeOK'
  BY <1>1 DEF Inv, TypeOK
<1>3. RequestedOnce'
  BY <1>1, OnceKept DEF Inv
<1>4. ServicesAgree'
  BY <1>1 DEF Inv, ServicesAgree
<1>5. \A d \in Channels, f \in Events : Waits(d, f)' => Waits(d, f)
  BY <1>1 DEF Waits
<1> QED BY <1>1, <1>2, <1>3, <1>4, <1>5, ServiceInv

\* An event is parked: it waits elsewhere.
LEMMA ParkInv ==
  ASSUME Inv, NEW c \in Channels, Park(c)
  PROVE  Inv'
<1> DEFINE e == Head(channel[c])
           x == [channel |-> c, event |-> e]
<1>1. /\ channel[c] # <<>> /\ parked' = Append(parked, x)
      /\ channel' = [channel EXCEPT ![c] = Tail(@)]
      /\ UNCHANGED <<ledgerVars, reservation, shipments, looked>>
      /\ failures' \in 0 .. MaxFailures
  BY SagaAssumption DEF Park, Inv, TypeOK
<1>2. /\ e \in Events
      /\ channel' \in [Channels -> Seq(Events)]
      /\ Range(channel[c]) = {e} \cup Range(channel'[c])
      /\ \A d \in Channels : d # c => channel'[d] = channel[d]
      /\ channel'[c] = Tail(channel[c])
  BY <1>1, TakeWaits DEF Inv, TypeOK
<1>3. x \in Parked /\ parked \in Seq(Parked)
  BY <1>2 DEF Parked, Inv, TypeOK
<1>4. parked' \in Seq(Parked) /\ Range(parked') = Range(parked) \cup {x}
  BY <1>1, <1>3, AppendProperties, RangeAppend
<1>5. \A d \in Channels, f \in Events : Waits(d, f)' => Waits(d, f)
  <2> HIDE DEF e
  <2> QED BY <1>2, <1>4 DEF Waits
<1>6. RequestedOnce'
  <2>1. ASSUME NEW r \in Reservations
        PROVE  LET p == [channel |-> ShipInbox, event |-> ShipRequest(r)]
               IN  /\ Once(channel'[ShipInbox], {ShipRequest(r)}) /\ Once(parked', {p})
                   /\ ~ (ShipRequest(r) \in Range(channel'[ShipInbox]) /\ p \in Range(parked'))
    <3> DEFINE p == [channel |-> ShipInbox, event |-> ShipRequest(r)]
    <3>1. /\ Once(channel[ShipInbox], {ShipRequest(r)}) /\ Once(parked, {p})
          /\ ~ (ShipRequest(r) \in Range(channel[ShipInbox]) /\ p \in Range(parked))
      BY DEF Inv, RequestedOnce, ShipInbox
    <3>2. channel[ShipInbox] \in Seq(Events) /\ ShipInbox \in Channels
      BY DEF Inv, TypeOK, ShipInbox, Channels
    <3>3. CASE x = p
      <4>1. c = ShipInbox /\ e = ShipRequest(r) /\ e \in Range(channel[ShipInbox])
        BY <1>2, <3>3
      <4>2. Once(parked', {p})
        BY <1>1, <1>3, <3>1, <4>1, OnceAppend
      <4>3. Once(channel'[ShipInbox], {ShipRequest(r)}) /\ ShipRequest(r) \notin Range(channel'[ShipInbox])
        BY <1>1, <1>2, <3>1, <3>2, <4>1, OnceTail
      <4> QED BY <4>2, <4>3
    <3>4. CASE x # p
      <4>1. Once(parked', {p}) /\ (p \in Range(parked') => p \in Range(parked))
        BY <1>1, <1>3, <1>4, <3>1, <3>4, OnceAppend
      <4>2. /\ Once(channel'[ShipInbox], {ShipRequest(r)})
            /\ Range(channel'[ShipInbox]) \subseteq Range(channel[ShipInbox])
        <5>1. CASE c = ShipInbox
          BY <1>1, <1>2, <3>1, <3>2, <5>1, OnceTail
        <5>2. CASE c # ShipInbox
          BY <1>2, <3>1, <3>2, <5>2
        <5> QED BY <5>1, <5>2
      <4> QED BY <3>1, <4>1, <4>2
    <3> QED BY <3>3, <3>4
  <2> QED BY <2>1 DEF RequestedOnce, ShipInbox
<1> HIDE DEF e, x
<1>7. TypeOK'
  BY <1>1, <1>2, <1>4 DEF Inv, TypeOK, ledgerVars, Parked
<1>8. ServicesAgree'
  BY <1>1 DEF Inv, ServicesAgree, ledgerVars
<1> QED BY <1>1, <1>5, <1>6, <1>7, <1>8, ServiceInv DEF ledgerVars

\* A parked event is published again: it waits where it did before.
LEMMA ReplayInv ==
  ASSUME Inv, Replay
  PROVE  Inv'
<1> DEFINE x == Head(parked)
           c == x.channel
           e == x.event
<1>1. /\ parked # <<>> /\ parked' = Tail(parked)
      /\ channel' = [channel EXCEPT ![c] = Append(@, e)]
      /\ UNCHANGED <<ledgerVars, reservation, shipments, looked, failures>>
  BY DEF Replay
<1>2. /\ parked \in Seq(Parked) /\ x \in Parked /\ parked' \in Seq(Parked)
      /\ Range(parked) = {x} \cup Range(parked')
  BY <1>1, RangeTail DEF Inv, TypeOK, Parked
<1>3. /\ c \in Channels /\ e \in Events /\ x = [channel |-> c, event |-> e]
      /\ channel[c] \in Seq(Events)
  BY <1>2 DEF Parked, Inv, TypeOK
<1>4. /\ channel' \in [Channels -> Seq(Events)]
      /\ channel'[c] = Append(channel[c], e)
      /\ Range(channel'[c]) = Range(channel[c]) \cup {e}
      /\ \A d \in Channels : d # c => channel'[d] = channel[d]
  BY <1>1, <1>3, AppendProperties, RangeAppend DEF Inv, TypeOK
<1> HIDE DEF c, e, x
<1>5. \A d \in Channels, f \in Events : Waits(d, f)' => Waits(d, f)
  BY <1>2, <1>3, <1>4 DEF Waits
<1>6. RequestedOnce'
  <2>1. ASSUME NEW r \in Reservations
        PROVE  LET p == [channel |-> ShipInbox, event |-> ShipRequest(r)]
               IN  /\ Once(channel'[ShipInbox], {ShipRequest(r)}) /\ Once(parked', {p})
                   /\ ~ (ShipRequest(r) \in Range(channel'[ShipInbox]) /\ p \in Range(parked'))
    <3> DEFINE p == [channel |-> ShipInbox, event |-> ShipRequest(r)]
    <3>1. /\ Once(channel[ShipInbox], {ShipRequest(r)}) /\ Once(parked, {p})
          /\ ~ (ShipRequest(r) \in Range(channel[ShipInbox]) /\ p \in Range(parked))
      BY DEF Inv, RequestedOnce, ShipInbox
    <3>2. ShipInbox \in Channels
      BY DEF ShipInbox, Channels
    <3>3. Once(parked', {p}) /\ (x = p => p \notin Range(parked'))
      BY <1>1, <1>2, <3>1, OnceTail DEF x
    <3>4. CASE x = p
      <4>1. c = ShipInbox /\ e = ShipRequest(r)
        BY <1>3, <3>4
      <4>2. e \notin Range(channel[ShipInbox])
        BY <1>2, <3>1, <3>4, <4>1
      <4>3. /\ channel'[ShipInbox] = Append(channel[ShipInbox], e)
            /\ channel[ShipInbox] \in Seq(Events)
        BY <1>3, <1>4, <4>1
      <4>4. Once(channel'[ShipInbox], {ShipRequest(r)})
        BY <1>3, <3>1, <4>1, <4>2, <4>3, OnceAppend
      <4> QED BY <3>3, <3>4, <4>4
    <3>5. CASE x # p
      <4>1. c = ShipInbox => e # ShipRequest(r)
        BY <1>3, <3>5
      <4>2. /\ Once(channel'[ShipInbox], {ShipRequest(r)})
            /\ ShipRequest(r) \in Range(channel'[ShipInbox]) => ShipRequest(r) \in Range(channel[ShipInbox])
        <5>1. CASE c = ShipInbox
          <6>1. /\ channel'[ShipInbox] = Append(channel[ShipInbox], e)
                /\ Range(channel'[ShipInbox]) = Range(channel[ShipInbox]) \cup {e}
                /\ channel[ShipInbox] \in Seq(Events) /\ e # ShipRequest(r)
            BY <1>3, <1>4, <4>1, <5>1
          <6> QED BY <1>3, <3>1, <6>1, OnceAppend
        <5>2. CASE c # ShipInbox
          BY <1>4, <3>1, <3>2, <5>2
        <5> QED BY <5>1, <5>2
      <4>3. p \in Range(parked') => p \in Range(parked)
        BY <1>2
      <4> QED BY <3>1, <3>3, <4>2, <4>3
    <3> QED BY <3>4, <3>5
  <2> QED BY <2>1 DEF RequestedOnce, ShipInbox
<1>7. TypeOK'
  BY <1>1, <1>2, <1>4 DEF Inv, TypeOK, ledgerVars, Parked
<1>8. ServicesAgree'
  BY <1>1 DEF Inv, ServicesAgree, ledgerVars
<1> QED BY <1>1, <1>5, <1>6, <1>7, <1>8, ServiceInv DEF ledgerVars

\* Every step preserves the invariant.
LEMMA NextInv == Inv /\ [Next]_vars => Inv'
<1> SUFFICES ASSUME Inv, [Next]_vars PROVE Inv'
  OBVIOUS
<1>1. ASSUME NEW r \in Reservations, Client(r) PROVE Inv'
  BY <1>1, ReservationClientInv, PrepareInv, RequestShipInv, CancelShipmentInv DEF Client
<1>2. ASSUME NEW r \in Reservations, ExpiryWorker(r) \/ Elapse(r) PROVE Inv'
  BY <1>2, ExpiryInv, ElapseInv
<1>3. CASE ReservationHandles \/ ShipmentHandles
  BY <1>3, ReservationHandlesInv, ShipmentHandlesInv
<1>4. ASSUME NEW c \in Channels, InventoryHandles(c) \/ Park(c) PROVE Inv'
  BY <1>4, InventoryHandlesInv, ParkInv
<1>5. CASE Replay
  BY <1>5, ReplayInv
<1>6. CASE UNCHANGED vars
  <2>1. UNCHANGED <<status, shipment, overdue, answers, reservation, shipments, looked, channel, parked, failures>>
    BY <1>6 DEF vars, ledgerVars
  <2>2. TypeOK' /\ ServicesAgree' /\ RequestedOnce'
    BY <2>1 DEF Inv, TypeOK, ServicesAgree, RequestedOnce
  <2>3. \A d \in Channels, f \in Events : Waits(d, f)' => Waits(d, f)
    BY <2>1 DEF Waits
  <2> QED BY <2>1, <2>2, <2>3, ServiceInv
<1> QED BY <1>1, <1>2, <1>3, <1>4, <1>5, <1>6 DEF Next

-----------------------------------------------------------------------------
(***************************************************************************)
(* Nothing is forgotten. An event leaves its queue only for the dead       *)
(* letter topic, or when what waits for it has what it waits for.          *)
(***************************************************************************)
\* The ledger tells the reservation service of reservations it knows.
Known == \A e \in Events : Waits("inventory>reservation", e) => status[e.reservation] # "NONE"

\* Reservation r enters a status, and the services are told.
Tells(r) == \E type \in {"StockReserved"} \cup Outcomes :
              status'[r] = Announced(type) /\ answers' = {Event(type, r)}

\* Request e has had its effect, or is refused.
Done(e) ==
  LET r == e.reservation
  IN  /\ e.type = "ReservationRequested" => status'[r] # "NONE"
      /\ e.type = "ReservationCancellationRequested" => status'[r] \notin {"NONE", "CONFIRMED"}
      /\ e.type = "ShipmentRequested" =>
           \/ ShipRefusal(r) \in answers'
           \/ status'[r] = "COMPLETED" /\ (status[r] # "COMPLETED" => Event("StockShipped", r) \in answers')

\* What the events of a reservation are called.
LEMMA EventNames ==
  ASSUME NEW r \in Reservations, NEW type \in EventTypes
  PROVE  Event(type, r) \in Events /\ Event(type, r).type = type /\ Event(type, r).reservation = r
BY DEF Events, Event

LEMMA NameTypes ==
  /\ {"StockReserved"} \cup Outcomes = Interests["inventory>reservation"]
  /\ Interests["inventory>reservation"] \cup Interests["inventory>shipment"] \subseteq EventTypes
  /\ Requests \subseteq EventTypes
  /\ Announced("StockReserved") = "CONFIRMED" /\ Announced("StockShipped") = "COMPLETED"
  /\ \A type \in Outcomes : Announced(type) \in Final
  /\ \A type \in {"StockReserved"} \cup Outcomes : Announced(type) \notin {"NONE", "CANCELLING"}
BY InterestsOf DEF EventTypes, Requests, Ledger!AnswerTypes, Outcomes, Announced, Final

\* A request served is done, and the ledger tells what it did.
LEMMA ServeDone ==
  ASSUME TypeOK, NEW e \in Events, Serve(e)
  PROVE  /\ Done(e)
         /\ \A q \in Reservations : q # e.reservation => status'[q] = status[q]
         /\ \/ Tells(e.reservation)
            \/ status' = status /\ \A f \in answers' : f.type \notin Interests["inventory>reservation"]
<1> DEFINE r == e.reservation
<1>1. r \in Reservations
  BY DEF Events
<1>2. ASSUME NEW type \in {"StockReserved"} \cup Outcomes, Ledger!Answer(type, r),
             Ledger!Enter(r, Announced(type))
      PROVE  /\ Tells(r) /\ status'[r] = Announced(type) /\ Event(type, r) \in answers'
             /\ \A q \in Reservations : q # r => status'[q] = status[q]
  <2>1. answers' = {Event(type, r)}
    BY <1>2 DEF Ledger!Answer, Event
  <2>2. status'[r] = Announced(type) /\ \A q \in Reservations : q # r => status'[q] = status[q]
    BY <1>1, <1>2 DEF Ledger!Enter, TypeOK
  <2> QED BY <2>1, <2>2 DEF Tells
<1>3. /\ Announced("StockReserved") = "CONFIRMED" /\ Announced("ReservationRejected") = "REJECTED"
      /\ Announced("StockReservationCancelled") = "CANCELLED" /\ Announced("StockShipped") = "COMPLETED"
      /\ {"ReservationRejected", "StockReservationCancelled", "StockShipped"} \subseteq Outcomes
  BY DEF Announced, Outcomes
<1>4. CASE e.type = "ReservationRequested" /\ (Ledger!Confirm(r) \/ Ledger!Reject(r))
  BY <1>2, <1>3, <1>4 DEF Ledger!Confirm, Ledger!Reject, Done
<1>5. CASE e.type = "ReservationCancellationRequested" /\ Ledger!Cancel(r)
  BY <1>2, <1>3, <1>5 DEF Ledger!Cancel, Done
<1>6. CASE e.type = "ReservationCancellationRequested" /\ Ledger!RejectCancel(r)
  <2>1. /\ status' = status /\ status[r] = "COMPLETED"
        /\ \A f \in answers' : f.type = "ReservationCancellationRejected"
    BY <1>6 DEF Ledger!RejectCancel, Ledger!Answer
  <2> QED BY <1>6, <2>1, InterestsOf DEF Done
<1>7. CASE e.type = "ShipmentRequested" /\ Ledger!Ship(r, r)
  BY <1>2, <1>3, <1>7 DEF Ledger!Ship, Done
<1>8. CASE e.type = "ShipmentRequested" /\ Ledger!RejectShip(r, r)
  <2>1. status' = status /\ answers' = {ShipRefusal(r)} /\ ShipRefusal(r).type = "ShipmentRejected"
    BY <1>8 DEF Ledger!RejectShip, Ledger!Answer, ShipRefusal, Event
  <2> QED BY <1>8, <2>1, InterestsOf DEF Done
<1>9. CASE Answered(e) /\ Ledger!Quiet
  <2>1. status' = status /\ answers' = {}
    BY <1>9 DEF Ledger!Quiet
  <2> QED BY <1>9, <2>1 DEF Answered, Done
<1> QED BY <1>4, <1>5, <1>6, <1>7, <1>8, <1>9 DEF Serve

LEMMA ExpiryTells ==
  ASSUME TypeOK, NEW r \in Reservations, Ledger!Expire(r)
  PROVE  /\ Tells(r)
         /\ \A q \in Reservations : q # r => status'[q] = status[q]
<1>1. Announced("ReservationExpired") = "EXPIRED" /\ "ReservationExpired" \in Outcomes
  BY DEF Announced, Outcomes
<1>2. answers' = {Event("ReservationExpired", r)}
  BY DEF Ledger!Expire, Ledger!Answer, Event
<1>3. status'[r] = "EXPIRED" /\ \A q \in Reservations : q # r => status'[q] = status[q]
  BY DEF Ledger!Expire, Ledger!Enter, TypeOK
<1> QED BY <1>1, <1>2, <1>3 DEF Tells

\* A step of the ledger forgets nothing: the request it takes is done.
LEMMA LedgerRemembers ==
  ASSUME Inv, Known, NothingForgotten, NEW S, LedgerStep(S), UNCHANGED <<reservation, shipments>>,
         NEW r \in Reservations, \A q \in Reservations : q # r => status'[q] = status[q],
         \/ Tells(r)
         \/ status' = status /\ \A f \in answers' : f.type \notin Interests["inventory>reservation"],
         \A d \in Channels, f \in Events :
           Waits(d, f) => Waits(d, f)' \/ (d \in Inboxes /\ f.reservation = r /\ Done(f)),
         \A d \in DOMAIN Interests : \A f \in answers' : f.type \in Interests[d] => Waits(d, f)',
         \A d \in Channels, f \in Events :
           Waits(d, f)' => Waits(d, f) \/ (d \in DOMAIN Interests /\ f \in answers' /\ f.type \in Interests[d])
  PROVE  Known' /\ NothingForgotten'
<1>1. /\ "inventory>reservation" \in Channels \ Inboxes /\ "inventory>shipment" \in Channels \ Inboxes
      /\ "reservation>inventory" \in Channels /\ "shipment>inventory" \in Channels
      /\ "inventory>reservation" \in DOMAIN Interests /\ "inventory>shipment" \in DOMAIN Interests
  BY InterestsOf DEF Channels, Inboxes
<1>2. \A q \in Reservations : status[q] # "NONE" => status'[q] # "NONE"
  <2>1. Tells(r) => status'[r] # "NONE"
    BY NameTypes DEF Tells
  <2> QED BY <2>1
<1>3. Known'
  <2>1. SUFFICES ASSUME NEW e \in Events, Waits("inventory>reservation", e)'
                 PROVE  status'[e.reservation] # "NONE"
    BY DEF Known
  <2>2. e.reservation \in Reservations
    BY DEF Events
  <2>3. CASE Waits("inventory>reservation", e)
    BY <1>2, <2>2, <2>3 DEF Known
  <2>4. CASE e \in answers' /\ e.type \in Interests["inventory>reservation"]
    <3>1. Tells(r)
      BY <2>4
    <3>2. PICK type \in {"StockReserved"} \cup Outcomes :
            status'[r] = Announced(type) /\ answers' = {Event(type, r)}
      BY <3>1 DEF Tells
    <3>3. e.reservation = r
      BY <2>4, <3>2 DEF Event
    <3> QED BY <3>2, <3>3, NameTypes
  <2> QED BY <1>1, <2>1, <2>3, <2>4
<1>4. ASSUME NEW q \in Reservations, status'[q] = "NONE"
      PROVE  reservation'[q] = "NONE" \/ Waits("reservation>inventory", Event("ReservationRequested", q))'
  <2>1. status[q] = "NONE"
    BY <1>2, <1>4
  <2>2. reservation[q] = "NONE" \/ Waits("reservation>inventory", Event("ReservationRequested", q))
    BY <2>1 DEF NothingForgotten
  <2>3. ~ Done(Event("ReservationRequested", q))
    BY <1>4 DEF Done, Event
  <2>4. Event("ReservationRequested", q) \in Events
    BY EventNames, NameTypes DEF Requests
  <2> QED BY <1>1, <2>2, <2>3, <2>4
<1>5. ASSUME NEW q \in Reservations, status'[q] # "NONE"
      PROVE  \/ Settled(q)'
             \/ \E type \in Interests["inventory>reservation"] :
                  Announced(type) = status'[q] /\ Waits("inventory>reservation", Event(type, q))'
  <2>1. CASE status'[q] = status[q]
    <3>1. CASE Settled(q)
      BY <2>1, <3>1 DEF Settled
    <3>2. ASSUME NEW type \in Interests["inventory>reservation"],
                 Announced(type) = status[q], Waits("inventory>reservation", Event(type, q))
          PROVE  Waits("inventory>reservation", Event(type, q))'
      BY <1>1, <3>2, EventNames, NameTypes
    <3> QED BY <1>5, <2>1, <3>1, <3>2 DEF NothingForgotten
  <2>2. CASE status'[q] # status[q]
    <3>1. q = r /\ Tells(r)
      BY <2>2
    <3>2. PICK type \in Interests["inventory>reservation"] :
            Announced(type) = status'[q] /\ Event(type, q) \in answers'
      BY <3>1, NameTypes DEF Tells
    <3> QED BY <1>1, <3>2 DEF Event
  <2> QED BY <2>1, <2>2
<1>6. ASSUME NEW q \in Reservations, reservation'[q] = "CANCELLING", status'[q] \in {"NONE", "CONFIRMED"}
      PROVE  Waits("reservation>inventory", Event("ReservationCancellationRequested", q))'
  <2>1. status[q] \in {"NONE", "CONFIRMED"}
    BY <1>6 DEF LedgerStep, Inv, TypeOK, Ledger!Statuses, Final
  <2>2. Waits("reservation>inventory", Event("ReservationCancellationRequested", q))
    BY <1>6, <2>1 DEF NothingForgotten
  <2>3. ~ Done(Event("ReservationCancellationRequested", q))
    BY <1>6 DEF Done, Event
  <2>4. Event("ReservationCancellationRequested", q) \in Events
    BY EventNames, NameTypes DEF Requests
  <2> QED BY <1>1, <2>2, <2>3, <2>4
<1>7. ASSUME NEW q \in Reservations, shipments'[q] = "SHIPPING"
      PROVE  \/ Waits("shipment>inventory", ShipRequest(q))'
             \/ Waits("inventory>shipment", ShipRefusal(q))'
             \/ "COMPLETED" = status'[q] /\ Waits("inventory>shipment", Event("StockShipped", q))'
  <2>1. /\ ShipRequest(q) \in Events /\ ShipRefusal(q) \in Events /\ Event("StockShipped", q) \in Events
        /\ ShipRequest(q).type = "ShipmentRequested" /\ ShipRequest(q).reservation = q
        /\ ShipRefusal(q).type \in Interests["inventory>shipment"]
        /\ Event("StockShipped", q).type \in Interests["inventory>shipment"]
    BY EventNames, NameTypes, InterestsOf DEF ShipRequest, ShipRefusal, Requests
  <2>2. \/ Waits("shipment>inventory", ShipRequest(q))
        \/ Waits("inventory>shipment", ShipRefusal(q))
        \/ "COMPLETED" = status[q] /\ Waits("inventory>shipment", Event("StockShipped", q))
    BY <1>7, NameTypes DEF NothingForgotten, ShipRequest, ShipRefusal
  <2>3. CASE Waits("shipment>inventory", ShipRequest(q))
    <3>1. status[q] # "COMPLETED"
      BY <2>3 DEF Inv, RequestedShips, Requested
    <3>2. CASE Done(ShipRequest(q))
      <4>1. \/ ShipRefusal(q) \in answers'
            \/ status'[q] = "COMPLETED" /\ Event("StockShipped", q) \in answers'
        BY <2>1, <3>1, <3>2 DEF Done
      <4> QED BY <1>1, <2>1, <4>1
    <3> QED BY <1>1, <2>1, <2>3, <3>2
  <2>4. CASE Waits("inventory>shipment", ShipRefusal(q))
    BY <1>1, <2>1, <2>4
  <2>5. CASE "COMPLETED" = status[q] /\ Waits("inventory>shipment", Event("StockShipped", q))
    BY <1>1, <2>1, <2>5 DEF LedgerStep, Final
  <2> QED BY <2>2, <2>3, <2>4, <2>5
<1> QED BY <1>3, <1>4, <1>5, <1>6, <1>7, NameTypes DEF NothingForgotten, ShipRequest, ShipRefusal

\* A step of the services forgets nothing: what they settle need not wait.
LEMMA ServiceRemembers ==
  ASSUME Known, NothingForgotten, status' = status,
         \A d \in Channels, f \in Events : d \in Inboxes /\ Waits(d, f) => Waits(d, f)',
         \A f \in Events :
           /\ Waits("inventory>reservation", f) =>
                \/ Waits("inventory>reservation", f)' \/ Settled(f.reservation)'
                \/ Announced(f.type) # status[f.reservation]
           /\ Waits("inventory>reservation", f)' => Waits("inventory>reservation", f)
           /\ Waits("inventory>shipment", f) =>
                Waits("inventory>shipment", f)' \/ shipments'[f.reservation] # "SHIPPING",
         \A r \in Reservations :
           /\ reservation'[r] # "NONE" /\ status[r] = "NONE" => \/ reservation[r] # "NONE"
                \/ Waits("reservation>inventory", Event("ReservationRequested", r))'
           /\ Settled(r) /\ status[r] # "NONE" => Settled(r)'
           /\ reservation'[r] = "CANCELLING" => \/ reservation[r] = "CANCELLING"
                \/ Waits("reservation>inventory", Event("ReservationCancellationRequested", r))'
           /\ shipments'[r] = "SHIPPING" => shipments[r] = "SHIPPING" \/ Requested(r)'
  PROVE  Known' /\ NothingForgotten'
<1>1. Known'
  BY DEF Known
<1>2. "reservation>inventory" \in Channels \cap Inboxes /\ "shipment>inventory" \in Channels \cap Inboxes
  BY DEF Channels, Inboxes
<1>3. ASSUME NEW r \in Reservations, NEW type \in EventTypes, NEW d \in Inboxes, Waits(d, Event(type, r))
      PROVE  Waits(d, Event(type, r))'
  BY <1>3, EventNames DEF Channels, Inboxes
<1>4. ASSUME NEW r \in Reservations, status[r] = "NONE"
      PROVE  reservation'[r] = "NONE" \/ Waits("reservation>inventory", Event("ReservationRequested", r))'
  BY <1>2, <1>3, <1>4, NameTypes DEF NothingForgotten, Requests
<1>5. ASSUME NEW r \in Reservations, status[r] # "NONE"
      PROVE  \/ Settled(r)'
             \/ \E type \in Interests["inventory>reservation"] :
                  Announced(type) = status[r] /\ Waits("inventory>reservation", Event(type, r))'
  <2>1. ASSUME NEW type \in Interests["inventory>reservation"],
               Announced(type) = status[r], Waits("inventory>reservation", Event(type, r))
        PROVE  Settled(r)' \/ Waits("inventory>reservation", Event(type, r))'
    BY <2>1, EventNames, NameTypes
  <2> QED BY <1>5, <2>1 DEF NothingForgotten
<1>6. ASSUME NEW r \in Reservations, reservation'[r] = "CANCELLING", status[r] \in {"NONE", "CONFIRMED"}
      PROVE  Waits("reservation>inventory", Event("ReservationCancellationRequested", r))'
  BY <1>2, <1>3, <1>6, NameTypes DEF NothingForgotten, Requests
<1>7. ASSUME NEW r \in Reservations, shipments'[r] = "SHIPPING"
      PROVE  \/ Waits("shipment>inventory", ShipRequest(r))'
             \/ Waits("inventory>shipment", ShipRefusal(r))'
             \/ "COMPLETED" = status[r] /\ Waits("inventory>shipment", Event("StockShipped", r))'
  <2>1. ASSUME NEW type \in Interests["inventory>shipment"], Waits("inventory>shipment", Event(type, r))
        PROVE  Waits("inventory>shipment", Event(type, r))'
    BY <1>7, <2>1, EventNames, NameTypes
  <2>2. CASE Requested(r)'
    BY <2>2 DEF Requested
  <2>3. CASE shipments[r] = "SHIPPING"
    <3>1. \/ Waits("shipment>inventory", ShipRequest(r))
          \/ Waits("inventory>shipment", ShipRefusal(r))
          \/ "COMPLETED" = status[r] /\ Waits("inventory>shipment", Event("StockShipped", r))
      BY <2>3, NameTypes DEF NothingForgotten, ShipRequest, ShipRefusal
    <3>2. Waits("shipment>inventory", ShipRequest(r)) => Waits("shipment>inventory", ShipRequest(r))'
      BY <1>2, <1>3, NameTypes DEF ShipRequest, Requests
    <3> QED BY <2>1, <3>1, <3>2, InterestsOf DEF ShipRefusal
  <2> QED BY <1>7, <2>2, <2>3
<1> QED BY <1>1, <1>4, <1>5, <1>6, <1>7, NameTypes DEF NothingForgotten, ShipRequest, ShipRefusal

\* The first event of a queue, and the reservation it is about.
LEMMA HeadEvent ==
  ASSUME TypeOK, NEW c \in Channels, channel[c] # <<>>
  PROVE  \E e \in Events, r \in Reservations : e = Head(channel[c]) /\ r = e.reservation
<1>1. Head(channel[c]) \in Events
  BY TakeWaits
<1>2. Head(channel[c]).reservation \in Reservations
  BY <1>1 DEF Events
<1> QED BY <1>1, <1>2

\* Parking an event and replaying one leave it waiting for the same consumer.
LEMMA ParkWaits ==
  ASSUME TypeOK, NEW c \in Channels, Park(c)
  PROVE  \A d \in Channels, f \in Events : Waits(d, f)' <=> Waits(d, f)
<1> DEFINE x == [channel |-> c, event |-> Head(channel[c])]
<1>1. /\ channel[c] # <<>> /\ parked' = Append(parked, x)
      /\ channel' = [channel EXCEPT ![c] = Tail(@)]
  BY DEF Park
<1>2. /\ Head(channel[c]) \in Events
      /\ Range(channel[c]) = {Head(channel[c])} \cup Range(channel'[c])
      /\ \A d \in Channels : d # c => channel'[d] = channel[d]
  BY <1>1, TakeWaits DEF TypeOK
<1>3. Range(parked') = Range(parked) \cup {x}
  <2>1. x \in Parked /\ parked \in Seq(Parked)
    BY <1>2 DEF Parked, TypeOK
  <2> QED BY <1>1, <2>1, RangeAppend
<1> QED BY <1>2, <1>3 DEF Waits

LEMMA ReplayWaits ==
  ASSUME TypeOK, Replay
  PROVE  \A d \in Channels, f \in Events : Waits(d, f)' <=> Waits(d, f)
<1> DEFINE x == Head(parked)
<1>1. /\ parked # <<>> /\ parked' = Tail(parked)
      /\ channel' = [channel EXCEPT ![x.channel] = Append(@, x.event)]
  BY DEF Replay
<1>2. x \in Parked /\ Range(parked) = {x} \cup Range(parked')
  BY <1>1, RangeTail DEF TypeOK, Parked
<1>3. /\ x.channel \in Channels /\ x.event \in Events
      /\ x = [channel |-> x.channel, event |-> x.event]
      /\ channel[x.channel] \in Seq(Events)
  BY <1>2 DEF Parked, TypeOK
<1>4. \A d \in Channels :
        Range(channel'[d]) = Range(channel[d]) \cup (IF d = x.channel THEN {x.event} ELSE {})
  BY <1>1, <1>3, RangeAppend DEF TypeOK
<1> HIDE DEF x
<1> QED BY <1>2, <1>3, <1>4 DEF Waits

\* A step that takes no event and does not concern the reservation service.
LEMMA QuietRemembers ==
  ASSUME Known, NothingForgotten, UNCHANGED <<status, reservation>>,
         \A d \in Channels, f \in Events : Waits(d, f) => Waits(d, f)',
         \A f \in Events : Waits("inventory>reservation", f)' => Waits("inventory>reservation", f),
         \A r \in Reservations : shipments'[r] = "SHIPPING" => shipments[r] = "SHIPPING" \/ Requested(r)'
  PROVE  Known' /\ NothingForgotten'
<1>1. "inventory>reservation" \in Channels /\ "inventory>shipment" \in Channels
  BY DEF Channels
<1>2. \A r \in Reservations : Settled(r) => Settled(r)'
  BY DEF Settled
<1> QED BY <1>1, <1>2, ServiceRemembers

\* Commands of the reservation service.
LEMMA ReservationClientRemembers ==
  ASSUME Inv, Known, NothingForgotten, NEW r \in Reservations,
         CreateReservation(r) \/ CancelReservation(r)
  PROVE  Known' /\ NothingForgotten'
<1> DEFINE c == "reservation>inventory"
<1>1. /\ UNCHANGED <<status, shipments, parked>>
      /\ c \in Channels /\ c # "inventory>reservation"
      /\ "inventory>reservation" \in Channels /\ "inventory>shipment" \in Channels
  BY DEF CreateReservation, CancelReservation, ledgerVars, Channels
<1>2. ASSUME NEW type \in Requests, Send(c, Event(type, r))
      PROVE  /\ \A d \in Channels, f \in Events : Waits(d, f) => Waits(d, f)'
             /\ \A f \in Events : Waits("inventory>reservation", f)' => Waits("inventory>reservation", f)
             /\ Waits(c, Event(type, r))'
  <2>1. Event(type, r) \in Events
    BY EventNames, NameTypes
  <2> QED BY <1>1, <1>2, <2>1, SendWaits DEF Inv
<1>3. CASE CreateReservation(r)
  <2>1. /\ reservation[r] = "NONE" /\ Send(c, Event("ReservationRequested", r))
        /\ \A q \in Reservations : reservation'[q] = IF q = r THEN "PENDING" ELSE reservation[q]
    BY <1>3 DEF CreateReservation, Inv, TypeOK
  <2>2. \A q \in Reservations : Settled(q) /\ status[q] # "NONE" => Settled(q)'
    BY <1>1, <2>1 DEF Settled
  <2> QED BY <1>1, <1>2, <2>1, <2>2, ServiceRemembers DEF Requests
<1>4. CASE CancelReservation(r)
  <2>1. /\ reservation[r] \notin {"NONE", "COMPLETED", "EXPIRED", "REJECTED", "CANCELLED"}
        /\ Send(c, Event("ReservationCancellationRequested", r))
        /\ \A q \in Reservations : reservation'[q] = IF q = r THEN "CANCELLING" ELSE reservation[q]
    BY <1>4 DEF CancelReservation, Inv, TypeOK
  <2>2. \A q \in Reservations : Settled(q) /\ status[q] # "NONE" => Settled(q)'
    <3>1. status[r] \in Ledger!Statuses
      BY DEF Inv, TypeOK
    <3> QED BY <1>1, <2>1, <3>1 DEF Settled, Ledger!Statuses
  <2> QED BY <1>1, <1>2, <2>1, <2>2, ServiceRemembers DEF Requests
<1> QED BY <1>3, <1>4

\* What the inventory tells the reservation service is what the ledger says, or
\* comes too late to matter.
LEMMA ReservationHandlesRemembers ==
  ASSUME Inv, Known, NothingForgotten, ReservationHandles
  PROVE  Known' /\ NothingForgotten'
<1> DEFINE c == "inventory>reservation"
<1>1. PICK e \in Events, r \in Reservations : e = Head(channel[c]) /\ r = e.reservation
  BY HeadEvent DEF ReservationHandles, Inv, Channels
<1>2. /\ channel[c] # <<>> /\ channel' = [channel EXCEPT ![c] = Tail(@)]
      /\ reservation' = [reservation EXCEPT ![r] = ReservationAfter(@, e.type)]
      /\ UNCHANGED <<status, shipments, parked>>
  BY <1>1 DEF ReservationHandles, ledgerVars
<1>3. /\ c \in Channels /\ c \in DOMAIN Interests /\ c \notin Inboxes
      /\ "inventory>shipment" \in Channels /\ "inventory>shipment" # c
  BY InterestsOf DEF Channels, Inboxes
<1>4. /\ e.type \in Interests[c] /\ Waits(c, e)
      /\ e.type \in Outcomes => status[r] = Announced(e.type)
      /\ \A d \in Channels, f \in Events : Waits(d, f)' => Waits(d, f)
  BY <1>1, <1>2, <1>3, EventTaken
<1>5. \A d \in Channels, f \in Events : Waits(d, f) => Waits(d, f)' \/ (d = c /\ f = e)
  <2>1. /\ Range(channel[c]) = {e} \cup Range(channel'[c])
        /\ \A d \in Channels : d # c => channel'[d] = channel[d]
    BY <1>1, <1>2, <1>3, TakeWaits DEF Inv
  <2> HIDE DEF c
  <2> QED BY <1>2, <2>1 DEF Waits
<1>6. status[r] # "NONE" /\ (e.type = "StockReserved" \/ e.type \in Outcomes)
  BY <1>1, <1>4, NameTypes DEF Known
<1> DEFINE new == ReservationAfter(reservation[r], e.type)
<1>7. \A q \in Reservations : reservation'[q] = IF q = r THEN new ELSE reservation[q]
  BY <1>2 DEF Inv, TypeOK
<1>8. /\ reservation[r] \in Final => reservation[r] = status[r]
      /\ status[r] \in Ledger!Statuses
  BY DEF Inv, TypeOK, ServicesAgree
<1>9. Settled(r)' \/ Announced(e.type) # status[r]
  BY <1>2, <1>7, <1>8 DEF ReservationAfter, Settled
<1>10. Settled(r) => Settled(r)'
  <2>1. ASSUME status[r] \notin Final
        PROVE  status[r] = "CONFIRMED" /\ Announced(e.type) = "CONFIRMED"
    BY <1>4, <1>6, <1>8, <2>1, NameTypes DEF Ledger!Statuses, Final
  <2>2. "CONFIRMED" \notin Final /\ "CANCELLING" \notin Final
    BY DEF Final
  <2> QED BY <1>2, <1>7, <2>1, <2>2 DEF ReservationAfter, Settled
<1>11. new = "CANCELLING" => reservation[r] = "CANCELLING"
  BY <1>6, NameTypes DEF ReservationAfter
<1> HIDE DEF new
<1>12. \A q \in Reservations :
         /\ reservation'[q] # "NONE" /\ status[q] = "NONE" => reservation[q] # "NONE"
         /\ Settled(q) /\ status[q] # "NONE" => Settled(q)'
         /\ reservation'[q] = "CANCELLING" => reservation[q] = "CANCELLING"
         /\ shipments'[q] = "SHIPPING" => shipments[q] = "SHIPPING"
  BY <1>2, <1>6, <1>7, <1>10, <1>11 DEF Settled
<1>13. \A f \in Events :
         /\ Waits("inventory>reservation", f) =>
              \/ Waits("inventory>reservation", f)' \/ Settled(f.reservation)'
              \/ Announced(f.type) # status[f.reservation]
         /\ Waits("inventory>reservation", f)' => Waits("inventory>reservation", f)
         /\ Waits("inventory>shipment", f) => Waits("inventory>shipment", f)'
  BY <1>1, <1>3, <1>4, <1>5, <1>9
<1>14. \A d \in Channels, f \in Events : d \in Inboxes /\ Waits(d, f) => Waits(d, f)'
  BY <1>3, <1>5
<1> QED BY <1>2, <1>12, <1>13, <1>14, ServiceRemembers

\* What the inventory tells the shipment service ends SHIPPING.
LEMMA ShipmentHandlesRemembers ==
  ASSUME Inv, Known, NothingForgotten, ShipmentHandles
  PROVE  Known' /\ NothingForgotten'
<1> DEFINE c == "inventory>shipment"
<1>1. PICK e \in Events, r \in Reservations : e = Head(channel[c]) /\ r = e.reservation
  BY HeadEvent DEF ShipmentHandles, Inv, Channels
<1>2. /\ channel[c] # <<>> /\ channel' = [channel EXCEPT ![c] = Tail(@)]
      /\ shipments' = [shipments EXCEPT ![r] = ShipmentAfter(@, e.type)]
      /\ UNCHANGED <<status, reservation, parked>>
  BY <1>1 DEF ShipmentHandles, ledgerVars
<1>3. /\ c \in Channels /\ c \in DOMAIN Interests /\ c \notin Inboxes
      /\ "inventory>reservation" \in Channels /\ "inventory>reservation" # c
  BY InterestsOf DEF Channels, Inboxes
<1>4. \A d \in Channels, f \in Events : Waits(d, f)' => Waits(d, f)
  BY <1>2, <1>3, EventTaken
<1>5. \A d \in Channels, f \in Events : Waits(d, f) => Waits(d, f)' \/ (d = c /\ f = e)
  <2>1. /\ Range(channel[c]) = {e} \cup Range(channel'[c])
        /\ \A d \in Channels : d # c => channel'[d] = channel[d]
    BY <1>1, <1>2, <1>3, TakeWaits DEF Inv
  <2> HIDE DEF c
  <2> QED BY <1>2, <2>1 DEF Waits
<1>6. /\ ShipmentAfter(shipments[r], e.type) # "SHIPPING"
      /\ \A q \in Reservations : shipments'[q] = IF q = r THEN ShipmentAfter(shipments[r], e.type)
                                                         ELSE shipments[q]
  BY <1>2 DEF ShipmentAfter, Inv, TypeOK
<1>7. \A q \in Reservations :
        /\ Settled(q) => Settled(q)'
        /\ shipments'[q] = "SHIPPING" => shipments[q] = "SHIPPING"
  BY <1>2, <1>6 DEF Settled
<1>8. \A f \in Events :
        /\ Waits("inventory>reservation", f) <=> Waits("inventory>reservation", f)'
        /\ Waits("inventory>shipment", f) =>
             Waits("inventory>shipment", f)' \/ shipments'[f.reservation] # "SHIPPING"
  BY <1>1, <1>3, <1>4, <1>5, <1>6
<1>9. \A d \in Channels, f \in Events : d \in Inboxes /\ Waits(d, f) => Waits(d, f)'
  BY <1>3, <1>5
<1> QED BY <1>2, <1>7, <1>8, <1>9, ServiceRemembers

\* The inventory's step, over one of its queues or by the expiry worker.
LEMMA InventoryHandlesRemembers ==
  ASSUME Inv, Known, NothingForgotten, NEW c \in Channels, InventoryHandles(c)
  PROVE  Known' /\ NothingForgotten'
<1>1. PICK e \in Events, r \in Reservations : e = Head(channel[c]) /\ r = e.reservation
  BY HeadEvent DEF InventoryHandles, Inv
<1> DEFINE rest == [channel EXCEPT ![c] = Tail(@)]
           S == IF e.type = "ShipmentRequested" THEN {r} ELSE {}
<1>2. /\ c \in Inboxes /\ channel[c] # <<>> /\ Serve(e) /\ Publish(rest)
      /\ UNCHANGED <<reservation, shipments, parked>>
  BY <1>1 DEF InventoryHandles
<1>3. /\ rest \in [Channels -> Seq(Events)]
      /\ Range(channel[c]) = {e} \cup Range(rest[c])
      /\ \A d \in Channels : d # c => rest[d] = channel[d]
  BY <1>1, <1>2, TakeWaits DEF Inv
<1> HIDE DEF rest
<1>4. /\ LedgerStep(S) /\ Done(e)
      /\ \A q \in Reservations : q # r => status'[q] = status[q]
      /\ \/ Tells(r)
         \/ status' = status /\ \A f \in answers' : f.type \notin Interests["inventory>reservation"]
  BY <1>1, <1>2, ServeStep, ServeDone DEF Inv
<1>5. answers' \subseteq Events /\ IsFiniteSet(answers')
  BY <1>4 DEF LedgerStep, LedgerTypes, Ledger!Answers, Events, EventTypes
<1>6. /\ \A d \in Channels : \A f \in Range(channel'[d]) :
           \/ f \in Range(rest[d])
           \/ d \in DOMAIN Interests /\ f \in answers' /\ f.type \in Interests[d]
      /\ \A d \in Channels : Range(rest[d]) \subseteq Range(channel'[d])
      /\ \A d \in DOMAIN Interests : \A f \in answers' :
           f.type \in Interests[d] => f \in Range(channel'[d])
  BY <1>2, <1>3, <1>5, PublishWaits
<1>7. \A d \in Channels, f \in Events :
        Waits(d, f) => Waits(d, f)' \/ (d \in Inboxes /\ f.reservation = r /\ Done(f))
  <2>1. \A d \in Channels : \A f \in Range(channel[d]) : f \in Range(channel'[d]) \/ (d = c /\ f = e)
    BY <1>3, <1>6
  <2> QED BY <1>1, <1>2, <1>4, <2>1 DEF Waits
<1>8. \A d \in DOMAIN Interests : \A f \in answers' : f.type \in Interests[d] => Waits(d, f)'
  BY <1>6 DEF Waits
<1>9. \A d \in Channels, f \in Events :
        Waits(d, f)' => Waits(d, f) \/ (d \in DOMAIN Interests /\ f \in answers' /\ f.type \in Interests[d])
  <2>1. \A d \in Channels : Range(rest[d]) \subseteq Range(channel[d])
    BY <1>3
  <2> QED BY <1>2, <1>6, <2>1 DEF Waits
<1> HIDE DEF S
<1> QED BY <1>2, <1>4, <1>7, <1>8, <1>9, LedgerRemembers

LEMMA ExpiryRemembers ==
  ASSUME Inv, Known, NothingForgotten, NEW r \in Reservations, ExpiryWorker(r)
  PROVE  Known' /\ NothingForgotten'
<1>1. Ledger!Expire(r) /\ Publish(channel) /\ UNCHANGED <<reservation, shipments, parked>>
  BY DEF ExpiryWorker
<1>2. LedgerStep({}) /\ Tells(r) /\ \A q \in Reservations : q # r => status'[q] = status[q]
  BY <1>1, ExpireStep, ExpiryTells DEF Inv
<1>3. answers' \subseteq Events /\ IsFiniteSet(answers')
  BY <1>2 DEF LedgerStep, LedgerTypes, Ledger!Answers, Events, EventTypes
<1>4. /\ \A d \in Channels : \A f \in Range(channel'[d]) :
           \/ f \in Range(channel[d])
           \/ d \in DOMAIN Interests /\ f \in answers' /\ f.type \in Interests[d]
      /\ \A d \in Channels : Range(channel[d]) \subseteq Range(channel'[d])
      /\ \A d \in DOMAIN Interests : \A f \in answers' :
           f.type \in Interests[d] => f \in Range(channel'[d])
  BY <1>1, <1>3, PublishWaits DEF Inv, TypeOK
<1>5. \A d \in Channels, f \in Events :
        Waits(d, f) => Waits(d, f)' \/ (d \in Inboxes /\ f.reservation = r /\ Done(f))
  BY <1>1, <1>4 DEF Waits
<1>6. \A d \in DOMAIN Interests : \A f \in answers' : f.type \in Interests[d] => Waits(d, f)'
  BY <1>4 DEF Waits
<1>7. \A d \in Channels, f \in Events :
        Waits(d, f)' => Waits(d, f) \/ (d \in DOMAIN Interests /\ f \in answers' /\ f.type \in Interests[d])
  BY <1>1, <1>4 DEF Waits
<1> QED BY <1>1, <1>2, <1>5, <1>6, <1>7, LedgerRemembers

\* Commands of the shipment service.
LEMMA ShipmentClientRemembers ==
  ASSUME Inv, Known, NothingForgotten, NEW r \in Reservations,
         LookUp(r) \/ CreateShipment(r) \/ Prepare(r) \/ RequestShip(r) \/ CancelShipment(r)
  PROVE  Known' /\ NothingForgotten'
<1> DEFINE c == "shipment>inventory"
<1>1. /\ UNCHANGED <<status, reservation, parked>>
      /\ c \in Channels /\ "inventory>reservation" \in Channels /\ c # "inventory>reservation"
  BY DEF LookUp, CreateShipment, Prepare, RequestShip, CancelShipment, ledgerVars, Channels
<1>2. ASSUME NEW type \in Requests, Send(c, Event(type, r))
      PROVE  /\ \A d \in Channels, f \in Events : Waits(d, f) => Waits(d, f)'
             /\ \A f \in Events : Waits("inventory>reservation", f)' => Waits("inventory>reservation", f)
             /\ Waits(c, Event(type, r))'
  <2>1. Event(type, r) \in Events
    BY EventNames, NameTypes
  <2> QED BY <1>1, <1>2, <2>1, SendWaits DEF Inv
<1>3. CASE LookUp(r) \/ CreateShipment(r) \/ Prepare(r)
  <2>1. \A q \in Reservations : shipments'[q] = "SHIPPING" => shipments[q] = "SHIPPING"
    BY <1>3 DEF LookUp, CreateShipment, Prepare, Inv, TypeOK
  <2>2. UNCHANGED channel
    BY <1>3 DEF LookUp, CreateShipment, Prepare
  <2>3. \A d \in Channels, f \in Events : Waits(d, f)' <=> Waits(d, f)
    BY <1>1, <2>2 DEF Waits
  <2> QED BY <1>1, <2>1, <2>3, QuietRemembers
<1>4. CASE RequestShip(r)
  <2>1. Send(c, ShipRequest(r)) /\ shipments' = [shipments EXCEPT ![r] = "SHIPPING"]
    BY <1>4 DEF RequestShip, ShipRequest
  <2>2. \A q \in Reservations : shipments'[q] = "SHIPPING" => shipments[q] = "SHIPPING" \/ q = r
    BY <2>1 DEF Inv, TypeOK
  <2>3. Requested(r)'
    BY <1>2, <2>1 DEF Requests, ShipRequest, Requested
  <2> QED BY <1>1, <1>2, <2>1, <2>2, <2>3, QuietRemembers DEF Requests, ShipRequest
<1>5. CASE CancelShipment(r)
  <2>1. /\ Send(c, Event("ReservationCancellationRequested", r))
        /\ shipments' = [shipments EXCEPT ![r] = "CANCELLING"]
    BY <1>5 DEF CancelShipment
  <2>2. \A q \in Reservations : shipments'[q] = "SHIPPING" => shipments[q] = "SHIPPING"
    BY <2>1 DEF Inv, TypeOK
  <2> QED BY <1>1, <1>2, <2>1, <2>2, QuietRemembers DEF Requests
<1> QED BY <1>3, <1>4, <1>5

\* Every step forgets nothing.
LEMMA NextRemembers == Inv /\ Known /\ NothingForgotten /\ [Next]_vars => Known' /\ NothingForgotten'
<1> SUFFICES ASSUME Inv, Known, NothingForgotten, [Next]_vars
             PROVE  Known' /\ NothingForgotten'
  OBVIOUS
<1>1. ASSUME NEW r \in Reservations, Client(r) \/ ExpiryWorker(r)
      PROVE  Known' /\ NothingForgotten'
  BY <1>1, ReservationClientRemembers, ShipmentClientRemembers, ExpiryRemembers DEF Client
<1>2. CASE ReservationHandles \/ ShipmentHandles
  BY <1>2, ReservationHandlesRemembers, ShipmentHandlesRemembers
<1>3. ASSUME NEW c \in Channels, InventoryHandles(c)
      PROVE  Known' /\ NothingForgotten'
  BY <1>3, InventoryHandlesRemembers
<1>4. ASSUME UNCHANGED <<status, reservation, shipments>>,
             \A d \in Channels, f \in Events : Waits(d, f)' <=> Waits(d, f)
      PROVE  Known' /\ NothingForgotten'
  BY <1>4, QuietRemembers DEF Channels
<1>5. ASSUME NEW r \in Reservations, Elapse(r)
      PROVE  Known' /\ NothingForgotten'
  BY <1>4, <1>5 DEF Elapse, Ledger!Quiet, Waits
<1>6. ASSUME NEW c \in Channels, Park(c)
      PROVE  Known' /\ NothingForgotten'
  BY <1>4, <1>6, ParkWaits DEF Park, ledgerVars, Inv
<1>7. CASE Replay
  BY <1>4, <1>7, ReplayWaits DEF Replay, ledgerVars, Inv
<1>8. CASE UNCHANGED vars
  BY <1>4, <1>8 DEF vars, ledgerVars, Waits
<1> QED BY <1>1, <1>2, <1>3, <1>5, <1>6, <1>7, <1>8 DEF Next

-----------------------------------------------------------------------------
(***************************************************************************)
(* The theorems.                                                           *)
(***************************************************************************)
\* The invariant holds in every reachable state.
THEOREM SagaInvariant == Spec => []Inv
BY InitInv, NextInv, PTL DEF Spec

\* The tables and the events under way have their types.
THEOREM SagaTypes == Spec => []TypeOK
<1>1. Inv => TypeOK
  BY DEF Inv
<1> QED BY <1>1, SagaInvariant, PTL

\* The services' final statuses never contradict the ledger, however commands,
\* expiry, parked and replayed events interleave.
THEOREM SagaServicesAgree == Spec => []ServicesAgree
<1>1. Inv => ServicesAgree
  BY DEF Inv
<1> QED BY <1>1, SagaInvariant, PTL

\* Whatever a service waits for is under way or parked, however commands, expiry,
\* parked and replayed events interleave: the safety half of RequestsAnswered and
\* ReservationConverges.
THEOREM SagaNothingForgotten == Spec => []NothingForgotten
<1>1. Init => Known /\ NothingForgotten
  <2> SUFFICES ASSUME Init PROVE Known /\ NothingForgotten
    OBVIOUS
  <2>1. \A c \in Channels : channel[c] = <<>> /\ parked = <<>>
    BY DEF Init
  <2>2. Known
    BY <2>1 DEF Known, Waits, Range, Channels
  <2>3. \A r \in Reservations : status[r] = "NONE" /\ reservation[r] = "NONE" /\ shipments[r] = "NONE"
    BY DEF Init, Ledger!Init
  <2> QED BY <2>2, <2>3 DEF NothingForgotten
<1> QED BY <1>1, NextRemembers, SagaInvariant, PTL DEF Spec

\* An outcome is for ever: neither the ledger nor the reservation service
\* leaves a final status.
OutcomesStay ==
  \A r \in Reservations :
    /\ status[r] \in Final => status'[r] = status[r]
    /\ reservation[r] \in Final => reservation'[r] = reservation[r]

THEOREM SagaOutcomesStay == Spec => [][OutcomesStay]_vars
<1>1. ASSUME Inv, Next PROVE OutcomesStay
  <2>1. ASSUME NEW r \in Reservations, Client(r)
        PROVE  OutcomesStay
    <3>1. status' = status
      BY <2>1 DEF Client, CreateReservation, CancelReservation, LookUp, CreateShipment, Prepare,
                  RequestShip, CancelShipment, ledgerVars
    <3>2. CASE CreateReservation(r) \/ CancelReservation(r)
      BY <1>1, <3>1, <3>2 DEF CreateReservation, CancelReservation, Inv, TypeOK, Final, OutcomesStay
    <3>3. CASE UNCHANGED reservation
      BY <3>1, <3>3 DEF OutcomesStay
    <3> QED BY <2>1, <3>2, <3>3 DEF Client, LookUp, CreateShipment, Prepare, RequestShip, CancelShipment
  <2>2. ASSUME NEW r \in Reservations, ExpiryWorker(r)
        PROVE  OutcomesStay
    BY <1>1, <2>2, ExpireStep DEF ExpiryWorker, LedgerStep, Inv, OutcomesStay
  <2>3. ASSUME NEW r \in Reservations, Elapse(r)
        PROVE  OutcomesStay
    BY <2>3 DEF Elapse, Ledger!Quiet, OutcomesStay
  <2>4. CASE ReservationHandles
    <3>1. /\ status' = status
          /\ \A r \in Reservations :
               \/ reservation'[r] = reservation[r]
               \/ \E type : reservation'[r] = ReservationAfter(reservation[r], type)
      BY <1>1, <2>4 DEF ReservationHandles, Inv, TypeOK, ledgerVars
    <3> QED BY <3>1 DEF ReservationAfter, OutcomesStay
  <2>5. CASE ShipmentHandles
    BY <2>5 DEF ShipmentHandles, ledgerVars, OutcomesStay
  <2>6. ASSUME NEW c \in Channels, InventoryHandles(c)
        PROVE  OutcomesStay
    <3>1. Head(channel[c]) \in Events
      BY <1>1, <2>6, TakeWaits DEF InventoryHandles, Inv
    <3> QED BY <1>1, <2>6, <3>1, ServeStep DEF InventoryHandles, LedgerStep, Inv, OutcomesStay
  <2>7. CASE Replay \/ \E c \in Channels : Park(c)
    BY <2>7 DEF Replay, Park, ledgerVars, OutcomesStay
  <2> QED BY <1>1, <2>1, <2>2, <2>3, <2>4, <2>5, <2>6, <2>7 DEF Next
<1>2. Inv /\ [Next]_vars => [OutcomesStay]_vars
  BY <1>1
<1> QED BY <1>2, SagaInvariant, PTL DEF Spec

\* The ledger that the sagas talk to is the one the inventory implements.
THEOREM SagaFollowsLedger == Spec => Ledger!Spec
<1>1. Init => Ledger!Init
  BY DEF Init
<1>2. ASSUME Inv, [Next]_vars PROVE [Ledger!Next]_(Ledger!ledgerVars)
  <2>1. ASSUME NEW r \in Reservations, Client(r)
        PROVE  UNCHANGED ledgerVars
    BY <2>1 DEF Client, CreateReservation, CancelReservation, LookUp, CreateShipment, Prepare,
                RequestShip, CancelShipment
  <2>2. ASSUME NEW r \in Reservations, ExpiryWorker(r) \/ Elapse(r)
        PROVE  Ledger!Next
    <3>1. Elapse(r) => Ledger!Quiet
      BY <1>2 DEF Elapse, Inv, TypeOK, Ledger!Quiet
    <3> QED BY <2>2, <3>1 DEF ExpiryWorker, Ledger!Next
  <2>3. ReservationHandles \/ ShipmentHandles \/ Replay \/ (\E c \in Channels : Park(c))
          => UNCHANGED ledgerVars
    BY DEF ReservationHandles, ShipmentHandles, Replay, Park
  <2>4. ASSUME NEW c \in Channels, InventoryHandles(c)
        PROVE  Ledger!Next
    <3>1. Head(channel[c]) \in Events
      BY <1>2, <2>4, TakeWaits DEF InventoryHandles, Inv
    <3> QED BY <2>4, <3>1 DEF InventoryHandles, Serve, Events, Ledger!Next
  <2>5. UNCHANGED vars => UNCHANGED ledgerVars
    BY DEF vars
  <2>6. UNCHANGED ledgerVars => UNCHANGED Ledger!ledgerVars
    BY DEF ledgerVars, Ledger!ledgerVars
  <2> QED BY <1>2, <2>1, <2>2, <2>3, <2>4, <2>5, <2>6 DEF Next
<1> QED BY <1>1, <1>2, SagaInvariant, PTL DEF Spec, Ledger!Spec
=============================================================================
