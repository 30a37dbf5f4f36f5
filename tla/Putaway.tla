------------------------------ MODULE Putaway ------------------------------
(***************************************************************************)
(* From the receipt of goods to their place in the warehouse.  Module      *)
(* Inventory, with no reservations, is composed with the placement service *)
(* (placement-service/internal/application/service.go), which looks for a  *)
(* location for every lot, and the warehouse service, which owns the       *)
(* status of the locations and keeps a projection of their load            *)
(* (WarehouseService.java).  One warehouse and one product.                *)
(*                                                                         *)
(* Placement decides on what it read over HTTP, which may be out of date;  *)
(* the inventory checks the decision against its own ledger.  The services *)
(* exchange events over the same outbox, topic and inbox as in module      *)
(* Saga, dead letter topic included.                                       *)
(***************************************************************************)
EXTENDS Integers, FiniteSets, Sequences, SequencesExt

CONSTANTS
  Lots,         \* stock ids
  Locations,
  Suitable,     \* the locations of a STORAGE zone with the product's storage type
  Limit,        \* maximal weight and volume of each location
  Workers,      \* instances of the placement service
  Warehouse, Product, None,
  MaxQuantity,  \* largest quantity of a receipt or adjustment
  MaxQueue,     \* clients issue no command while this many events wait
  MaxRevision,  \* clients issue no command once a load has changed so often
  MaxFailures   \* number of failed lookups and events, and of crashes

\* Table locations has CHECK(max_weight>0 AND max_volume>0).
ASSUME PutawayAssumption ==
  /\ Lots \subseteq Nat \ {0}
  /\ Suitable \subseteq Locations
  /\ \A loc \in Locations : Limit[loc] \in [{"weight", "volume"} -> Nat \ {0}]
  /\ MaxQuantity \in Nat /\ MaxFailures \in Nat
  /\ None \notin Locations \cup Workers \cup {Product, Warehouse}

VARIABLES
  stocks, load, revision, emitted,  \* the inventory service
  answer,   \* what the inventory was told of the location it is to place a lot in
  status,   \* warehouse service: status of each location
  known,    \* warehouse service: last load and revision heard of each location
  jobs,     \* placement service: status of the job of each lot
  worker,   \* the transaction of assign() in each placement instance
  mutex,    \* the instance that holds the warehouse's key in Redis
  channel,  \* events recorded by a producer, not yet handled by a consumer
  parked,   \* the dead letter topic
  failures  \* what failed so far

inventoryVars == <<stocks, load, revision, emitted>>
warehouseVars == <<status, known>>
placementVars == <<jobs, worker, mutex>>
queueVars == <<channel, parked>>
vars == <<inventoryVars, answer, warehouseVars, placementVars, queueVars, failures>>

UnitLoad == [d \in {"weight", "volume"} |-> 1]

Stock == INSTANCE Inventory WITH
  Warehouses <- {Warehouse}, Products <- {Product},
  Reservations <- {}, Shipments <- {}, Orders <- {},
  Rank <- [l \in Lots |-> l],
  WarehouseOf <- [loc \in Locations |-> Warehouse],
  Accepts <- [loc \in Locations |-> IF loc \in Suitable THEN {Product} ELSE {}],
  Unit <- [p \in {Product} |-> UnitLoad],
  Horizon <- 1, now <- 1, reservations <- <<>>, allocations <- <<>>

NoLoad == [d \in Stock!Dims |-> 0]
Closed == {"BLOCKED", "MAINTENANCE"}
Open(loc) == status[loc] \notin Closed

Channels == {"inventory>placement", "inventory>warehouse", "placement>inventory"}

JobStatuses == {"NONE", "PENDING", "ASSIGNED", "PLACED", "CANCELLED"}

\* A worker without a transaction, and one that has picked lot l and, once it
\* has asked the inventory, read its quantity.
Idle == [stage |-> "idle", lot |-> 0, quantity |-> 0]
Picked(l) == [stage |-> "picked", lot |-> l, quantity |-> 0]
Read(l, n) == [stage |-> "read", lot |-> l, quantity |-> n]

\* The jobs whose rows are locked by a transaction of assign().
Locked == {worker[w].lot : w \in {v \in Workers : worker[v] # Idle}}

Init ==
  /\ Stock!Init
  /\ answer = "none"
  /\ status = [loc \in Locations |-> "AVAILABLE"]
  /\ known = [loc \in Locations |-> [load |-> NoLoad, revision |-> 0]]
  /\ jobs = [l \in Lots |-> "NONE"]
  /\ worker = [w \in Workers |-> Idle]
  /\ mutex = None
  /\ channel = [c \in Channels |-> <<>>]
  /\ parked = <<>>
  /\ failures = 0

Waiting == Len(channel["inventory>placement"]) + Len(channel["inventory>warehouse"])
             + Len(channel["placement>inventory"]) + Len(parked)

Failure == failures < MaxFailures /\ failures' = failures + 1

-----------------------------------------------------------------------------
(***************************************************************************)
(* Inventory service.                                                      *)
(***************************************************************************)
Interests ==
  [c \in {"inventory>placement", "inventory>warehouse"} |->
     IF c = "inventory>warehouse" THEN {"LocationCapacityChanged"}
     ELSE {"GoodsReceived", "PlacementRejected", "StockAdded"}]

\* The events of an inventory transaction go to the services that act upon them.
Publish(queues) ==
  channel' = [c \in Channels |->
    IF c \in DOMAIN Interests
      THEN queues[c] \o SetToSeq({e \in emitted' : e.type \in Interests[c]})
      ELSE queues[c]]

\* HTTP commands; `answer` is set while a handler holds the warehouse's lock.  A
\* location that gains units must be open.
Command ==
  /\ answer = "none"
  /\ Waiting < MaxQueue
  /\ \A loc \in Locations : revision[loc] < MaxRevision
  /\ \E l \in Lots :
       \/ \E n \in 1..MaxQuantity : Stock!Receive(l, Product, Warehouse, n, Stock!Never)
       \/ \E n \in 0..MaxQuantity :
            /\ n > stocks[l].quantity => stocks[l].location # None /\ Open(stocks[l].location)
            /\ Stock!Adjust(l, n)
       \/ \E n \in 1..MaxQuantity : Stock!WriteOff(l, n)
       \/ \E new \in Lots, to \in Locations, n \in 1..MaxQuantity :
            Open(to) /\ Stock!Move(l, new, to, n)
  /\ Publish(channel)
  /\ UNCHANGED <<answer, warehouseVars, placementVars, parked, failures>>

Assignment == Head(channel["placement>inventory"])

\* place(), under the lock of the warehouse, asks the warehouse service about
\* the location ...
AskLocation ==
  /\ channel["placement>inventory"] # <<>>
  /\ answer = "none"
  /\ answer' = IF Open(Assignment.location) THEN "open" ELSE "closed"
  /\ UNCHANGED <<inventoryVars, warehouseVars, placementVars, queueVars, failures>>

\* ... and goes by the answer, whatever the status is by now.
InventoryHandles ==
  LET l == Assignment.lot
      loc == Assignment.location
  IN  /\ channel["placement>inventory"] # <<>>
      /\ answer # "none"
      /\ \/ Stock!Place(l, Warehouse, loc, answer = "open")
         \/ Stock!RejectPlace(l, Warehouse, loc, answer = "open")
         \/ Stock!PlaceAgain(l, Warehouse)
      /\ answer' = "none"
      /\ Publish([channel EXCEPT !["placement>inventory"] = Tail(@)])
      /\ UNCHANGED <<warehouseVars, placementVars, parked, failures>>

-----------------------------------------------------------------------------
(***************************************************************************)
(* Warehouse service.                                                      *)
(***************************************************************************)

\* occupancy
Occupancy(loc, l) ==
  IF \E d \in Stock!Dims : l[d] >= Limit[loc][d] THEN "FULL"
  ELSE IF \E d \in Stock!Dims : l[d] > 0 THEN "PARTIALLY_OCCUPIED"
  ELSE "AVAILABLE"

\* Seeded fault: a location that is opened again is taken for empty.
SetStatus_Empty(loc, new) ==
  /\ status' = [status EXCEPT ![loc] = new]
  /\ UNCHANGED <<inventoryVars, answer, known, placementVars, queueVars, failures>>

\* WarehouseService.status, a command of the administrator
SetStatus(loc, new) ==
  /\ status' = [status EXCEPT ![loc] =
       IF new = "AVAILABLE" THEN Occupancy(loc, known[loc].load) ELSE new]
  /\ UNCHANGED <<inventoryVars, answer, known, placementVars, queueVars, failures>>

\* Seeded fault: the revision is not compared.
IsNews_Always(e) == TRUE

IsNews(e) == e.revision > known[e.location].revision

\* WarehouseService.handle: an event older than the projection is ignored.
WarehouseHandles ==
  LET c == "inventory>warehouse"
      e == Head(channel[c])
      loc == e.location
  IN  /\ channel[c] # <<>>
      /\ IF IsNews(e)
           THEN /\ known' = [known EXCEPT ![loc] = [load |-> e.load, revision |-> e.revision]]
                /\ status' = [status EXCEPT ![loc] =
                     IF @ \in Closed THEN @ ELSE Occupancy(loc, e.load)]
           ELSE UNCHANGED warehouseVars
      /\ channel' = [channel EXCEPT ![c] = Tail(@)]
      /\ UNCHANGED <<inventoryVars, answer, placementVars, parked, failures>>

-----------------------------------------------------------------------------
(***************************************************************************)
(* Placement service.                                                      *)
(***************************************************************************)

\* Seeded fault: the refusal of an assigned job is overlooked.
JobAfter_StaysAssigned(old, type) ==
  IF type = "GoodsReceived" THEN IF old = "NONE" THEN "PENDING" ELSE old
  ELSE IF old = "NONE" THEN "NONE"
  ELSE IF type = "PlacementRejected" THEN old
  ELSE "PLACED"

\* Seeded fault: a job is given up when the inventory refuses it.
JobAfter_GivesUp(old, type) ==
  IF type = "GoodsReceived" THEN IF old = "NONE" THEN "PENDING" ELSE old
  ELSE IF old = "NONE" THEN "NONE"
  ELSE IF type = "PlacementRejected" THEN IF old = "PLACED" THEN old ELSE "CANCELLED"
  ELSE "PLACED"

\* Seeded fault: a job leaves ASSIGNED only when it is refused.
JobAfter_NeverPlaced(old, type) ==
  IF type = "GoodsReceived" THEN IF old = "NONE" THEN "PENDING" ELSE old
  ELSE IF old = "NONE" THEN "NONE"
  ELSE IF type = "PlacementRejected" THEN IF old = "PLACED" THEN old ELSE "PENDING"
  ELSE old

\* Handle.  A job is created once; there is no update without a job.
JobAfter(old, type) ==
  IF type = "GoodsReceived" THEN IF old = "NONE" THEN "PENDING" ELSE old
  ELSE IF old = "NONE" THEN "NONE"
  ELSE IF type = "PlacementRejected" THEN IF old = "PLACED" THEN old ELSE "PENDING"
  ELSE "PLACED"

\* Waits while a transaction of assign() has the row.
PlacementHandles ==
  LET c == "inventory>placement"
      e == Head(channel[c])
  IN  /\ channel[c] # <<>>
      /\ e.lot \notin Locked
      /\ jobs' = [jobs EXCEPT ![e.lot] = JobAfter(@, e.type)]
      /\ channel' = [channel EXCEPT ![c] = Tail(@)]
      /\ UNCHANGED <<inventoryVars, answer, warehouseVars, worker, mutex, parked, failures>>

\* Seeded fault: the row is read without a lock.
Pick_Unlocked(w, l) ==
  /\ worker[w] = Idle
  /\ jobs[l] = "PENDING"
  /\ mutex = None
  /\ mutex' = w
  /\ worker' = [worker EXCEPT ![w] = Picked(l)]
  /\ UNCHANGED <<inventoryVars, answer, warehouseVars, jobs, queueVars, failures>>

\* assign() locks the row of a pending job and takes the warehouse's mutex; it
\* gives up at once if the mutex is taken.
Pick(w, l) ==
  /\ worker[w] = Idle
  /\ jobs[l] = "PENDING"
  /\ l \notin Locked
  /\ mutex = None
  /\ mutex' = w
  /\ worker' = [worker EXCEPT ![w] = Picked(l)]
  /\ UNCHANGED <<inventoryVars, answer, warehouseVars, jobs, queueVars, failures>>

\* The transaction ends; the mutex is released if it is still this worker's.
Finish(w) ==
  /\ worker' = [worker EXCEPT ![w] = Idle]
  /\ mutex' = IF mutex = w THEN None ELSE mutex

\* The lot is read from the inventory.  One that is gone or placed is settled:
\* it stays so until the transaction commits.
ReadLot(w) ==
  LET l == worker[w].lot
      x == stocks[l]
      settled == IF x.quantity = 0 THEN "CANCELLED" ELSE "PLACED"
  IN  /\ worker[w].stage = "picked"
      /\ IF x.quantity = 0 \/ x.location # None
           THEN jobs' = [jobs EXCEPT ![l] = settled] /\ Finish(w)
           ELSE /\ worker' = [worker EXCEPT ![w] = Read(l, x.quantity)]
                /\ UNCHANGED <<jobs, mutex>>
      /\ UNCHANGED <<inventoryVars, answer, warehouseVars, queueVars, failures>>

\* Score: the locations that can take n units, as far as the warehouse service
\* knows.
Eligible(n) ==
  {loc \in Suitable : /\ Open(loc)
                      /\ \A d \in Stock!Dims :
                           known[loc].load[d] + n * UnitLoad[d] <= Limit[loc][d]}

\* The best of the locations is chosen; which one is best is left open.
Assign(w) ==
  LET l == worker[w].lot
  IN  /\ worker[w].stage = "read"
      /\ \E loc \in Eligible(worker[w].quantity) :
           channel' = [channel EXCEPT !["placement>inventory"] =
             Append(@, [type |-> "ProductPlacementAssigned", lot |-> l, location |-> loc])]
      /\ jobs' = [jobs EXCEPT ![l] = "ASSIGNED"]
      /\ Finish(w)
      /\ UNCHANGED <<inventoryVars, answer, warehouseVars, parked, failures>>

\* NO_SUITABLE_LOCATION: the job stays pending and is due again in ten seconds.
Postpone(w) ==
  /\ worker[w].stage = "read"
  /\ Eligible(worker[w].quantity) = {}
  /\ Finish(w)
  /\ UNCHANGED <<inventoryVars, answer, warehouseVars, jobs, queueVars, failures>>

\* A lookup fails, or the process dies and leaves the mutex to its expiry.
WorkerFails(w) ==
  /\ Failure
  /\ worker[w] # Idle
  /\ worker' = [worker EXCEPT ![w] = Idle]
  /\ \/ UNCHANGED mutex
     \/ mutex = w /\ mutex' = None
  /\ UNCHANGED <<inventoryVars, answer, warehouseVars, jobs, queueVars>>

\* The key expires after 15 seconds, whether or not its owner is done.
MutexExpires ==
  /\ mutex # None
  /\ mutex' = None
  /\ UNCHANGED <<inventoryVars, answer, warehouseVars, jobs, worker, queueVars, failures>>

-----------------------------------------------------------------------------
(***************************************************************************)
(* Dead letter topic.                                                      *)
(***************************************************************************)
Park(c) ==
  /\ Failure
  /\ channel[c] # <<>>
  /\ parked' = Append(parked, [channel |-> c, event |-> Head(channel[c])])
  /\ channel' = [channel EXCEPT ![c] = Tail(@)]
  /\ answer' = IF c = "placement>inventory" THEN "none" ELSE answer
  /\ UNCHANGED <<inventoryVars, warehouseVars, placementVars>>

\* The operator publishes the event again, with its id.
Replay ==
  /\ parked # <<>>
  /\ LET x == Head(parked)
     IN  channel' = [channel EXCEPT ![x.channel] = Append(@, x.event)]
  /\ parked' = Tail(parked)
  /\ UNCHANGED <<inventoryVars, answer, warehouseVars, placementVars, failures>>

-----------------------------------------------------------------------------
Inventory == AskLocation \/ InventoryHandles

Admin == \E loc \in Locations, new \in {"AVAILABLE"} \cup Closed : SetStatus(loc, new)

Work(w) == ReadLot(w) \/ Assign(w) \/ Postpone(w)

Next ==
  \/ Command
  \/ Inventory
  \/ Admin
  \/ WarehouseHandles
  \/ PlacementHandles
  \/ \E w \in Workers : Work(w) \/ WorkerFails(w) \/ \E l \in Lots : Pick(w, l)
  \/ MutexExpires
  \/ \E c \in Channels : Park(c)
  \/ Replay

Spec == Init /\ [][Next]_vars

\* Consumers, workers and the operator's replay never stop, and keys expire.
\* Every pending job gets its turn, for jobs are picked by next_attempt and each
\* attempt moves the job's behind those that are due: EveryJobTried of module
\* PlacementQueue, which has the times that this module leaves out.
Fairness ==
  /\ WF_vars(Inventory)
  /\ WF_vars(WarehouseHandles)
  /\ WF_vars(PlacementHandles)
  /\ \A w \in Workers : WF_vars(Work(w))
  /\ \A l \in Lots : SF_vars(\E w \in Workers : Pick(w, l))
  /\ WF_vars(MutexExpires)
  /\ WF_vars(Replay)

FairSpec == Spec /\ Fairness

-----------------------------------------------------------------------------
(***************************************************************************)
(* What putaway promises.                                                  *)
(***************************************************************************)

Transit(c) == ToSet(channel[c]) \cup {x.event : x \in {y \in ToSet(parked) : y.channel = c}}

\* An event of one of the types about lot l is recorded and not yet handled.
Underway(c, types, l) == \E e \in Transit(c) : e.type \in types /\ e.lot = l

\* Types of the tables, the workers' memory and the queues.
TypeOK ==
  /\ Stock!TypeOK
  /\ answer \in {"none", "open", "closed"}
  /\ answer # "none" => channel["placement>inventory"] # <<>>
  /\ status \in [Locations -> {"AVAILABLE", "PARTIALLY_OCCUPIED", "FULL"} \cup Closed]
  /\ known \in [Locations -> [load : [Stock!Dims -> Nat], revision : Nat]]
  /\ jobs \in [Lots -> JobStatuses]
  /\ \A w \in Workers : worker[w] # Idle =>
       /\ worker[w].lot \in Lots
       /\ jobs[worker[w].lot] = "PENDING"
       /\ \A v \in Workers \ {w} : worker[v].lot # worker[w].lot
  /\ mutex \in Workers \cup {None}
  /\ DOMAIN channel = Channels
  /\ \A c \in Channels : \A e \in Transit(c) :
       IF c \in DOMAIN Interests THEN e.type \in Interests[c]
       ELSE e.type = "ProductPlacementAssigned"
  /\ failures \in 0..MaxFailures

\* No received lot is forgotten: as long as it has units and no location, its
\* job is pending, or on its way to be so, or a decision about it is on its way
\* to the inventory, or the refusal of one on its way back.
NoLotForgotten ==
  \A l \in Lots : stocks[l].quantity > 0 /\ stocks[l].location = None =>
    \/ jobs[l] = "PENDING"
    \/ jobs[l] = "NONE" /\ Underway("inventory>placement", {"GoodsReceived"}, l)
    \/ jobs[l] = "ASSIGNED" /\ \/ Underway("placement>inventory", {"ProductPlacementAssigned"}, l)
                               \/ Underway("inventory>placement", {"PlacementRejected"}, l)

\* What the placement service shows is so, however late or repeated the events: a
\* PLACED lot has its location, a CANCELLED one no units, and an ASSIGNED one waits
\* for a decision that is on its way to the inventory or a verdict on its way back.
\* The one exception is a lot without units: place() drops its decision silently.
JobsTruthful ==
  \A l \in Lots :
    /\ jobs[l] = "PLACED" => stocks[l].location # None
    /\ jobs[l] = "CANCELLED" => stocks[l].quantity = 0
    /\ jobs[l] = "ASSIGNED" =>
         \/ Underway("placement>inventory", {"ProductPlacementAssigned"}, l)
         \/ Underway("inventory>placement", {"PlacementRejected", "StockAdded"}, l)
         \/ stocks[l].quantity = 0

\* The warehouse's projection is a state the ledger has been in, never one it is
\* yet to reach; at the ledger's revision it is the ledger's load, and the status
\* of a location that is not closed is the one of the projected load.
ProjectionTruthful ==
  \A loc \in Locations :
    /\ known[loc].revision <= revision[loc]
    /\ known[loc].revision = revision[loc] => known[loc].load = load[loc]
    /\ Open(loc) => status[loc] = Occupancy(loc, known[loc].load)

\* The projection catches up with every revision of the ledger, and an older
\* event that is replayed later does not throw it back.
ProjectionCatchesUp ==
  \A loc \in Locations, n \in 1..(MaxRevision + Cardinality(Lots)) :
    revision[loc] >= n ~> [](known[loc].revision >= n)

\* Some open location can take all of lot l.
Fits(l) ==
  \E loc \in Suitable : Open(loc) /\ Stock!CapacityAllows(loc, stocks[l], stocks[l].quantity)

Unplaced(l) == stocks[l].quantity > 0 /\ stocks[l].location = None

\* Once the administrator lets the locations be, a lot that fits somewhere is
\* put away, or written off or moved before, in spite of outdated projections,
\* refusals, crashes and the dead letter topic.
PutAway ==
  (\E S \in SUBSET Locations : <>[](\A loc \in Locations : Open(loc) <=> loc \in S))
    => \A l \in Lots : Unplaced(l) ~> ~ Unplaced(l) \/ ~ Fits(l)
=============================================================================
