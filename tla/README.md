# LogiCore WMS in TLA+

This directory models the warehouse management system: the stock and capacity
ledgers of the inventory service, the reservation and shipment sagas around them,
the putaway of received goods, the delivery of events between the services, the
HTTP commands that retry and overlap, and the smaller services around these: the
product catalogue, the audit trail, the layout of the warehouse. TLC checks every
module on small instances. Every safety invariant and action property of the passing
runs, and every refinement, is proved with TLAPS for all values of the constants;
what holds eventually is model-checked only.

Paths below are relative to the repository. `inventory/` stands for
`services/inventory-service/internal/application/`, and so on.

## The system

Seven services with a database each exchange events over one Kafka topic. A
service writes its state and the events it announces in one transaction (outbox
table); a publisher loop sends them; a consumer records each event it handles in
its inbox table, in the transaction of its effects. A failing event is retried,
then copied to a dead letter topic, from which an operator may replay it.

| Component | State | Operations | Hard behaviour | What makes it correct |
|---|---|---|---|---|
| Inventory (`inventory/service.go`, `reservations.go`) | `stocks`, `reservations`, `allocations`, `capacities` | receive, adjust, write-off, move; handlers reserve, release, ship, place; expiry worker | commands, handlers and the worker interleave per warehouse; duplicated, late and reordered requests; reserve fails half way; a ledger kept by increments; the clock | reserved units are those of the confirmed reservations; the capacity ledger is the load of the lots; one outcome per reservation; first expired first; every change is published |
| Reservation (`ReservationService.java`) | projection of each reservation | create, cancel, handle | events later than a cancellation, replayed events | converges to the ledger's outcome and keeps it; requests are answered |
| Shipment (`ShipmentService.java`) | status of each shipment | create with an unlocked lookup, five transitions, handle | lookup out of date, cancellation against shipping and expiry | never CANCELLED or FAILED when the goods have left |
| Placement (`placement-service`) | `placement_jobs`, a Redis mutex | handle, worker `assign`, `Score` | decides on outdated data, refusals, several instances, crashes; one job per tick in the order of `next_attempt` | no lot is forgotten; jobs tell the truth; every job gets its turn; what fits is put away; the best location is chosen, whatever the order of the list |
| Warehouse (`WarehouseService.java`) | buildings, zones, racks, locations, their status, projection of their load | create, zone, rack, location, status, handle | capacity events out of order; overlapping creations | projection is a past state of the ledger and catches up; a code identifies a location, which has the type of its zone |
| Delivery (`libs/platform/messaging.go`, `Events.java`) | `outbox_events`, `processed_events`, topic, offsets, dead letters | emit, publish, consume, process, replay | crashes between any two steps, lost acknowledgements, rebalances, transactions that commit out of order, several publishers | nothing lost, effects once, order kept but for dead letters |
| HTTP commands (`Command` in `db.go`, `Commands.java`) | `http_commands` | run a request under its key | the same key twice at once, lost answers, retries, a key used for another request; locks taken one after another | runs once, each answer tells what was done, everyone is answered |
| Product (`ProductService.java`) | one row per SKU | create, update, deactivate | inventory reads a product over HTTP and commits later | the copies in lots stay true; deactivation is final |
| Audit (`audit-service`) | one row per event | append, page through | late, repeated and reordered events under a client that pages | no row is skipped |

Interaction: Reservation and Shipment send requests to Inventory and learn its
answers by events; Shipment also reads Reservation over HTTP. Inventory tells
Placement of receipts and refusals, Placement sends decisions, and reads
Inventory and Warehouse over HTTP; Inventory reads locations from Warehouse over
HTTP and tells it every new load.

The hazards these behaviours bring are listed, each at its line, in
`PROJECT.json` with the properties that would notice them going wrong.

## Modules

| Module | Models |
|---|---|
| `Inventory` | the inventory service, one action per transaction |
| `ReservationLedger` | what Inventory promises about reservations, without stock |
| `Saga` | ReservationLedger composed with the reservation and shipment services |
| `Putaway` | Inventory composed with the placement and warehouse services |
| `EventStream` | what delivery promises one consumer about one aggregate |
| `Messaging` | outbox, topic, offsets, inbox and dead letters; implements EventStream |
| `AtomicLot` | what overlapping and repeated work on one lot must look like |
| `Commands` | requests and events statement by statement, with locks, saved answers, crashes and retries; implements AtomicLot |
| `PlacementQueue` | the turns of placement jobs |
| `Scoring` | the choice of a location |
| `Catalogue` | the product service under the inventory's receipts |
| `AuditTrail` | the audit service under a client that pages |
| `Layout` | the creation of warehouses, zones, racks and locations |
| `Services` | the last five side by side |
| `InventoryProofs`, `InventoryRefinement` | proofs about Inventory; that it implements ReservationLedger |
| `SagaProofs`, `PutawayProofs`, `MessagingProofs`, `CommandsProofs`, `ServicesProofs` | proofs about the module of that name |
| `DataTheorems` | facts on queues, finite sums, images and ranks that the proofs share |
| `MC*` | instances for TLC |

```
 Inventory ==implements==> ReservationLedger <--INSTANCE-- Saga
     ^
     '------INSTANCE------ Putaway           Messaging ==implements==> EventStream

 Commands ==implements==> AtomicLot
 Services --INSTANCE--> Catalogue, AuditTrail, Layout, Scoring, PlacementQueue
```

The channels of Saga and Putaway are streams in the sense of EventStream: each
event is handled once, in order, unless it is parked in the dead letter topic,
from where Replay appends it again. Inventory's atomic transactions are what
Commands establishes statement by statement, for a command and for an event, and
Putaway's assumption that every due job gets its turn is what PlacementQueue
establishes. Scoring refines Putaway's open choice of a location.

### Inventory

A state is the four tables and a clock. `emitted` holds the outbox rows of the
latest transaction, so properties can relate a change to its announcement.

- *One action per transaction.* Every transaction takes the advisory lock of its
  warehouse first (`Change` after a first read whose only use is to find the
  warehouse) and holds it to its commit. Transactions of different warehouses
  touch disjoint rows, but for a cancellation whose payload names another
  warehouse than the reservation's: `release` does not compare them. It only
  lowers `reserved_quantity`, in one UPDATE, which no concurrent guard can miss
  to its harm, so it is left atomic too. A failing transaction is rolled back
  and is no step; a rejected request is one (`Handle`, lines 42-60: savepoint
  rolled back, rejection recorded).
- *Handlers may be invoked at any time, with any payload, any number of times*:
  every delivery behaviour is included. The module knows no queue.
- *Loops are closed forms.* `Take` is what the loop over the lots of a line
  takes of each; `LoadWithout` and `UpTo` are the loads after all and after
  some of `ship`'s capacity calls.
- *Integers.* Weights are integers, so the tolerance 1e-9 and the clamp at zero
  are exact comparisons; float residue is not modelled. Quantities are bounded
  by `MaxQuantity` as in the code (1 billion).
- *Two orders of lots.* `reserve` allocates by expiration date, then creation
  (`Before`); `ship` visits the allocations by `stock_id`, a random UUID
  (`Rank`). The runs take two different orders.
- *Inputs.* `Receive`'s product and warehouse lookups select which commands
  succeed and are left open. Whether a location is open is asked over HTTP: an
  input (`open`) for `Place`, whose refusal is announced, and left out where a
  refusal is only an error to the caller.
- Time has one unit, the day. `reservations.expires_at` and expiration dates are
  compared with the same clock.

### Saga

`status`, `shipment`, `overdue` and `answers` are ReservationLedger's; the
module's inventory steps are that module's actions plus publication of their
answers. The clients' commands are enabled as in the code, among them the
cancellation of a FAILED shipment. `looked` separates Shipment's lookup from its
insert. A shipment is identified by its reservation, as its table is UNIQUE on
`reservation_id`. Events that nobody acts upon (`ShipmentCreated`, ...) are left
out. A handler that fails for a reason of its own (`Park`) is bounded by
`MaxFailures`; a cancellation that arrives before its reservation's request
always fails (reservations.go:143) and is parked without that bound.

### Putaway

`Stock` is Inventory with no reservations, one product and one warehouse; its
events are published to two channels. `assign()` is split where it waits:
`Pick` (row lock and mutex), `ReadLot` (HTTP), `Assign` or `Postpone`. The list
of locations is read and used in one step: an event that waits in a channel is
not distinguishable from one emitted later. The row lock keeps `Handle` from the
picked job. The Redis key may expire at any time. Inventory's question about the
location and its transaction's end are two steps, so the documented window in
which a location is blocked is there. Which eligible location scores best is left open
(module Scoring). A job may stay ASSIGNED only while the decision or its verdict
is under way, or if the lot was emptied meanwhile (`JobsTruthful`):
`place()` then drops the decision without an event (reservations.go:248), and no
unit is involved.

### Messaging

One aggregate, one partition, several consumer instances. Each step of both loops
is an action; any of them may fail or crash: a batch is rolled back with or
without its record in flight written, a commit is lost with or without effect,
the dead letter copy is written with or without acknowledgement, the offset commit
fails, the partition moves while its former owner still works. Payloads that never
parse behave as handlers that always fail.

`Publishers` and `Serial` choose the deployment. With one publisher and
transactions of the aggregate kept apart by a lock (`Serial`), which is what the
documentation prescribes, the order is kept. Without, a row becomes visible
behind rows of a higher sequence number that are published already, and several
publishers skip the rows that another has locked: EventStream then promises no
order (`InOrder`), but still that nothing is lost and nothing takes effect twice.

### Commands

`Runtime.Command` and `Runtime.Process` around `Service.Change` and `reserve`, on
one lot. A transaction is at a statement: it waits for the lock of its key
(`pg_advisory_xact_lock`, or the inbox row another instance has inserted and not
committed), looks up the saved row, finds the lot (the first, unlocked read of
`Change`), waits for the warehouse, reads the lot again, and commits its UPDATE
together with the saved answer. `AtomicLot` has one action for all that; the
refinement mapping is the identity on the committed rows, and what it takes is
that `Update(w, seen, x)`, which uses the read lot for the guard and the row for
the arithmetic, equals `Update(w, x, x)` at the commit. An adjustment *writes* the
counted quantity, so a read before the lock would overwrite a reservation's or a
write-off's change.

A refused request is rolled back and not saved: its retry is executed again and
may succeed by then, as in the code. `Commands.java` follows the same protocol.

### PlacementQueue

`line` holds the pending jobs by `next_attempt`, `wait` the time each has to wait;
jobs of the same instant are in any order, as `ORDER BY next_attempt` leaves them.
`Pick` takes the first due row that is not locked and needs the mutex of its
warehouse; without it the tick ends, and the job behind is not tried. A job that
fits nowhere goes ten seconds back, a refused one three, a failed one stays at the
head. Events reopen or remove a job whenever its row is not locked; `suitable`
changes at any time.

### Scoring

`Score` in parts of 1/`Scale`, a multiple of all denominators, so nothing is
rounded, and the loop of `assign()` over the list. The code computes with binary
floating point, in which candidates that tie exactly here may differ in the last
place; which of those wins is then decided there, not by the id.

### Catalogue

The product's physical properties are one value, its describing fields another. A
receipt asks (`Lookup`), and stores the lot some statements later (`Store`); edits
and deactivation come in between. `LotsMatchProducts` holds because `update`
refuses to change physical properties, not because of any lock. A receipt that has
asked before the deactivation does commit after it: docs/architecture.md:15 says
deactivation "prevents new receipts", and that is true of receipts that begin
afterwards (the other half of `LotsMatchProducts`). The window of the receipts under way at that
moment is as wide as one transaction and is not among the windows that
docs/architecture.md:74 lists.

### AuditTrail

Events are inserted once per id, with the timestamp of their origin, so rows
appear anywhere in the order `timestamp, id`. A client pages with limit and
offset while they do: later offsets shift down, rows are shown twice, never
skipped (`NothingSkipped`), because rows are never removed nor moved.

### Layout

Every operation reads its parent and inserts one row in one transaction; several
overlap. `Insert` is the UNIQUE constraint, which also waits for uncommitted rows.
A location copies warehouse and type from its rack's zone. Nothing is updated or
deleted, which is why the copy stays true.

## Runs

| Run | Asks | Bounds |
|---|---|---|
| `inventory_stock` | Are both ledgers consistent, whatever the order of steps? | 2 reservations, 3 lots of at most 2 units, 2 locations (3 units by weight, 1 by volume), 2 days |
| `inventory_events` | Does each transaction announce what it did? Does Inventory implement ReservationLedger? | 2 products, 2 warehouses, 2 shipments, 3 lots; orders of one line, two lines, a duplicate line, zero units, no line |
| `inventory_order` | Which lots are allocated? | 3 lots of 1 or 2 units, dates 2, 3 or none, orders of 1 to 3 units, 3 days |
| `saga` | Do the services' final statuses agree, is anything forgotten, is every request answered, and does the answer stay? | 1 reservation, commands while fewer than 3 events wait, 3 failures |
| `saga_cancelling`, `saga_cancelled` | violations, see below | 1 reservation |
| `messaging_safety` | Is anything lost, repeated or reordered? | 3 events, batches of 2, 2 attempts, 1 publisher, 2 instances, 4 faults |
| `messaging_live` | What is promised without an order, and does every event take effect? | 2 events that commit in any order, 1 attempt, 2 publishers, 2 instances, 2 faults |
| `putaway_safety` | Is a lot or a decision forgotten, does a job or a projection lie? | 2 lots of at most 2 units, 2 locations, 2 placement instances, 2 failures |
| `putaway_live` | Is what fits put away, does the projection catch up? | 2 lots, 2 locations, 1 instance, 1 failure |
| `commands` | Is overlapping and repeated work done once, one after another, and is everyone answered? | 6 requests with 3 keys, among them a repeated one, a reused key and an event at two instances; 2 servers, 1 unit, 1 crash or lost answer |
| `services` | Are copies of products true, is no row of the trail skipped, do codes identify locations, is the best location chosen, does every job get its turn? | 2 products, 2 receipts; 5 events, pages of 1 to 3; 2 warehouses, zones, racks, locations, 2 transactions; lists of up to 3 of 46 candidates, 2 demands; 3 jobs in 2 warehouses, 2 instances, 1 refusal, 1 failure |

Why these bounds: two reservations on one lot and one reservation on two lots are
the cases in which units could be confused; three lots let a line take one whole,
one partly and none of the third, and let a move split a lot while another is
reserved. Location limits are smaller than the stock, one by weight and one by
volume, so that refusals and competition occur. Two days make everything expire
before, at and after use; the order run has a third so that a lot expires while
another with a date remains. One failure is enough to reorder two events through
the dead letter topic, two to reorder three. Sagas of different reservations share
no row of any service; they only queue behind each other, which delays an event as
a failed attempt does, so `saga` spends its bound on failures. In `commands`,
one unit makes each of reserve, write-off and adjust the one that comes too late.
`services` chooses at first which of its five parts acts: they share no state, so
interleaving them would multiply states and show nothing new. Pages of one row and
pages longer than the trail, exact fits and full locations, two racks in different
zones of one warehouse, and two jobs behind one mutex are all among its instances.
`MaxQueue` bounds only clients, never
handlers. `MaxRevision` (Putaway) stops the clients after some changes of a load
so that adjusting up and down is finite; two revisions of a location are enough
for one to overtake the other.

Reductions: the Inventory runs and `putaway_safety` use a VIEW without `emitted`
(and `revision`, for Inventory). No guard or invariant reads them, and TLC
evaluates action properties on every step it generates, so nothing is hidden from
these. Reservations in `inventory_stock`, consumer instances and placement
instances are interchangeable in safety runs (SYMMETRY); runs with a liveness property use neither.

Deadlock is checked for Inventory, whose handlers never block. The other runs
have `CHECK_DEADLOCK FALSE`: clients may stop, and then nothing is left to do.

Every passing property has a mutant in `PROJECT.json`: the operator with the
suffix of a seeded fault (`Adjust_BelowReserved`, `GoOn_Early`, ...) takes the
place of the modelled one and TLC finds the property violated.

### Fairness

- Saga, Putaway: consumers, the expiry worker and the placement worker are loops
  that retry for ever, so weak fairness of each. Parked events are replayed (the
  documented recovery). No fairness for clients, for time, or for failures.
- Putaway: strong fairness of picking each pending job, which is `EveryJobTried`
  of PlacementQueue, checked there under weak fairness of each instance, of time
  and of the expiry of Redis keys; weak fairness of the key's expiry, which Redis guarantees. `PutAway` is
  conditional on an administrator who lets the locations be eventually, and
  promises nothing for a lot that fits nowhere.
- Messaging: weak fairness of the publisher, of each consumer instance, and of
  replay; none for new transactions or faults.
- Commands: weak fairness of each server (statements end, and a transaction that
  waits gets the lock when it is free) and of each client (retries until it is
  answered). No strong fairness is needed for the locks: the bounded requests stop
  coming, so a lock does not go to others for ever.

### Violations

- `saga_cancelling` / `CancellingResolves`: cancelling a shipment whose reservation
  has expired or was cancelled, or that has FAILED and whose reservation is over,
  leaves it CANCELLING for ever: `release()` answers nothing unless the reservation
  is CONFIRMED (reservations.go:152). The state diagram in `docs/architecture.md`
  leads to CANCELLED.
- `saga_cancelled` / `CancelledIsFinal`: a shipment in SHIPPING whose reservation
  expires becomes CANCELLED, and FAILED when the refusal of the ship request
  arrives (ShipmentService.java:143). The diagram has no transition out of CANCELLED.

The goods are safe in both: `ServicesAgree` holds.

## Proofs

Each proof module states one inductive invariant (`IInv` or `Inv`), proves that it
holds at first and that each action keeps it, one lemma per action, and derives the
properties. The only assumptions are the `ASSUME`s of the modules proved about;
TLC evaluates these in every run. None bounds the number of actors, the length of a
queue or the number of failures. They say that tables are finite where a sum or a
page is taken over them, that quantities and limits are natural, that units weigh
something (`Inventory`) and locations hold something (`Putaway`, the CHECK of table
`locations`), and that the value for SQL null is no id.

| Property | Theorem | Argument |
|---|---|---|
| ledgers, bounds, limits of Inventory | `InventoryInvariant` and six more | sums change by what a transaction adds and removes |
| no internal error in `ship` | `InventoryShipCannotFail` | one share is part of the sum |
| expiration order, ordered quantities | `InventoryFirstExpiredFirst`, `InventoryReservedAsOrdered` | the greedy allocation, lot by lot |
| capacity and quantity events | `InventoryCapacityPublished`, `InventoryQuantityAccounted` | ranks of the shipped lots; sums over lots and over events |
| Inventory implements ReservationLedger, one outcome | `InventoryImplementsLedger`, `InventoryOneOutcome` | one ledger step per action |
| final statuses agree and stay, nothing is forgotten | `SagaServicesAgree`, `SagaOutcomesStay`, `SagaNothingForgotten`, `SagaFollowsLedger` | what the events under way may say |
| nothing lost, delivery implements EventStream | `MessagingNothingLost`, `MessagingImplementsStream` | where each event is |
| no lot forgotten, jobs and projections true | `PutawayNoLotForgotten`, `PutawayJobsTruthful`, `PutawayProjectionTruthful` | who has the next word about a lot |
| answers agree, overlapping work implements AtomicLot | `CommandsAnswersAgree`, `CommandsImplementAtomicLot` | locks, and what was read under them |
| copies of products, locations, pages, choice | `ServicesLotsMatch`, `ServicesLocations`, `ServicesNothingSkipped`, `ServicesChoice`, `ServicesScore` | one invariant per part |
| types | `...Types` of each module | |

### Inventory

`IInv` is the conjunction of types, bounds, both ledgers, limits and placement. None is
inductive alone: that a release leaves `reserved` natural follows from reserved units
being a sum in which the release's share is one term; that a shipment leaves
`quantity` and `load` natural follows from bounds and from the load being a sum over
the lots; that only placed lots are reserved is what lets a shipment find a location.

The action properties follow from `IInv` step by step.
- `Take` is what a loop takes, in closed form: of each lot, what the lots before it have
  left of the line. So a lot that gives something has only exhausted lots before it
  (`FirstExpired`). That the parts add up to the line (`OrderedQuantity`) is shown on the
  initial segments of the candidates: the sum over a segment is the lesser of what it
  holds and what was ordered (`TakenInOrder`), by a minimal segment that would
  contradict it.
- `ship` publishes one load per lot, in the order of the lots' ids. The revisions of a
  location have no gap because the number of lots up to each is its rank
  (`RankOrder`), and the last load is the table's because the lot of highest rank has
  all the others before it (`LastElement`).
- What a shipment reports is a sum over the set of its items, what it changes a sum over
  the lots; `SumImage` is the passage from one to the other.

`InventoryRefinement` maps initial states to initial states and every action to one of
the ledger or to `Quiet`; it needs `TypeOK` and that a reservation that is not
COMPLETED has no shipment id (`Unshipped`). `InventoryOneOutcome` is proved from this: a
status changes by a step of the ledger, which gives one answer, and the transaction's
events give no other.

### Sums and ranks

The sums are `SumFunctionOnSet` of the community modules, a fold defined by recursion
on sets. The library's induction theorems take operator parameters, out of the
provers' reach, so `DataTheorems` gets what it needs (empty sum, one more element,
change at one point, monotonicity, images) by contradiction on a minimal finite
subset, which exists because cardinalities are well-ordered. Ranks use that an
injection between finite sets of the same size is onto.

### Saga

`ServicesAgree` says nothing of the events under way, which decide what the services
will believe next. `Inv` adds: an announced outcome is the ledger's (`OutcomesTrue`); a
shipment is requested at most once, and counted wherever the request may be, in its
queue or parked (`RequestedOnce`); not before it is packed (`RequestedLate`); while the
request may still be granted the shipment is SHIPPING (`RequestedShips`), so it is not
cancelled and the goods gone; and a refusal is the last word (`RefusedStays`). That
parked events come back behind younger ones is part of the model, so these are what makes
the sagas insensitive to order.

`NothingForgotten` is the safety half of `RequestsAnswered` and `ReservationConverges`:
whatever a service waits for, its request, the ledger's latest word or the answer to a
ship request, is in a queue or parked; fairness only has to move it. A request leaves its
queue when it is done (`Done`), an answer when the reservation is `Settled` by it or the
shipment no longer SHIPPING. Three facts of `Inv` decide: a final projection is the
ledger's, an announced outcome stays true, and a shipment whose request still waits is not
COMPLETED, so no request is taken for one answered before. `Known` adds that the ledger
speaks only of reservations it has decided.

### Putaway

`LotFair` says of each lot who has the next word: its job waits for a worker, or one
decision is on its way, or one refusal is, never two of them; it also says what each
status of a job tells of the lot. `OneVoice` counts events through queues and the dead
letter topic, where a replay moves them. `NoLotForgotten` and `JobsTruthful` are read off.
For the projection, `ChangesTrue`: a load under way is one the ledger has been through.
The proof needs positive limits, which the table's CHECK grants: with a limit of zero an
empty location would be FULL as soon as it is created.

### Messaging

`Marked`, `Copied`, `Together` and `Passed` say where an event is: what is marked is in
the topic, what is behind *any* instance's position, a former owner's too, has taken
effect or is in the dead letter topic. A batch is a set of rows, from which the oldest is
sent next. Where the deployment is serial, `OneOpen`, `BatchOldest` and `LogOrdered`
carry the order through, whatever is repeated.

### Commands

`KeyLocked` and `HouseLocked`: one transaction at most holds a key, and one the
warehouse; so what was looked up under the lock is still so at the commit (`Undone`,
`Fresh`), which makes `Update(w, seen, x)` of the code `Update(w, x, x)` of `AtomicLot`.
`Truthful` says that answers under way are those saved, and `Served` whom they are for.

### Services

`Inv` has one part for each module.
- *Catalogue*: a receipt about to store has read what is still true (`ReceiptsTrue`).
- *Layout*: a row has a committed parent, and a location what its parent's zone says
  (`Sound`), before the row itself is committed; rows of overlapping transactions are
  `Apart`.
- *Scoring*: `ChoiceIsBest` is the loop's invariant. That no factor outgrows its weight,
  and that an emptier and nearer location wins, is arithmetic over all limits, loads and
  distances for which `Scale` is a multiple of the denominators.
- *AuditTrail*: the place of a row is its rank, which never goes down when rows are added
  (`RankGrows`); so what has a place before the next page was shown, or was not there at
  first (`NothingMissed`), and pages meet (`PagesMeet`).
- *PlacementQueue*: the line holds each pending job once, by its time (`InOrder`), because
  what a worker has in hand is pending and nobody else's (`RowsLocked`).

### Only model-checked

- What must happen eventually, and needs fairness: `ReservationConverges`,
  `RequestsAnswered`, `OverdueReleased`, `EveryEventTakesEffect`, `ProjectionCatchesUp`,
  `PutAway`, `EveryoneAnswered`, `EveryJobTried`. TLAPS proves no liveness under fairness.
- The two violations, which are counterexamples.

## Not modelled

- Platform plumbing (`runtime.go`, `types.go`, `Repository.java` beyond its
  lookups): configuration, connections, JSON, metrics, tracing, health. They keep
  no state of the domain. Shutdown cancels the loops at any statement, which is the
  crash of the modules.
- HTTP status codes and bodies: an answer is done, conflict or refused. A Java
  service replays the answer it saved, whose `version` and `updatedAt` may lag
  behind the row's; nothing is promised about these.
- Floating point residue of weights and of scores; clock skew between application
  and database; pruning of tables.
- The limit of 500 rows of every list (docs/api.md:74): a warehouse with more
  locations hides the newer ones from placement.
- Scripts, compose files, dashboards. `replay_event.py` is the Replay action.

## Plan

Safety is proved throughout, no operation of a service is left out. What is left:

1. The safety half of the other liveness properties, as `NothingForgotten` is for Saga
   and `NoLotForgotten` for Putaway: that a transaction waiting for a lock waits for one
   that can go on (Commands).
2. Composition: that Putaway's `Stock` steps are those of Inventory for its lots, as
   `SagaFollowsLedger` says of Saga, and that its jobs are those of PlacementQueue.
3. Shorter proofs: facts that several modules prove about channels with parked events
   (`Waits` of SagaProofs, `Way` of PutawayProofs) belong into DataTheorems.
