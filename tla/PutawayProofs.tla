---------------------------- MODULE PutawayProofs ----------------------------
(***************************************************************************)
(* No lot is forgotten, and what the placement and warehouse services show *)
(* is true, for any number of lots, locations, workers and failures, any   *)
(* length of the queues and any order in which parked events come back.    *)
(***************************************************************************)
EXTENDS Putaway, DataTheorems

-----------------------------------------------------------------------------
(***************************************************************************)
(* Events.                                                                 *)
(***************************************************************************)
ToInventory == "placement>inventory"
ToPlacement == "inventory>placement"
ToWarehouse == "inventory>warehouse"

Decision(l, loc) == [type |-> "ProductPlacementAssigned", lot |-> l, location |-> loc]
Refusal(l)       == [type |-> "PlacementRejected", lot |-> l]

Decisions == [type : {"ProductPlacementAssigned"}, lot : Lots, location : Suitable]
Receipts  == [type : {"GoodsReceived"}, lot : Lots, product : {Product}, quantity : Nat]
Refusals  == [type : {"PlacementRejected"}, lot : Lots]
Additions == [type : {"StockAdded"}, lot : Lots, location : Locations, quantity : Nat]
Changes   == [type : {"LocationCapacityChanged"}, location : Locations,
              load : [Stock!Dims -> Nat], revision : Nat]

\* What each channel carries, and the records of the dead letter topic.
Carries(c) ==
  IF c = ToInventory THEN Decisions
  ELSE IF c = ToPlacement THEN Receipts \cup Refusals \cup Additions
  ELSE Changes

Events == Decisions \cup Receipts \cup Refusals \cup Additions \cup Changes
Parked == [channel : Channels, event : Events]

\* The decisions and the refusals about lot l.
DecisionsOn(l) == {Decision(l, loc) : loc \in Suitable}
RefusalsOn(l)  == {Refusal(l)}

\* Set T has an event of the type about lot l.
Has(T, type, l) == \E e \in T : e.type = type /\ e.lot = l

\* What is on its way over channel c, with queue q before its consumer and dead
\* letter topic p, and that an event of E is there once at most.
Way(c, q, p) == Range(q) \cup {x.event : x \in {y \in Range(p) : y.channel = c}}
Aside(c, E) == {[channel |-> c, event |-> e] : e \in E}
Sole(c, q, p, E) ==
  /\ Once(q, E) /\ Once(p, Aside(c, E))
  /\ Range(q) \cap E = {} \/ Range(p) \cap Aside(c, E) = {}

-----------------------------------------------------------------------------
(***************************************************************************)
(* The inductive invariant.                                                *)
(***************************************************************************)
Routed ==
  /\ channel \in [Channels -> Seq(Events)] /\ parked \in Seq(Parked)
  /\ \A c \in Channels : Transit(c) \subseteq Carries(c)

WorkersTyped ==
  /\ worker \in [Workers -> [stage : {"idle", "picked", "read"}, lot : Nat, quantity : Nat]]
  /\ \A w \in Workers : worker[w].stage = "idle" => worker[w] = Idle

\* One decision and one refusal about a lot at a time.
OneVoice ==
  \A l \in Lots :
    /\ Sole(ToInventory, channel[ToInventory], parked, DecisionsOn(l))
    /\ Sole(ToPlacement, channel[ToPlacement], parked, RefusalsOn(l))

\* Lot l with row x and job j, when the events of `told` are on their way to the
\* placement service and those of `asked` to the inventory.  Events and jobs are
\* about lots received, and a lot said to be added has its location.  The next
\* word on a lot without a location is with one place only: its job waits for a
\* worker, a decision is on its way or a refusal is.  A job that is cancelled,
\* or whose decision was dropped, is about a lot that never gets a location.
LotFair(l, told, asked, j, x) ==
  /\ x = Stock!NoStock =>
       /\ j = "NONE" /\ ~ Has(asked, "ProductPlacementAssigned", l)
       /\ \A t \in {"GoodsReceived", "StockAdded", "PlacementRejected"} : ~ Has(told, t, l)
  /\ Has(told, "StockAdded", l) => x.location # None
  /\ ~ (Has(asked, "ProductPlacementAssigned", l) /\ Has(told, "PlacementRejected", l))
  /\ Has(asked, "ProductPlacementAssigned", l) \/ Has(told, "PlacementRejected", l) =>
       j \notin {"NONE", "PENDING"} /\ x.location = None
  /\ j = "PENDING" => x.location = None
  /\ j = "NONE" /\ Has(told, "GoodsReceived", l) => x.location = None
  /\ j = "CANCELLED" => x.location = None /\ x.quantity = 0
  /\ j = "PLACED" => x.location # None
  /\ j = "ASSIGNED" =>
       \/ Has(asked, "ProductPlacementAssigned", l)
       \/ Has(told, "PlacementRejected", l) \/ Has(told, "StockAdded", l)
       \/ x.quantity = 0 /\ x.location = None
  /\ x.quantity > 0 /\ x.location = None =>
       \/ j = "PENDING"
       \/ j = "NONE" /\ Has(told, "GoodsReceived", l)
       \/ j = "ASSIGNED" /\ \/ Has(asked, "ProductPlacementAssigned", l)
                            \/ Has(told, "PlacementRejected", l)

LotsFair ==
  \A l \in Lots : LotFair(l, Transit(ToPlacement), Transit(ToInventory), jobs[l], stocks[l])

\* A change of a location's load is one the ledger has been through.
ChangesTrue ==
  \A e \in Transit(ToWarehouse) :
    /\ e.revision <= revision[e.location]
    /\ e.revision = revision[e.location] => e.load = load[e.location]

Inv == TypeOK /\ Routed /\ WorkersTyped /\ OneVoice /\ LotsFair /\ ChangesTrue /\ ProjectionTruthful

-----------------------------------------------------------------------------
(***************************************************************************)
(* Queues and the dead letter topic.                                       *)
(***************************************************************************)
\* An event on its way is before the consumer or in the dead letter topic.
LEMMA WayElements ==
  ASSUME NEW c, NEW q, NEW p \in Seq(Parked)
  PROVE  \A e : e \in Way(c, q, p) <=> e \in Range(q) \/ [channel |-> c, event |-> e] \in Range(p)
<1>1. Range(p) \subseteq Parked
  BY RangeOfSeq
<1>2. ASSUME NEW y \in Range(p), y.channel = c
      PROVE  y = [channel |-> c, event |-> y.event]
  BY <1>1, <1>2 DEF Parked
<1> QED BY <1>2 DEF Way

\* The head of a queue leaves it.
LEMMA WayTail ==
  ASSUME NEW c, NEW q \in Seq(Events), NEW p \in Seq(Parked), q # <<>>
  PROVE  /\ Head(q) \in Events /\ Tail(q) \in Seq(Events)
         /\ Way(c, q, p) = {Head(q)} \cup Way(c, Tail(q), p)
         /\ \A E : Sole(c, q, p, E) => /\ Sole(c, Tail(q), p, E)
                                       /\ Head(q) \in E => Way(c, Tail(q), p) \cap E = {}
<1>1. /\ Head(q) \in Events /\ Tail(q) \in Seq(Events)
      /\ Range(q) = {Head(q)} \cup Range(Tail(q))
  BY RangeTail
<1>2. Way(c, q, p) = {Head(q)} \cup Way(c, Tail(q), p)
  BY <1>1 DEF Way
<1>3. ASSUME NEW E, Sole(c, q, p, E)
      PROVE  /\ Sole(c, Tail(q), p, E)
             /\ Head(q) \in E => Way(c, Tail(q), p) \cap E = {}
  <2>1. Once(Tail(q), E) /\ (Head(q) \in E => Range(Tail(q)) \cap E = {})
    BY <1>3, OnceTail DEF Sole
  <2>2. Sole(c, Tail(q), p, E)
    BY <1>1, <1>3, <2>1 DEF Sole
  <2>3. ASSUME Head(q) \in E, NEW e \in Way(c, Tail(q), p), e \in E
        PROVE  FALSE
    <3>1. [channel |-> c, event |-> e] \in Range(p)
      BY <2>1, <2>3, WayElements
    <3>2. Range(p) \cap Aside(c, E) = {}
      BY <1>1, <1>3, <2>3 DEF Sole
    <3> QED BY <2>3, <3>1, <3>2 DEF Aside
  <2> QED BY <2>2, <2>3
<1> QED BY <1>1, <1>2, <1>3

\* The elements of T join a queue.
LEMMA WayConcat ==
  ASSUME NEW c, NEW q \in Seq(Events), NEW p \in Seq(Parked), NEW T \in SUBSET Events, IsFiniteSet(T)
  PROVE  /\ q \o SetToSeq(T) \in Seq(Events)
         /\ Way(c, q \o SetToSeq(T), p) = Way(c, q, p) \cup T
         /\ \A E : /\ Sole(c, q, p, E)
                   /\ T \cap E = {} \/ (Way(c, q, p) \cap E = {} /\ \A x, y \in T \cap E : x = y)
                   => Sole(c, q \o SetToSeq(T), p, E)
<1> DEFINE r == SetToSeq(T)
<1>1. /\ r \in Seq(T) /\ Range(r) = T
      /\ \A E : (\A x, y \in T \cap E : x = y) => Once(r, E)
  BY SetToSeqElements
<1>2. r \in Seq(Events)
  BY <1>1, SeqMonotonic
<1> HIDE DEF r
<1>3. q \o r \in Seq(Events) /\ Range(q \o r) = Range(q) \cup T
  BY <1>1, <1>2, ConcatProperties, RangeConcatenation
<1>4. Way(c, q \o r, p) = Way(c, q, p) \cup T
  BY <1>3 DEF Way
<1>5. ASSUME NEW E, Sole(c, q, p, E), T \cap E = {} \/ (Way(c, q, p) \cap E = {} /\ \A x, y \in T \cap E : x = y)
      PROVE  Sole(c, q \o r, p, E)
  <2>1. Once(q, E) /\ Once(r, E)
    BY <1>1, <1>5 DEF Sole
  <2>2. CASE T \cap E = {}
    <3>1. Once(q \o r, E)
      BY <1>1, <1>2, <2>1, <2>2, OnceConcat
    <3> QED BY <1>3, <1>5, <2>2, <3>1 DEF Sole
  <2>3. CASE Way(c, q, p) \cap E = {}
    <3>1. \A e \in E : e \notin Range(q) /\ [channel |-> c, event |-> e] \notin Range(p)
      BY <2>3, WayElements
    <3>2. Once(q \o r, E)
      BY <1>2, <2>1, <3>1, OnceConcat
    <3>3. Range(p) \cap Aside(c, E) = {}
      BY <3>1 DEF Aside
    <3> QED BY <1>5, <3>2, <3>3 DEF Sole
  <2> QED BY <1>5, <2>2, <2>3
<1> QED BY <1>3, <1>4, <1>5 DEF r

\* One event joins a queue.
LEMMA WayAppend ==
  ASSUME NEW c, NEW q \in Seq(Events), NEW p \in Seq(Parked), NEW e \in Events
  PROVE  /\ Append(q, e) \in Seq(Events)
         /\ Way(c, Append(q, e), p) = Way(c, q, p) \cup {e}
         /\ \A E : Sole(c, q, p, E) /\ (e \notin E \/ Way(c, q, p) \cap E = {})
                     => Sole(c, Append(q, e), p, E)
<1>1. Append(q, e) \in Seq(Events) /\ Range(Append(q, e)) = Range(q) \cup {e}
  BY AppendProperties, RangeAppend
<1>2. Way(c, Append(q, e), p) = Way(c, q, p) \cup {e}
  BY <1>1 DEF Way
<1>3. ASSUME NEW E, Sole(c, q, p, E), e \notin E \/ Way(c, q, p) \cap E = {}
      PROVE  Sole(c, Append(q, e), p, E)
  <2>1. CASE e \notin E
    <3>1. Once(Append(q, e), E)
      BY <1>3, <2>1, OnceAppend DEF Sole
    <3> QED BY <1>1, <1>3, <2>1, <3>1 DEF Sole
  <2>2. CASE Way(c, q, p) \cap E = {}
    <3>1. \A f \in E : f \notin Range(q) /\ [channel |-> c, event |-> f] \notin Range(p)
      BY <2>2, WayElements
    <3>2. Once(Append(q, e), E)
      BY <1>3, <3>1, OnceAppend DEF Sole
    <3>3. Range(p) \cap Aside(c, E) = {}
      BY <3>1 DEF Aside
    <3> QED BY <1>3, <3>2, <3>3 DEF Sole
  <2> QED BY <1>3, <2>1, <2>2
<1> QED BY <1>1, <1>2, <1>3

\* The head of a queue is parked: it is still on its way over its channel.
LEMMA WayParked ==
  ASSUME NEW c \in Channels, NEW q \in Seq(Events), NEW p \in Seq(Parked), q # <<>>
  PROVE  LET x == [channel |-> c, event |-> Head(q)]
         IN  /\ Tail(q) \in Seq(Events) /\ Append(p, x) \in Seq(Parked)
             /\ Way(c, Tail(q), Append(p, x)) = Way(c, q, p)
             /\ \A E : Sole(c, q, p, E) => Sole(c, Tail(q), Append(p, x), E)
             /\ \A d, r : d # c => /\ Way(d, r, Append(p, x)) = Way(d, r, p)
                                   /\ \A E : Sole(d, r, p, E) => Sole(d, r, Append(p, x), E)
<1> DEFINE x == [channel |-> c, event |-> Head(q)]
           new == Append(p, x)
<1>1. /\ Head(q) \in Events /\ Tail(q) \in Seq(Events)
      /\ Range(q) = {Head(q)} \cup Range(Tail(q))
  BY RangeTail
<1>2. x \in Parked
  BY <1>1 DEF Parked
<1>3. new \in Seq(Parked) /\ Range(new) = Range(p) \cup {x}
  BY <1>2, AppendProperties, RangeAppend
<1>4. \A E : Head(q) \in E <=> x \in Aside(c, E)
  BY DEF Aside
<1>5. \A d, E : d # c => x \notin Aside(d, E)
  BY DEF Aside
<1>6. x.channel = c /\ x.event = Head(q)
  OBVIOUS
<1>7. \A E : Once(p, E) /\ (x \notin E \/ Range(p) \cap E = {}) => Once(new, E)
  BY <1>2, OnceAppend
<1> HIDE DEF x, new
<1>8. Way(c, Tail(q), new) = Way(c, q, p)
  BY <1>1, <1>3, <1>6 DEF Way
<1>9. ASSUME NEW E, Sole(c, q, p, E) PROVE Sole(c, Tail(q), new, E)
  <2>1. Once(Tail(q), E) /\ (Head(q) \in E => Range(Tail(q)) \cap E = {})
    BY <1>9, OnceTail DEF Sole
  <2>2. CASE Head(q) \in E
    <3>1. Range(p) \cap Aside(c, E) = {}
      BY <1>1, <1>9, <2>2 DEF Sole
    <3> QED BY <1>7, <1>9, <2>1, <2>2, <3>1 DEF Sole
  <2>3. CASE Head(q) \notin E
    <3>1. x \notin Aside(c, E)
      BY <1>4, <2>3
    <3>2. Once(new, Aside(c, E))
      BY <1>7, <1>9, <3>1 DEF Sole
    <3> QED BY <1>1, <1>3, <1>9, <2>1, <3>1, <3>2 DEF Sole
  <2> QED BY <2>2, <2>3
<1>10. ASSUME NEW d, NEW r, d # c
       PROVE  /\ Way(d, r, new) = Way(d, r, p)
              /\ \A E : Sole(d, r, p, E) => Sole(d, r, new, E)
  <2>1. Way(d, r, new) = Way(d, r, p)
    BY <1>3, <1>6, <1>10 DEF Way
  <2>2. ASSUME NEW E, Sole(d, r, p, E) PROVE Sole(d, r, new, E)
    <3>1. x \notin Aside(d, E)
      BY <1>5, <1>10
    <3>2. Once(new, Aside(d, E))
      BY <1>7, <2>2, <3>1 DEF Sole
    <3> QED BY <1>3, <2>2, <3>1, <3>2 DEF Sole
  <2> QED BY <2>1, <2>2
<1> QED BY <1>1, <1>3, <1>8, <1>9, <1>10 DEF x, new

\* The head of the dead letter topic is published again, over its channel.
LEMMA WayReplayed ==
  ASSUME NEW q \in Seq(Events), NEW p \in Seq(Parked), p # <<>>
  PROVE  LET x == Head(p)
             c == x.channel
         IN  /\ x \in Parked /\ Append(q, x.event) \in Seq(Events) /\ Tail(p) \in Seq(Parked)
             /\ Way(c, Append(q, x.event), Tail(p)) = Way(c, q, p)
             /\ \A E : Sole(c, q, p, E) => Sole(c, Append(q, x.event), Tail(p), E)
             /\ \A d, r : d # c => /\ Way(d, r, Tail(p)) = Way(d, r, p)
                                   /\ \A E : Sole(d, r, p, E) => Sole(d, r, Tail(p), E)
<1> DEFINE x == Head(p)
           c == x.channel
           new == Append(q, x.event)
<1>1. /\ x \in Parked /\ Tail(p) \in Seq(Parked) /\ Range(p) = {x} \cup Range(Tail(p))
  BY RangeTail
<1>2. c \in Channels /\ x.event \in Events /\ x = [channel |-> c, event |-> x.event]
  BY <1>1 DEF Parked
<1>3. new \in Seq(Events) /\ Range(new) = Range(q) \cup {x.event}
  BY <1>2, AppendProperties, RangeAppend
<1>4. ASSUME NEW E PROVE x.event \in E <=> x \in Aside(c, E)
  <2> HIDE DEF x, c
  <2>1. \A e : x = [channel |-> c, event |-> e] => x.event = e
    OBVIOUS
  <2> QED BY <1>2, <2>1 DEF Aside
<1>5. \A d, E : d # c => x \notin Aside(d, E)
  BY DEF Aside
<1>6. \A E : Once(q, E) /\ (x.event \notin E \/ Range(q) \cap E = {}) => Once(new, E)
  BY <1>2, OnceAppend
<1>7. \A E : Once(p, E) => Once(Tail(p), E) /\ (x \in E => Range(Tail(p)) \cap E = {})
  BY OnceTail
<1> HIDE DEF x, c, new
<1>8. Way(c, new, Tail(p)) = Way(c, q, p)
  BY <1>1, <1>3 DEF Way, c
<1>9. ASSUME NEW E, Sole(c, q, p, E) PROVE Sole(c, new, Tail(p), E)
  <2>1. Once(Tail(p), Aside(c, E)) /\ (x \in Aside(c, E) => Range(Tail(p)) \cap Aside(c, E) = {})
    BY <1>7, <1>9 DEF Sole
  <2>2. CASE x.event \in E
    <3>1. x \in Aside(c, E)
      BY <1>4, <2>2
    <3>2. Range(q) \cap E = {}
      BY <1>1, <1>9, <3>1 DEF Sole
    <3> QED BY <1>6, <1>9, <2>1, <3>1, <3>2 DEF Sole
  <2>3. CASE x.event \notin E
    <3>1. Once(new, E)
      BY <1>6, <1>9, <2>3 DEF Sole
    <3> QED BY <1>1, <1>3, <1>9, <2>1, <2>3, <3>1 DEF Sole
  <2> QED BY <2>2, <2>3
<1>10. ASSUME NEW d, NEW r, d # c
       PROVE  /\ Way(d, r, Tail(p)) = Way(d, r, p)
              /\ \A E : Sole(d, r, p, E) => Sole(d, r, Tail(p), E)
  <2>1. Way(d, r, Tail(p)) = Way(d, r, p)
    BY <1>1, <1>10 DEF Way, c
  <2>2. ASSUME NEW E, Sole(d, r, p, E) PROVE Sole(d, r, Tail(p), E)
    BY <1>1, <1>7, <2>2 DEF Sole
  <2> QED BY <2>1, <2>2
<1> QED BY <1>1, <1>3, <1>8, <1>9, <1>10 DEF x, c, new

-----------------------------------------------------------------------------
(***************************************************************************)
(* Transactions of the inventory.                                          *)
(***************************************************************************)
\* Load, revision and the changes that are announced.
LedgerStep ==
  /\ load' \in [Locations -> [Stock!Dims -> Nat]] /\ revision' \in [Locations -> Nat]
  /\ IsFiniteSet(emitted')
  /\ \A loc \in Locations :
       /\ revision[loc] <= revision'[loc]
       /\ revision'[loc] = revision[loc] => load'[loc] = load[loc]
  /\ \A e \in emitted' : e.type = "LocationCapacityChanged" =>
       e \in Changes /\ e.revision = revision'[e.location] /\ e.load = load'[e.location]

\* The events of the transaction that the placement service acts upon.
Telling == {e \in emitted' : e.type \in Interests[ToPlacement]}

\* A command changes no location of a lot, gives no units to one without a
\* location, and tells of each lot it receives.
CommandStep ==
  /\ LedgerStep /\ stocks' \in [Lots -> Stock!Rows \cup {Stock!NoStock}]
  /\ \A e \in Telling :
       /\ e \in Receipts /\ stocks[e.lot] = Stock!NoStock
       /\ stocks'[e.lot] # Stock!NoStock /\ stocks'[e.lot].location = None
  /\ \A l \in Lots :
       \/ stocks'[l] = stocks[l]
       \/ /\ stocks[l] # Stock!NoStock /\ stocks'[l].location = stocks[l].location
          /\ stocks[l].location = None => stocks'[l].quantity <= stocks[l].quantity
       \/ /\ stocks[l] = Stock!NoStock
          /\ stocks'[l].location # None \/ Has(Telling, "GoodsReceived", l)
  /\ \A l \in Lots : stocks'[l] = Stock!NoStock => stocks[l] = Stock!NoStock

\* The channels from the inventory.
LEMMA InterestsOf ==
  /\ DOMAIN Interests = {ToPlacement, ToWarehouse}
  /\ Interests[ToPlacement] = {"GoodsReceived", "PlacementRejected", "StockAdded"}
  /\ Interests[ToWarehouse] = {"LocationCapacityChanged"}
  /\ Channels = {ToPlacement, ToWarehouse, ToInventory}
  /\ ToPlacement # ToWarehouse /\ ToPlacement # ToInventory /\ ToWarehouse # ToInventory
BY DEF Interests, Channels, ToPlacement, ToWarehouse, ToInventory

\* A row of the table, and no row.
LEMMA RowFacts ==
  ASSUME Stock!TypeOK, NEW l \in Lots
  PROVE  /\ stocks[l] \in Stock!Rows \cup {Stock!NoStock}
         /\ stocks[l] # Stock!NoStock =>
              /\ stocks[l] \in Stock!Rows
              /\ stocks[l].product = Product /\ stocks[l].warehouse = Warehouse
              /\ stocks[l].location \in Locations \cup {None}
              /\ stocks[l].quantity \in Nat /\ stocks[l].reserved \in Nat
         /\ Stock!NoStock.product = None /\ Stock!NoStock.quantity = 0 /\ Stock!NoStock.location = None
         /\ Product # None /\ Stock!NoStock \notin Stock!Rows
BY PutawayAssumption DEF Stock!TypeOK, Stock!Rows, Stock!NoStock

\* A transaction that calls capacity() once.
LEMMA Recharged ==
  ASSUME Stock!TypeOK, NEW loc \in Locations, NEW x \in Stock!Rows, NEW n \in Int, NEW event,
         event.type # "LocationCapacityChanged", Stock!Recharge(loc, x, n, event)
  PROVE  /\ LedgerStep
         /\ \A e \in emitted' : e = event \/ e.type = "LocationCapacityChanged"
         /\ event \in emitted'
<1> DEFINE new == Stock!Charged(loc, x, n)
           change == Stock!CapacityChanged(loc, load'[loc], revision'[loc])
<1>1. /\ load \in [Locations -> [Stock!Dims -> Nat]] /\ revision \in [Locations -> Nat]
      /\ x.product = Product /\ Stock!Dims = {"weight", "volume"}
  BY DEF Stock!TypeOK, Stock!Rows, Stock!Dims
<1>2. /\ \A d \in Stock!Dims : new[d] >= 0
      /\ load' = [load EXCEPT ![loc] = new] /\ revision' = [revision EXCEPT ![loc] = @ + 1]
      /\ emitted' = {change, event}
  BY DEF Stock!Recharge, Stock!CapacityAllows
<1>3. new = [d \in Stock!Dims |-> load[loc][d] + n * 1]
  BY <1>1 DEF Stock!Charged, UnitLoad
<1>4. new \in [Stock!Dims -> Nat]
  BY <1>1, <1>2, <1>3
<1> HIDE DEF new
<1>5. load' \in [Locations -> [Stock!Dims -> Nat]] /\ revision' \in [Locations -> Nat]
  BY <1>1, <1>2, <1>4
<1>6. \A m \in Locations : /\ revision[m] <= revision'[m]
                           /\ revision'[m] = revision[m] => load'[m] = load[m]
  BY <1>1, <1>2
<1>7. /\ change \in Changes /\ change.type = "LocationCapacityChanged" /\ change.location = loc
      /\ change.revision = revision'[loc] /\ change.load = load'[loc]
  BY <1>5 DEF Stock!CapacityChanged, Changes
<1> HIDE DEF change
<1>8. IsFiniteSet(emitted')
  <2>1. IsFiniteSet({change}) /\ emitted' = {change} \cup {event}
    BY <1>2, FS_Singleton
  <2> QED BY <2>1, FS_AddElement
<1> QED BY <1>2, <1>5, <1>6, <1>7, <1>8 DEF LedgerStep

\* A transaction that calls capacity() for no location.
LEMMA EmittedOnly ==
  ASSUME Stock!TypeOK, NEW event, event.type # "LocationCapacityChanged", Stock!EmitOnly(event)
  PROVE  /\ LedgerStep
         /\ \A e \in emitted' : e = event \/ e.type = "LocationCapacityChanged"
         /\ event \in emitted'
<1>1. emitted' = {event} /\ UNCHANGED <<load, revision>> /\ IsFiniteSet({event})
  BY FS_Singleton DEF Stock!EmitOnly
<1> QED BY <1>1 DEF LedgerStep, Stock!TypeOK

\* Receive
LEMMA ReceiveStep ==
  ASSUME Stock!TypeOK, NEW l \in Lots, NEW n \in 1 .. MaxQuantity,
         Stock!Receive(l, Product, Warehouse, n, Stock!Never)
  PROVE  CommandStep
<1> DEFINE event == [type |-> "GoodsReceived", lot |-> l, product |-> Product, quantity |-> n]
           row == [product |-> Product, warehouse |-> Warehouse, location |-> None,
                   quantity |-> n, reserved |-> 0, expires |-> Stock!Never]
<1>1. /\ stocks[l] = Stock!NoStock /\ stocks' = [stocks EXCEPT ![l] = row]
      /\ Stock!EmitOnly(event)
  BY DEF Stock!Receive
<1>2. event \in Receipts /\ n \in Nat
  BY PutawayAssumption DEF Receipts
<1>3. /\ LedgerStep /\ event \in emitted'
      /\ \A e \in emitted' : e = event \/ e.type = "LocationCapacityChanged"
  BY <1>1, EmittedOnly
<1>4. row \in Stock!Rows /\ row.location = None /\ row # Stock!NoStock
  BY <1>2, RowFacts DEF Stock!Rows
<1>5. event.type = "GoodsReceived" /\ event.lot = l
  OBVIOUS
<1> HIDE DEF event, row
<1>6. stocks' \in [Lots -> Stock!Rows \cup {Stock!NoStock}] /\ stocks'[l] = row
  BY <1>1, <1>4 DEF Stock!TypeOK
<1>7. event \in Telling /\ \A e \in Telling : e = event
  BY <1>3, <1>5, InterestsOf DEF Telling
<1>8. Has(Telling, "GoodsReceived", l)
  BY <1>5, <1>7 DEF Has
<1>9. \A m \in Lots : m # l => stocks'[m] = stocks[m]
  BY <1>1 DEF Stock!TypeOK
<1>10. \A e \in Telling :
         /\ e \in Receipts /\ stocks[e.lot] = Stock!NoStock
         /\ stocks'[e.lot] # Stock!NoStock /\ stocks'[e.lot].location = None
  BY <1>1, <1>2, <1>4, <1>5, <1>6, <1>7
<1> QED BY <1>1, <1>3, <1>4, <1>6, <1>8, <1>9, <1>10 DEF CommandStep

\* A command on lot l that sets its quantity, with an event of its own.
LEMMA QuantityStep ==
  ASSUME Stock!TypeOK, NEW l \in Lots, stocks[l] # Stock!NoStock, NEW q \in Nat, NEW event,
         event.type \notin {"LocationCapacityChanged", "GoodsReceived", "PlacementRejected", "StockAdded"},
         stocks[l].location = None => q <= stocks[l].quantity,
         stocks' = [stocks EXCEPT ![l].quantity = q],
         \/ /\ stocks[l].location # None
            /\ Stock!Recharge(stocks[l].location, stocks[l], q - stocks[l].quantity, event)
         \/ Stock!EmitOnly(event)
  PROVE  CommandStep
<1>1. /\ stocks[l] \in Stock!Rows /\ stocks[l].quantity \in Nat
      /\ stocks[l].location \in Locations \cup {None}
  BY RowFacts
<1>2. /\ LedgerStep
      /\ \A e \in emitted' : e = event \/ e.type = "LocationCapacityChanged"
  <2>1. CASE Stock!EmitOnly(event)
    BY <2>1, EmittedOnly
  <2>2. CASE stocks[l].location # None /\ Stock!Recharge(stocks[l].location, stocks[l], q - stocks[l].quantity, event)
    <3>1. stocks[l].location \in Locations /\ q - stocks[l].quantity \in Int
      BY <1>1, <2>2
    <3> QED BY <1>1, <2>2, <3>1, Recharged
  <2> QED BY <2>1, <2>2
<1>3. Telling = {}
  BY <1>2, InterestsOf DEF Telling
<1>4. /\ stocks' = [stocks EXCEPT ![l] = [stocks[l] EXCEPT !.quantity = q]]
      /\ [stocks[l] EXCEPT !.quantity = q] \in Stock!Rows
      /\ [stocks[l] EXCEPT !.quantity = q].location = stocks[l].location
      /\ [stocks[l] EXCEPT !.quantity = q].quantity = q
  BY <1>1 DEF Stock!Rows
<1>5. /\ stocks' \in [Lots -> Stock!Rows \cup {Stock!NoStock}]
      /\ stocks'[l].location = stocks[l].location /\ stocks'[l].quantity = q /\ stocks'[l] \in Stock!Rows
      /\ \A m \in Lots : m # l => stocks'[m] = stocks[m]
  BY <1>4 DEF Stock!TypeOK
<1>6. stocks'[l] # Stock!NoStock
  BY <1>5, RowFacts
<1> QED BY <1>2, <1>3, <1>5, <1>6 DEF CommandStep

\* Adjust: a lot without a location can only lose units.
LEMMA AdjustStep ==
  ASSUME Stock!TypeOK, NEW l \in Lots, NEW n \in 0 .. MaxQuantity, Stock!Adjust(l, n)
  PROVE  CommandStep
<1> DEFINE event == [type |-> "StockAdjusted", lot |-> l, product |-> stocks[l].product,
                     delta |-> n - stocks[l].quantity]
<1>1. /\ stocks[l] # Stock!NoStock
      /\ stocks[l].location = None => n - stocks[l].quantity <= 0
      /\ stocks' = [stocks EXCEPT ![l].quantity = n]
      /\ \/ /\ stocks[l].location # None
            /\ Stock!Recharge(stocks[l].location, stocks[l], n - stocks[l].quantity, event)
         \/ Stock!EmitOnly(event)
  BY DEF Stock!Adjust
<1>2. n \in Nat /\ stocks[l].quantity \in Nat
  BY <1>1, RowFacts, PutawayAssumption
<1>3. stocks[l].location = None => n <= stocks[l].quantity
  BY <1>1, <1>2
<1>4. event.type = "StockAdjusted"
  OBVIOUS
<1> HIDE DEF event
<1> QED BY <1>1, <1>2, <1>3, <1>4, QuantityStep

\* WriteOff
LEMMA WriteOffStep ==
  ASSUME Stock!TypeOK, NEW l \in Lots, NEW n \in 1 .. MaxQuantity, Stock!WriteOff(l, n)
  PROVE  CommandStep
<1> DEFINE event == [type |-> "StockWrittenOff", lot |-> l, product |-> stocks[l].product, quantity |-> n]
           q == stocks[l].quantity - n
<1>1. /\ stocks[l] # Stock!NoStock /\ n \in 1 .. (stocks[l].quantity - stocks[l].reserved)
      /\ stocks' = [stocks EXCEPT ![l].quantity = @ - n]
      /\ \/ /\ stocks[l].location # None
            /\ Stock!Recharge(stocks[l].location, stocks[l], -n, event)
         \/ Stock!EmitOnly(event)
  BY DEF Stock!WriteOff, Stock!Available
<1>2. n \in Nat /\ stocks[l].quantity \in Nat /\ stocks[l].reserved \in Nat
  BY <1>1, RowFacts, PutawayAssumption
<1>3. q \in Nat /\ q <= stocks[l].quantity /\ -n = q - stocks[l].quantity
  BY <1>1, <1>2
<1>4. stocks' = [stocks EXCEPT ![l].quantity = q]
  BY <1>1
<1>5. event.type = "StockWrittenOff"
  OBVIOUS
<1> HIDE DEF event, q
<1> QED BY <1>1, <1>3, <1>4, <1>5, QuantityStep

\* Move: the units that move are a new lot, in its location from the start.
LEMMA MoveStep ==
  ASSUME Stock!TypeOK, NEW l \in Lots, NEW new \in Lots, NEW to \in Locations, NEW n \in 1 .. MaxQuantity,
         Stock!Move(l, new, to, n)
  PROVE  CommandStep
<1> DEFINE x == stocks[l]
           event == [type |-> "StockMoved", lot |-> l, product |-> x.product,
                     destination |-> new, quantity |-> n]
           touched == {to, x.location} \ {None}
           moved == [x EXCEPT !.location = to, !.quantity = n, !.reserved = 0]
           rest == [x EXCEPT !.quantity = @ - n]
           changes == {Stock!CapacityChanged(loc, load'[loc], revision'[loc]) : loc \in touched}
<1>1. /\ x # Stock!NoStock /\ stocks[new] = Stock!NoStock /\ n \in 1 .. (x.quantity - x.reserved)
      /\ x.location # to
      /\ \A d \in Stock!Dims : Stock!Charged(to, x, n)[d] >= 0
      /\ x.location # None => \A d \in Stock!Dims : Stock!Charged(x.location, x, -n)[d] >= 0
      /\ stocks' = [stocks EXCEPT ![new] = moved, ![l].quantity = @ - n]
      /\ load' = [loc \in Locations |-> IF loc = to THEN Stock!Charged(loc, x, n)
                                        ELSE IF loc = x.location THEN Stock!Charged(loc, x, -n)
                                        ELSE load[loc]]
      /\ revision' = [loc \in Locations |-> IF loc \in touched THEN revision[loc] + 1 ELSE revision[loc]]
      /\ emitted' = changes \cup {event}
  BY DEF Stock!Move, Stock!CapacityAllows, Stock!Available
<1>2. /\ x \in Stock!Rows /\ x.product = Product /\ x.quantity \in Nat /\ x.reserved \in Nat
      /\ x.location \in Locations \cup {None} /\ n \in Nat /\ l # new /\ to # None
      /\ load \in [Locations -> [Stock!Dims -> Nat]] /\ revision \in [Locations -> Nat]
      /\ Stock!NoStock \notin Stock!Rows
  BY <1>1, RowFacts, PutawayAssumption DEF Stock!TypeOK
<1>3. moved \in Stock!Rows /\ rest \in Stock!Rows /\ moved.location = to /\ rest.location = x.location
      /\ rest.quantity <= x.quantity
  <2> HIDE DEF x
  <2>1. x.quantity - n \in Nat /\ x.quantity - n <= x.quantity
    BY <1>1, <1>2
  <2>2. moved \in Stock!Rows /\ moved.location = to
    BY <1>2 DEF Stock!Rows
  <2>3. rest \in Stock!Rows /\ rest.location = x.location /\ rest.quantity = x.quantity - n
    BY <1>2, <2>1 DEF Stock!Rows
  <2> QED BY <2>1, <2>2, <2>3
<1>4. /\ stocks' \in [Lots -> Stock!Rows \cup {Stock!NoStock}]
      /\ stocks'[new] = moved /\ stocks'[l] = rest
      /\ \A m \in Lots : m # l /\ m # new => stocks'[m] = stocks[m]
  BY <1>1, <1>2, <1>3 DEF Stock!TypeOK
<1>5. \A loc \in Locations, k \in Int :
        /\ Stock!Charged(loc, x, k) = [d \in Stock!Dims |-> load[loc][d] + k * 1]
        /\ (\A d \in Stock!Dims : Stock!Charged(loc, x, k)[d] >= 0)
             => Stock!Charged(loc, x, k) \in [Stock!Dims -> Nat]
  <2>1. ASSUME NEW loc \in Locations, NEW k \in Int
        PROVE  Stock!Charged(loc, x, k) = [d \in Stock!Dims |-> load[loc][d] + k * 1]
    BY <1>2 DEF Stock!Charged, UnitLoad, Stock!Dims
  <2> QED BY <1>2, <2>1
<1>6. load' \in [Locations -> [Stock!Dims -> Nat]]
  <2>1. Stock!Charged(to, x, n) \in [Stock!Dims -> Nat]
    <3>1. n \in Int
      BY <1>2
    <3> QED BY <1>1, <1>5, <3>1
  <2>2. x.location # None => Stock!Charged(x.location, x, -n) \in [Stock!Dims -> Nat]
    <3>1. -n \in Int
      BY <1>2
    <3> QED BY <1>1, <1>2, <1>5, <3>1
  <2>3. None \notin Locations
    BY PutawayAssumption
  <2> QED BY <1>1, <1>2, <2>1, <2>2, <2>3
<1>7. touched \subseteq Locations /\ to \in touched /\ (x.location # None => x.location \in touched)
  BY <1>2
<1>8. /\ revision' \in [Locations -> Nat]
      /\ \A loc \in Locations : /\ revision[loc] <= revision'[loc]
                                /\ revision'[loc] = revision[loc] => load'[loc] = load[loc]
  <2>1. \A loc \in Locations : revision'[loc] = IF loc \in touched THEN revision[loc] + 1 ELSE revision[loc]
    BY <1>1
  <2>2. \A loc \in Locations \ touched : load'[loc] = load[loc]
    BY <1>1, <1>7, PutawayAssumption
  <2> HIDE DEF touched, x
  <2> QED BY <1>1, <1>2, <2>1, <2>2
<1>9. \A e \in changes : /\ e.type = "LocationCapacityChanged" /\ e \in Changes
                         /\ e.revision = revision'[e.location] /\ e.load = load'[e.location]
  <2> HIDE DEF touched
  <2> QED BY <1>6, <1>7, <1>8 DEF Stock!CapacityChanged, Changes
<1>10. IsFiniteSet(emitted')
  <2> DEFINE both == {Stock!CapacityChanged(loc, load'[loc], revision'[loc]) : loc \in {to, x.location}}
  <2>1. both = {Stock!CapacityChanged(to, load'[to], revision'[to])}
                 \cup {Stock!CapacityChanged(x.location, load'[x.location], revision'[x.location])}
    BY DEF Stock!CapacityChanged
  <2>2. IsFiniteSet(both)
    <3>1. IsFiniteSet({Stock!CapacityChanged(to, load'[to], revision'[to])})
      BY FS_Singleton
    <3> QED BY <2>1, <3>1, FS_AddElement
  <2>3. changes \subseteq both
    OBVIOUS
  <2>4. IsFiniteSet(changes)
    BY <2>2, <2>3, FS_Subset
  <2> HIDE DEF both, changes
  <2> QED BY <1>1, <2>4, FS_AddElement
<1>11. event.type = "StockMoved"
  OBVIOUS
<1> HIDE DEF x, event, touched, moved, rest, changes
<1>12. LedgerStep
  BY <1>1, <1>6, <1>8, <1>9, <1>10, <1>11 DEF LedgerStep
<1>13. Telling = {}
  BY <1>1, <1>9, <1>11, InterestsOf DEF Telling
<1>14. \A m \in Lots :
         \/ stocks'[m] = stocks[m]
         \/ /\ stocks[m] # Stock!NoStock /\ stocks'[m].location = stocks[m].location
            /\ stocks[m].location = None => stocks'[m].quantity <= stocks[m].quantity
         \/ stocks[m] = Stock!NoStock /\ stocks'[m].location # None
  BY <1>1, <1>2, <1>3, <1>4 DEF x
<1>15. \A m \in Lots : stocks'[m] = Stock!NoStock => stocks[m] = Stock!NoStock
  BY <1>2, <1>3, <1>4
<1> QED BY <1>4, <1>12, <1>13, <1>14, <1>15 DEF CommandStep

\* What place() does with a decision about lot l.
HandleStep(l) ==
  /\ LedgerStep /\ stocks' \in [Lots -> Stock!Rows \cup {Stock!NoStock}]
  /\ \A m \in Lots : m # l => stocks'[m] = stocks[m]
  /\ \/ \* the lot has its location
        /\ stocks[l].quantity > 0 /\ stocks'[l] # Stock!NoStock /\ stocks'[l].location # None
        /\ \E e \in Additions : Telling = {e} /\ e.lot = l
     \/ \* the decision is refused
        stocks' = stocks /\ Telling = RefusalsOn(l)
     \/ \* the decision is dropped
        /\ stocks' = stocks /\ Telling = {}
        /\ stocks[l] # Stock!NoStock /\ (stocks[l].location = None => stocks[l].quantity = 0)

\* place() gives the lot its location, refuses the decision or drops it.
LEMMA PlaceStep ==
  ASSUME Stock!TypeOK, NEW l \in Lots, NEW loc \in Locations, NEW open,
         \/ Stock!Place(l, Warehouse, loc, open)
         \/ Stock!RejectPlace(l, Warehouse, loc, open)
         \/ Stock!PlaceAgain(l, Warehouse)
  PROVE  HandleStep(l)
<1>1. CASE Stock!Place(l, Warehouse, loc, open)
  <2> DEFINE event == [type |-> "StockAdded", lot |-> l, location |-> loc, quantity |-> stocks[l].quantity]
             row == [stocks[l] EXCEPT !.location = loc]
  <2>1. /\ stocks[l] # Stock!NoStock /\ stocks[l].quantity > 0
        /\ stocks' = [stocks EXCEPT ![l] = row]
        /\ Stock!Recharge(loc, stocks[l], stocks[l].quantity, event)
    BY <1>1 DEF Stock!Place, Stock!Placeable, Stock!ToPlace
  <2>2. stocks[l] \in Stock!Rows /\ stocks[l].quantity \in Nat /\ loc # None
    BY <2>1, RowFacts, PutawayAssumption
  <2>3. row \in Stock!Rows /\ row.location = loc /\ event \in Additions
    BY <2>2 DEF Stock!Rows, Additions
  <2>4. event.type = "StockAdded" /\ event.lot = l
    OBVIOUS
  <2> HIDE DEF event, row
  <2>5. LedgerStep /\ Telling = {event}
    BY <2>1, <2>2, <2>4, Recharged, InterestsOf DEF Telling
  <2>6. /\ stocks' \in [Lots -> Stock!Rows \cup {Stock!NoStock}] /\ stocks'[l] = row
        /\ \A m \in Lots : m # l => stocks'[m] = stocks[m]
    BY <2>1, <2>3 DEF Stock!TypeOK
  <2> QED BY <2>1, <2>2, <2>3, <2>4, <2>5, <2>6, RowFacts DEF HandleStep
<1>2. CASE Stock!RejectPlace(l, Warehouse, loc, open)
  <2>1. /\ Stock!EmitOnly(Refusal(l)) /\ stocks' = stocks
    BY <1>2 DEF Stock!RejectPlace, Refusal
  <2>2. Refusal(l).type = "PlacementRejected"
    BY DEF Refusal
  <2>3. LedgerStep /\ Telling = {Refusal(l)}
    BY <2>1, <2>2, EmittedOnly, InterestsOf DEF Telling
  <2> QED BY <2>1, <2>3 DEF HandleStep, RefusalsOn, Stock!TypeOK
<1>3. CASE Stock!PlaceAgain(l, Warehouse)
  <2>1. /\ emitted' = {} /\ UNCHANGED <<stocks, load, revision>>
        /\ stocks[l] # Stock!NoStock /\ ~ (stocks[l].location = None /\ stocks[l].quantity > 0)
    BY <1>3 DEF Stock!PlaceAgain, Stock!Nothing, Stock!Placeable, Stock!ToPlace
  <2>2. LedgerStep /\ Telling = {}
    BY <2>1, FS_EmptySet DEF LedgerStep, Telling, Stock!TypeOK
  <2>3. stocks[l].quantity \in Nat
    BY <2>1, RowFacts
  <2> QED BY <2>1, <2>2, <2>3 DEF HandleStep, Stock!TypeOK
<1> QED BY <1>1, <1>2, <1>3


-----------------------------------------------------------------------------
(***************************************************************************)
(* What is on its way after a step.                                        *)
(***************************************************************************)
\* Transit is the way with the queue and the dead letter topic as they are.
LEMMA TransitIsWay ==
  /\ \A c : Transit(c) = Way(c, channel[c], parked)
  /\ \A c : Transit(c)' = Way(c, channel'[c], parked')
BY DEF Transit, Way, ToSet, Range

\* Events of a union.
LEMMA HasFacts ==
  /\ \A A, B, t, l : Has(A \cup B, t, l) <=> Has(A, t, l) \/ Has(B, t, l)
  /\ \A e, t, l : Has({e}, t, l) <=> e.type = t /\ e.lot = l
  /\ \A t, l : ~ Has({}, t, l)
BY DEF Has

\* The decisions and refusals among the events of a channel.
LEMMA Voices ==
  ASSUME NEW l \in Lots
  PROVE  /\ \A T \in SUBSET Carries(ToInventory) :
              Has(T, "ProductPlacementAssigned", l) <=> T \cap DecisionsOn(l) # {}
         /\ \A T \in SUBSET Carries(ToPlacement) :
              Has(T, "PlacementRejected", l) <=> T \cap RefusalsOn(l) # {}
         /\ \A e \in Carries(ToInventory) : e \in DecisionsOn(l) <=> e.lot = l
         /\ \A e \in Carries(ToPlacement) :
              e \in RefusalsOn(l) <=> e.type = "PlacementRejected" /\ e.lot = l
<1>1. Carries(ToInventory) = Decisions /\ Carries(ToPlacement) = Receipts \cup Refusals \cup Additions
  BY InterestsOf DEF Carries
<1>2. \A e \in Decisions : e.type = "ProductPlacementAssigned" /\ (e \in DecisionsOn(l) <=> e.lot = l)
  BY DEF Decisions, DecisionsOn, Decision
<1>3. \A e \in Receipts \cup Refusals \cup Additions :
        e \in RefusalsOn(l) <=> e.type = "PlacementRejected" /\ e.lot = l
  BY DEF Receipts, Refusals, Additions, RefusalsOn, Refusal
<1> QED BY <1>1, <1>2, <1>3 DEF Has

\* The types of the events on their way follow from what the channels carry.
LEMMA RoutedTypes ==
  ASSUME Routed'
  PROVE  /\ DOMAIN channel' = Channels
         /\ \A c \in Channels : \A e \in Transit(c)' :
              IF c \in DOMAIN Interests THEN e.type \in Interests[c]
              ELSE e.type = "ProductPlacementAssigned"
<1>1. /\ \A e \in Carries(ToInventory) : e.type = "ProductPlacementAssigned"
      /\ \A e \in Carries(ToPlacement) : e.type \in Interests[ToPlacement]
      /\ \A e \in Carries(ToWarehouse) : e.type \in Interests[ToWarehouse]
  BY InterestsOf DEF Carries, Decisions, Receipts, Refusals, Additions, Changes
<1>2. \A c \in Channels : Transit(c)' \subseteq Carries(c)
  BY DEF Routed
<1> QED BY <1>1, <1>2, InterestsOf DEF Routed

\* A step of the inventory's tables keeps their types, and what the warehouse
\* service has been told and shows stays true.
LEMMA LedgerMoves ==
  ASSUME Inv, LedgerStep, stocks' \in [Lots -> Stock!Rows \cup {Stock!NoStock}],
         UNCHANGED <<status, known>>,
         \A e \in Transit(ToWarehouse)' :
           e \in Transit(ToWarehouse) \/ (e \in emitted' /\ e.type = "LocationCapacityChanged")
  PROVE  Stock!TypeOK' /\ ChangesTrue' /\ ProjectionTruthful'
<1>1. /\ revision \in [Locations -> Nat] /\ revision' \in [Locations -> Nat]
      /\ load' \in [Locations -> [Stock!Dims -> Nat]]
      /\ \A loc \in Locations : /\ revision[loc] <= revision'[loc]
                                /\ revision'[loc] = revision[loc] => load'[loc] = load[loc]
  BY DEF Inv, TypeOK, Stock!TypeOK, LedgerStep
<1>2. Stock!TypeOK'
  BY <1>1 DEF Inv, TypeOK, Stock!TypeOK
<1>3. \A e \in Transit(ToWarehouse) : e.location \in Locations /\ e.revision \in Nat
  BY InterestsOf DEF Inv, Routed, Carries, Changes
<1>4. ASSUME NEW e \in Transit(ToWarehouse)'
      PROVE  /\ e.revision <= revision'[e.location]
             /\ e.revision = revision'[e.location] => e.load = load'[e.location]
  <2>1. CASE e \in Transit(ToWarehouse)
    <3>1. /\ e.location \in Locations /\ e.revision \in Nat
          /\ e.revision <= revision[e.location]
          /\ e.revision = revision[e.location] => e.load = load[e.location]
      BY <1>3, <2>1 DEF Inv, ChangesTrue
    <3>2. /\ revision[e.location] \in Nat /\ revision'[e.location] \in Nat
          /\ revision[e.location] <= revision'[e.location]
          /\ revision'[e.location] = revision[e.location] => load'[e.location] = load[e.location]
      BY <1>1, <3>1
    <3> QED BY <3>1, <3>2
  <2>2. CASE e \in emitted' /\ e.type = "LocationCapacityChanged"
    BY <1>1, <2>2 DEF LedgerStep, Changes
  <2> QED BY <1>4, <2>1, <2>2
<1>5. ChangesTrue'
  BY <1>4 DEF ChangesTrue
<1>6. ProjectionTruthful'
  <2>1. known \in [Locations -> [load : [Stock!Dims -> Nat], revision : Nat]]
    BY DEF Inv, TypeOK
  <2>2. ASSUME NEW loc \in Locations
        PROVE  /\ known[loc].revision <= revision'[loc]
               /\ known[loc].revision = revision'[loc] => known[loc].load = load'[loc]
    <3>1. /\ known[loc].revision <= revision[loc] /\ known[loc].revision \in Nat
          /\ known[loc].revision = revision[loc] => known[loc].load = load[loc]
      BY <2>1 DEF Inv, ProjectionTruthful
    <3>2. /\ revision[loc] \in Nat /\ revision'[loc] \in Nat
          /\ revision[loc] <= revision'[loc]
          /\ revision'[loc] = revision[loc] => load'[loc] = load[loc]
      BY <1>1
    <3> QED BY <3>1, <3>2
  <2>3. known' = known /\ status' = status
    OBVIOUS
  <2>4. \A loc \in Locations : (Open(loc))' => status'[loc] = Occupancy(loc, known'[loc].load)
    BY <2>3 DEF Inv, ProjectionTruthful, Open
  <2> QED BY <2>2, <2>3, <2>4 DEF ProjectionTruthful
<1> QED BY <1>2, <1>5, <1>6

\* The changes of load that a transaction announces.
Announced == {e \in emitted' : e.type \in Interests[ToWarehouse]}

\* The events of a transaction join the queues.
LEMMA PublishWays ==
  ASSUME LedgerStep, NEW queues \in [Channels -> Seq(Events)], NEW p \in Seq(Parked),
         Publish(queues), Telling \subseteq Receipts \cup Refusals \cup Additions
  PROVE  /\ channel' \in [Channels -> Seq(Events)]
         /\ channel'[ToInventory] = queues[ToInventory]
         /\ Way(ToPlacement, channel'[ToPlacement], p) = Way(ToPlacement, queues[ToPlacement], p) \cup Telling
         /\ \A E : /\ Sole(ToPlacement, queues[ToPlacement], p, E)
                   /\ \/ Telling \cap E = {}
                      \/ /\ Way(ToPlacement, queues[ToPlacement], p) \cap E = {}
                         /\ \A x, y \in Telling \cap E : x = y
                   => Sole(ToPlacement, channel'[ToPlacement], p, E)
         /\ Way(ToWarehouse, channel'[ToWarehouse], p) =
              Way(ToWarehouse, queues[ToWarehouse], p)
                \cup {e \in emitted' : e.type = "LocationCapacityChanged"}
<1>1. Announced = {e \in emitted' : e.type = "LocationCapacityChanged"}
  BY InterestsOf DEF Announced
<1>2. Telling \in SUBSET Events /\ IsFiniteSet(Telling)
  <2>1. Telling \subseteq emitted'
    BY DEF Telling
  <2> QED BY <2>1, FS_Subset DEF LedgerStep, Events
<1>3. Announced \in SUBSET Events /\ IsFiniteSet(Announced)
  <2>1. Announced \subseteq Changes
    BY <1>1 DEF LedgerStep
  <2>2. Announced \subseteq emitted'
    BY DEF Announced
  <2> QED BY <2>1, <2>2, FS_Subset DEF LedgerStep, Events
<1>4. channel' = [c \in Channels |->
        IF c \in {ToPlacement, ToWarehouse}
          THEN queues[c] \o SetToSeq({e \in emitted' : e.type \in Interests[c]})
          ELSE queues[c]]
  BY InterestsOf DEF Publish
<1>5. /\ channel'[ToPlacement] = queues[ToPlacement] \o SetToSeq(Telling)
      /\ channel'[ToWarehouse] = queues[ToWarehouse] \o SetToSeq(Announced)
      /\ channel'[ToInventory] = queues[ToInventory]
      /\ DOMAIN channel' = Channels
      /\ channel' = [c \in Channels |-> channel'[c]]
  BY <1>4, InterestsOf DEF Telling, Announced
<1> DEFINE q == queues[ToPlacement]
           r == queues[ToWarehouse]
<1>6. /\ q \in Seq(Events) /\ r \in Seq(Events) /\ queues[ToInventory] \in Seq(Events)
      /\ channel'[ToPlacement] = q \o SetToSeq(Telling) /\ channel'[ToWarehouse] = r \o SetToSeq(Announced)
  BY <1>5, InterestsOf
<1> HIDE DEF q, r
<1>7. /\ channel'[ToPlacement] \in Seq(Events)
      /\ Way(ToPlacement, channel'[ToPlacement], p) = Way(ToPlacement, q, p) \cup Telling
      /\ \A E : /\ Sole(ToPlacement, q, p, E)
                /\ \/ Telling \cap E = {}
                   \/ Way(ToPlacement, q, p) \cap E = {} /\ \A x, y \in Telling \cap E : x = y
                => Sole(ToPlacement, channel'[ToPlacement], p, E)
  <2>1. /\ q \o SetToSeq(Telling) \in Seq(Events)
        /\ Way(ToPlacement, q \o SetToSeq(Telling), p) = Way(ToPlacement, q, p) \cup Telling
        /\ \A E : /\ Sole(ToPlacement, q, p, E)
                  /\ \/ Telling \cap E = {}
                     \/ Way(ToPlacement, q, p) \cap E = {} /\ \A x, y \in Telling \cap E : x = y
                  => Sole(ToPlacement, q \o SetToSeq(Telling), p, E)
    BY <1>2, <1>6, WayConcat
  <2> QED BY <1>6, <2>1
<1>8. /\ channel'[ToWarehouse] \in Seq(Events)
      /\ Way(ToWarehouse, channel'[ToWarehouse], p) = Way(ToWarehouse, r, p) \cup Announced
  <2>1. /\ r \o SetToSeq(Announced) \in Seq(Events)
        /\ Way(ToWarehouse, r \o SetToSeq(Announced), p) = Way(ToWarehouse, r, p) \cup Announced
        /\ \A E : /\ Sole(ToWarehouse, r, p, E)
                  /\ \/ Announced \cap E = {}
                     \/ Way(ToWarehouse, r, p) \cap E = {} /\ \A x, y \in Announced \cap E : x = y
                  => Sole(ToWarehouse, r \o SetToSeq(Announced), p, E)
    BY <1>3, <1>6, WayConcat
  <2> QED BY <1>6, <2>1
<1>9. channel' \in [Channels -> Seq(Events)]
  <2>1. \A c \in Channels : channel'[c] \in Seq(Events)
    BY <1>5, <1>6, <1>7, <1>8, InterestsOf
  <2> QED BY <1>5, <2>1
<1> QED BY <1>1, <1>5, <1>7, <1>8, <1>9 DEF q, r

-----------------------------------------------------------------------------
(***************************************************************************)
(* Steps that change neither the inventory's tables nor the queues.        *)
(***************************************************************************)
\* Each worker that is busy has a pending job of its own.
Apart ==
  \A w \in Workers : worker[w] # Idle =>
    /\ worker[w].lot \in Lots
    /\ jobs[worker[w].lot] = "PENDING"
    /\ \A v \in Workers \ {w} : worker[v].lot # worker[w].lot

\* What type correctness takes besides the inventory, the queues and the workers.
Services ==
  /\ answer \in {"none", "open", "closed"}
  /\ answer # "none" => channel[ToInventory] # <<>>
  /\ status \in [Locations -> {"AVAILABLE", "PARTIALLY_OCCUPIED", "FULL"} \cup Closed]
  /\ known \in [Locations -> [load : [Stock!Dims -> Nat], revision : Nat]]
  /\ jobs \in [Lots -> JobStatuses]
  /\ mutex \in Workers \cup {None}
  /\ failures \in 0..MaxFailures

\* The parts of the types.
LEMMA TypeParts ==
  /\ TypeOK => Stock!TypeOK /\ Services /\ Apart
  /\ Stock!TypeOK' /\ Services' /\ Apart' /\ Routed' => TypeOK'
<1>1. TypeOK => Stock!TypeOK /\ Services /\ Apart
  BY DEF TypeOK, Services, Apart, ToInventory
<1>2. ASSUME Stock!TypeOK', Services', Apart', Routed' PROVE TypeOK'
  BY <1>2, RoutedTypes DEF TypeOK, Services, Apart, ToInventory
<1> QED BY <1>1, <1>2

\* A step that moves no event and no unit.
LEMMA Quiet ==
  ASSUME Inv, UNCHANGED <<inventoryVars, queueVars>>
  PROVE  /\ Stock!TypeOK' /\ Routed' /\ OneVoice' /\ ChangesTrue'
         /\ \A c : Transit(c)' = Transit(c)
<1>1. Stock!TypeOK'
  BY TypeParts DEF Inv, Stock!TypeOK, inventoryVars
<1>2. \A c : Transit(c)' = Transit(c)
  BY DEF Transit, queueVars
<1>3. Routed' /\ OneVoice'
  BY <1>2 DEF Inv, Routed, OneVoice, queueVars
<1>4. ChangesTrue'
  BY <1>2 DEF Inv, ChangesTrue, inventoryVars
<1> QED BY <1>1, <1>2, <1>3, <1>4

\* A worker's transaction ends; it may have settled its job.
LEMMA WorkerDone ==
  ASSUME Services, WorkersTyped, Apart, NEW w \in Workers, worker[w] # Idle,
         worker' = [worker EXCEPT ![w] = Idle],
         \/ jobs' = jobs
         \/ \E j : jobs' = [jobs EXCEPT ![worker[w].lot] = j]
  PROVE  WorkersTyped' /\ Apart'
<1>1. WorkersTyped'
  BY DEF WorkersTyped, Idle
<1>2. \A v \in Workers : worker'[v] = IF v = w THEN Idle ELSE worker[v]
  BY DEF WorkersTyped
<1>3. ASSUME NEW v \in Workers, worker'[v] # Idle
      PROVE  /\ worker'[v].lot \in Lots
             /\ jobs'[worker'[v].lot] = "PENDING"
             /\ \A u \in Workers \ {v} : worker'[u].lot # worker'[v].lot
  <2>1. /\ v # w /\ worker'[v] = worker[v] /\ worker[v].lot \in Lots
        /\ jobs[worker[v].lot] = "PENDING"
        /\ \A u \in Workers \ {v} : worker[u].lot # worker[v].lot
    BY <1>2, <1>3 DEF Apart
  <2>2. worker[w].lot # worker[v].lot
    BY <2>1
  <2>3. jobs'[worker[v].lot] = "PENDING"
    BY <2>1, <2>2 DEF Services
  <2>4. Idle.lot = 0 /\ worker[v].lot # 0
    BY <2>1, PutawayAssumption DEF Idle
  <2>5. \A u \in Workers \ {v} : worker'[u].lot # worker[v].lot
    BY <1>2, <2>1, <2>4
  <2> QED BY <2>1, <2>3, <2>5
<1>4. Apart'
  BY <1>3 DEF Apart
<1> QED BY <1>1, <1>4

\* place() asks about the location.
LEMMA AskLocationKeeps ==
  ASSUME Inv, AskLocation
  PROVE  Inv'
<1>1. /\ UNCHANGED <<inventoryVars, warehouseVars, placementVars, queueVars, failures>>
      /\ answer' \in {"none", "open", "closed"} /\ channel[ToInventory] # <<>>
  BY DEF AskLocation, ToInventory
<1>2. /\ Stock!TypeOK' /\ Routed' /\ OneVoice' /\ ChangesTrue'
      /\ \A c : Transit(c)' = Transit(c)
  BY <1>1, Quiet
<1>3. Services' /\ Apart' /\ WorkersTyped'
  BY <1>1, TypeParts DEF Inv, Services, Apart, WorkersTyped, warehouseVars, placementVars, queueVars
<1>4. LotsFair' /\ ProjectionTruthful'
  BY <1>1, <1>2 DEF Inv, LotsFair, ProjectionTruthful, Open, inventoryVars, warehouseVars, placementVars
<1> QED BY <1>2, <1>3, <1>4, TypeParts DEF Inv

\* The administrator sets the status of a location.
LEMMA SetStatusKeeps ==
  ASSUME Inv, NEW loc \in Locations, NEW new \in {"AVAILABLE"} \cup Closed, SetStatus(loc, new)
  PROVE  Inv'
<1>1. /\ UNCHANGED <<inventoryVars, answer, known, placementVars, queueVars, failures>>
      /\ status' = [status EXCEPT ![loc] =
           IF new = "AVAILABLE" THEN Occupancy(loc, known[loc].load) ELSE new]
  BY DEF SetStatus
<1>2. /\ Stock!TypeOK' /\ Routed' /\ OneVoice' /\ ChangesTrue'
      /\ \A c : Transit(c)' = Transit(c)
  BY <1>1, Quiet
<1>3. \A m, x : Occupancy(m, x) \in {"AVAILABLE", "PARTIALLY_OCCUPIED", "FULL"}
  BY DEF Occupancy
<1>4. Services /\ Apart /\ WorkersTyped
  BY TypeParts DEF Inv
<1>5. Services' /\ Apart' /\ WorkersTyped'
  <2>1. status' \in [Locations -> {"AVAILABLE", "PARTIALLY_OCCUPIED", "FULL"} \cup Closed]
    BY <1>1, <1>3, <1>4 DEF Services
  <2> QED BY <1>1, <1>4, <2>1 DEF Services, Apart, WorkersTyped, placementVars, queueVars
<1>6. LotsFair'
  BY <1>1, <1>2 DEF Inv, LotsFair, inventoryVars, placementVars
<1>7. ProjectionTruthful'
  <2>1. ASSUME NEW m \in Locations, status'[m] \notin Closed
        PROVE  status'[m] = Occupancy(m, known[m].load)
    BY <1>1, <1>4, <2>1 DEF Inv, ProjectionTruthful, Open, Services
  <2>2. known' = known
    BY <1>1
  <2> QED BY <1>1, <2>1, <2>2 DEF Inv, ProjectionTruthful, Open, inventoryVars
<1> QED BY <1>2, <1>5, <1>6, <1>7, TypeParts DEF Inv

\* A worker takes a job, which no other has locked.
LEMMA PickKeeps ==
  ASSUME Inv, NEW w \in Workers, NEW l \in Lots, Pick(w, l)
  PROVE  Inv'
<1>1. /\ UNCHANGED <<inventoryVars, answer, warehouseVars, jobs, queueVars, failures>>
      /\ worker' = [worker EXCEPT ![w] = Picked(l)] /\ worker[w] = Idle
      /\ jobs[l] = "PENDING" /\ l \notin Locked /\ mutex' = w
  BY DEF Pick
<1>2. /\ Stock!TypeOK' /\ Routed' /\ OneVoice' /\ ChangesTrue'
      /\ \A c : Transit(c)' = Transit(c)
  BY <1>1, Quiet
<1>3. Services /\ Apart /\ WorkersTyped
  BY TypeParts DEF Inv
<1>4. Services'
  BY <1>1, <1>3 DEF Services, warehouseVars, queueVars
<1>5. Picked(l) \in [stage : {"idle", "picked", "read"}, lot : Nat, quantity : Nat]
      /\ Picked(l).stage # "idle" /\ Picked(l).lot = l /\ l # 0 /\ Idle.lot = 0
  BY PutawayAssumption DEF Picked, Idle
<1>6. /\ WorkersTyped' /\ \A v \in Workers : worker'[v] = IF v = w THEN Picked(l) ELSE worker[v]
  BY <1>1, <1>3, <1>5 DEF WorkersTyped
<1>7. \A v \in Workers : worker[v].lot # l
  BY <1>1, <1>5 DEF Locked
<1>8. Apart'
  <2>1. ASSUME NEW v \in Workers, worker'[v] # Idle
        PROVE  /\ worker'[v].lot \in Lots
               /\ jobs'[worker'[v].lot] = "PENDING"
               /\ \A u \in Workers \ {v} : worker'[u].lot # worker'[v].lot
    <3>1. CASE v = w
      BY <1>1, <1>5, <1>6, <1>7, <3>1
    <3>2. CASE v # w
      <4>1. worker[v] # Idle /\ worker'[v] = worker[v]
        BY <1>6, <2>1, <3>2
      <4> QED BY <1>1, <1>3, <1>5, <1>6, <1>7, <3>2, <4>1 DEF Apart
    <3> QED BY <3>1, <3>2
  <2> QED BY <2>1 DEF Apart
<1>9. LotsFair' /\ ProjectionTruthful'
  BY <1>1, <1>2 DEF Inv, LotsFair, ProjectionTruthful, Open, inventoryVars, warehouseVars
<1> QED BY <1>2, <1>4, <1>6, <1>8, <1>9, TypeParts DEF Inv

\* The transaction ends with the job as it was.
LEMMA GiveUpKeeps ==
  ASSUME Inv, NEW w \in Workers, worker[w] # Idle, worker' = [worker EXCEPT ![w] = Idle],
         mutex' \in {mutex, None}, failures' \in 0 .. MaxFailures,
         UNCHANGED <<inventoryVars, answer, warehouseVars, jobs, queueVars>>
  PROVE  Inv'
<1>1. /\ Stock!TypeOK' /\ Routed' /\ OneVoice' /\ ChangesTrue'
      /\ \A c : Transit(c)' = Transit(c)
  BY Quiet
<1>2. Services /\ Apart /\ WorkersTyped
  BY TypeParts DEF Inv
<1>3. Services'
  BY <1>2 DEF Services, warehouseVars, queueVars
<1>4. WorkersTyped' /\ Apart'
  BY <1>2, WorkerDone
<1>5. LotsFair' /\ ProjectionTruthful'
  BY <1>1 DEF Inv, LotsFair, ProjectionTruthful, Open, inventoryVars, warehouseVars
<1> QED BY <1>1, <1>3, <1>4, <1>5, TypeParts DEF Inv

\* No location is eligible: the job stays pending.
LEMMA PostponeKeeps ==
  ASSUME Inv, NEW w \in Workers, Postpone(w)
  PROVE  Inv'
<1>1. /\ UNCHANGED <<inventoryVars, answer, warehouseVars, jobs, queueVars, failures>>
      /\ worker[w] # Idle /\ worker' = [worker EXCEPT ![w] = Idle] /\ mutex' \in {mutex, None}
  BY DEF Postpone, Finish, Idle
<1>2. failures' \in 0 .. MaxFailures
  BY <1>1 DEF Inv, TypeOK
<1> QED BY <1>1, <1>2, GiveUpKeeps

\* A worker fails.
LEMMA WorkerFailsKeeps ==
  ASSUME Inv, NEW w \in Workers, WorkerFails(w)
  PROVE  Inv'
<1>1. /\ UNCHANGED <<inventoryVars, answer, warehouseVars, jobs, queueVars>>
      /\ worker[w] # Idle /\ worker' = [worker EXCEPT ![w] = Idle] /\ mutex' \in {mutex, None}
  BY DEF WorkerFails
<1>2. failures' \in 0 .. MaxFailures
  BY PutawayAssumption DEF WorkerFails, Failure, Inv, TypeOK
<1> QED BY <1>1, <1>2, GiveUpKeeps

\* The mutex expires.
LEMMA MutexExpiresKeeps ==
  ASSUME Inv, MutexExpires
  PROVE  Inv'
<1>1. /\ UNCHANGED <<inventoryVars, answer, warehouseVars, jobs, worker, queueVars, failures>>
      /\ mutex' = None
  BY DEF MutexExpires
<1>2. /\ Stock!TypeOK' /\ Routed' /\ OneVoice' /\ ChangesTrue'
      /\ \A c : Transit(c)' = Transit(c)
  BY <1>1, Quiet
<1>3. Services' /\ Apart' /\ WorkersTyped'
  BY <1>1, TypeParts DEF Inv, Services, Apart, WorkersTyped, warehouseVars, queueVars
<1>4. LotsFair' /\ ProjectionTruthful'
  BY <1>1, <1>2 DEF Inv, LotsFair, ProjectionTruthful, Open, inventoryVars, warehouseVars
<1> QED BY <1>2, <1>3, <1>4, TypeParts DEF Inv

\* A worker reads its lot: one without units has its job cancelled.  The lot has
\* no location, for its job is pending.
LEMMA ReadLotKeeps ==
  ASSUME Inv, NEW w \in Workers, ReadLot(w)
  PROVE  Inv'
<1> DEFINE l == worker[w].lot
           x == stocks[l]
<1>1. /\ UNCHANGED <<inventoryVars, answer, warehouseVars, queueVars, failures>>
      /\ worker[w].stage = "picked"
      /\ IF x.quantity = 0 \/ x.location # None
           THEN /\ jobs' = [jobs EXCEPT ![l] = IF x.quantity = 0 THEN "CANCELLED" ELSE "PLACED"]
                /\ Finish(w)
           ELSE worker' = [worker EXCEPT ![w] = Read(l, x.quantity)] /\ UNCHANGED <<jobs, mutex>>
  BY DEF ReadLot
<1>2. /\ Stock!TypeOK' /\ Routed' /\ OneVoice' /\ ChangesTrue'
      /\ \A c : Transit(c)' = Transit(c)
  BY <1>1, Quiet
<1>3. Services /\ Apart /\ WorkersTyped /\ Stock!TypeOK
  BY TypeParts DEF Inv
<1>4. worker[w] # Idle
  BY <1>1 DEF Idle
<1>5. l \in Lots /\ jobs[l] = "PENDING"
  BY <1>3, <1>4 DEF Apart
<1>6. x.location = None /\ LotFair(l, Transit(ToPlacement), Transit(ToInventory), "PENDING", x)
  BY <1>5 DEF Inv, LotsFair, LotFair
<1>7. CASE x.quantity = 0
  <2>1. jobs' = [jobs EXCEPT ![l] = "CANCELLED"] /\ Finish(w)
    BY <1>1, <1>7
  <2>2. Services'
    BY <1>1, <1>3, <2>1 DEF Services, Finish, JobStatuses, warehouseVars, queueVars
  <2>3. WorkersTyped' /\ Apart'
    BY <1>3, <1>4, <2>1, WorkerDone DEF Finish
  <2>4. LotFair(l, Transit(ToPlacement), Transit(ToInventory), "CANCELLED", x)
    BY <1>6, <1>7 DEF LotFair
  <2>5. LotsFair'
    <3>1. \A m \in Lots : jobs'[m] = IF m = l THEN "CANCELLED" ELSE jobs[m]
      BY <1>3, <2>1 DEF Services
    <3>2. stocks' = stocks
      BY <1>1 DEF inventoryVars
    <3> HIDE DEF l
    <3> QED BY <1>2, <2>4, <3>1, <3>2 DEF Inv, LotsFair
  <2>6. ProjectionTruthful'
    BY <1>1 DEF Inv, ProjectionTruthful, Open, inventoryVars, warehouseVars
  <2> QED BY <1>2, <2>2, <2>3, <2>5, <2>6, TypeParts DEF Inv
<1>8. CASE x.quantity # 0
  <2>1. worker' = [worker EXCEPT ![w] = Read(l, x.quantity)] /\ UNCHANGED <<jobs, mutex>>
    BY <1>1, <1>6, <1>8
  <2>2. Services'
    BY <1>1, <1>3, <2>1 DEF Services, warehouseVars, queueVars
  <2>3. x.quantity \in Nat
    BY <1>3, <1>5, RowFacts
  <2>4. /\ Read(l, x.quantity) \in [stage : {"idle", "picked", "read"}, lot : Nat, quantity : Nat]
        /\ Read(l, x.quantity).stage # "idle" /\ Read(l, x.quantity).lot = l
    BY <1>5, <2>3, PutawayAssumption DEF Read
  <2>5. /\ WorkersTyped' /\ \A v \in Workers : worker'[v] = IF v = w THEN Read(l, x.quantity) ELSE worker[v]
    BY <1>3, <2>1, <2>4 DEF WorkersTyped
  <2>6. \A v \in Workers : worker'[v].lot = worker[v].lot /\ (worker'[v] # Idle => worker[v] # Idle)
    BY <1>4, <2>4, <2>5
  <2>7. Apart'
    BY <1>3, <2>1, <2>6 DEF Apart
  <2>8. LotsFair' /\ ProjectionTruthful'
    BY <1>1, <1>2, <2>1 DEF Inv, LotsFair, ProjectionTruthful, Open, inventoryVars, warehouseVars
  <2> QED BY <1>2, <2>2, <2>5, <2>7, <2>8, TypeParts DEF Inv
<1> QED BY <1>7, <1>8

-----------------------------------------------------------------------------
(***************************************************************************)
(* Steps that move events.                                                 *)
(***************************************************************************)
\* An event is parked: it stays on its way.
LEMMA ParkKeeps ==
  ASSUME Inv, NEW c \in Channels, Park(c)
  PROVE  Inv'
<1> DEFINE q == channel[c]
           x == [channel |-> c, event |-> Head(q)]
<1>1. /\ UNCHANGED <<inventoryVars, warehouseVars, placementVars>>
      /\ q # <<>> /\ parked' = Append(parked, x) /\ channel' = [channel EXCEPT ![c] = Tail(q)]
      /\ answer' = IF c = ToInventory THEN "none" ELSE answer
      /\ failures < MaxFailures /\ failures' = failures + 1
  BY DEF Park, Failure, ToInventory
<1>2. /\ Services /\ Apart /\ WorkersTyped /\ Stock!TypeOK
      /\ channel \in [Channels -> Seq(Events)] /\ parked \in Seq(Parked) /\ q \in Seq(Events)
  BY TypeParts DEF Inv, Routed
<1>3. /\ Tail(q) \in Seq(Events) /\ Append(parked, x) \in Seq(Parked)
      /\ Way(c, Tail(q), Append(parked, x)) = Way(c, q, parked)
      /\ \A E : Sole(c, q, parked, E) => Sole(c, Tail(q), Append(parked, x), E)
      /\ \A d, r : d # c => /\ Way(d, r, Append(parked, x)) = Way(d, r, parked)
                            /\ \A E : Sole(d, r, parked, E) => Sole(d, r, Append(parked, x), E)
  BY <1>1, <1>2, WayParked
<1>4. /\ channel' \in [Channels -> Seq(Events)] /\ parked' \in Seq(Parked)
      /\ channel'[c] = Tail(q) /\ \A d \in Channels : d # c => channel'[d] = channel[d]
  BY <1>1, <1>2, <1>3
<1> HIDE DEF x
<1>5. \A d \in Channels : Transit(d)' = Transit(d)
  <2>1. ASSUME NEW d \in Channels PROVE Way(d, channel'[d], parked') = Way(d, channel[d], parked)
    BY <1>1, <1>3, <1>4
  <2> QED BY <2>1, TransitIsWay
<1>6. Routed'
  BY <1>4, <1>5 DEF Inv, Routed
<1>7. OneVoice'
  <2>1. ASSUME NEW d \in Channels, NEW E, Sole(d, channel[d], parked, E)
        PROVE  Sole(d, channel'[d], parked', E)
    BY <1>1, <1>3, <1>4, <2>1
  <2> QED BY <2>1, InterestsOf DEF Inv, OneVoice
<1>8. LotsFair' /\ ChangesTrue'
  BY <1>1, <1>5, InterestsOf DEF Inv, LotsFair, ChangesTrue, inventoryVars, placementVars
<1>9. Services'
  <2>1. failures' \in 0 .. MaxFailures
    BY <1>1, <1>2, PutawayAssumption DEF Services
  <2>2. answer' # "none" => channel'[ToInventory] # <<>>
    BY <1>1, <1>2, <1>4, InterestsOf DEF Services
  <2> QED BY <1>1, <1>2, <2>1, <2>2 DEF Services, warehouseVars, placementVars
<1>10. Apart' /\ WorkersTyped' /\ Stock!TypeOK' /\ ProjectionTruthful'
  BY <1>1, <1>2 DEF Inv, Apart, WorkersTyped, Stock!TypeOK, ProjectionTruthful, Open,
                    inventoryVars, warehouseVars, placementVars
<1> QED BY <1>6, <1>7, <1>8, <1>9, <1>10, TypeParts DEF Inv

\* A parked event is published again: it stays on its way.
LEMMA ReplayKeeps ==
  ASSUME Inv, Replay
  PROVE  Inv'
<1> DEFINE x == Head(parked)
           c == x.channel
           q == channel[c]
<1>1. /\ UNCHANGED <<inventoryVars, answer, warehouseVars, placementVars, failures>>
      /\ parked # <<>> /\ parked' = Tail(parked)
      /\ channel' = [channel EXCEPT ![c] = Append(q, x.event)]
  BY DEF Replay
<1>2. /\ Services /\ Apart /\ WorkersTyped /\ Stock!TypeOK
      /\ channel \in [Channels -> Seq(Events)] /\ parked \in Seq(Parked)
  BY TypeParts DEF Inv, Routed
<1>3. x \in Parked
  BY <1>1, <1>2, RangeTail
<1>4. c \in Channels /\ x.event \in Events /\ q \in Seq(Events)
  BY <1>2, <1>3 DEF Parked
<1>5. /\ Append(q, x.event) \in Seq(Events) /\ Tail(parked) \in Seq(Parked)
      /\ Way(c, Append(q, x.event), Tail(parked)) = Way(c, q, parked)
      /\ \A E : Sole(c, q, parked, E) => Sole(c, Append(q, x.event), Tail(parked), E)
      /\ \A d, r : d # c => /\ Way(d, r, Tail(parked)) = Way(d, r, parked)
                            /\ \A E : Sole(d, r, parked, E) => Sole(d, r, Tail(parked), E)
  BY <1>1, <1>2, <1>4, WayReplayed
<1>6. Append(q, x.event) # <<>>
  BY <1>4
<1> HIDE DEF x, c, q
<1>7. /\ channel' \in [Channels -> Seq(Events)] /\ parked' \in Seq(Parked)
      /\ channel'[c] = Append(q, x.event) /\ \A d \in Channels : d # c => channel'[d] = channel[d]
  BY <1>1, <1>2, <1>4, <1>5
<1>8. \A d \in Channels : Transit(d)' = Transit(d)
  <2>1. ASSUME NEW d \in Channels PROVE Way(d, channel'[d], parked') = Way(d, channel[d], parked)
    BY <1>1, <1>5, <1>7 DEF q
  <2> QED BY <2>1, TransitIsWay
<1>9. Routed'
  BY <1>7, <1>8 DEF Inv, Routed
<1>10. OneVoice'
  <2>1. ASSUME NEW d \in Channels, NEW E, Sole(d, channel[d], parked, E)
        PROVE  Sole(d, channel'[d], parked', E)
    BY <1>1, <1>5, <1>7, <2>1 DEF q
  <2> QED BY <2>1, InterestsOf DEF Inv, OneVoice
<1>11. LotsFair' /\ ChangesTrue'
  BY <1>1, <1>8, InterestsOf DEF Inv, LotsFair, ChangesTrue, inventoryVars, placementVars
<1>12. Services'
  <2>1. answer' # "none" => channel'[ToInventory] # <<>>
    BY <1>1, <1>2, <1>6, <1>7, InterestsOf DEF Services
  <2> QED BY <1>1, <1>2, <2>1 DEF Services, warehouseVars, placementVars
<1>13. Apart' /\ WorkersTyped' /\ Stock!TypeOK' /\ ProjectionTruthful'
  BY <1>1, <1>2 DEF Inv, Apart, WorkersTyped, Stock!TypeOK, ProjectionTruthful, Open,
                    inventoryVars, warehouseVars, placementVars
<1> QED BY <1>9, <1>10, <1>11, <1>12, <1>13, TypeParts DEF Inv

\* The head of a channel is taken off the channel, which carries it.
LEMMA HeadTaken ==
  ASSUME Inv, NEW c \in Channels, channel[c] # <<>>,
         channel' = [channel EXCEPT ![c] = Tail(@)], parked' = parked
  PROVE  LET e == Head(channel[c])
         IN  /\ e \in Carries(c) /\ Transit(c) = {e} \cup Transit(c)'
             /\ \A d \in Channels : d # c => Transit(d)' = Transit(d) /\ channel'[d] = channel[d]
             /\ Routed' /\ OneVoice'
             /\ \A E : Sole(c, channel[c], parked, E) /\ e \in E => Transit(c)' \cap E = {}
<1> DEFINE q == channel[c]
           e == Head(q)
<1>1. channel \in [Channels -> Seq(Events)] /\ parked \in Seq(Parked) /\ q \in Seq(Events)
  BY DEF Inv, Routed
<1>2. /\ Tail(q) \in Seq(Events)
      /\ Way(c, q, parked) = {e} \cup Way(c, Tail(q), parked)
      /\ \A E : Sole(c, q, parked, E) => /\ Sole(c, Tail(q), parked, E)
                                         /\ e \in E => Way(c, Tail(q), parked) \cap E = {}
  BY <1>1, WayTail
<1>3. /\ channel' \in [Channels -> Seq(Events)] /\ channel'[c] = Tail(q)
      /\ \A d \in Channels : d # c => channel'[d] = channel[d]
  BY <1>1, <1>2
<1>4. /\ Transit(c) = {e} \cup Transit(c)' /\ Transit(c)' = Way(c, Tail(q), parked)
      /\ \A d \in Channels : d # c => Transit(d)' = Transit(d)
  BY <1>2, <1>3, TransitIsWay
<1> HIDE DEF q, e
<1>5. e \in Carries(c) /\ \A d \in Channels : Transit(d)' \subseteq Carries(d)
  BY <1>4 DEF Inv, Routed
<1>6. Routed'
  BY <1>1, <1>3, <1>5 DEF Routed
<1>7. OneVoice'
  <2>1. ASSUME NEW d \in Channels, NEW E, Sole(d, channel[d], parked, E)
        PROVE  Sole(d, channel'[d], parked', E)
    BY <1>2, <1>3, <2>1 DEF q
  <2> QED BY <2>1, InterestsOf DEF Inv, OneVoice
<1> QED BY <1>2, <1>3, <1>4, <1>5, <1>6, <1>7 DEF q, e

\* The warehouse service handles a change of load: one that is news is the
\* latest that the ledger announced of those it has heard of.
LEMMA WarehouseHandlesKeeps ==
  ASSUME Inv, WarehouseHandles
  PROVE  Inv'
<1> DEFINE e == Head(channel[ToWarehouse])
           loc == e.location
<1>1. /\ UNCHANGED <<inventoryVars, answer, placementVars, parked, failures>>
      /\ channel[ToWarehouse] # <<>> /\ channel' = [channel EXCEPT ![ToWarehouse] = Tail(@)]
      /\ IF IsNews(e)
           THEN /\ known' = [known EXCEPT ![loc] = [load |-> e.load, revision |-> e.revision]]
                /\ status' = [status EXCEPT ![loc] = IF @ \in Closed THEN @ ELSE Occupancy(loc, e.load)]
           ELSE UNCHANGED warehouseVars
  BY DEF WarehouseHandles, ToWarehouse
<1>2. /\ e \in Carries(ToWarehouse) /\ Transit(ToWarehouse) = {e} \cup Transit(ToWarehouse)'
      /\ \A d \in Channels : d # ToWarehouse => Transit(d)' = Transit(d) /\ channel'[d] = channel[d]
      /\ Routed' /\ OneVoice'
  BY <1>1, HeadTaken, InterestsOf
<1>3. Services /\ Apart /\ WorkersTyped /\ Stock!TypeOK
  BY TypeParts DEF Inv
<1>4. e \in Changes
  BY <1>2, InterestsOf DEF Carries
<1>5. loc \in Locations /\ e.load \in [Stock!Dims -> Nat] /\ e.revision \in Nat
  BY <1>4 DEF Changes
<1>6. \A m, x : Occupancy(m, x) \in {"AVAILABLE", "PARTIALLY_OCCUPIED", "FULL"}
  BY DEF Occupancy
<1>7. e.revision <= revision[loc] /\ (e.revision = revision[loc] => e.load = load[loc])
  BY <1>2 DEF Inv, ChangesTrue
<1> HIDE DEF e
<1>8. Services'
  <2>1. /\ status' \in [Locations -> {"AVAILABLE", "PARTIALLY_OCCUPIED", "FULL"} \cup Closed]
        /\ known' \in [Locations -> [load : [Stock!Dims -> Nat], revision : Nat]]
    <3>1. CASE ~ IsNews(e)
      BY <1>1, <1>3, <3>1 DEF Services, warehouseVars
    <3>2. CASE IsNews(e)
      <4>1. /\ (IF status[loc] \in Closed THEN status[loc] ELSE Occupancy(loc, e.load))
                 \in {"AVAILABLE", "PARTIALLY_OCCUPIED", "FULL"} \cup Closed
            /\ [load |-> e.load, revision |-> e.revision] \in [load : [Stock!Dims -> Nat], revision : Nat]
        BY <1>3, <1>5, <1>6 DEF Services
      <4> HIDE DEF loc
      <4> QED BY <1>1, <1>3, <3>2, <4>1 DEF Services
    <3> QED BY <3>1, <3>2
  <2> QED BY <1>1, <1>2, <1>3, <2>1, InterestsOf DEF Services, placementVars
<1>9. Apart' /\ WorkersTyped' /\ Stock!TypeOK'
  BY <1>1, <1>3 DEF Apart, WorkersTyped, Stock!TypeOK, inventoryVars, placementVars
<1>10. LotsFair' /\ ChangesTrue'
  BY <1>1, <1>2, InterestsOf DEF Inv, LotsFair, ChangesTrue, inventoryVars, placementVars
<1>11. ProjectionTruthful'
  <2>1. load' = load /\ revision' = revision
    BY <1>1 DEF inventoryVars
  <2>2. CASE ~ IsNews(e)
    BY <1>1, <2>1, <2>2 DEF Inv, ProjectionTruthful, Open, warehouseVars
  <2>3. CASE IsNews(e)
    <3>1. /\ known' = [known EXCEPT ![loc] = [load |-> e.load, revision |-> e.revision]]
          /\ status' = [status EXCEPT ![loc] = IF @ \in Closed THEN @ ELSE Occupancy(loc, e.load)]
      BY <1>1, <2>3
    <3>2. ASSUME NEW m \in Locations, m # loc PROVE known'[m] = known[m] /\ status'[m] = status[m]
      BY <1>3, <3>1, <3>2 DEF Services
    <3>3. /\ known'[loc].load = e.load /\ known'[loc].revision = e.revision
          /\ status'[loc] = IF status[loc] \in Closed THEN status[loc] ELSE Occupancy(loc, e.load)
      BY <1>3, <1>5, <3>1 DEF Services
    <3> HIDE DEF loc
    <3> QED BY <1>7, <2>1, <3>2, <3>3 DEF Inv, ProjectionTruthful, Open
  <2> QED BY <2>2, <2>3
<1> QED BY <1>2, <1>8, <1>9, <1>10, <1>11, TypeParts DEF Inv

\* The placement service handles an event: the job of the lot follows it.
LEMMA PlacementHandlesKeeps ==
  ASSUME Inv, PlacementHandles
  PROVE  Inv'
<1> DEFINE e == Head(channel[ToPlacement])
           l == e.lot
           asked == Transit(ToInventory)
           told == Transit(ToPlacement)
           rest == Way(ToPlacement, channel'[ToPlacement], parked')
           j == JobAfter(jobs[l], e.type)
<1>1. /\ UNCHANGED <<inventoryVars, answer, warehouseVars, worker, mutex, parked, failures>>
      /\ channel[ToPlacement] # <<>> /\ channel' = [channel EXCEPT ![ToPlacement] = Tail(@)]
      /\ l \notin Locked /\ jobs' = [jobs EXCEPT ![l] = j]
  BY DEF PlacementHandles, ToPlacement
<1>2. /\ e \in Carries(ToPlacement) /\ told = {e} \cup rest
      /\ \A d \in Channels : d # ToPlacement => Transit(d)' = Transit(d) /\ channel'[d] = channel[d]
      /\ Routed' /\ OneVoice'
      /\ \A E : Sole(ToPlacement, channel[ToPlacement], parked, E) /\ e \in E => rest \cap E = {}
  BY <1>1, HeadTaken, InterestsOf, TransitIsWay
<1>3. Services /\ Apart /\ WorkersTyped /\ Stock!TypeOK
  BY TypeParts DEF Inv
<1>4. e \in Receipts \cup Refusals \cup Additions
  BY <1>2, InterestsOf DEF Carries
<1>5. l \in Lots /\ e.type \in {"GoodsReceived", "PlacementRejected", "StockAdded"}
  BY <1>4 DEF Receipts, Refusals, Additions
<1>6. told \in SUBSET Carries(ToPlacement) /\ rest \in SUBSET Carries(ToPlacement)
  BY <1>2, InterestsOf DEF Inv, Routed
<1>7. \A t, m : Has(told, t, m) <=> Has(rest, t, m) \/ (e.type = t /\ l = m)
  <2> HIDE DEF e, told, rest
  <2> QED BY <1>2, HasFacts
<1>8. e.type = "PlacementRejected" => ~ Has(rest, "PlacementRejected", l)
  <2>1. Sole(ToPlacement, channel[ToPlacement], parked, RefusalsOn(l))
    BY <1>5 DEF Inv, OneVoice
  <2> QED BY <1>2, <1>5, <1>6, <2>1, Voices
<1>9. LotFair(l, told, asked, jobs[l], stocks[l])
  BY <1>5 DEF Inv, LotsFair
<1>10. rest = Transit(ToPlacement)' /\ asked = Transit(ToInventory)' /\ stocks' = stocks
  BY <1>1, <1>2, InterestsOf, TransitIsWay DEF inventoryVars
<1>11. jobs \in [Lots -> JobStatuses] /\ jobs[l] \in JobStatuses /\ j \in JobStatuses
  BY <1>3, <1>5 DEF Services, JobStatuses, JobAfter
<1> HIDE DEF e, l, asked, told, rest, j
<1>12. LotFair(l, rest, asked, j, stocks[l])
  <2>1. CASE e.type = "GoodsReceived"
    <3>1. /\ j = IF jobs[l] = "NONE" THEN "PENDING" ELSE jobs[l]
          /\ Has(told, "GoodsReceived", l)
          /\ Has(told, "PlacementRejected", l) <=> Has(rest, "PlacementRejected", l)
          /\ Has(told, "StockAdded", l) <=> Has(rest, "StockAdded", l)
      BY <1>7, <2>1 DEF JobAfter, j
    <3> QED BY <1>9, <3>1 DEF LotFair
  <2>2. CASE e.type = "PlacementRejected"
    <3>1. /\ j = IF jobs[l] = "NONE" THEN "NONE" ELSE IF jobs[l] = "PLACED" THEN jobs[l] ELSE "PENDING"
          /\ ~ Has(rest, "PlacementRejected", l) /\ Has(told, "PlacementRejected", l)
          /\ Has(told, "GoodsReceived", l) <=> Has(rest, "GoodsReceived", l)
          /\ Has(told, "StockAdded", l) <=> Has(rest, "StockAdded", l)
      BY <1>7, <1>8, <2>2 DEF JobAfter, j
    <3> QED BY <1>9, <3>1 DEF LotFair
  <2>3. CASE e.type = "StockAdded"
    <3>1. /\ j = IF jobs[l] = "NONE" THEN "NONE" ELSE "PLACED"
          /\ Has(told, "StockAdded", l)
          /\ Has(told, "GoodsReceived", l) <=> Has(rest, "GoodsReceived", l)
          /\ Has(told, "PlacementRejected", l) <=> Has(rest, "PlacementRejected", l)
          /\ Has(rest, "StockAdded", l) => Has(told, "StockAdded", l)
      BY <1>7, <2>3 DEF JobAfter, j
    <3> QED BY <1>9, <3>1 DEF LotFair
  <2> QED BY <1>5, <2>1, <2>2, <2>3
<1>13. LotsFair'
  <2>1. ASSUME NEW m \in Lots, m # l
        PROVE  LotFair(m, rest, asked, jobs[m], stocks[m])
    <3>1. \A t : Has(told, t, m) <=> Has(rest, t, m)
      BY <1>7, <2>1
    <3>2. LotFair(m, told, asked, jobs[m], stocks[m])
      BY DEF Inv, LotsFair, told, asked
    <3> QED BY <3>1, <3>2 DEF LotFair
  <2>2. \A m \in Lots : jobs'[m] = IF m = l THEN j ELSE jobs[m]
    BY <1>1, <1>11
  <2> QED BY <1>10, <1>12, <2>1, <2>2 DEF LotsFair
<1>14. Services'
  <2>1. jobs' \in [Lots -> JobStatuses]
    BY <1>1, <1>11
  <2> QED BY <1>1, <1>2, <1>3, <2>1, InterestsOf DEF Services, warehouseVars
<1>15. Apart'
  <2>1. ASSUME NEW w \in Workers, worker[w] # Idle PROVE jobs'[worker[w].lot] = "PENDING"
    <3>1. worker[w].lot # l /\ worker[w].lot \in Lots /\ jobs[worker[w].lot] = "PENDING"
      BY <1>1, <1>3, <2>1 DEF Locked, Apart
    <3> QED BY <1>1, <1>11, <3>1
  <2> QED BY <1>1, <1>3, <2>1 DEF Apart
<1>16. WorkersTyped' /\ Stock!TypeOK' /\ ProjectionTruthful'
  BY <1>1, <1>3 DEF Inv, WorkersTyped, Stock!TypeOK, ProjectionTruthful, Open, inventoryVars, warehouseVars
<1>17. ChangesTrue'
  BY <1>1, <1>2, InterestsOf DEF Inv, ChangesTrue, inventoryVars
<1> QED BY <1>2, <1>13, <1>14, <1>15, <1>16, <1>17, TypeParts DEF Inv

\* A worker assigns a location: no other decision about the lot is on its way,
\* for its job was pending.
LEMMA AssignKeeps ==
  ASSUME Inv, NEW w \in Workers, Assign(w)
  PROVE  Inv'
<1> DEFINE l == worker[w].lot
           q == channel[ToInventory]
           asked == Transit(ToInventory)
           told == Transit(ToPlacement)
<1>1. PICK loc \in Suitable :
        channel' = [channel EXCEPT ![ToInventory] = Append(q, Decision(l, loc))]
  BY DEF Assign, Eligible, ToInventory, Decision
<1>2. /\ UNCHANGED <<inventoryVars, answer, warehouseVars, parked, failures>>
      /\ jobs' = [jobs EXCEPT ![l] = "ASSIGNED"]
      /\ worker[w] # Idle /\ worker' = [worker EXCEPT ![w] = Idle] /\ mutex' \in {mutex, None}
  BY DEF Assign, Finish, Idle
<1>3. /\ Services /\ Apart /\ WorkersTyped /\ Stock!TypeOK
      /\ channel \in [Channels -> Seq(Events)] /\ parked \in Seq(Parked) /\ q \in Seq(Events)
  BY TypeParts, InterestsOf DEF Inv, Routed
<1>4. l \in Lots /\ jobs[l] = "PENDING"
  BY <1>2, <1>3 DEF Apart
<1>5. LotFair(l, told, asked, "PENDING", stocks[l])
  BY <1>4 DEF Inv, LotsFair
<1>6. ~ Has(asked, "ProductPlacementAssigned", l)
  BY <1>5 DEF LotFair
<1> DEFINE e == Decision(l, loc)
<1>7. /\ e \in Decisions /\ e \in Events /\ e \in Carries(ToInventory) /\ e.type = "ProductPlacementAssigned"
      /\ e.lot = l
  BY <1>1, <1>4, InterestsOf DEF Decision, Decisions, Events, Carries
<1> HIDE DEF l, e, q
<1>8. /\ Append(q, e) \in Seq(Events)
      /\ Way(ToInventory, Append(q, e), parked) = Way(ToInventory, q, parked) \cup {e}
      /\ \A E : Sole(ToInventory, q, parked, E) /\ (e \notin E \/ Way(ToInventory, q, parked) \cap E = {})
                  => Sole(ToInventory, Append(q, e), parked, E)
  BY <1>3, <1>7, WayAppend
<1>9. /\ channel' \in [Channels -> Seq(Events)] /\ channel'[ToInventory] = Append(q, e)
      /\ \A d \in Channels : d # ToInventory => channel'[d] = channel[d]
      /\ parked' = parked
  BY <1>1, <1>2, <1>3, <1>8, InterestsOf DEF e
<1>10. /\ Transit(ToInventory)' = asked \cup {e}
       /\ \A d \in Channels : d # ToInventory => Transit(d)' = Transit(d)
  BY <1>8, <1>9, TransitIsWay DEF q
<1>11. Routed'
  BY <1>3, <1>7, <1>9, <1>10 DEF Inv, Routed
<1>12. OneVoice'
  <2>1. ASSUME NEW m \in Lots
        PROVE  Sole(ToInventory, channel'[ToInventory], parked, DecisionsOn(m))
    <3>1. Sole(ToInventory, q, parked, DecisionsOn(m))
      BY DEF Inv, OneVoice, q
    <3>2. CASE m = l
      <4>1. asked \cap DecisionsOn(m) = {}
        BY <1>6, <3>2, Voices, InterestsOf DEF Inv, Routed
      <4>2. asked = Way(ToInventory, q, parked)
        BY TransitIsWay DEF q
      <4> QED BY <1>8, <1>9, <3>1, <4>1, <4>2
    <3>3. CASE m # l
      BY <1>7, <1>8, <1>9, <3>1, <3>3, Voices
    <3> QED BY <3>2, <3>3
  <2> QED BY <1>9, <2>1, InterestsOf DEF Inv, OneVoice
<1>13. LotsFair'
  <2>1. ASSUME NEW m \in Lots
        PROVE  LotFair(m, told, asked \cup {e}, IF m = l THEN "ASSIGNED" ELSE jobs[m], stocks[m])
    <3>1. /\ \A t : Has(asked \cup {e}, t, m) <=> Has(asked, t, m) \/ (e.type = t /\ l = m)
      BY <1>7, HasFacts
    <3>2. LotFair(m, told, asked, jobs[m], stocks[m])
      BY DEF Inv, LotsFair
    <3>3. CASE m = l
      <4>1. Has(asked \cup {e}, "ProductPlacementAssigned", l)
        BY <1>7, <3>1, <3>3
      <4> QED BY <1>5, <3>3, <4>1 DEF LotFair
    <3>4. CASE m # l
      BY <3>1, <3>2, <3>4 DEF LotFair
    <3> QED BY <3>3, <3>4
  <2>2. \A m \in Lots : jobs'[m] = IF m = l THEN "ASSIGNED" ELSE jobs[m]
    BY <1>2, <1>3 DEF Services, l
  <2>3. told = Transit(ToPlacement)' /\ stocks' = stocks
    BY <1>2, <1>10, InterestsOf DEF inventoryVars
  <2> QED BY <1>10, <2>1, <2>2, <2>3 DEF LotsFair
<1>14. Services'
  <2>1. jobs' \in [Lots -> JobStatuses] /\ mutex' \in Workers \cup {None}
    BY <1>2, <1>3 DEF Services, JobStatuses
  <2>2. channel'[ToInventory] # <<>>
    BY <1>3, <1>7, <1>9
  <2> QED BY <1>2, <1>3, <2>1, <2>2 DEF Services, warehouseVars
<1>15. WorkersTyped' /\ Apart'
  BY <1>2, <1>3, WorkerDone DEF l
<1>16. Stock!TypeOK' /\ ProjectionTruthful' /\ ChangesTrue'
  BY <1>2, <1>3, <1>10, InterestsOf
     DEF Inv, Stock!TypeOK, ProjectionTruthful, ChangesTrue, Open, inventoryVars, warehouseVars
<1> QED BY <1>11, <1>12, <1>13, <1>14, <1>15, <1>16, TypeParts DEF Inv

\* A transaction of the inventory: what is left is to show that the queues and
\* the lots stay fair.
LEMMA TransactionKeeps ==
  ASSUME Inv, LedgerStep, stocks' \in [Lots -> Stock!Rows \cup {Stock!NoStock}],
         Telling \subseteq Receipts \cup Refusals \cup Additions,
         UNCHANGED <<warehouseVars, placementVars, parked, failures>>,
         NEW queues \in [Channels -> Seq(Events)], Publish(queues),
         \A c \in Channels : c # ToInventory => queues[c] = channel[c],
         Way(ToInventory, queues[ToInventory], parked) \subseteq Transit(ToInventory),
         \A E : Sole(ToInventory, channel[ToInventory], parked, E)
                  => Sole(ToInventory, queues[ToInventory], parked, E),
         answer' \in {"none", "open", "closed"},
         answer' # "none" => queues[ToInventory] # <<>>,
         \A l \in Lots : Telling \cap RefusalsOn(l) = {} \/ ~ Has(Transit(ToPlacement), "PlacementRejected", l),
         LotsFair'
  PROVE  Inv'
<1>1. /\ Services /\ Apart /\ WorkersTyped /\ Stock!TypeOK
      /\ channel \in [Channels -> Seq(Events)] /\ parked \in Seq(Parked)
  BY TypeParts DEF Inv, Routed
<1>2. /\ channel' \in [Channels -> Seq(Events)]
      /\ channel'[ToInventory] = queues[ToInventory]
      /\ Way(ToPlacement, channel'[ToPlacement], parked) = Way(ToPlacement, queues[ToPlacement], parked) \cup Telling
      /\ \A E : /\ Sole(ToPlacement, queues[ToPlacement], parked, E)
                /\ \/ Telling \cap E = {}
                   \/ /\ Way(ToPlacement, queues[ToPlacement], parked) \cap E = {}
                      /\ \A x, y \in Telling \cap E : x = y
                => Sole(ToPlacement, channel'[ToPlacement], parked, E)
      /\ Way(ToWarehouse, channel'[ToWarehouse], parked) =
           Way(ToWarehouse, queues[ToWarehouse], parked)
             \cup {e \in emitted' : e.type = "LocationCapacityChanged"}
  BY <1>1, PublishWays
<1>3. queues[ToPlacement] = channel[ToPlacement] /\ queues[ToWarehouse] = channel[ToWarehouse]
  BY InterestsOf
<1>4. /\ Transit(ToPlacement)' = Transit(ToPlacement) \cup Telling
      /\ Transit(ToWarehouse)' =
           Transit(ToWarehouse) \cup {e \in emitted' : e.type = "LocationCapacityChanged"}
      /\ Transit(ToInventory)' \subseteq Transit(ToInventory)
  BY <1>2, <1>3, TransitIsWay
<1>5. Stock!TypeOK' /\ ChangesTrue' /\ ProjectionTruthful'
  <2>1. \A e \in Transit(ToWarehouse)' :
          e \in Transit(ToWarehouse) \/ (e \in emitted' /\ e.type = "LocationCapacityChanged")
    BY <1>4
  <2> QED BY <2>1, LedgerMoves DEF warehouseVars
<1>6. Routed'
  <2>1. Transit(ToWarehouse)' \subseteq Carries(ToWarehouse)
    BY <1>4, InterestsOf DEF Inv, Routed, Carries, LedgerStep
  <2>2. Transit(ToPlacement)' \subseteq Carries(ToPlacement)
    BY <1>4, InterestsOf DEF Inv, Routed, Carries
  <2>3. Transit(ToInventory)' \subseteq Carries(ToInventory)
    BY <1>4, InterestsOf DEF Inv, Routed
  <2> QED BY <1>1, <1>2, <2>1, <2>2, <2>3, InterestsOf DEF Routed
<1>7. OneVoice'
  <2>1. ASSUME NEW l \in Lots
        PROVE  /\ Sole(ToInventory, channel'[ToInventory], parked, DecisionsOn(l))
               /\ Sole(ToPlacement, channel'[ToPlacement], parked, RefusalsOn(l))
    <3>1. /\ Sole(ToInventory, channel[ToInventory], parked, DecisionsOn(l))
          /\ Sole(ToPlacement, channel[ToPlacement], parked, RefusalsOn(l))
      BY DEF Inv, OneVoice
    <3>2. Telling \cap RefusalsOn(l) = {} \/ Transit(ToPlacement) \cap RefusalsOn(l) = {}
      BY Voices, InterestsOf DEF Inv, Routed
    <3>3. \A x, y \in Telling \cap RefusalsOn(l) : x = y
      BY DEF RefusalsOn
    <3>4. Transit(ToPlacement) = Way(ToPlacement, queues[ToPlacement], parked)
      BY <1>3, TransitIsWay
    <3> QED BY <1>2, <1>3, <3>1, <3>2, <3>3, <3>4
  <2> QED BY <2>1 DEF OneVoice
<1>8. Services' /\ Apart' /\ WorkersTyped'
  BY <1>1, <1>2 DEF Services, Apart, WorkersTyped, warehouseVars, placementVars
<1> QED BY <1>5, <1>6, <1>7, <1>8, TypeParts DEF Inv

\* A command of a client.
LEMMA CommandKeeps ==
  ASSUME Inv, Command
  PROVE  Inv'
<1> DEFINE asked == Transit(ToInventory)
           told == Transit(ToPlacement)
<1>1. CommandStep
  <2>1. Stock!TypeOK
    BY TypeParts DEF Inv
  <2>2. PICK l \in Lots :
          \/ \E n \in 1..MaxQuantity : Stock!Receive(l, Product, Warehouse, n, Stock!Never)
          \/ \E n \in 0..MaxQuantity : Stock!Adjust(l, n)
          \/ \E n \in 1..MaxQuantity : Stock!WriteOff(l, n)
          \/ \E new \in Lots, to \in Locations, n \in 1..MaxQuantity : Stock!Move(l, new, to, n)
    BY DEF Command
  <2> QED BY <2>1, <2>2, ReceiveStep, AdjustStep, WriteOffStep, MoveStep
<1>2. /\ Publish(channel) /\ answer = "none"
      /\ UNCHANGED <<answer, warehouseVars, placementVars, parked, failures>>
  BY DEF Command
<1>3. /\ Services /\ Stock!TypeOK /\ channel \in [Channels -> Seq(Events)] /\ parked \in Seq(Parked)
  BY TypeParts DEF Inv, Routed
<1>4. /\ Telling \subseteq Receipts
      /\ \A e \in Telling : /\ stocks[e.lot] = Stock!NoStock /\ e.type = "GoodsReceived"
                            /\ stocks'[e.lot] # Stock!NoStock /\ stocks'[e.lot].location = None
  BY <1>1 DEF CommandStep, Receipts
<1>5. \A l \in Lots : Telling \cap RefusalsOn(l) = {}
  BY <1>4 DEF RefusalsOn, Refusal
<1>6. LedgerStep /\ stocks' \in [Lots -> Stock!Rows \cup {Stock!NoStock}]
  BY <1>1 DEF CommandStep
<1>7. asked = Transit(ToInventory)' /\ Transit(ToPlacement)' = told \cup Telling
  <2>1. /\ channel'[ToInventory] = channel[ToInventory]
        /\ Way(ToPlacement, channel'[ToPlacement], parked) = Way(ToPlacement, channel[ToPlacement], parked) \cup Telling
    BY <1>2, <1>3, <1>4, <1>6, PublishWays
  <2> QED BY <1>2, <2>1, TransitIsWay
<1>8. LotsFair'
  <2>1. ASSUME NEW l \in Lots
        PROVE  LotFair(l, told \cup Telling, asked, jobs[l], stocks'[l])
    <3>1. LotFair(l, told, asked, jobs[l], stocks[l])
      BY DEF Inv, LotsFair
    <3>2. /\ \A t : Has(told \cup Telling, t, l) <=> Has(told, t, l) \/ Has(Telling, t, l)
          /\ ~ Has(Telling, "StockAdded", l) /\ ~ Has(Telling, "PlacementRejected", l)
          /\ Has(Telling, "GoodsReceived", l) => /\ stocks[l] = Stock!NoStock
                                                 /\ stocks'[l] # Stock!NoStock /\ stocks'[l].location = None
      BY <1>4, HasFacts DEF Has
    <3> DEFINE x == stocks[l]
               y == stocks'[l]
    <3>3. y \in Stock!Rows \cup {Stock!NoStock} /\ y.quantity \in Nat /\ x.quantity \in Nat
          /\ Stock!NoStock.quantity = 0 /\ Stock!NoStock.location = None
      BY <1>3, <1>6, RowFacts DEF Stock!Rows
    <3>4. \/ y = x
          \/ /\ x # Stock!NoStock /\ y.location = x.location
             /\ x.location = None => y.quantity <= x.quantity
          \/ /\ x = Stock!NoStock
             /\ y.location # None \/ Has(Telling, "GoodsReceived", l)
      BY <1>1 DEF CommandStep
    <3>5. y = Stock!NoStock => x = Stock!NoStock
      BY <1>1 DEF CommandStep
    <3> HIDE DEF x, y, asked, told
    <3>6. CASE y = x /\ ~ Has(Telling, "GoodsReceived", l)
      BY <3>1, <3>2, <3>6 DEF LotFair, x, y
    <3>7. CASE /\ x # Stock!NoStock /\ y.location = x.location
               /\ x.location = None => y.quantity <= x.quantity
      <4>1. ~ Has(Telling, "GoodsReceived", l) /\ LotFair(l, told, asked, jobs[l], x)
        BY <3>1, <3>2, <3>7 DEF x
      <4>2. x.location = None /\ x.quantity = 0 => y.quantity = 0
        BY <3>3, <3>7
      <4>3. x.location = None /\ y.quantity > 0 => x.quantity > 0
        BY <3>3, <3>7
      <4>4. /\ Has(told \cup Telling, "GoodsReceived", l) <=> Has(told, "GoodsReceived", l)
            /\ Has(told \cup Telling, "StockAdded", l) <=> Has(told, "StockAdded", l)
            /\ Has(told \cup Telling, "PlacementRejected", l) <=> Has(told, "PlacementRejected", l)
        BY <3>2, <4>1
      <4>5. y # Stock!NoStock /\ y.location = x.location
        BY <3>5, <3>7
      <4> DEFINE T == told \cup Telling
                 j == jobs[l]
      <4> HIDE DEF T, j
      <4>6. /\ Has(T, "GoodsReceived", l) <=> Has(told, "GoodsReceived", l)
            /\ Has(T, "StockAdded", l) <=> Has(told, "StockAdded", l)
            /\ Has(T, "PlacementRejected", l) <=> Has(told, "PlacementRejected", l)
            /\ LotFair(l, told, asked, j, x)
        BY <4>1, <4>4 DEF T, j
      <4>7. LotFair(l, T, asked, j, y)
        BY <4>2, <4>3, <4>5, <4>6 DEF LotFair
      <4> QED BY <4>7 DEF y, T, j
    <3>8. CASE x = Stock!NoStock /\ Has(Telling, "GoodsReceived", l)
      <4>1. y # Stock!NoStock /\ y.location = None /\ LotFair(l, told, asked, jobs[l], x)
        BY <3>1, <3>2, <3>8 DEF x, y
      <4>2. LotFair(l, told \cup Telling, asked, jobs[l], y)
        BY <3>2, <3>8, <4>1 DEF LotFair
      <4> QED BY <4>2 DEF y
    <3>9. CASE x = Stock!NoStock /\ y.location # None
      <4>1. y # Stock!NoStock /\ LotFair(l, told, asked, jobs[l], x)
        BY <3>1, <3>3, <3>9 DEF x
      <4>2. jobs[l] = "NONE" /\ ~ Has(asked, "ProductPlacementAssigned", l)
            /\ ~ Has(told, "GoodsReceived", l) /\ ~ Has(told, "StockAdded", l)
            /\ ~ Has(told, "PlacementRejected", l)
        BY <3>9, <4>1 DEF LotFair
      <4>3. ~ Has(Telling, "GoodsReceived", l)
        BY <3>2, <3>9 DEF y
      <4>4. /\ ~ Has(told \cup Telling, "GoodsReceived", l) /\ ~ Has(told \cup Telling, "StockAdded", l)
            /\ ~ Has(told \cup Telling, "PlacementRejected", l)
        BY <3>2, <4>2, <4>3
      <4> DEFINE T == told \cup Telling
                 j == jobs[l]
      <4> HIDE DEF T, j
      <4>5. /\ ~ Has(T, "GoodsReceived", l) /\ ~ Has(T, "StockAdded", l)
            /\ ~ Has(T, "PlacementRejected", l) /\ j = "NONE"
        BY <4>2, <4>4 DEF T, j
      <4>6. LotFair(l, T, asked, j, y)
        BY <3>9, <4>1, <4>2, <4>5 DEF LotFair
      <4> QED BY <4>6 DEF y, T, j
    <3> QED BY <3>2, <3>4, <3>6, <3>7, <3>8, <3>9 DEF x
  <2> QED BY <1>2, <1>7, <2>1 DEF LotsFair, placementVars
<1>9. /\ answer' \in {"none", "open", "closed"} /\ (answer' # "none" => channel[ToInventory] # <<>>)
  BY <1>2
<1>10. Way(ToInventory, channel[ToInventory], parked) \subseteq Transit(ToInventory)
  BY TransitIsWay
<1> QED BY <1>2, <1>3, <1>4, <1>5, <1>6, <1>8, <1>9, <1>10, TransactionKeeps

\* The inventory handles a decision: none about the lot is left, and a refusal is
\* the only one on its way.
LEMMA InventoryHandlesKeeps ==
  ASSUME Inv, InventoryHandles
  PROVE  Inv'
<1> DEFINE q == channel[ToInventory]
           e == Head(q)
           l == e.lot
           queues == [channel EXCEPT ![ToInventory] = Tail(@)]
           asked == Transit(ToInventory)
           told == Transit(ToPlacement)
           rest == Way(ToInventory, Tail(q), parked)
<1>1. /\ UNCHANGED <<warehouseVars, placementVars, parked, failures>>
      /\ q # <<>> /\ answer' = "none" /\ Publish(queues)
      /\ \/ Stock!Place(l, Warehouse, e.location, answer = "open")
         \/ Stock!RejectPlace(l, Warehouse, e.location, answer = "open")
         \/ Stock!PlaceAgain(l, Warehouse)
  BY DEF InventoryHandles, Assignment, ToInventory
<1>2. /\ Services /\ Stock!TypeOK
      /\ channel \in [Channels -> Seq(Events)] /\ parked \in Seq(Parked) /\ q \in Seq(Events)
  BY TypeParts, InterestsOf DEF Inv, Routed
<1>3. /\ Tail(q) \in Seq(Events)
      /\ Way(ToInventory, q, parked) = {e} \cup rest
      /\ \A E : Sole(ToInventory, q, parked, E) => /\ Sole(ToInventory, Tail(q), parked, E)
                                                   /\ e \in E => rest \cap E = {}
  BY <1>1, <1>2, WayTail
<1>4. asked = {e} \cup rest /\ asked \subseteq Carries(ToInventory)
  BY <1>3, TransitIsWay, InterestsOf DEF Inv, Routed
<1>5. e \in Decisions
  BY <1>4, InterestsOf DEF Carries
<1>6. l \in Lots /\ e.location \in Locations /\ e.type = "ProductPlacementAssigned"
  BY <1>5, PutawayAssumption DEF Decisions
<1>7. queues \in [Channels -> Seq(Events)] /\ queues[ToInventory] = Tail(q)
      /\ \A c \in Channels : c # ToInventory => queues[c] = channel[c]
  BY <1>2, <1>3, InterestsOf
<1>8. \A m \in Lots : /\ m # l => (Has(asked, "ProductPlacementAssigned", m) <=> Has(rest, "ProductPlacementAssigned", m))
                      /\ ~ Has(rest, "ProductPlacementAssigned", l) /\ Has(asked, "ProductPlacementAssigned", l)
  <2>1. Sole(ToInventory, q, parked, DecisionsOn(l))
    BY <1>6 DEF Inv, OneVoice
  <2>2. rest \cap DecisionsOn(l) = {}
    BY <1>3, <1>4, <1>6, <2>1, Voices
  <2> HIDE DEF e, q, rest
  <2>3. ~ Has(rest, "ProductPlacementAssigned", l)
    BY <1>4, <1>6, <2>2, Voices
  <2>4. \A m : Has(asked, "ProductPlacementAssigned", m)
                 <=> (Has(rest, "ProductPlacementAssigned", m) \/ l = m)
    BY <1>4, <1>6, HasFacts
  <2> QED BY <2>3, <2>4
<1>9. HandleStep(l)
  <2> HIDE DEF l, e, q
  <2> QED BY <1>1, <1>2, <1>6, PlaceStep
<1> HIDE DEF q, e, l, queues, asked, told, rest
<1>10. Telling \subseteq Receipts \cup Refusals \cup Additions
       /\ \A f \in Telling : f.lot = l
  BY <1>6, <1>9 DEF HandleStep, RefusalsOn, Refusal, Refusals
<1>11. LedgerStep /\ stocks' \in [Lots -> Stock!Rows \cup {Stock!NoStock}]
       /\ \A m \in Lots : m # l => stocks'[m] = stocks[m]
  BY <1>9 DEF HandleStep
<1>12. /\ channel'[ToInventory] = Tail(q)
       /\ Transit(ToInventory)' = rest /\ Transit(ToPlacement)' = told \cup Telling
  <2>1. /\ channel'[ToInventory] = queues[ToInventory]
        /\ Way(ToPlacement, channel'[ToPlacement], parked) = Way(ToPlacement, queues[ToPlacement], parked) \cup Telling
    BY <1>1, <1>2, <1>7, <1>10, <1>11, PublishWays
  <2> QED BY <1>1, <1>7, <2>1, TransitIsWay, InterestsOf DEF rest, told
<1>13. LotFair(l, told, asked, jobs[l], stocks[l])
  BY <1>6 DEF Inv, LotsFair, told, asked
<1>14. /\ jobs[l] \notin {"NONE", "PENDING"} /\ stocks[l].location = None /\ stocks[l] # Stock!NoStock
       /\ ~ Has(told, "PlacementRejected", l) /\ ~ Has(told, "StockAdded", l)
       /\ jobs[l] \in JobStatuses
  BY <1>2, <1>6, <1>8, <1>13 DEF LotFair, Services
<1>15. \A t : Has(told \cup Telling, t, l) <=> (Has(told, t, l) \/ Has(Telling, t, l))
  BY HasFacts
<1>16. LotFair(l, told \cup Telling, rest, jobs[l], stocks'[l])
  <2> DEFINE x == stocks[l]
             y == stocks'[l]
             T == told \cup Telling
             j == jobs[l]
  <2>1. /\ j \notin {"NONE", "PENDING"} /\ x.location = None /\ x # Stock!NoStock
        /\ ~ Has(rest, "ProductPlacementAssigned", l)
        /\ j = "PLACED" => x.location # None
        /\ j = "CANCELLED" => x.location = None /\ x.quantity = 0
        /\ j \in {"ASSIGNED", "PLACED", "CANCELLED"}
        /\ ~ Has(told, "PlacementRejected", l) /\ ~ Has(told, "StockAdded", l)
    BY <1>6, <1>8, <1>13, <1>14 DEF LotFair, JobStatuses
  <2>2. x.quantity \in Nat
    BY <1>2, <1>6, RowFacts
  <2>3. CASE /\ x.quantity > 0 /\ y # Stock!NoStock /\ y.location # None
             /\ \E f \in Additions : Telling = {f} /\ f.lot = l
    <3>1. Has(Telling, "StockAdded", l) /\ ~ Has(Telling, "PlacementRejected", l)
      BY <2>3 DEF Has, Additions
    <3>2. Has(T, "StockAdded", l) /\ ~ Has(T, "PlacementRejected", l)
      BY <1>15, <2>1, <3>1
    <3>3. j # "CANCELLED"
      BY <2>1, <2>3
    <3> HIDE DEF x, y, T, j
    <3>4. LotFair(l, T, rest, j, y)
      BY <2>1, <2>3, <3>2, <3>3 DEF LotFair
    <3> QED BY <3>4 DEF x, y, T, j
  <2>4. CASE y = x /\ Telling = RefusalsOn(l)
    <3>1. Has(Telling, "PlacementRejected", l) /\ ~ Has(Telling, "StockAdded", l)
      BY <2>4 DEF Has, RefusalsOn, Refusal
    <3>2. Has(T, "PlacementRejected", l) /\ ~ Has(T, "StockAdded", l)
      BY <1>15, <2>1, <3>1
    <3> HIDE DEF x, y, T, j
    <3>3. x.quantity > 0 => j = "ASSIGNED"
      BY <2>1, <2>2
    <3>4. LotFair(l, T, rest, j, y)
      BY <2>1, <2>4, <3>2, <3>3 DEF LotFair
    <3> QED BY <3>4 DEF x, y, T, j
  <2>5. CASE y = x /\ Telling = {} /\ x.quantity = 0
    <3>1. ~ Has(T, "PlacementRejected", l) /\ ~ Has(T, "StockAdded", l)
      BY <1>15, <2>1, <2>5, HasFacts
    <3> HIDE DEF x, y, T, j
    <3>2. ~ (x.quantity > 0)
      BY <2>5
    <3>3. LotFair(l, T, rest, j, y)
      BY <2>1, <2>5, <3>1, <3>2 DEF LotFair
    <3> QED BY <3>3 DEF x, y, T, j
  <2> QED BY <1>9, <2>1, <2>3, <2>4, <2>5 DEF HandleStep
<1>17. LotsFair'
  <2>1. ASSUME NEW m \in Lots, m # l
        PROVE  LotFair(m, told \cup Telling, rest, jobs[m], stocks'[m])
    <3>1. \A t : ~ Has(Telling, t, m)
      BY <1>10, <2>1 DEF Has
    <3>2. /\ Has(told \cup Telling, "GoodsReceived", m) <=> Has(told, "GoodsReceived", m)
          /\ Has(told \cup Telling, "StockAdded", m) <=> Has(told, "StockAdded", m)
          /\ Has(told \cup Telling, "PlacementRejected", m) <=> Has(told, "PlacementRejected", m)
          /\ Has(rest, "ProductPlacementAssigned", m) <=> Has(asked, "ProductPlacementAssigned", m)
      BY <1>8, <2>1, <3>1, HasFacts
    <3>3. LotFair(m, told, asked, jobs[m], stocks[m])
      BY DEF Inv, LotsFair, told, asked
    <3>4. stocks'[m] = stocks[m]
      BY <1>11, <2>1
    <3> DEFINE T == told \cup Telling
    <3>5. /\ Has(T, "GoodsReceived", m) <=> Has(told, "GoodsReceived", m)
          /\ Has(T, "StockAdded", m) <=> Has(told, "StockAdded", m)
          /\ Has(T, "PlacementRejected", m) <=> Has(told, "PlacementRejected", m)
      BY <3>2
    <3> HIDE DEF T
    <3>6. LotFair(m, T, rest, jobs[m], stocks[m])
      BY <3>2, <3>3, <3>5 DEF LotFair
    <3> QED BY <3>4, <3>6 DEF T
  <2>2. jobs' = jobs
    BY <1>1 DEF placementVars
  <2> QED BY <1>12, <1>16, <2>1, <2>2 DEF LotsFair
<1>18. \A m \in Lots : Telling \cap RefusalsOn(m) = {} \/ ~ Has(told, "PlacementRejected", m)
  <2>1. \A m \in Lots : m # l => Telling \cap RefusalsOn(m) = {}
    BY <1>10 DEF RefusalsOn, Refusal
  <2> QED BY <1>14, <2>1
<1>19. /\ Way(ToInventory, queues[ToInventory], parked) \subseteq Transit(ToInventory)
       /\ \A E : Sole(ToInventory, channel[ToInventory], parked, E)
                   => Sole(ToInventory, queues[ToInventory], parked, E)
  BY <1>3, <1>4, <1>7 DEF rest, asked, q
<1>20. /\ answer' \in {"none", "open", "closed"} /\ (answer' # "none" => queues[ToInventory] # <<>>)
  BY <1>1
<1> QED BY <1>1, <1>7, <1>10, <1>11, <1>17, <1>18, <1>19, <1>20, TransactionKeeps DEF told

-----------------------------------------------------------------------------
(***************************************************************************)
(* The theorems.                                                           *)
(***************************************************************************)
\* Nothing is received, on its way or decided at the start.
LEMMA InitInv == Init => Inv
<1> SUFFICES ASSUME Init PROVE Inv
  OBVIOUS
<1>1. /\ Stock!Init /\ answer = "none"
      /\ status = [loc \in Locations |-> "AVAILABLE"]
      /\ known = [loc \in Locations |-> [load |-> NoLoad, revision |-> 0]]
      /\ jobs = [l \in Lots |-> "NONE"] /\ worker = [w \in Workers |-> Idle] /\ mutex = None
      /\ channel = [c \in Channels |-> <<>>] /\ parked = <<>> /\ failures = 0
  BY DEF Init
<1>2. /\ stocks = [l \in Lots |-> Stock!NoStock]
      /\ load = [loc \in Locations |-> NoLoad] /\ revision = [loc \in Locations |-> 0]
      /\ NoLoad = [d \in Stock!Dims |-> 0]
  BY <1>1 DEF Stock!Init, NoLoad
<1>3. \A c \in Channels : channel[c] = <<>> /\ Transit(c) = {}
  <2>1. Range(<<>>) = {}
    BY DEF Range
  <2> QED BY <1>1, <2>1, TransitIsWay DEF Way
<1>4. Stock!TypeOK
  BY <1>1, <1>2 DEF Stock!Init, Stock!TypeOK, Stock!Days
<1>5. Routed
  BY <1>1, <1>3 DEF Routed
<1>6. WorkersTyped /\ Apart
  BY <1>1 DEF WorkersTyped, Apart, Idle
<1>7. Services
  BY <1>1, <1>2, PutawayAssumption DEF Services, JobStatuses
<1>8. OneVoice
  <2>1. \A c, E : Sole(c, <<>>, <<>>, E)
    <3>1. Range(<<>>) = {}
      BY DEF Range
    <3> QED BY <3>1 DEF Sole, Once
  <2> QED BY <1>1, <1>3, <2>1, InterestsOf DEF OneVoice
<1>9. LotsFair
  <2>1. Transit(ToPlacement) = {} /\ Transit(ToInventory) = {}
    BY <1>3, InterestsOf
  <2>2. \A l \in Lots : jobs[l] = "NONE" /\ stocks[l] = Stock!NoStock
                        /\ stocks[l].quantity = 0 /\ stocks[l].location = None
    BY <1>1, <1>2 DEF Stock!NoStock
  <2> QED BY <2>1, <2>2, HasFacts DEF LotsFair, LotFair
<1>10. ChangesTrue
  BY <1>3, InterestsOf DEF ChangesTrue
<1>11. ProjectionTruthful
  <2>1. ASSUME NEW loc \in Locations PROVE Occupancy(loc, NoLoad) = "AVAILABLE"
    <3>1. \A d \in Stock!Dims : NoLoad[d] = 0 /\ Limit[loc][d] \in Nat \ {0}
      BY <1>2, PutawayAssumption DEF Stock!Dims
    <3>2. \A d \in Stock!Dims : ~ (NoLoad[d] >= Limit[loc][d]) /\ ~ (NoLoad[d] > 0)
      BY <3>1
    <3> QED BY <3>2 DEF Occupancy
  <2> QED BY <1>1, <1>2, <2>1 DEF ProjectionTruthful
<1>12. TypeOK
  BY <1>1, <1>3, <1>4, <1>6, <1>7 DEF TypeOK, Services, Apart
<1> QED BY <1>5, <1>6, <1>8, <1>9, <1>10, <1>11, <1>12 DEF Inv

\* Every step keeps the invariant.
LEMMA NextInv == Inv /\ [Next]_vars => Inv'
<1> SUFFICES ASSUME Inv, [Next]_vars PROVE Inv'
  OBVIOUS
<1>1. CASE Command
  BY <1>1, CommandKeeps
<1>2. CASE AskLocation
  BY <1>2, AskLocationKeeps
<1>3. CASE InventoryHandles
  BY <1>3, InventoryHandlesKeeps
<1>4. ASSUME NEW loc \in Locations, NEW new \in {"AVAILABLE"} \cup Closed, SetStatus(loc, new)
      PROVE  Inv'
  BY <1>4, SetStatusKeeps
<1>5. CASE WarehouseHandles
  BY <1>5, WarehouseHandlesKeeps
<1>6. CASE PlacementHandles
  BY <1>6, PlacementHandlesKeeps
<1>7. ASSUME NEW w \in Workers, NEW l \in Lots, Pick(w, l)
      PROVE  Inv'
  BY <1>7, PickKeeps
<1>8. ASSUME NEW w \in Workers, Work(w) \/ WorkerFails(w)
      PROVE  Inv'
  BY <1>8, ReadLotKeeps, AssignKeeps, PostponeKeeps, WorkerFailsKeeps DEF Work
<1>9. CASE MutexExpires
  BY <1>9, MutexExpiresKeeps
<1>10. ASSUME NEW c \in Channels, Park(c)
       PROVE  Inv'
  BY <1>10, ParkKeeps
<1>11. CASE Replay
  BY <1>11, ReplayKeeps
<1>12. CASE UNCHANGED vars
  <2>1. UNCHANGED <<inventoryVars, queueVars>> /\ UNCHANGED <<answer, warehouseVars, placementVars, failures>>
    BY <1>12 DEF vars
  <2>2. /\ Stock!TypeOK' /\ Routed' /\ OneVoice' /\ ChangesTrue'
        /\ \A c : Transit(c)' = Transit(c)
    BY <2>1, Quiet
  <2>3. Services' /\ Apart' /\ WorkersTyped'
    BY <2>1, TypeParts DEF Inv, Services, Apart, WorkersTyped, warehouseVars, placementVars, queueVars
  <2>4. LotsFair' /\ ProjectionTruthful'
    BY <2>1, <2>2 DEF Inv, LotsFair, ProjectionTruthful, Open, inventoryVars, warehouseVars, placementVars
  <2> QED BY <2>2, <2>3, <2>4, TypeParts DEF Inv
<1> QED BY <1>1, <1>2, <1>3, <1>4, <1>5, <1>6, <1>7, <1>8, <1>9, <1>10, <1>11, <1>12
        DEF Next, Inventory, Admin

\* The inductive invariant of putaway.
THEOREM PutawayInvariant == Spec => []Inv
<1> QED BY InitInv, NextInv, PTL DEF Spec

\* The tables of the three services, the workers' memory and the queues keep their
\* types; two workers never hold the same job, and a job that is held is pending.
THEOREM PutawayTypes == Spec => []TypeOK
<1>1. Inv => TypeOK
  BY DEF Inv
<1> QED BY <1>1, PutawayInvariant, PTL

\* No received lot is forgotten: one without a location always has a pending job,
\* or its receipt, a decision or a refusal is on its way.
THEOREM PutawayNoLotForgotten == Spec => []NoLotForgotten
<1>1. Inv => NoLotForgotten
  BY DEF Inv, LotsFair, LotFair, NoLotForgotten, Underway, Has, ToPlacement, ToInventory
<1> QED BY <1>1, PutawayInvariant, PTL

\* What the placement service shows of a lot is so in the inventory.
THEOREM PutawayJobsTruthful == Spec => []JobsTruthful
<1>1. Inv => JobsTruthful
  BY DEF Inv, LotsFair, LotFair, JobsTruthful, Underway, Has, ToPlacement, ToInventory
<1> QED BY <1>1, PutawayInvariant, PTL

\* The warehouse's projection is a state the inventory's ledger has been in.
THEOREM PutawayProjectionTruthful == Spec => []ProjectionTruthful
<1>1. Inv => ProjectionTruthful
  BY DEF Inv
<1> QED BY <1>1, PutawayInvariant, PTL

=============================================================================
