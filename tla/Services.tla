-------------------------------- MODULE Services ------------------------------
\* The parts that are checked on their own, side by side: the product catalogue,
\* the audit trail, the warehouse layout, and the two halves of a placement
\* worker, the queue it serves and the choice it makes. They share no state. A
\* behaviour is one of one of them, `acting`; the others stay as they began.
EXTENDS Integers, Sequences, FiniteSets

CONSTANTS
  None,
  Products, Receipts, StorageTypes, Names,                      \* Catalogue
  Events, Limits,                                               \* AuditTrail
  Warehouses, Zones, Racks, Locations, Codes, Types, Servers,   \* Layout
  Candidates, Demands, MaxLength, Scale,                        \* Scoring
  Jobs, Instances, WarehouseOf, RefusedWait, PostponedWait,     \* PlacementQueue
  MaxRefusals, MaxFailures

VARIABLES
  acting,
  rows, receipts, lots,
  trail, scan,
  layout, tx,
  demand, list, next, best, chosen,
  line, wait, status, worker, mutex, suitable, tried, refusals, failures

catalogueVars == <<rows, receipts, lots>>
auditVars == <<trail, scan>>
layoutVars == <<layout, tx>>
choiceVars == <<demand, list, next, best, chosen>>
queueVars == <<line, wait, status, worker, mutex, suitable, tried, refusals, failures>>

-----------------------------------------------------------------------------
Cat == INSTANCE Catalogue
Trail == INSTANCE AuditTrail
Plan == INSTANCE Layout WITH rows <- layout
Choice == INSTANCE Scoring
Queue == INSTANCE PlacementQueue

ASSUME ServicesAssumption ==
  /\ Cat!CatalogueAssumption /\ Trail!AuditAssumption /\ Plan!LayoutAssumption
  /\ Choice!ScoringAssumption /\ Queue!QueueAssumption

Init ==
  /\ acting \in {"catalogue", "audit", "layout", "choice", "queue"}
  /\ Cat!Init /\ Trail!Init /\ Plan!Init /\ Queue!Init
  /\ Choice!Init
  /\ acting # "choice" => list = <<>> /\ demand = CHOOSE w \in Demands : TRUE

Next ==
  \/ /\ acting = "catalogue" /\ Cat!Next
     /\ UNCHANGED <<acting, auditVars, layoutVars, choiceVars, queueVars>>
  \/ /\ acting = "audit" /\ Trail!Next
     /\ UNCHANGED <<acting, catalogueVars, layoutVars, choiceVars, queueVars>>
  \/ /\ acting = "layout" /\ Plan!Next
     /\ UNCHANGED <<acting, catalogueVars, auditVars, choiceVars, queueVars>>
  \/ /\ acting = "choice" /\ Choice!Next
     /\ UNCHANGED <<acting, catalogueVars, auditVars, layoutVars, queueVars>>
  \/ /\ acting = "queue" /\ Queue!Next
     /\ UNCHANGED <<acting, catalogueVars, auditVars, layoutVars, choiceVars>>

vars == <<acting, catalogueVars, auditVars, layoutVars, choiceVars, queueVars>>

FairSpec == Init /\ [][Next]_vars /\ Queue!Fairness

-----------------------------------------------------------------------------
\* Types of every part: ProductService and the receipts that ask it, the rows of
\* audit_events and a client's scan, the rows and transactions of the layout,
\* the jobs' line with its locks.
TypeOK == Cat!TypeOK /\ Trail!TypeOK /\ Plan!TypeOK /\ Queue!TypeOK

\* The copies that lots keep of their products' properties are true for ever, and
\* a receipt that begins once its product is deactivated stores nothing.
LotsMatchProducts == Cat!LotsMatchProducts

\* A scan of the audit trail leaves nothing behind that was there when it began.
NothingSkipped == Trail!NothingSkipped

\* Codes of locations are unique in a warehouse, however creations overlap, and a
\* location has the warehouse and type of the zone its rack stands in.
LocationsConsistent == Plan!LocationsConsistent

\* assign() chooses the location of the best score, whatever the order of the list,
\* and Score() keeps its factors in range and prefers the emptier and nearer one.
ChoiceIsBest == Choice!ChoiceIsBest /\ Choice!ScoreRanks

\* Every pending placement job is tried again.
EveryJobTried == Queue!EveryJobTried
=============================================================================
