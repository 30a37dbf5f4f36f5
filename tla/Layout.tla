-------------------------------- MODULE Layout --------------------------------
\* The warehouse's layout: buildings, zones, racks and locations, which
\* administrators create by transactions that overlap. Nothing is ever changed or
\* deleted, so what a transaction has read of its parents stays true. What happens
\* to a location afterwards, its status and its load, is in module Putaway.
CONSTANTS
  Warehouses, Zones, Racks, Locations,  \* ids
  Codes, Types,                         \* codes; the types of zones
  Servers,                              \* transactions that run at a time
  None

Ids == Warehouses \cup Zones \cup Racks \cup Locations

Rows == [id : Ids, code : Codes, parent : Ids \cup {None},
         warehouse : Warehouses \cup {None}, type : Types \cup {None}]

LayoutAssumption ==
  /\ None \notin Ids \cup Types \cup Rows
  /\ Warehouses \cap (Zones \cup Racks \cup Locations) = {}
  /\ Zones \cap (Racks \cup Locations) = {}
  /\ Racks \cap Locations = {}

VARIABLES
  rows,     \* rows[x]: the committed row of x, or None
  tx        \* tx[s]: the row server s has inserted and not committed, or None

vars == <<rows, tx>>

Init == rows = [x \in Ids |-> None] /\ tx = [s \in Servers |-> None]

Inserted == {tx[s] : s \in Servers} \ {None}
Committed == {rows[x] : x \in Ids} \ {None}

\* Seeded fault: a transaction sees what another has not committed.
Sees_Uncommitted(x) == rows[x] # None \/ \E r \in Inserted : r.id = x

\* Repository.get finds the row.
Sees(x) == rows[x] # None

-----------------------------------------------------------------------------
\* The rows that the four operations insert, each from what it has read.
NewWarehouse(x, code) ==
  [id |-> x, code |-> code, parent |-> None, warehouse |-> x, type |-> None]

NewZone(x, code, w, type) ==
  [id |-> x, code |-> code, parent |-> w, warehouse |-> w, type |-> type]

NewRack(x, code, z) ==
  [id |-> x, code |-> code, parent |-> z, warehouse |-> rows[z].warehouse, type |-> None]

\* Seeded fault: the type is left to the racks.
NewLocation_OwnType(x, code, r) ==
  [id |-> x, code |-> code, parent |-> r, warehouse |-> rows[r].warehouse, type |-> rows[r].type]

\* A location copies the warehouse and the type of its rack's zone.
NewLocation(x, code, r) ==
  LET zone == rows[rows[r].parent] IN
  [id |-> x, code |-> code, parent |-> r, warehouse |-> zone.warehouse, type |-> zone.type]

\* Seeded fault: a location's code is unique in its rack.
SameCode_InParent(a, b) == a.code = b.code /\ a.parent = b.parent

\* The UNIQUE constraints: codes of zones and racks in their parents, those of
\* locations in the whole warehouse.
SameCode(a, b) ==
  /\ a.code = b.code
  /\ \/ {a.id, b.id} \subseteq Warehouses
     \/ {a.id, b.id} \subseteq Zones \cup Racks /\ a.parent = b.parent
     \/ {a.id, b.id} \subseteq Locations /\ a.warehouse = b.warehouse

\* persist and flush. The insert waits for one of the same code that is not
\* committed yet, and fails if there is a committed one.
Insert(s, row) ==
  /\ tx[s] = None
  /\ \A r \in Inserted \cup Committed : r.id # row.id /\ ~ SameCode(r, row)
  /\ tx' = [tx EXCEPT ![s] = row]
  /\ UNCHANGED rows

Create(s, x, code) == Insert(s, NewWarehouse(x, code))

Zone(s, x, code, w, type) == Sees(w) /\ Insert(s, NewZone(x, code, w, type))

Rack(s, x, code, z) == Sees(z) /\ Insert(s, NewRack(x, code, z))

Location(s, x, code, r) == Sees(r) /\ Insert(s, NewLocation(x, code, r))

Commit(s) ==
  /\ tx[s] # None
  /\ rows' = [rows EXCEPT ![tx[s].id] = tx[s]]
  /\ tx' = [tx EXCEPT ![s] = None]

\* A crash or a failing statement.
Rollback(s) ==
  /\ tx[s] # None
  /\ tx' = [tx EXCEPT ![s] = None]
  /\ UNCHANGED rows

Next == \E s \in Servers :
  \/ \E code \in Codes :
       \/ \E x \in Warehouses : Create(s, x, code)
       \/ \E x \in Zones, w \in Warehouses, type \in Types : Zone(s, x, code, w, type)
       \/ \E x \in Racks, z \in Zones : Rack(s, x, code, z)
       \/ \E x \in Locations, r \in Racks : Location(s, x, code, r)
  \/ Commit(s)
  \/ Rollback(s)

Spec == Init /\ [][Next]_vars

-----------------------------------------------------------------------------
\* Types of the tables; whatever is committed has a committed parent of its kind.
TypeOK ==
  /\ rows \in [Ids -> Rows \cup {None}] /\ tx \in [Servers -> Rows \cup {None}]
  /\ \A r \in Committed :
       CASE r.id \in Warehouses -> r.parent = None
         [] r.id \in Zones     -> r.parent \in Warehouses /\ rows[r.parent] # None
         [] r.id \in Racks     -> r.parent \in Zones /\ rows[r.parent] # None
         [] r.id \in Locations -> r.parent \in Racks /\ rows[r.parent] # None

\* A picker who is told a location's code finds one shelf: codes are unique in a
\* warehouse, over all its racks and zones, however the creations overlap.
CodesIdentify ==
  \A a, b \in Locations : a # b /\ rows[a] # None /\ rows[b] # None =>
    rows[a].code # rows[b].code \/ rows[a].warehouse # rows[b].warehouse

\* The warehouse and zone type by which inventory and placement judge a location
\* are those of the zone its rack stands in.
LocationsInherit ==
  \A l \in Locations : rows[l] # None =>
    LET zone == rows[rows[rows[l].parent].parent] IN
    rows[l].warehouse = zone.parent /\ rows[l].type = zone.type

\* What a location says of itself can be relied upon: its code in its warehouse,
\* and the warehouse and type it copied from rows of other transactions.
LocationsConsistent == CodesIdentify /\ LocationsInherit
=============================================================================
