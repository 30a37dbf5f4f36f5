---------------------------- MODULE ServicesProofs ----------------------------
(***************************************************************************)
(* Proofs about the parts that module Services has side by side, for every *)
(* catalogue, audit trail, layout, list of candidates and set of jobs:     *)
(* their types, that lots match their products, that locations are         *)
(* consistent, that a scan of the audit trail skips nothing, and that the  *)
(* best location is chosen.                                                *)
(*                                                                         *)
(* Each part has an inductive invariant of its own. A step of another part *)
(* leaves its variables as they are.                                       *)
(***************************************************************************)
EXTENDS Services, DataTheorems

-----------------------------------------------------------------------------
(***************************************************************************)
(* The catalogue. A lot stores what its receipt has read, so the receipts  *)
(* must have read what is true: the physical properties of a product that  *)
(* was active after the receipt began.                                     *)
(***************************************************************************)
\* A receipt that asks for a product that was deactivated before will find it so;
\* one that stores knows the product's properties, and began in time.
ReceiptsTrue ==
  \A r \in Receipts :
    LET receipt == receipts[r] IN
    /\ receipt.at = "asking" =>
         /\ receipt.product \in Products
         /\ receipt.late => Cat!Deactivated(receipt.product)
    /\ receipt.at = "storing" =>
         /\ receipt.product \in Products
         /\ rows[receipt.product] # None
         /\ receipt.storage = rows[receipt.product].storage
         /\ ~ receipt.late

CatInv == Cat!TypeOK /\ Cat!LotsMatchProducts /\ ReceiptsTrue

\* The edits of the catalogue, as they change a row: what is there stays, with its
\* physical properties, and what is deactivated stays so.
LEMMA RowsKept ==
  ASSUME CatInv, \E p \in Products :
                   \/ \E q \in Cat!Inputs : Cat!Create(p, q) \/ Cat!Update(p, q)
                   \/ Cat!Delete(p)
  PROVE  /\ rows' \in [Products -> Cat!ProductRows \cup {None}]
         /\ receipts' = receipts /\ lots' = lots
         /\ \A p \in Products : rows[p] # None =>
              /\ rows'[p] # None /\ rows'[p].storage = rows[p].storage
              /\ ~ rows[p].active => ~ rows'[p].active
<1> USE DEF CatInv, Cat!TypeOK, Cat!ProductRows, Cat!Inputs
<1>0. None \notin [name : Names, storage : StorageTypes, active : BOOLEAN]
  BY ServicesAssumption DEF Cat!CatalogueAssumption
<1>1. ASSUME NEW p \in Products, NEW q \in Cat!Inputs, Cat!Create(p, q)
      PROVE  /\ rows' \in [Products -> Cat!ProductRows \cup {None}]
             /\ receipts' = receipts /\ lots' = lots
             /\ \A x \in Products : rows[x] # None => rows'[x] = rows[x]
  BY <1>1 DEF Cat!Create
<1>2. ASSUME NEW p \in Products, NEW q \in Cat!Inputs, Cat!Update(p, q)
      PROVE  /\ rows' \in [Products -> Cat!ProductRows \cup {None}]
             /\ receipts' = receipts /\ lots' = lots
             /\ \A x \in Products : rows[x] # None =>
                  /\ rows'[x] # None /\ rows'[x].storage = rows[x].storage
                  /\ rows'[x].active = rows[x].active
  BY <1>0, <1>2 DEF Cat!Update, Cat!Patched
<1>3. ASSUME NEW p \in Products, Cat!Delete(p)
      PROVE  /\ rows' \in [Products -> Cat!ProductRows \cup {None}]
             /\ receipts' = receipts /\ lots' = lots
             /\ \A x \in Products : rows[x] # None =>
                  /\ rows'[x] # None /\ rows'[x].storage = rows[x].storage
                  /\ ~ rows[x].active => ~ rows'[x].active
  <2> DEFINE q == rows[p]
  <2>1. /\ rows' = [rows EXCEPT ![p] = [q EXCEPT !.active = FALSE]]
        /\ receipts' = receipts /\ lots' = lots /\ q # None
    BY <1>3 DEF Cat!Delete
  <2>2. /\ q \in Cat!ProductRows
        /\ [q EXCEPT !.active = FALSE] \in Cat!ProductRows
        /\ [q EXCEPT !.active = FALSE].storage = q.storage
        /\ ~ [q EXCEPT !.active = FALSE].active
    BY <2>1
  <2>3. [q EXCEPT !.active = FALSE] # None
    BY <1>0, <2>2
  <2> QED BY <2>1, <2>2, <2>3
<1> QED BY <1>1, <1>2, <1>3

\* Edits leave lots and receipts true.
LEMMA EditsCatInv ==
  ASSUME CatInv, \E p \in Products :
                   \/ \E q \in Cat!Inputs : Cat!Create(p, q) \/ Cat!Update(p, q)
                   \/ Cat!Delete(p)
  PROVE  CatInv'
<1>1. /\ rows' \in [Products -> Cat!ProductRows \cup {None}]
      /\ receipts' = receipts /\ lots' = lots
      /\ \A p \in Products : rows[p] # None =>
           /\ rows'[p] # None /\ rows'[p].storage = rows[p].storage
           /\ ~ rows[p].active => ~ rows'[p].active
  BY RowsKept
<1>2. Cat!TypeOK'
  BY <1>1 DEF CatInv, Cat!TypeOK
<1>3. Cat!LotsMatchProducts'
  BY <1>1 DEF CatInv, Cat!TypeOK, Cat!LotsMatchProducts
<1>4. ReceiptsTrue'
  BY <1>1 DEF CatInv, Cat!TypeOK, ReceiptsTrue, Cat!Deactivated
<1> QED BY <1>2, <1>3, <1>4 DEF CatInv

\* A receipt that begins, asks or gives up.
LEMMA ReceiptsCatInv ==
  ASSUME CatInv, NEW r \in Receipts, (\E p \in Products : Cat!Begin(r, p)) \/ Cat!Lookup(r)
                                     \/ Cat!Abort(r)
  PROVE  CatInv'
<1> USE DEF CatInv, Cat!TypeOK, Cat!NoReceipt
<1>1. CASE \E p \in Products : Cat!Begin(r, p)
  <2>1. PICK p \in Products : Cat!Begin(r, p)
    BY <1>1
  <2> DEFINE begun == [Cat!NoReceipt EXCEPT !.at = "asking", !.product = p,
                                            !.late = Cat!Deactivated(p)]
  <2>2. /\ UNCHANGED <<rows, lots>>
        /\ receipts' = [receipts EXCEPT ![r] = begun]
    BY <2>1 DEF Cat!Begin
  <2>3. /\ begun \in [at : {"idle", "asking", "storing"}, product : Products \cup {None},
                      storage : StorageTypes \cup {None}, late : BOOLEAN]
        /\ begun.at = "asking" /\ begun.product = p
        /\ begun.late <=> Cat!Deactivated(p)
    BY DEF Cat!Deactivated
  <2> HIDE DEF begun
  <2>4. Cat!TypeOK'
    BY <2>2, <2>3
  <2>5. ReceiptsTrue'
    BY <2>2, <2>3 DEF ReceiptsTrue, Cat!Deactivated
  <2> QED BY <2>2, <2>4, <2>5 DEF Cat!LotsMatchProducts
<1>2. CASE Cat!Lookup(r)
  <2> DEFINE p == receipts[r].product
  <2>1. /\ UNCHANGED <<rows, lots>>
        /\ receipts' = [receipts EXCEPT ![r].at = "storing", ![r].storage = rows[p].storage]
        /\ receipts[r].at = "asking" /\ rows[p] # None /\ rows[p].active
    BY <1>2 DEF Cat!Lookup, Cat!Active
  <2>2. /\ p \in Products /\ ~ receipts[r].late
        /\ rows[p].storage \in StorageTypes
    BY <2>1 DEF ReceiptsTrue, Cat!Deactivated, Cat!ProductRows
  <2>3. Cat!TypeOK'
    <3> DEFINE Kinds == [at : {"idle", "asking", "storing"}, product : Products \cup {None},
                         storage : StorageTypes \cup {None}, late : BOOLEAN]
    <3>1. receipts \in [Receipts -> Kinds] /\ receipts[r] \in Kinds
      OBVIOUS
    <3>2. [receipts[r] EXCEPT !.at = "storing", !.storage = rows[p].storage] \in Kinds
      BY <2>2, <3>1
    <3>3. receipts' \in [Receipts -> Kinds]
      <4> HIDE DEF Kinds
      <4> QED BY <2>1, <3>1, <3>2
    <3> QED BY <2>1, <3>3
  <2>4. ReceiptsTrue'
    <3>1. /\ receipts'[r].at = "storing" /\ receipts'[r].product = p
          /\ receipts'[r].storage = rows[p].storage /\ ~ receipts'[r].late
      BY <2>1, <2>2
    <3>2. \A x \in Receipts \ {r} : receipts'[x] = receipts[x]
      BY <2>1
    <3> QED BY <2>1, <2>2, <3>1, <3>2 DEF ReceiptsTrue, Cat!Deactivated
  <2> QED BY <2>1, <2>3, <2>4 DEF Cat!LotsMatchProducts
<1>3. CASE Cat!Abort(r)
  <2>1. /\ UNCHANGED <<rows, lots>>
        /\ receipts' = [receipts EXCEPT ![r] =
             [at |-> "idle", product |-> None, storage |-> None, late |-> FALSE]]
    BY <1>3 DEF Cat!Abort
  <2>2. Cat!TypeOK'
    BY <2>1
  <2>3. ReceiptsTrue'
    BY <2>1 DEF ReceiptsTrue, Cat!Deactivated
  <2> QED BY <2>1, <2>2, <2>3 DEF Cat!LotsMatchProducts
<1> QED BY <1>1, <1>2, <1>3

\* A receipt stores what it has read, which is true.
LEMMA StoreCatInv ==
  ASSUME CatInv, NEW r \in Receipts, Cat!Store(r)
  PROVE  CatInv'
<1> USE DEF CatInv, Cat!TypeOK, Cat!NoReceipt
<1> DEFINE p == receipts[r].product
<1>1. /\ UNCHANGED rows
      /\ lots' = [lots EXCEPT ![r] = [product |-> p, storage |-> receipts[r].storage,
                                      late |-> receipts[r].late]]
      /\ receipts' = [receipts EXCEPT ![r] =
           [at |-> "idle", product |-> None, storage |-> None, late |-> FALSE]]
      /\ receipts[r].at = "storing"
  BY DEF Cat!Store
<1>2. /\ p \in Products /\ rows[p] # None /\ ~ receipts[r].late
      /\ receipts[r].storage = rows[p].storage /\ rows[p].storage \in StorageTypes
  BY <1>1 DEF ReceiptsTrue, Cat!ProductRows
<1>3. Cat!TypeOK'
  BY <1>1, <1>2
<1>4. Cat!LotsMatchProducts'
  BY <1>1, <1>2 DEF Cat!LotsMatchProducts
<1>5. ReceiptsTrue'
  BY <1>1 DEF ReceiptsTrue, Cat!Deactivated
<1> QED BY <1>3, <1>4, <1>5

\* The invariant of the catalogue holds at first, and every step keeps it.
LEMMA CatInductive ==
  /\ Init => CatInv
  /\ CatInv /\ [Next]_vars => CatInv'
<1>1. ASSUME Init
      PROVE  CatInv
  BY <1>1 DEF Init, Cat!Init, CatInv, Cat!TypeOK, Cat!NoReceipt, Cat!LotsMatchProducts,
              ReceiptsTrue
<1>2. ASSUME CatInv, [Next]_vars
      PROVE  CatInv'
  <2>1. CASE Cat!Next
    <3>1. \/ \E p \in Products :
               \/ \E q \in Cat!Inputs : Cat!Create(p, q) \/ Cat!Update(p, q)
               \/ Cat!Delete(p)
          \/ \E r \in Receipts :
               \/ (\E p \in Products : Cat!Begin(r, p)) \/ Cat!Lookup(r) \/ Cat!Abort(r)
               \/ Cat!Store(r)
      BY <2>1 DEF Cat!Next
    <3> QED BY <1>2, <3>1, EditsCatInv, ReceiptsCatInv, StoreCatInv
  <2>2. CASE UNCHANGED catalogueVars
    BY <1>2, <2>2 DEF catalogueVars, CatInv, Cat!TypeOK, Cat!LotsMatchProducts, ReceiptsTrue,
                      Cat!Deactivated
  <2>3. Cat!Next \/ UNCHANGED catalogueVars
    BY <1>2 DEF Next, vars
  <2> QED BY <2>1, <2>2, <2>3
<1> QED BY <1>1, <1>2

-----------------------------------------------------------------------------
(***************************************************************************)
(* The layout. A row is inserted by one transaction and read by others     *)
(* only when it is committed; so what it says of its parents is true when  *)
(* it commits, however many transactions come in between. And a row that   *)
(* is inserted but not committed yet already excludes others of its code.  *)
(***************************************************************************)
\* Row r has a committed parent of its kind, and a location says of itself what its
\* rack's zone says.
Sound(r) ==
  /\ r.id \in Warehouses => r.parent = None
  /\ r.id \in Zones =>
       r.parent \in Warehouses /\ layout[r.parent] # None /\ r.warehouse = r.parent
  /\ r.id \in Racks => r.parent \in Zones /\ layout[r.parent] # None
  /\ r.id \in Locations =>
       /\ r.parent \in Racks /\ layout[r.parent] # None
       /\ r.warehouse = layout[layout[r.parent].parent].warehouse
       /\ r.type = layout[layout[r.parent].parent].type

\* Two rows that may both be in the tables.
Apart(a, b) == a.id # b.id /\ ~ Plan!SameCode(a, b)

\* Every row stands under its id, ...
RowsPlaced == \A x \in Plan!Ids : layout[x] # None => layout[x].id = x

\* ... is sound, committed or not, ...
RowsSound ==
  /\ \A x \in Plan!Ids : layout[x] # None => Sound(layout[x])
  /\ \A s \in Servers : tx[s] # None => Sound(tx[s])

\* ... and is apart from the others, committed or not.
RowsApart ==
  /\ \A x, y \in Plan!Ids :
       x # y /\ layout[x] # None /\ layout[y] # None => Apart(layout[x], layout[y])
  /\ \A x \in Plan!Ids, s \in Servers :
       layout[x] # None /\ tx[s] # None => Apart(layout[x], tx[s])
  /\ \A s, o \in Servers :
       s # o /\ tx[s] # None /\ tx[o] # None => Apart(tx[s], tx[o])

LayoutTyped ==
  /\ layout \in [Plan!Ids -> Plan!Rows \cup {None}]
  /\ tx \in [Servers -> Plan!Rows \cup {None}]

LayoutInv == LayoutTyped /\ RowsPlaced /\ RowsSound /\ RowsApart

\* Ids of different kinds differ.
LEMMA KindsDiffer ==
  /\ \A x \in Warehouses : x \notin Zones \cup Racks \cup Locations
  /\ \A x \in Zones : x \notin Warehouses \cup Racks \cup Locations
  /\ \A x \in Racks : x \notin Warehouses \cup Zones \cup Locations
  /\ \A x \in Locations : x \notin Warehouses \cup Zones \cup Racks
BY ServicesAssumption DEF Plan!LayoutAssumption

\* None is no row and no id.
LEMMA NoneIsNoRow == None \notin Plan!Ids \cup Plan!Rows
BY ServicesAssumption DEF Plan!LayoutAssumption

\* The codes of two rows exclude each other both ways.
LEMMA ApartSymmetric ==
  ASSUME NEW a, NEW b
  PROVE  Apart(a, b) <=> Apart(b, a)
BY DEF Apart, Plan!SameCode

\* What the runs check follows from the invariant.
LEMMA LayoutInvImplies == LayoutInv => Plan!TypeOK /\ Plan!LocationsConsistent
<1> SUFFICES ASSUME LayoutInv
             PROVE  Plan!TypeOK /\ Plan!LocationsConsistent
  OBVIOUS
<1> USE DEF LayoutInv, LayoutTyped
<1>1. ASSUME NEW r \in Plan!Committed
      PROVE  /\ r \in Plan!Rows /\ r.id \in Plan!Ids /\ Sound(r)
  BY <1>1 DEF Plan!Committed, RowsSound, Plan!Rows
<1>2. ASSUME NEW r \in Plan!Committed
      PROVE  CASE r.id \in Warehouses -> r.parent = None
               [] r.id \in Zones     -> r.parent \in Warehouses /\ layout[r.parent] # None
               [] r.id \in Racks     -> r.parent \in Zones /\ layout[r.parent] # None
               [] r.id \in Locations -> r.parent \in Racks /\ layout[r.parent] # None
  <2>1. CASE r.id \in Warehouses
    BY <1>1, <2>1, KindsDiffer DEF Sound
  <2>2. CASE r.id \in Zones
    BY <1>1, <2>2, KindsDiffer DEF Sound
  <2>3. CASE r.id \in Racks
    BY <1>1, <2>3, KindsDiffer DEF Sound
  <2>4. CASE r.id \in Locations
    BY <1>1, <2>4, KindsDiffer DEF Sound
  <2> QED BY <1>1, <2>1, <2>2, <2>3, <2>4 DEF Plan!Ids
<1>3. Plan!TypeOK
  BY <1>2 DEF Plan!TypeOK
<1>4. Plan!CodesIdentify
  BY DEF RowsPlaced, RowsApart, Apart, Plan!SameCode, Plan!Ids, Plan!CodesIdentify
<1>5. Plan!LocationsInherit
  <2> SUFFICES ASSUME NEW l \in Locations, layout[l] # None
               PROVE  LET zone == layout[layout[layout[l].parent].parent] IN
                      layout[l].warehouse = zone.parent /\ layout[l].type = zone.type
    BY DEF Plan!LocationsInherit
  <2> DEFINE r == layout[l].parent
             z == layout[r].parent
  <2>1. /\ r \in Racks /\ layout[r] # None
        /\ layout[l].warehouse = layout[z].warehouse /\ layout[l].type = layout[z].type
    BY DEF RowsPlaced, RowsSound, Sound, Plan!Ids
  <2>2. z \in Zones /\ layout[z] # None
    BY <2>1 DEF RowsPlaced, RowsSound, Sound, Plan!Ids
  <2>3. layout[z].warehouse = layout[z].parent
    BY <2>2 DEF RowsPlaced, RowsSound, Sound, Plan!Ids
  <2> QED BY <2>1, <2>3
<1> QED BY <1>3, <1>4, <1>5 DEF Plan!LocationsConsistent

\* The rows of the four operations are sound when they are inserted.
LEMMA NewRowsSound ==
  ASSUME LayoutInv, NEW code \in Codes
  PROVE  /\ \A x \in Warehouses :
              LET row == Plan!NewWarehouse(x, code) IN row \in Plan!Rows /\ Sound(row)
         /\ \A x \in Zones, w \in Warehouses, type \in Types :
              LET row == Plan!NewZone(x, code, w, type) IN
              Plan!Sees(w) => row \in Plan!Rows /\ Sound(row)
         /\ \A x \in Racks, z \in Zones :
              LET row == Plan!NewRack(x, code, z) IN
              Plan!Sees(z) => row \in Plan!Rows /\ Sound(row)
         /\ \A x \in Locations, r \in Racks :
              LET row == Plan!NewLocation(x, code, r) IN
              Plan!Sees(r) => row \in Plan!Rows /\ Sound(row)
<1> USE KindsDiffer DEF Plan!Rows, Plan!Ids, Sound, Plan!Sees
<1>1. ASSUME NEW x \in Warehouses
      PROVE  /\ Plan!NewWarehouse(x, code) \in Plan!Rows
             /\ Sound(Plan!NewWarehouse(x, code))
  BY DEF Plan!NewWarehouse
<1>2. ASSUME NEW x \in Zones, NEW w \in Warehouses, NEW type \in Types, Plan!Sees(w)
      PROVE  /\ Plan!NewZone(x, code, w, type) \in Plan!Rows
             /\ Sound(Plan!NewZone(x, code, w, type))
  BY <1>2 DEF Plan!NewZone
<1>3. ASSUME NEW x \in Racks, NEW z \in Zones, Plan!Sees(z)
      PROVE  /\ Plan!NewRack(x, code, z) \in Plan!Rows
             /\ Sound(Plan!NewRack(x, code, z))
  BY <1>3 DEF Plan!NewRack, LayoutInv, LayoutTyped
<1>4. ASSUME NEW x \in Locations, NEW r \in Racks, Plan!Sees(r)
      PROVE  /\ Plan!NewLocation(x, code, r) \in Plan!Rows
             /\ Sound(Plan!NewLocation(x, code, r))
  <2> DEFINE z == layout[r].parent
  <2>1. z \in Zones /\ layout[z] # None
    BY <1>4 DEF LayoutInv, RowsPlaced, RowsSound
  <2>2. layout[z].warehouse \in Warehouses \cup {None} /\ layout[z].type \in Types \cup {None}
    BY <2>1 DEF LayoutInv, LayoutTyped
  <2> QED BY <1>4, <2>1, <2>2 DEF Plan!NewLocation
<1> QED BY <1>1, <1>2, <1>3, <1>4

\* A row that is inserted is apart from those there are.
LEMMA InsertLayoutInv ==
  ASSUME LayoutInv, NEW s \in Servers, NEW row \in Plan!Rows, Sound(row), Plan!Insert(s, row)
  PROVE  LayoutInv'
<1> USE NoneIsNoRow
<1>1. /\ layout' = layout /\ tx' = [tx EXCEPT ![s] = row] /\ tx[s] = None
      /\ \A r \in Plan!Inserted \cup Plan!Committed : Apart(r, row)
  BY DEF Plan!Insert, Apart
<1>2. LayoutTyped'
  BY <1>1 DEF LayoutInv, LayoutTyped
<1>3. RowsPlaced' /\ RowsSound'
  BY <1>1 DEF LayoutInv, LayoutTyped, RowsPlaced, RowsSound, Sound
<1>4. RowsApart'
  <2>1. /\ \A x \in Plan!Ids : layout[x] # None => Apart(layout[x], row)
        /\ \A o \in Servers : tx[o] # None => Apart(tx[o], row) /\ Apart(row, tx[o])
    BY <1>1, ApartSymmetric DEF Plan!Inserted, Plan!Committed
  <2> QED BY <1>1, <2>1 DEF LayoutInv, LayoutTyped, RowsApart
<1> QED BY <1>2, <1>3, <1>4 DEF LayoutInv

\* The commit and the end of a transaction: nothing that was read changes.
LEMMA EndLayoutInv ==
  ASSUME LayoutInv, NEW s \in Servers, Plan!Commit(s) \/ Plan!Rollback(s)
  PROVE  LayoutInv'
<1> USE NoneIsNoRow
<1>1. CASE Plan!Rollback(s)
  <2>1. layout' = layout /\ tx' = [tx EXCEPT ![s] = None]
    BY <1>1 DEF Plan!Rollback
  <2>2. LayoutTyped'
    BY <2>1 DEF LayoutInv, LayoutTyped
  <2>3. RowsPlaced' /\ RowsSound' /\ RowsApart'
    BY <2>1 DEF LayoutInv, LayoutTyped, RowsPlaced, RowsSound, Sound, RowsApart
  <2> QED BY <2>2, <2>3 DEF LayoutInv
<1>2. CASE Plan!Commit(s)
  <2> DEFINE row == tx[s]
             id == tx[s].id
  <2>1. /\ layout' = [layout EXCEPT ![id] = row] /\ tx' = [tx EXCEPT ![s] = None]
        /\ row # None
    BY <1>2 DEF Plan!Commit
  <2>2. row \in Plan!Rows /\ id \in Plan!Ids
    BY <2>1 DEF LayoutInv, LayoutTyped, Plan!Rows
  <2>3. layout[id] = None
    BY <2>1, <2>2 DEF LayoutInv, RowsPlaced, RowsApart, Apart
  <2>4. LayoutTyped'
    BY <2>1, <2>2 DEF LayoutInv, LayoutTyped
  <2>5. /\ \A x \in Plan!Ids : layout'[x] = IF x = id THEN row ELSE layout[x]
        /\ \A o \in Servers : tx'[o] = IF o = s THEN None ELSE tx[o]
    BY <2>1, <2>2 DEF LayoutInv, LayoutTyped
  <2> HIDE DEF row, id
  <2>6. ASSUME NEW r, Sound(r)
        PROVE  /\ r.id \in Warehouses => r.parent = None
               /\ r.id \in Zones =>
                    r.parent \in Warehouses /\ layout'[r.parent] # None /\ r.warehouse = r.parent
               /\ r.id \in Racks => r.parent \in Zones /\ layout'[r.parent] # None
               /\ r.id \in Locations =>
                    /\ r.parent \in Racks /\ layout'[r.parent] # None
                    /\ r.warehouse = layout'[layout'[r.parent].parent].warehouse
                    /\ r.type = layout'[layout'[r.parent].parent].type
    <3>1. \A x \in Plan!Ids : layout[x] # None => layout'[x] = layout[x]
      BY <2>3, <2>5
    <3>2. CASE r.id \in Locations
      <4>1. r.parent \in Racks /\ layout[r.parent] # None
        BY <2>6, <3>2 DEF Sound
      <4>2. layout[r.parent].parent \in Zones /\ layout[layout[r.parent].parent] # None
        BY <4>1 DEF LayoutInv, RowsPlaced, RowsSound, Sound, Plan!Ids
      <4> QED BY <2>6, <3>1, <3>2, <4>1, <4>2, KindsDiffer DEF Sound, Plan!Ids
    <3>3. CASE r.id \notin Locations
      BY <2>6, <3>1, <3>3 DEF Sound, Plan!Ids
    <3> QED BY <3>2, <3>3
  <2>7. RowsPlaced'
    BY <2>5 DEF LayoutInv, RowsPlaced, id, row
  <2>8. RowsSound'
    <3>1. ASSUME NEW x \in Plan!Ids, layout'[x] # None
          PROVE  Sound(layout'[x])
      BY <2>1, <2>5, <3>1 DEF LayoutInv, RowsSound, row
    <3>2. ASSUME NEW o \in Servers, tx'[o] # None
          PROVE  Sound(tx'[o])
      BY <2>5, <3>2 DEF LayoutInv, RowsSound
    <3>3. ASSUME NEW x \in Plan!Ids, layout'[x] # None
          PROVE  Sound(layout[x])'
      BY <2>6, <3>1, <3>3 DEF Sound
    <3>4. ASSUME NEW o \in Servers, tx'[o] # None
          PROVE  Sound(tx[o])'
      BY <2>6, <3>2, <3>4 DEF Sound
    <3> QED BY <3>3, <3>4 DEF RowsSound
  <2>9. RowsApart'
    <3>1. \A x \in Plan!Ids : layout[x] # None => Apart(layout[x], row) /\ Apart(row, layout[x])
      BY <2>1, ApartSymmetric DEF LayoutInv, RowsApart, row
    <3>2. \A o \in Servers : o # s /\ tx[o] # None => Apart(row, tx[o])
      BY <2>1 DEF LayoutInv, RowsApart, row
    <3>3. /\ \A x, y \in Plan!Ids :
               x # y /\ layout'[x] # None /\ layout'[y] # None => Apart(layout'[x], layout'[y])
          /\ \A x \in Plan!Ids, o \in Servers :
               layout'[x] # None /\ tx'[o] # None => Apart(layout'[x], tx'[o])
          /\ \A p, o \in Servers :
               p # o /\ tx'[p] # None /\ tx'[o] # None => Apart(tx'[p], tx'[o])
      BY <2>5, <3>1, <3>2 DEF LayoutInv, RowsApart
    <3> QED BY <3>3 DEF RowsApart, Apart, Plan!SameCode
  <2> QED BY <2>4, <2>7, <2>8, <2>9 DEF LayoutInv
<1> QED BY <1>1, <1>2

\* The invariant of the layout holds at first, and every step keeps it.
LEMMA LayoutInductive ==
  /\ Init => LayoutInv
  /\ LayoutInv /\ [Next]_vars => LayoutInv'
<1>1. ASSUME Init
      PROVE  LayoutInv
  BY <1>1 DEF Init, Plan!Init, LayoutInv, LayoutTyped, RowsPlaced, RowsSound, RowsApart
<1>2. ASSUME LayoutInv, [Next]_vars
      PROVE  LayoutInv'
  <2>1. CASE Plan!Next
    <3>1. PICK s \in Servers :
            \/ \E code \in Codes :
                 \/ \E x \in Warehouses : Plan!Create(s, x, code)
                 \/ \E x \in Zones, w \in Warehouses, type \in Types :
                      Plan!Zone(s, x, code, w, type)
                 \/ \E x \in Racks, z \in Zones : Plan!Rack(s, x, code, z)
                 \/ \E x \in Locations, r \in Racks : Plan!Location(s, x, code, r)
            \/ Plan!Commit(s) \/ Plan!Rollback(s)
      BY <2>1 DEF Plan!Next
    <3>2. CASE Plan!Commit(s) \/ Plan!Rollback(s)
      BY <1>2, <3>2, EndLayoutInv
    <3>3. CASE \E code \in Codes, x \in Warehouses : Plan!Create(s, x, code)
      BY <1>2, <3>3, NewRowsSound, InsertLayoutInv DEF Plan!Create
    <3>4. CASE \E code \in Codes, x \in Zones, w \in Warehouses, type \in Types :
                 Plan!Zone(s, x, code, w, type)
      BY <1>2, <3>4, NewRowsSound, InsertLayoutInv DEF Plan!Zone
    <3>5. CASE \E code \in Codes, x \in Racks, z \in Zones : Plan!Rack(s, x, code, z)
      BY <1>2, <3>5, NewRowsSound, InsertLayoutInv DEF Plan!Rack
    <3>6. CASE \E code \in Codes, x \in Locations, r \in Racks :
                 Plan!Location(s, x, code, r)
      BY <1>2, <3>6, NewRowsSound, InsertLayoutInv DEF Plan!Location
    <3> QED BY <3>1, <3>2, <3>3, <3>4, <3>5, <3>6
  <2>2. CASE UNCHANGED layoutVars
    BY <1>2, <2>2 DEF layoutVars, LayoutInv, LayoutTyped, RowsPlaced, RowsSound, RowsApart, Sound
  <2>3. Plan!Next \/ UNCHANGED layoutVars
    BY <1>2 DEF Next, vars
  <2> QED BY <2>1, <2>2, <2>3
<1> QED BY <1>1, <1>2

-----------------------------------------------------------------------------
(***************************************************************************)
(* Scoring. The loop keeps the best of the candidates it has seen. For the *)
(* first one that fits to be taken, its score must be above the sentinel,  *)
(* which is a fact about the arithmetic of scores: each factor is a        *)
(* fraction of Scale between 0 and 1.                                      *)
(***************************************************************************)
\* A multiple of b, divided by it.
LEMMA Quotient ==
  ASSUME NEW n \in Nat \ {0}, NEW b \in Nat \ {0}, n % b = 0
  PROVE  /\ n \div b \in Nat \ {0}
         /\ n = b * (n \div b)
<1>1. n \div b \in Int /\ n = b * (n \div b)
  OBVIOUS
<1>2. n \div b > 0
  BY <1>1
<1> QED BY <1>1, <1>2

\* So many parts of b, in units of n.
LEMMA ShareIs ==
  ASSUME NEW n \in Nat \ {0}, NEW b \in Nat \ {0}, n % b = 0, NEW a \in Int
  PROVE  (a * n) \div b = a * (n \div b)
<1> DEFINE k == n \div b
<1>1. k \in Nat \ {0} /\ n = b * k
  BY Quotient
<1> HIDE DEF k
<1>2. a * k \in Int /\ a * n = b * (a * k)
  BY <1>1
<1>3. \A x \in Int : (b * x) \div b = x
  OBVIOUS
<1>4. (b * (a * k)) \div b = a * k
  BY <1>2, <1>3
<1> QED BY <1>2, <1>4 DEF k

\* Scale in parts of a candidate's limit, and of its distance from the gate.
Unit(c, d) == Scale \div c.max[d]
Step(c) == Scale \div (10 + c.distance)

\* What a candidate is made of.
LEMMA CandidateTyped ==
  ASSUME NEW c \in Candidates
  PROVE  /\ c.id \in Int /\ c.distance \in Nat /\ c # None
         /\ \A d \in Choice!Dims :
              /\ c.max[d] \in Nat \ {0} /\ c.load[d] \in Nat
              /\ Unit(c, d) \in Nat \ {0} /\ Scale = c.max[d] * Unit(c, d)
         /\ Step(c) \in Nat \ {0} /\ Scale = (10 + c.distance) * Step(c)
         /\ Scale \in Nat \ {0}
<1>1. /\ c.id \in Int /\ c.distance \in Nat /\ c # None /\ Scale \in Nat \ {0}
      /\ \A d \in Choice!Dims :
           c.max[d] \in Nat \ {0} /\ c.load[d] \in Nat /\ Scale % c.max[d] = 0
      /\ Scale % (10 + c.distance) = 0
  BY ServicesAssumption DEF Choice!ScoringAssumption
<1>2. 10 + c.distance \in Nat \ {0}
  BY <1>1
<1> QED BY <1>1, <1>2, Quotient DEF Unit, Step

\* Scores without a division.
LEMMA ScoreIs ==
  ASSUME NEW c \in Candidates, NEW w \in Demands
  PROVE  /\ Choice!Occupancy(c) =
              Choice!Most([d \in Choice!Dims |-> c.load[d] * Unit(c, d)])
         /\ Choice!Remaining(c, w) =
              Choice!Least([d \in Choice!Dims |-> (c.max[d] - c.load[d] - w[d]) * Unit(c, d)])
         /\ Choice!Nearness(c) = 300 * Step(c)
<1>1. \A d \in Choice!Dims : w[d] \in Nat \ {0}
  BY ServicesAssumption DEF Choice!ScoringAssumption
<1>2. /\ Scale \in Nat \ {0} /\ Scale % (10 + c.distance) = 0
      /\ \A d \in Choice!Dims : Scale % c.max[d] = 0
  BY ServicesAssumption DEF Choice!ScoringAssumption
<1>3. ASSUME NEW d \in Choice!Dims
      PROVE  /\ (c.load[d] * Scale) \div c.max[d] = c.load[d] * Unit(c, d)
             /\ ((c.max[d] - c.load[d] - w[d]) * Scale) \div c.max[d] =
                  (c.max[d] - c.load[d] - w[d]) * Unit(c, d)
  <2>1. c.load[d] \in Int /\ c.max[d] - c.load[d] - w[d] \in Int /\ c.max[d] \in Nat \ {0}
    BY <1>1, CandidateTyped
  <2> QED BY <1>2, <2>1, ShareIs DEF Unit
<1>4. (300 * Scale) \div (10 + c.distance) = 300 * Step(c)
  <2>1. 10 + c.distance \in Nat \ {0} /\ 300 \in Int
    BY CandidateTyped
  <2> QED BY <1>2, <2>1, ShareIs DEF Step
<1> QED BY <1>3, <1>4 DEF Choice!Occupancy, Choice!Remaining, Choice!Nearness

\* Parts of a limit m, of u units each, of which l are taken and n are asked for.
LEMMA PartsBounded ==
  ASSUME NEW m \in Nat \ {0}, NEW u \in Nat \ {0}, NEW l \in Nat, NEW n \in Nat \ {0},
         l + n <= m
  PROVE  /\ l * u \in 0 .. m * u - 1
         /\ (m - l - n) * u \in 0 .. m * u - 1
<1>1. \A x \in Nat : x < m => x * u \in Nat /\ x * u <= m * u - 1
  <2> SUFFICES ASSUME NEW x \in Nat, x < m
               PROVE  x * u \in Nat /\ x * u <= m * u - 1
    OBVIOUS
  <2>1. m * u - x * u = (m - x) * u /\ m - x >= 1
    OBVIOUS
  <2>2. (m - x) * u >= u
    BY <2>1
  <2> QED BY <2>1, <2>2
<1>2. l \in Nat /\ l < m /\ m - l - n \in Nat /\ m - l - n < m /\ m * u \in Nat
  OBVIOUS
<1>3. l * u \in Nat /\ l * u <= m * u - 1
  BY <1>1, <1>2
<1>4. (m - l - n) * u \in Nat /\ (m - l - n) * u <= m * u - 1
  BY <1>1, <1>2
<1> QED BY <1>2, <1>3, <1>4

\* The score of a location into which the demand fits is in its range.
LEMMA ScoreBounded ==
  ASSUME NEW c \in Candidates, NEW w \in Demands, Choice!Eligible(c, w)
  PROVE  Choice!Score(c, w) \in 20 * Scale + 1 .. 100 * Scale - 1
<1>1. \A d \in Choice!Dims : w[d] \in Nat \ {0} /\ c.load[d] + w[d] <= c.max[d]
  BY ServicesAssumption DEF Choice!ScoringAssumption, Choice!Eligible
<1>2. ASSUME NEW d \in Choice!Dims
      PROVE  /\ c.load[d] * Unit(c, d) \in 0 .. Scale - 1
             /\ (c.max[d] - c.load[d] - w[d]) * Unit(c, d) \in 0 .. Scale - 1
  <2>1. /\ c.max[d] \in Nat \ {0} /\ c.load[d] \in Nat /\ Unit(c, d) \in Nat \ {0}
        /\ Scale = c.max[d] * Unit(c, d)
    BY CandidateTyped
  <2> HIDE DEF Unit
  <2> QED BY <1>1, <2>1, PartsBounded
<1>3. Choice!Occupancy(c) \in 0 .. Scale - 1 /\ Choice!Remaining(c, w) \in 0 .. Scale - 1
  BY <1>2, ScoreIs DEF Choice!Most, Choice!Least, Choice!Dims
<1>4. Choice!Nearness(c) \in 300 .. 30 * Scale
  <2>1. /\ Choice!Nearness(c) = 300 * Step(c) /\ Step(c) \in Nat \ {0} /\ c.distance \in Nat
        /\ Scale = (10 + c.distance) * Step(c)
    BY CandidateTyped, ScoreIs
  <2>2. \A s \in Nat \ {0}, x \in Nat : 300 * s \in 300 .. 30 * ((10 + x) * s)
    <3> SUFFICES ASSUME NEW s \in Nat \ {0}, NEW x \in Nat
                 PROVE  300 * s \in 300 .. 30 * ((10 + x) * s)
      OBVIOUS
    <3>1. (10 + x) * s = 10 * s + x * s /\ x * s >= 0 /\ x * s \in Int
      OBVIOUS
    <3> QED BY <3>1
  <2> QED BY <2>1, <2>2
<1>5. Scale \in Nat \ {0}
  BY CandidateTyped
<1> QED BY <1>3, <1>4, <1>5 DEF Choice!Score

\* The emptier and nearer location scores higher.
LEMMA ScoreMonotonic ==
  ASSUME NEW c \in Candidates, NEW o \in Candidates, NEW w \in Demands,
         c.max = o.max, c.distance <= o.distance,
         \A d \in Choice!Dims : c.load[d] <= o.load[d],
         c.distance < o.distance \/ \A d \in Choice!Dims : c.load[d] < o.load[d]
  PROVE  Choice!Score(c, w) > Choice!Score(o, w)
<1>1. \A d \in Choice!Dims : w[d] \in Nat \ {0}
  BY ServicesAssumption DEF Choice!ScoringAssumption
<1> DEFINE full(x) == [d \in Choice!Dims |-> x.load[d] * Unit(x, d)]
           left(x) == [d \in Choice!Dims |-> (x.max[d] - x.load[d] - w[d]) * Unit(x, d)]
<1>2. ASSUME NEW d \in Choice!Dims
      PROVE  /\ full(c)[d] \in Int /\ full(o)[d] \in Int /\ full(c)[d] <= full(o)[d]
             /\ left(c)[d] \in Int /\ left(o)[d] \in Int /\ left(c)[d] >= left(o)[d]
             /\ c.load[d] < o.load[d] => left(c)[d] > left(o)[d]
  <2>1. /\ c.max[d] \in Nat \ {0} /\ c.load[d] \in Nat /\ o.load[d] \in Nat
        /\ o.max[d] = c.max[d] /\ Unit(c, d) \in Nat \ {0} /\ Unit(o, d) = Unit(c, d)
    BY CandidateTyped DEF Unit
  <2>2. \A u \in Nat \ {0} : \A x, y \in Int :
          x * u \in Int /\ (x <= y => x * u <= y * u) /\ (x < y => x * u < y * u)
    <3> SUFFICES ASSUME NEW u \in Nat \ {0}, NEW x \in Int, NEW y \in Int
                 PROVE  x * u \in Int /\ (x <= y => x * u <= y * u) /\ (x < y => x * u < y * u)
      OBVIOUS
    <3>1. y * u - x * u = (y - x) * u
      OBVIOUS
    <3>2. y - x >= 0 => (y - x) * u >= 0
      OBVIOUS
    <3>3. y - x >= 1 => (y - x) * u >= 1
      OBVIOUS
    <3> QED BY <3>1, <3>2, <3>3
  <2> DEFINE u == Unit(c, d)
             rest(x) == c.max[d] - x - w[d]
  <2>3. /\ full(c)[d] = c.load[d] * u /\ full(o)[d] = o.load[d] * u
        /\ left(c)[d] = rest(c.load[d]) * u /\ left(o)[d] = rest(o.load[d]) * u
    BY <2>1
  <2>4. /\ rest(c.load[d]) \in Int /\ rest(o.load[d]) \in Int
        /\ rest(o.load[d]) <= rest(c.load[d])
        /\ c.load[d] < o.load[d] => rest(o.load[d]) < rest(c.load[d])
    BY <1>1, <2>1
  <2> HIDE DEF u, rest, full, left
  <2>5. u \in Nat \ {0} /\ c.load[d] \in Int /\ o.load[d] \in Int /\ c.load[d] <= o.load[d]
    BY <2>1 DEF u
  <2> QED BY <2>2, <2>3, <2>4, <2>5
<1>3. /\ Choice!Nearness(c) \in Int /\ Choice!Nearness(o) \in Int
      /\ Choice!Nearness(c) >= Choice!Nearness(o)
      /\ c.distance < o.distance => Choice!Nearness(c) > Choice!Nearness(o)
  <2>1. /\ Step(c) \in Nat \ {0} /\ Step(o) \in Nat \ {0}
        /\ c.distance \in Nat /\ o.distance \in Nat
        /\ (10 + c.distance) * Step(c) = (10 + o.distance) * Step(o)
    BY CandidateTyped
  <2>2. \A a, b, j, k \in Nat \ {0} :
          a * j = b * k => (a <= b => j >= k) /\ (a < b => j > k)
    <3> SUFFICES ASSUME NEW a \in Nat \ {0}, NEW b \in Nat \ {0},
                        NEW j \in Nat \ {0}, NEW k \in Nat \ {0}, a * j = b * k
                 PROVE  (a <= b => j >= k) /\ (a < b => j > k)
      OBVIOUS
    <3>1. a <= b => a * k <= b * k
      <4>1. b * k - a * k = (b - a) * k /\ (b - a >= 0 => (b - a) * k >= 0)
        OBVIOUS
      <4> QED BY <4>1
    <3>2. a < b => a * k < b * k
      <4>1. b * k - a * k = (b - a) * k /\ (b - a >= 1 => (b - a) * k >= 1)
        OBVIOUS
      <4> QED BY <4>1
    <3>3. j < k => a * j < a * k
      <4>1. a * k - a * j = a * (k - j) /\ (k - j >= 1 => a * (k - j) >= 1)
        OBVIOUS
      <4> QED BY <4>1
    <3>4. j <= k => a * j <= a * k
      BY <3>3
    <3> QED BY <3>1, <3>2, <3>3, <3>4
  <2>3. 10 + c.distance \in Nat \ {0} /\ 10 + o.distance \in Nat \ {0}
    BY <2>1
  <2>4. /\ c.distance <= o.distance => Step(c) >= Step(o)
        /\ c.distance < o.distance => Step(c) > Step(o)
    BY <2>1, <2>2, <2>3
  <2>5. Choice!Nearness(c) = 300 * Step(c) /\ Choice!Nearness(o) = 300 * Step(o)
    BY ScoreIs
  <2> QED BY <2>1, <2>4, <2>5
<1>4. /\ Choice!Occupancy(c) = Choice!Most(full(c)) /\ Choice!Occupancy(o) = Choice!Most(full(o))
      /\ Choice!Remaining(c, w) = Choice!Least(left(c))
      /\ Choice!Remaining(o, w) = Choice!Least(left(o))
  BY ScoreIs
<1> HIDE DEF full, left
<1>5. /\ Choice!Occupancy(c) \in Int /\ Choice!Occupancy(o) \in Int
      /\ Choice!Occupancy(c) <= Choice!Occupancy(o)
  BY <1>2, <1>4 DEF Choice!Most, Choice!Dims
<1>6. /\ Choice!Remaining(c, w) \in Int /\ Choice!Remaining(o, w) \in Int
      /\ Choice!Remaining(c, w) >= Choice!Remaining(o, w)
      /\ (\A d \in Choice!Dims : c.load[d] < o.load[d]) =>
           Choice!Remaining(c, w) > Choice!Remaining(o, w)
  BY <1>2, <1>4 DEF Choice!Least, Choice!Dims
<1>7. Scale \in Nat
  BY CandidateTyped
<1> QED BY <1>3, <1>5, <1>6, <1>7 DEF Choice!Score

\* The loop is somewhere in the list, in which no location is twice.
LoopTyped ==
  /\ demand \in Demands
  /\ list \in Seq(Candidates) /\ Choice!DistinctIds(list)
  /\ next \in 1 .. Len(list) + 1

ChoiceInv == LoopTyped /\ Choice!ChoiceIsBest

\* What the runs check follows from the invariant.
LEMMA ChoiceInvImplies == ChoiceInv => Choice!ScoreRanks
<1> SUFFICES ASSUME ChoiceInv
             PROVE  Choice!ScoreInRange /\ Choice!PrefersEmptierAndNearer
  BY DEF Choice!ScoreRanks
<1>1. \A c \in Choice!Fitting : c \in Candidates /\ Choice!Eligible(c, demand)
  BY DEF ChoiceInv, LoopTyped, Choice!Fitting, Choice!Seen
<1>2. demand \in Demands
  BY DEF ChoiceInv, LoopTyped
<1>3. Choice!ScoreInRange
  BY <1>1, <1>2, ScoreBounded DEF Choice!ScoreInRange
<1>4. Choice!PrefersEmptierAndNearer
  <2> SUFFICES ASSUME NEW c \in Choice!Fitting, NEW o \in Choice!Fitting,
                      c.max = o.max, c.distance <= o.distance,
                      \A d \in Choice!Dims : c.load[d] <= o.load[d],
                      c.distance < o.distance \/ \A d \in Choice!Dims : c.load[d] < o.load[d]
               PROVE  Choice!Score(c, demand) > Choice!Score(o, demand)
    BY DEF Choice!PrefersEmptierAndNearer
  <2> QED BY <1>1, <1>2, ScoreMonotonic
<1> QED BY <1>3, <1>4

\* The loop sees one candidate more: it is none of those seen before.
LEMMA SeesNext ==
  ASSUME LoopTyped, next <= Len(list), next' = next + 1, UNCHANGED <<demand, list>>
  PROVE  /\ LoopTyped'
         /\ list[next] \in Candidates
         /\ Choice!Seen' = Choice!Seen \cup {list[next]}
         /\ \A c \in Choice!Seen : c \in Candidates /\ c.id # list[next].id
<1>1. /\ Len(list) \in Nat /\ DOMAIN list = 1 .. Len(list)
      /\ \A i \in 1 .. Len(list) : list[i] \in Candidates
      /\ next \in 1 .. Len(list)
  BY LenProperties DEF LoopTyped
<1>2. 1 .. next' - 1 = (1 .. next - 1) \cup {next}
  BY <1>1
<1>3. Choice!Seen' = Choice!Seen \cup {list[next]}
  BY <1>2 DEF Choice!Seen
<1>4. ASSUME NEW c \in Choice!Seen
      PROVE  c \in Candidates /\ c.id # list[next].id
  <2>1. PICK i \in 1 .. next - 1 : c = list[i]
    BY DEF Choice!Seen
  <2>2. i \in DOMAIN list /\ next \in DOMAIN list /\ i # next /\ c \in Candidates
    BY <1>1, <2>1
  <2> QED BY <2>1, <2>2 DEF LoopTyped, Choice!DistinctIds
<1>5. LoopTyped'
  BY <1>1 DEF LoopTyped, Choice!DistinctIds
<1> QED BY <1>1, <1>3, <1>4, <1>5

\* A candidate that fits and is better is taken ...
LEMMA TakeChoiceInv ==
  ASSUME ChoiceInv, Choice!Take
  PROVE  ChoiceInv'
<1> DEFINE c == list[next]
           w == demand
           S(x) == Choice!Score(x, w)
           F == Choice!Fitting
<1>1. /\ Choice!Eligible(c, w) /\ Choice!Better(c)
      /\ best' = S(c) /\ chosen' = c /\ demand' = demand
  BY DEF Choice!Take
<1>2. /\ LoopTyped' /\ c \in Candidates /\ w \in Demands
      /\ Choice!Seen' = Choice!Seen \cup {c}
      /\ \A x \in Choice!Seen : x \in Candidates /\ x.id # c.id
  BY SeesNext DEF ChoiceInv, LoopTyped, Choice!Take
<1>3. Choice!Fitting' = F \cup {c}
  BY <1>1, <1>2 DEF Choice!Fitting, Choice!Eligible
<1>4. \A x \in F \cup {c} : x \in Candidates /\ S(x) \in Int /\ x.id \in Int
  <2>1. \A x \in F \cup {c} : x \in Candidates /\ Choice!Eligible(x, w)
    BY <1>1, <1>2 DEF Choice!Fitting
  <2> QED BY <1>2, <2>1, ScoreBounded, CandidateTyped
<1>5. \A x \in F \ {c} : S(c) > S(x) \/ (S(c) = S(x) /\ c.id < x.id)
  <2>1. CASE F = {}
    BY <2>1
  <2>2. CASE F # {}
    <3>1. /\ chosen \in F /\ best = S(chosen)
          /\ \A x \in F \ {chosen} : S(chosen) > S(x) \/ (S(chosen) = S(x) /\ chosen.id < x.id)
      BY <2>2 DEF ChoiceInv, Choice!ChoiceIsBest, Choice!IsBest, Choice!Beats
    <3>2. S(c) > S(chosen) \/ (S(c) = S(chosen) /\ c.id < chosen.id)
      BY <1>1, <3>1 DEF Choice!Better
    <3> HIDE DEF S, F, c
    <3> QED BY <1>4, <3>1, <3>2
  <2> QED BY <2>1, <2>2
<1>6. ASSUME NEW x \in Choice!Fitting' \ {c}
      PROVE  Choice!Beats(chosen, x)'
  BY <1>1, <1>3, <1>5 DEF Choice!Beats, Choice!Score, Choice!Remaining
<1>7. Choice!ChoiceIsBest'
  <2>1. Choice!IsBest(chosen, Choice!Fitting)'
    BY <1>1, <1>3, <1>6 DEF Choice!IsBest
  <2>2. (best = Choice!Score(chosen, demand))'
    BY <1>1
  <2> QED BY <1>3, <2>1, <2>2 DEF Choice!ChoiceIsBest
<1> QED BY <1>2, <1>7 DEF ChoiceInv

\* ... and one that does not fit, or is no better, is not.
LEMMA SkipChoiceInv ==
  ASSUME ChoiceInv, Choice!Skip
  PROVE  ChoiceInv'
<1> DEFINE c == list[next]
           w == demand
           S(x) == Choice!Score(x, w)
           F == Choice!Fitting
<1>1. /\ ~ (Choice!Eligible(c, w) /\ Choice!Better(c))
      /\ best' = best /\ chosen' = chosen /\ demand' = demand
  BY DEF Choice!Skip
<1>2. /\ LoopTyped' /\ c \in Candidates /\ w \in Demands
      /\ Choice!Seen' = Choice!Seen \cup {c}
      /\ \A x \in Choice!Seen : x \in Candidates /\ x.id # c.id
  BY SeesNext DEF ChoiceInv, LoopTyped, Choice!Skip
<1>3. CASE ~ Choice!Eligible(c, w)
  <2>1. Choice!Fitting' = F
    BY <1>1, <1>2, <1>3 DEF Choice!Fitting, Choice!Eligible
  <2> QED BY <1>1, <1>2, <2>1 DEF ChoiceInv, Choice!ChoiceIsBest, Choice!IsBest, Choice!Beats,
                                  Choice!Score, Choice!Remaining
<1>4. CASE Choice!Eligible(c, w)
  <2>1. /\ Choice!Fitting' = F \cup {c}
        /\ ~ (S(c) > best) /\ ~ (S(c) = best /\ chosen # None /\ c.id < chosen.id)
    BY <1>1, <1>2, <1>4 DEF Choice!Fitting, Choice!Eligible, Choice!Better
  <2>2. \A x \in F \cup {c} :
          x \in Candidates /\ S(x) \in Int /\ x.id \in Int /\ S(x) > Choice!Sentinel
    <3>1. \A x \in F \cup {c} : x \in Candidates /\ Choice!Eligible(x, w)
      BY <1>2, <1>4 DEF Choice!Fitting, ChoiceInv, LoopTyped
    <3>2. Scale \in Nat
      BY <1>2, CandidateTyped
    <3>3. \A x \in F \cup {c} : S(x) \in 20 * Scale + 1 .. 100 * Scale - 1
      BY <1>2, <3>1, ScoreBounded
    <3> HIDE DEF S, F, c
    <3> QED BY <3>1, <3>2, <3>3, CandidateTyped DEF Choice!Sentinel
  <2>3. F # {}
    <3>1. F = {} => best = Choice!Sentinel
      BY DEF ChoiceInv, Choice!ChoiceIsBest
    <3> QED BY <2>1, <2>2, <3>1
  <2>4. /\ chosen \in F /\ best = S(chosen)
        /\ \A x \in F \ {chosen} : S(chosen) > S(x) \/ (S(chosen) = S(x) /\ chosen.id < x.id)
    BY <2>3 DEF ChoiceInv, Choice!ChoiceIsBest, Choice!IsBest, Choice!Beats
  <2>5. chosen # None /\ chosen.id # c.id
    <3>1. chosen \in Candidates
      BY <2>2, <2>4
    <3> QED BY <1>2, <2>4, <3>1, CandidateTyped DEF Choice!Fitting
  <2>6. S(chosen) > S(c) \/ (S(chosen) = S(c) /\ chosen.id < c.id)
    <3> HIDE DEF S, F, c
    <3> QED BY <2>1, <2>2, <2>4, <2>5
  <2>7. \A x \in Choice!Fitting' \ {chosen} :
          S(chosen) > S(x) \/ (S(chosen) = S(x) /\ chosen.id < x.id)
    BY <2>1, <2>4, <2>6
  <2>8. ASSUME NEW x \in Choice!Fitting' \ {chosen}
        PROVE  Choice!Beats(chosen, x)'
    BY <1>1, <2>7 DEF Choice!Beats, Choice!Score, Choice!Remaining
  <2>9. Choice!IsBest(chosen, Choice!Fitting)'
    BY <1>1, <2>1, <2>4, <2>8 DEF Choice!IsBest
  <2>10. (best = Choice!Score(chosen, demand))'
    BY <1>1, <2>4 DEF Choice!Score, Choice!Remaining
  <2> QED BY <1>2, <2>1, <2>9, <2>10 DEF ChoiceInv, Choice!ChoiceIsBest
<1> QED BY <1>3, <1>4

\* The invariant of the loop holds at first, and every step keeps it.
LEMMA ChoiceInductive ==
  /\ Init => ChoiceInv
  /\ ChoiceInv /\ [Next]_vars => ChoiceInv'
<1>1. ASSUME Init
      PROVE  ChoiceInv
  <2>1. Choice!Init
    BY <1>1 DEF Init
  <2>2. PICK n \in 0 .. MaxLength : list \in [1 .. n -> Candidates]
    BY <2>1 DEF Choice!Init
  <2>3. n \in Nat
    BY ServicesAssumption DEF Choice!ScoringAssumption
  <2>4. list \in Seq(Candidates) /\ Len(list) \in Nat
    BY <2>2, <2>3, SeqDef, LenProperties
  <2>5. LoopTyped
    BY <2>1, <2>4 DEF Choice!Init, LoopTyped
  <2>6. Choice!Fitting = {} /\ best = Choice!Sentinel /\ chosen = None
    BY <2>1 DEF Choice!Init, Choice!Fitting, Choice!Seen
  <2> QED BY <2>5, <2>6 DEF ChoiceInv, Choice!ChoiceIsBest
<1>2. ASSUME ChoiceInv, [Next]_vars
      PROVE  ChoiceInv'
  <2>1. CASE Choice!Next
    BY <1>2, <2>1, TakeChoiceInv, SkipChoiceInv DEF Choice!Next
  <2>2. CASE UNCHANGED choiceVars
    BY <1>2, <2>2 DEF choiceVars, ChoiceInv, LoopTyped, Choice!DistinctIds, Choice!ChoiceIsBest,
                      Choice!Fitting, Choice!Seen, Choice!Eligible, Choice!IsBest, Choice!Beats,
                      Choice!Score, Choice!Remaining
  <2>3. Choice!Next \/ UNCHANGED choiceVars
    BY <1>2 DEF Next, vars
  <2> QED BY <2>1, <2>2, <2>3
<1> QED BY <1>1, <1>2

-----------------------------------------------------------------------------
(***************************************************************************)
(* The audit trail. A page starts where the rows shown so far end; that    *)
(* skips nothing because rows are only added: the place of a row in the    *)
(* list never goes down. So whatever has a place before the next page has  *)
(* been shown, or was not there when the scan began.                       *)
(***************************************************************************)
\* How many rows of R are listed before row e.
Rank(R, e) == Trail!Cardinality({f \in R : Trail!Before(f, e)})

\* The audit trail's operators on data are those of the library.
LEMMA TrailData ==
  ASSUME NEW S
  PROVE  /\ Trail!Cardinality(S) = Cardinality(S)
         /\ Trail!ToSet(S) = {S[i] : i \in DOMAIN S}
BY DEF Trail!Cardinality, Cardinality, Trail!ToSet

\* Rows are listed in one order.
LEMMA BeforeOrders ==
  ASSUME NEW e \in Events, NEW f \in Events
  PROVE  /\ ~ Trail!Before(e, e)
         /\ e # f => Trail!Before(e, f) \/ Trail!Before(f, e)
         /\ e.timestamp < f.timestamp => Trail!Before(e, f)
         /\ \A g \in Events : Trail!Before(e, f) /\ Trail!Before(f, g) => Trail!Before(e, g)
<1>1. \A x \in Events : x.id \in Nat /\ x.timestamp \in Nat
  BY ServicesAssumption DEF Trail!AuditAssumption
<1>2. \A x, y \in Events : x.id = y.id => x = y
  BY ServicesAssumption DEF Trail!AuditAssumption
<1> QED BY <1>1, <1>2 DEF Trail!Before

\* Ranks of the rows of R: each number below the size of R is the rank of one row.
LEMMA Ranks ==
  ASSUME NEW R \in SUBSET Events, IsFiniteSet(R)
  PROVE  /\ Cardinality(R) \in Nat
         /\ \A e \in R : Rank(R, e) \in 0 .. Cardinality(R) - 1
         /\ \A e, f \in R : Trail!Before(e, f) => Rank(R, e) < Rank(R, f)
         /\ \A e, f \in R : Rank(R, e) = Rank(R, f) => e = f
         /\ \A k \in 0 .. Cardinality(R) - 1 : \E e \in R : Rank(R, e) = k
<1> DEFINE below == [e \in R |-> {f \in R : Trail!Before(f, e)}]
<1>1. /\ \A e \in R : below[e] \in SUBSET (R \ {e})
      /\ \A e, f \in R : e \in below[f] => below[e] \subseteq below[f]
      /\ \A e, f \in R : e = f \/ e \in below[f] \/ f \in below[e]
  BY BeforeOrders
<1>2. \A e, f \in R : Trail!Before(e, f) => e \in below[f]
  OBVIOUS
<1>3. \A e \in R : Cardinality(below[e]) = Rank(R, e)
  BY TrailData DEF Rank
<1> HIDE DEF below
<1>4. /\ Cardinality(R) \in Nat
      /\ \A e \in R : Cardinality(below[e]) \in 0 .. Cardinality(R) - 1
      /\ \A e, f \in R : e \in below[f] => Cardinality(below[e]) < Cardinality(below[f])
      /\ \A e, f \in R : Cardinality(below[e]) = Cardinality(below[f]) => e = f
      /\ \A k \in 0 .. Cardinality(R) - 1 : \E e \in R : Cardinality(below[e]) = k
  BY <1>1, RankOrder
<1> QED BY <1>2, <1>3, <1>4

\* The list holds each row at its rank.
LEMMA ListedByRank ==
  ASSUME NEW R \in SUBSET Events, IsFiniteSet(R)
  PROVE  /\ Trail!Listed(R) \in Seq(R) /\ Len(Trail!Listed(R)) = Cardinality(R)
         /\ \A i \in 1 .. Cardinality(R) :
              Trail!Listed(R)[i] \in R /\ Rank(R, Trail!Listed(R)[i]) = i - 1
         /\ \A e \in R : Trail!Listed(R)[Rank(R, e) + 1] = e
<1> DEFINE n == Cardinality(R)
           L == Trail!Listed(R)
<1>1. n \in Nat
  BY Ranks
<1>2. L = [i \in 1 .. n |-> CHOOSE e \in R : Rank(R, e) = i - 1]
  <2>1. L = [i \in 1 .. Trail!Cardinality(R) |-> CHOOSE e \in R : Rank(R, e) = i - 1]
    BY DEF Trail!Listed, Rank
  <2> QED BY <2>1, TrailData
<1> HIDE DEF L
<1>3. ASSUME NEW i \in 1 .. n
      PROVE  L[i] \in R /\ Rank(R, L[i]) = i - 1
  <2>1. L[i] = CHOOSE e \in R : Rank(R, e) = i - 1
    BY <1>2
  <2>2. \E e \in R : Rank(R, e) = i - 1
    BY <1>1, Ranks
  <2> QED BY <2>1, <2>2
<1>4. L \in Seq(R) /\ Len(L) = n
  <2>1. L \in [1 .. n -> R]
    BY <1>2, <1>3
  <2>2. L \in Seq(R)
    BY <1>1, <2>1, SeqDef
  <2>3. DOMAIN L = 1 .. n /\ DOMAIN L = 1 .. Len(L) /\ Len(L) \in Nat
    BY <2>1, <2>2, LenProperties
  <2> QED BY <1>1, <2>2, <2>3
<1>5. ASSUME NEW e \in R
      PROVE  L[Rank(R, e) + 1] = e
  <2>1. Rank(R, e) \in 0 .. n - 1
    BY Ranks
  <2>2. Rank(R, e) + 1 \in 1 .. n /\ Rank(R, e) + 1 - 1 = Rank(R, e)
    BY <1>1, <2>1
  <2>3. L[Rank(R, e) + 1] \in R /\ Rank(R, L[Rank(R, e) + 1]) = Rank(R, e)
    BY <1>3, <2>1, <2>2
  <2> QED BY <2>1, <2>3, Ranks
<1> QED BY <1>3, <1>4, <1>5 DEF L

\* What is listed already does not move down when rows are added.
LEMMA RankGrows ==
  ASSUME NEW R \in SUBSET Events, NEW Q \in SUBSET Events, R \subseteq Q, IsFiniteSet(Q),
         NEW e \in R
  PROVE  Rank(R, e) <= Rank(Q, e)
<1>1. IsFiniteSet({f \in Q : Trail!Before(f, e)})
  <2>1. {f \in Q : Trail!Before(f, e)} \in SUBSET Q
    OBVIOUS
  <2> QED BY <2>1, FS_Subset
<1>2. {f \in R : Trail!Before(f, e)} \in SUBSET {f \in Q : Trail!Before(f, e)}
  OBVIOUS
<1>3. Cardinality({f \in R : Trail!Before(f, e)}) <= Cardinality({f \in Q : Trail!Before(f, e)})
  BY <1>1, <1>2, FS_Subset
<1> QED BY <1>3, TrailData DEF Rank

-----------------------------------------------------------------------------
\* Row e is among the first i that the scan has shown.
Shown(e, i) == \E j \in 1 .. i : scan.got[j] = e

\* The rows that match the scan's filter now.
Wanted == Trail!Matching(trail, scan.filter)

\* A scan under way has a page size.
AuditTyped ==
  /\ Trail!TypeOK /\ IsFiniteSet(trail)
  /\ ~ scan.over => scan.limit \in Limits

\* No younger row is shown before an older one that was there at first; in the end
\* all of these are shown; and so far those that are listed before the next page.
NothingMissed ==
  /\ \A i \in 1 .. Len(scan.got) : \A e \in scan.first :
       e.timestamp < scan.got[i].timestamp => Shown(e, i)
  /\ scan.over => \A e \in scan.first : Shown(e, Len(scan.got))

PagesMeet ==
  /\ Len(scan.got) <= Cardinality(Wanted)
  /\ scan.first \subseteq Wanted
  /\ \A e \in scan.first : Rank(Wanted, e) < Len(scan.got) => Shown(e, Len(scan.got))

AuditInv == AuditTyped /\ NothingMissed /\ PagesMeet

\* What the runs check follows from the invariant.
LEMMA AuditInvImplies == AuditInv => Trail!NothingSkipped
<1> SUFFICES ASSUME AuditInv
             PROVE  Trail!NothingSkipped
  OBVIOUS
<1>1. scan.got \in Seq(Events) /\ Len(scan.got) \in Nat /\ DOMAIN scan.got = 1 .. Len(scan.got)
  BY LenProperties DEF AuditInv, AuditTyped, Trail!TypeOK
<1>2. ASSUME NEW i \in 1 .. Len(scan.got), NEW e, Shown(e, i)
      PROVE  e \in Trail!ToSet(SubSeq(scan.got, 1, i))
  <2> DEFINE s == SubSeq(scan.got, 1, i)
  <2>1. \A k \in 1 .. i : scan.got[k] \in Events
    BY <1>1, ElementOfSeq
  <2>2. s \in Seq(Events) /\ Len(s) = i /\ \A k \in 1 .. i : s[k] = scan.got[k]
    <3>1. /\ s \in Seq(Events) /\ Len(s) = IF 1 <= i THEN i - 1 + 1 ELSE 0
          /\ \A k \in 1 .. i - 1 + 1 : s[k] = scan.got[1 + k - 1]
      BY <2>1, SubSeqProperties
    <3> HIDE DEF s
    <3> QED BY <3>1
  <2>3. DOMAIN s = 1 .. i
    BY <2>2, LenProperties
  <2>4. PICK j \in 1 .. i : scan.got[j] = e
    BY <1>2 DEF Shown
  <2>5. j \in DOMAIN s /\ s[j] = e
    BY <2>2, <2>3, <2>4
  <2> HIDE DEF s
  <2>6. e \in {s[k] : k \in DOMAIN s}
    BY <2>5
  <2>7. Trail!ToSet(s) = {s[k] : k \in DOMAIN s}
    BY TrailData
  <2> QED BY <2>6, <2>7 DEF s
<1>3. \A e : Shown(e, Len(scan.got)) => e \in Trail!ToSet(scan.got)
  BY <1>1, TrailData DEF Shown
<1> QED BY <1>2, <1>3 DEF AuditInv, NothingMissed, Trail!NothingSkipped

\* What matches is in the trail, and finite.
LEMMA WantedFinite ==
  ASSUME AuditTyped
  PROVE  Wanted \in SUBSET Events /\ IsFiniteSet(Wanted)
<1>1. trail \in SUBSET Events /\ IsFiniteSet(trail) /\ Wanted \in SUBSET trail
  BY DEF AuditTyped, Trail!TypeOK, Wanted, Trail!Matching
<1> QED BY <1>1, FS_Subset

\* An event that arrives, late or again, moves rows only away from what was shown.
LEMMA HandleAuditInv ==
  ASSUME AuditInv, NEW r \in Events, Trail!Handle(r)
  PROVE  AuditInv'
<1>1. trail' = trail \cup {r} /\ scan' = scan
  BY DEF Trail!Handle
<1>2. AuditTyped'
  <2>1. IsFiniteSet(trail \cup {r})
    BY FS_AddElement DEF AuditInv, AuditTyped
  <2> QED BY <1>1, <2>1 DEF AuditInv, AuditTyped, Trail!TypeOK
<1>3. NothingMissed'
  BY <1>1 DEF AuditInv, NothingMissed, Shown
<1>4. /\ Wanted \in SUBSET Events /\ IsFiniteSet(Wanted)
      /\ Wanted' \in SUBSET Events /\ IsFiniteSet(Wanted') /\ Wanted \subseteq Wanted'
  <2>1. Wanted \subseteq Wanted'
    BY <1>1 DEF Wanted, Trail!Matching
  <2>2. Wanted' = {e \in trail' : scan.filter = None \/ scan.filter \in e.products}
    BY <1>1 DEF Wanted, Trail!Matching
  <2>3. trail' \in SUBSET Events /\ IsFiniteSet(trail') /\ Wanted' \in SUBSET trail'
    BY <1>2, <2>2 DEF AuditTyped, Trail!TypeOK
  <2>4. IsFiniteSet(Wanted')
    BY <2>3, FS_Subset
  <2> QED BY <2>1, <2>3, <2>4, WantedFinite DEF AuditInv
<1>5. PagesMeet'
  <2>1. Cardinality(Wanted) <= Cardinality(Wanted')
    BY <1>4, FS_Subset
  <2>2. Len(scan.got) \in Nat /\ Cardinality(Wanted) \in Nat /\ Cardinality(Wanted') \in Nat
    BY <1>4, Ranks, LenProperties DEF AuditInv, AuditTyped, Trail!TypeOK
  <2>3. ASSUME NEW e \in scan.first, Rank(Wanted', e) < Len(scan.got)
        PROVE  Shown(e, Len(scan.got))
    <3>1. e \in Wanted /\ e \in Wanted'
      BY <1>4 DEF AuditInv, PagesMeet
    <3>2. Rank(Wanted, e) <= Rank(Wanted', e)
      BY <1>4, <3>1, RankGrows
    <3>3. Rank(Wanted, e) \in Int /\ Rank(Wanted', e) \in Int
      BY <1>4, <3>1, Ranks
    <3> QED BY <2>2, <2>3, <3>2, <3>3 DEF AuditInv, PagesMeet
  <2>4. /\ Len(scan.got) <= Cardinality(Wanted') /\ scan.first \subseteq Wanted'
        /\ \A e \in scan.first : Rank(Wanted', e) < Len(scan.got) => Shown(e, Len(scan.got))
    BY <1>4, <2>1, <2>2, <2>3 DEF AuditInv, PagesMeet
  <2> QED BY <1>1, <2>4 DEF PagesMeet, Shown
<1> QED BY <1>2, <1>3, <1>5 DEF AuditInv

\* A scan that begins has shown nothing.
LEMMA OpenAuditInv ==
  ASSUME AuditInv, NEW filter \in Products \cup {None}, NEW limit \in Limits,
         Trail!Open(filter, limit)
  PROVE  AuditInv'
<1>1. /\ trail' = trail
      /\ scan' = [filter |-> filter, limit |-> limit, got |-> <<>>,
                  first |-> Trail!Matching(trail, filter), over |-> FALSE]
  BY DEF Trail!Open
<1>2. Trail!Matching(trail, filter) \in SUBSET trail
  BY DEF Trail!Matching
<1>3. AuditTyped'
  BY <1>1, <1>2, EmptySeq DEF AuditInv, AuditTyped, Trail!TypeOK
<1>4. scan'.got = <<>> /\ Len(scan'.got) = 0 /\ ~ scan'.over
  BY <1>1
<1>5. NothingMissed'
  BY <1>4 DEF NothingMissed
<1>6. Wanted' = Trail!Matching(trail, filter) /\ scan'.first = Wanted'
  BY <1>1 DEF Wanted, Trail!Matching
<1>7. Wanted' \in SUBSET Events /\ IsFiniteSet(Wanted')
  <2>1. trail \in SUBSET Events /\ IsFiniteSet(trail)
    BY DEF AuditInv, AuditTyped, Trail!TypeOK
  <2> QED BY <1>2, <1>6, <2>1, FS_Subset
<1>8. PagesMeet'
  <2>1. Cardinality(Wanted') \in Nat /\ \A e \in Wanted' : Rank(Wanted', e) \in Nat
    BY <1>7, Ranks
  <2> QED BY <1>4, <1>6, <2>1 DEF PagesMeet
<1> QED BY <1>3, <1>5, <1>8 DEF AuditInv

\* The next page begins with the row whose rank is the number of rows shown.
LEMMA FetchAuditInv ==
  ASSUME AuditInv, Trail!Fetch
  PROVE  AuditInv'
<1> DEFINE n == Len(scan.got)
           m == Cardinality(Wanted)
           L == Trail!Listed(Wanted)
           last == IF n + scan.limit < Len(L) THEN n + scan.limit ELSE Len(L)
           page == SubSeq(L, n + 1, last)
           got == scan.got \o page
<1>1. /\ trail' = trail /\ ~ scan.over
      /\ scan' = [scan EXCEPT !.got = got, !.over = Len(page) < scan.limit]
  BY DEF Trail!Fetch, Trail!Page, Trail!Slice, Wanted
<1>2. /\ n \in Nat /\ scan.limit \in Nat \ {0} /\ scan.got \in Seq(Events)
      /\ scan \in [filter : Products \cup {None}, limit : Limits \cup {0},
                   got : Seq(Events), first : SUBSET Events, over : BOOLEAN]
  <2>1. scan.limit \in 1 .. 500
    BY <1>1, ServicesAssumption DEF AuditInv, AuditTyped, Trail!AuditAssumption
  <2>2. scan \in [filter : Products \cup {None}, limit : Limits \cup {0},
                 got : Seq(Events), first : SUBSET Events, over : BOOLEAN]
    BY DEF AuditInv, AuditTyped, Trail!TypeOK
  <2>3. scan.got \in Seq(Events)
    BY <2>2
  <2>4. Len(scan.got) \in Nat
    BY <2>3, LenProperties
  <2>5. scan.limit \in Nat \ {0}
    BY <2>1
  <2> QED BY <2>2, <2>3, <2>4, <2>5, Zenon
<1>3. Wanted \in SUBSET Events /\ IsFiniteSet(Wanted)
  BY WantedFinite DEF AuditInv
<1>4. /\ m \in Nat /\ L \in Seq(Wanted) /\ Len(L) = m /\ n <= m
      /\ \A i \in 1 .. m : L[i] \in Wanted /\ L[i] \in Events /\ Rank(Wanted, L[i]) = i - 1
      /\ \A e \in Wanted : Rank(Wanted, e) \in 0 .. m - 1 /\ L[Rank(Wanted, e) + 1] = e
      /\ \A e, f \in Wanted : Trail!Before(e, f) => Rank(Wanted, e) < Rank(Wanted, f)
  BY <1>3, Ranks, ListedByRank DEF AuditInv, PagesMeet
<1> HIDE DEF n, m, L
<1>5. last \in n .. m
  BY <1>2, <1>4
<1>6. /\ page \in Seq(Events) /\ Len(page) = last - n
      /\ \A k \in 1 .. last - n : page[k] = L[n + k]
  <2>1. \A i \in n + 1 .. last : L[i] \in Events
    BY <1>2, <1>4, <1>5
  <2>2. n + 1 \in Int /\ last \in Int
    BY <1>2, <1>5
  <2> HIDE DEF last
  <2>3. /\ page \in Seq(Events)
        /\ Len(page) = IF n + 1 <= last THEN last - (n + 1) + 1 ELSE 0
        /\ \A k \in 1 .. last - (n + 1) + 1 : page[k] = L[n + 1 + k - 1]
    BY <2>1, <2>2, SubSeqProperties
  <2> HIDE DEF page
  <2>4. n \in Int /\ m \in Int /\ last \in n .. m
    BY <1>2, <1>4, <1>5
  <2>5. /\ last - (n + 1) + 1 = last - n
        /\ (IF n + 1 <= last THEN last - (n + 1) + 1 ELSE 0) = last - n
        /\ \A k \in 1 .. last - n : n + 1 + k - 1 = n + k
    BY <2>4
  <2> QED BY <2>3, <2>5
<1>7. Len(page) < scan.limit => last = m
  BY <1>2, <1>4, <1>5, <1>6
<1> HIDE DEF last, page
<1>8. /\ got \in Seq(Events) /\ Len(got) = last
      /\ \A i \in 1 .. n : got[i] = scan.got[i]
      /\ \A i \in n + 1 .. last : got[i] = L[i]
  <2>0. n = Len(scan.got)
    BY DEF n
  <2> DEFINE s == scan.got
  <2>7. s \in Seq(Events) /\ n = Len(s) /\ got = s \o page
    BY <1>2, <2>0
  <2> HIDE DEF s, got
  <2>1. /\ got \in Seq(Events) /\ Len(got) = n + Len(page)
        /\ \A i \in 1 .. n + Len(page) : got[i] = IF i <= n THEN s[i] ELSE page[i - n]
    BY <1>6, <2>7, ConcatProperties
  <2>2. n + Len(page) = last
    BY <1>2, <1>4, <1>5, <1>6
  <2>3. \A i \in n + 1 .. last : page[i - n] = L[i]
    BY <1>2, <1>4, <1>5, <1>6
  <2>4. \A i \in 1 .. n : i \in 1 .. n + Len(page) /\ i <= n
    BY <1>2, <1>4, <1>5, <2>2
  <2>5. \A i \in n + 1 .. last : i \in 1 .. n + Len(page) /\ ~ (i <= n)
    BY <1>2, <1>4, <1>5, <2>2
  <2> QED BY <2>1, <2>2, <2>3, <2>4, <2>5 DEF s
<1> HIDE DEF got
<1>9. /\ scan'.got = got /\ scan'.first = scan.first /\ scan'.filter = scan.filter
      /\ scan'.limit = scan.limit /\ scan'.over = (Len(page) < scan.limit)
      /\ Wanted' = Wanted /\ Len(scan'.got) = last
  BY <1>1, <1>2, <1>8 DEF Wanted, Trail!Matching
<1>10. ASSUME NEW e \in scan.first, NEW i \in n .. last, Rank(Wanted, e) < i
       PROVE  \E j \in 1 .. i : got[j] = e
  <2>1. e \in Wanted /\ Rank(Wanted, e) \in 0 .. m - 1
    BY <1>4 DEF AuditInv, PagesMeet
  <2>2. CASE Rank(Wanted, e) < n
    <3>1. PICK j \in 1 .. n : scan.got[j] = e
      BY <2>2 DEF AuditInv, PagesMeet, Shown, n
    <3> QED BY <1>2, <1>5, <1>8, <3>1
  <2>3. CASE Rank(Wanted, e) >= n
    <3>1. Rank(Wanted, e) + 1 \in n + 1 .. i
      BY <1>2, <1>4, <1>5, <1>10, <2>1, <2>3
    <3>2. got[Rank(Wanted, e) + 1] = L[Rank(Wanted, e) + 1]
      BY <1>2, <1>4, <1>5, <1>8, <2>1, <3>1
    <3> QED BY <1>2, <1>4, <1>5, <2>1, <3>1, <3>2
  <2> QED BY <1>2, <1>4, <2>1, <2>2, <2>3
<1>11. AuditTyped'
  <2>1. (Len(page) < scan.limit) \in BOOLEAN
    OBVIOUS
  <2>2. scan' \in [filter : Products \cup {None}, limit : Limits \cup {0},
                  got : Seq(Events), first : SUBSET Events, over : BOOLEAN]
    BY <1>1, <1>2, <1>8, <2>1
  <2>3. scan.limit \in Limits
    BY <1>1 DEF AuditInv, AuditTyped
  <2> QED BY <1>1, <1>9, <2>2, <2>3 DEF AuditInv, AuditTyped, Trail!TypeOK
<1>12. NothingMissed'
  <2>1. ASSUME NEW i \in 1 .. last, NEW e \in scan.first, e.timestamp < got[i].timestamp
        PROVE  \E j \in 1 .. i : got[j] = e
    <3>1. CASE i \in 1 .. n
      <4>1. e.timestamp < scan.got[i].timestamp
        BY <1>8, <2>1, <3>1
      <4>2. PICK j \in 1 .. i : scan.got[j] = e
        BY <3>1, <4>1 DEF AuditInv, NothingMissed, Shown, n
      <4>3. j \in 1 .. n /\ got[j] = scan.got[j]
        BY <1>2, <1>8, <3>1, <4>2
      <4> QED BY <4>2, <4>3
    <3>2. CASE i \in n + 1 .. last
      <4>1. i \in 1 .. m /\ got[i] = L[i] /\ i - 1 \in n .. last
        BY <1>2, <1>4, <1>5, <1>8, <3>2
      <4>2. e \in Wanted /\ e \in Events
        BY <1>3 DEF AuditInv, PagesMeet
      <4>3. Trail!Before(e, L[i])
        BY <1>4, <2>1, <4>1, <4>2, BeforeOrders
      <4>4. Rank(Wanted, e) < i - 1
        BY <1>4, <4>1, <4>2, <4>3
      <4>5. \E j \in 1 .. i - 1 : got[j] = e
        BY <1>10, <4>1, <4>4
      <4>6. \A j \in 1 .. i - 1 : j \in 1 .. i
        BY <1>4, <4>1
      <4> QED BY <4>5, <4>6
    <3> QED BY <1>2, <1>4, <1>5, <3>1, <3>2
  <2>2. ASSUME scan'.over, NEW e \in scan.first
        PROVE  \E j \in 1 .. last : got[j] = e
    <3>1. last = m
      BY <1>7, <1>9, <2>2
    <3>2. e \in Wanted /\ Rank(Wanted, e) < m
      BY <1>4 DEF AuditInv, PagesMeet
    <3> QED BY <1>2, <1>4, <1>5, <1>10, <3>1, <3>2
  <2> QED BY <1>9, <2>1, <2>2 DEF NothingMissed, Shown
<1>13. PagesMeet'
  <2>1. \A e \in scan.first : Rank(Wanted, e) < last => \E j \in 1 .. last : got[j] = e
    BY <1>2, <1>4, <1>5, <1>10
  <2>2. last <= m /\ scan.first \subseteq Wanted
    BY <1>2, <1>4, <1>5 DEF AuditInv, PagesMeet
  <2> QED BY <1>9, <2>1, <2>2 DEF PagesMeet, Shown, m
<1> QED BY <1>11, <1>12, <1>13 DEF AuditInv

\* The invariant of the trail holds at first, and every step keeps it.
LEMMA AuditInductive ==
  /\ Init => AuditInv
  /\ AuditInv /\ [Next]_vars => AuditInv'
<1>1. ASSUME Init
      PROVE  AuditInv
  <2>1. /\ trail = {}
        /\ scan = [filter |-> None, limit |-> 0, got |-> <<>>, first |-> {}, over |-> TRUE]
    BY <1>1 DEF Init, Trail!Init, Trail!NoScan
  <2>2. AuditTyped
    BY <2>1, EmptySeq, FS_EmptySet DEF AuditTyped, Trail!TypeOK
  <2>3. Cardinality(Wanted) \in Nat
    BY <2>2, WantedFinite, FS_CardinalityType
  <2> QED BY <2>1, <2>2, <2>3 DEF AuditInv, NothingMissed, PagesMeet
<1>2. ASSUME AuditInv, [Next]_vars
      PROVE  AuditInv'
  <2>1. CASE Trail!Next
    BY <1>2, <2>1, HandleAuditInv, OpenAuditInv, FetchAuditInv DEF Trail!Next
  <2>2. CASE UNCHANGED auditVars
    <3>1. trail' = trail /\ scan' = scan
      BY <2>2 DEF auditVars
    <3>2. Wanted' = Wanted
      BY <3>1 DEF Wanted, Trail!Matching
    <3> QED BY <1>2, <3>1, <3>2 DEF AuditInv, AuditTyped, Trail!TypeOK, NothingMissed, PagesMeet,
                                    Shown
  <2>3. Trail!Next \/ UNCHANGED auditVars
    BY <1>2 DEF Next, vars
  <2> QED BY <2>1, <2>2, <2>3
<1> QED BY <1>1, <1>2

-----------------------------------------------------------------------------
(***************************************************************************)
(* The line of placement jobs. A job that a worker has picked stays        *)
(* PENDING until the worker is done with it, because its row is locked; so *)
(* the worker puts back only what belongs into the line, once, and where   *)
(* its time is.                                                            *)
(***************************************************************************)
\* Sequence l holds the jobs of set J, each once, in the order of the times w.
InOrder(l, w, J) ==
  /\ l \in Seq(Jobs)
  /\ \A a, b \in 1 .. Len(l) : l[a] = l[b] => a = b
  /\ \A j \in Jobs : j \in J <=> \E a \in 1 .. Len(l) : l[a] = j
  /\ \A a, b \in 1 .. Len(l) : a < b => w[l[a]] <= w[l[b]]

Pending == {j \in Jobs : status[j] = "PENDING"}

QueueTyped ==
  /\ InOrder(line, wait, Pending)
  /\ wait \in [Jobs -> 0 .. PostponedWait]
  /\ status \in [Jobs -> {"none", "PENDING", "ASSIGNED", "PLACED"}]
  /\ worker \in [Instances -> [at : {"idle", "picked", "decided"},
                               job : Jobs \cup {None}, found : BOOLEAN]]
  /\ mutex \in [Warehouses -> Instances \cup {None}]
  /\ suitable \subseteq Jobs /\ tried \in Jobs \cup {None}
  /\ refusals \in 0 .. MaxRefusals /\ failures \in 0 .. MaxFailures

\* What a worker has in hand is pending, and nobody else's.
RowsLocked ==
  /\ \A i \in Instances : worker[i].at # "idle" =>
       worker[i].job \in Jobs /\ status[worker[i].job] = "PENDING"
  /\ \A i, k \in Instances :
       i # k /\ worker[i].at # "idle" /\ worker[k].at # "idle" => worker[i].job # worker[k].job

QueueInv == QueueTyped /\ RowsLocked

\* The limits are numbers, and None is neither a job nor an instance.
LEMMA QueueConstants ==
  /\ WarehouseOf \in [Jobs -> Warehouses]
  /\ PostponedWait \in Nat /\ RefusedWait \in 1 .. PostponedWait
  /\ MaxRefusals \in Nat /\ MaxFailures \in Nat
  /\ None \notin Jobs /\ None \notin Instances
BY ServicesAssumption DEF Queue!QueueAssumption

\* What the runs check follows from the invariant.
LEMMA QueueInvImplies == QueueInv => Queue!TypeOK
<1> SUFFICES ASSUME QueueInv
             PROVE  Queue!TypeOK
  OBVIOUS
<1>1. line \in Seq(Jobs) /\ DOMAIN line = 1 .. Len(line)
  BY LenProperties DEF QueueInv, QueueTyped, InOrder
<1>2. Queue!IsInjective(line)
  BY <1>1 DEF QueueInv, QueueTyped, InOrder, Queue!IsInjective
<1>3. ASSUME NEW j \in Jobs
      PROVE  status[j] = "PENDING" <=> j \in Queue!ToSet(line)
  <2>1. status[j] = "PENDING" <=> \E a \in 1 .. Len(line) : line[a] = j
    BY DEF QueueInv, QueueTyped, InOrder, Pending
  <2>2. j \in Queue!ToSet(line) <=> \E a \in 1 .. Len(line) : line[a] = j
    BY <1>1 DEF Queue!ToSet
  <2> QED BY <2>1, <2>2
<1>4. \A i, k \in 1 .. Len(line) : i < k => wait[line[i]] <= wait[line[k]]
  BY DEF QueueInv, QueueTyped, InOrder
<1> QED BY <1>1, <1>2, <1>3, <1>4 DEF QueueInv, QueueTyped, Queue!TypeOK

\* An element that is put into a sequence: those behind it move by one place.
LEMMA InsertAtPlaces ==
  ASSUME NEW S, NEW s \in Seq(S), NEW k \in 0 .. Len(s), NEW x \in S
  PROVE  LET t == Queue!InsertAt(s, k + 1, x) IN
         /\ t \in Seq(S) /\ Len(t) = Len(s) + 1
         /\ \A i \in 1 .. Len(s) + 1 :
              t[i] = IF i <= k THEN s[i] ELSE IF i = k + 1 THEN x ELSE s[i - 1]
<1> DEFINE n == Len(s)
           p == SubSeq(s, 1, k)
           r == SubSeq(s, k + 1, n)
           q == p \o <<x>>
           t == q \o r
<1>1. n \in Nat /\ k \in 0 .. n /\ \A i \in 1 .. n : s[i] \in S
  BY LenProperties, ElementOfSeq
<1> HIDE DEF n
<1>2. p \in Seq(S) /\ Len(p) = k /\ \A i \in 1 .. k : p[i] = s[i]
  <2>1. /\ p \in Seq(S) /\ Len(p) = IF 1 <= k THEN k - 1 + 1 ELSE 0
        /\ \A i \in 1 .. k - 1 + 1 : p[i] = s[1 + i - 1]
    BY <1>1, SubSeqProperties
  <2> HIDE DEF p
  <2> QED BY <1>1, <2>1
<1>3. r \in Seq(S) /\ Len(r) = n - k /\ \A i \in 1 .. n - k : r[i] = s[k + i]
  <2>1. /\ r \in Seq(S) /\ Len(r) = IF k + 1 <= n THEN n - (k + 1) + 1 ELSE 0
        /\ \A i \in 1 .. n - (k + 1) + 1 : r[i] = s[k + 1 + i - 1]
    BY <1>1, SubSeqProperties
  <2> HIDE DEF r
  <2> QED BY <1>1, <2>1
<1> HIDE DEF p, r
<1>4. q \in Seq(S) /\ Len(q) = k + 1 /\ \A i \in 1 .. k + 1 : q[i] = IF i <= k THEN s[i] ELSE x
  <2>1. <<x>> \in Seq(S) /\ Len(<<x>>) = 1 /\ <<x>>[1] = x
    OBVIOUS
  <2>2. /\ q \in Seq(S) /\ Len(q) = Len(p) + Len(<<x>>)
        /\ \A i \in 1 .. Len(p) + Len(<<x>>) :
             q[i] = IF i <= Len(p) THEN p[i] ELSE <<x>>[i - Len(p)]
    BY <1>2, <2>1, ConcatProperties
  <2> HIDE DEF q
  <2> QED BY <1>1, <1>2, <2>1, <2>2
<1> HIDE DEF q
<1>5. /\ t \in Seq(S) /\ Len(t) = Len(q) + Len(r)
      /\ \A i \in 1 .. Len(q) + Len(r) : t[i] = IF i <= Len(q) THEN q[i] ELSE r[i - Len(q)]
  BY <1>3, <1>4, ConcatProperties
<1>6. Queue!InsertAt(s, k + 1, x) = t
  <2>1. (k + 1) - 1 = k
    BY <1>1
  <2> QED BY <2>1 DEF Queue!InsertAt, p, q, r, n
<1> HIDE DEF t
<1>7. Len(t) = n + 1
  BY <1>1, <1>3, <1>4, <1>5
<1>8. \A i \in 1 .. n + 1 :
        t[i] = IF i <= k THEN s[i] ELSE IF i = k + 1 THEN x ELSE s[i - 1]
  <2> SUFFICES ASSUME NEW i \in 1 .. n + 1
               PROVE  t[i] = IF i <= k THEN s[i] ELSE IF i = k + 1 THEN x ELSE s[i - 1]
    OBVIOUS
  <2>1. t[i] = IF i <= k + 1 THEN q[i] ELSE r[i - (k + 1)]
    BY <1>1, <1>3, <1>4, <1>5
  <2>2. CASE i <= k + 1
    BY <1>1, <1>4, <2>1, <2>2
  <2>3. CASE i > k + 1
    <3>1. i - (k + 1) \in 1 .. n - k /\ k + (i - (k + 1)) = i - 1
      BY <1>1, <2>3
    <3>2. r[i - (k + 1)] = s[i - 1]
      BY <1>3, <3>1
    <3> QED BY <1>1, <2>1, <2>3, <3>2
  <2> QED BY <1>1, <2>2, <2>3
<1> QED BY <1>5, <1>6, <1>7, <1>8 DEF n

\* An element that is taken out of a sequence: those behind it move up.
LEMMA RemoveAtPlaces ==
  ASSUME NEW S, NEW s \in Seq(S), NEW k \in 1 .. Len(s)
  PROVE  LET t == Queue!RemoveAt(s, k) IN
         /\ t \in Seq(S) /\ Len(t) = Len(s) - 1
         /\ \A i \in 1 .. Len(s) - 1 : t[i] = IF i < k THEN s[i] ELSE s[i + 1]
<1> DEFINE n == Len(s)
           p == SubSeq(s, 1, k - 1)
           r == SubSeq(s, k + 1, n)
           t == p \o r
<1>1. n \in Nat /\ k \in 1 .. n /\ \A i \in 1 .. n : s[i] \in S
  BY LenProperties, ElementOfSeq
<1> HIDE DEF n
<1>2. p \in Seq(S) /\ Len(p) = k - 1 /\ \A i \in 1 .. k - 1 : p[i] = s[i]
  <2>1. /\ p \in Seq(S) /\ Len(p) = IF 1 <= k - 1 THEN k - 1 - 1 + 1 ELSE 0
        /\ \A i \in 1 .. k - 1 - 1 + 1 : p[i] = s[1 + i - 1]
    BY <1>1, SubSeqProperties
  <2> HIDE DEF p
  <2> QED BY <1>1, <2>1
<1>3. r \in Seq(S) /\ Len(r) = n - k /\ \A i \in 1 .. n - k : r[i] = s[k + i]
  <2>1. /\ r \in Seq(S) /\ Len(r) = IF k + 1 <= n THEN n - (k + 1) + 1 ELSE 0
        /\ \A i \in 1 .. n - (k + 1) + 1 : r[i] = s[k + 1 + i - 1]
    BY <1>1, SubSeqProperties
  <2> HIDE DEF r
  <2> QED BY <1>1, <2>1
<1> HIDE DEF p, r
<1>4. /\ t \in Seq(S) /\ Len(t) = Len(p) + Len(r)
      /\ \A i \in 1 .. Len(p) + Len(r) : t[i] = IF i <= Len(p) THEN p[i] ELSE r[i - Len(p)]
  BY <1>2, <1>3, ConcatProperties
<1>5. Queue!RemoveAt(s, k) = t
  BY DEF Queue!RemoveAt, p, r, n
<1> HIDE DEF t
<1>6. Len(t) = n - 1 /\ \A i \in 1 .. n - 1 : t[i] = IF i < k THEN s[i] ELSE s[i + 1]
  BY <1>1, <1>2, <1>3, <1>4
<1> QED BY <1>4, <1>5, <1>6 DEF n

\* A job that enters the line stands where its time is.
LEMMA EnterInOrder ==
  ASSUME NEW J, NEW l, InOrder(l, wait, J), wait \in [Jobs -> 0 .. PostponedWait],
         NEW j \in Jobs \ J, NEW n \in 0 .. PostponedWait, Queue!Enter(l, j, n)
  PROVE  /\ InOrder(line', wait', J \cup {j})
         /\ wait' \in [Jobs -> 0 .. PostponedWait]
<1> DEFINE m == Len(l)
<1>1. PICK k \in 0 .. m :
        /\ \A i \in 1 .. k : wait[l[i]] <= n
        /\ \A i \in k + 1 .. m : wait[l[i]] >= n
        /\ line' = Queue!InsertAt(l, k + 1, j)
        /\ wait' = [wait EXCEPT ![j] = n]
  BY DEF Queue!Enter
<1>2. /\ l \in Seq(Jobs) /\ m \in Nat /\ \A i \in 1 .. m : l[i] \in Jobs /\ l[i] \in J
  <2>1. l \in Seq(Jobs) /\ m \in Nat /\ \A i \in 1 .. m : l[i] \in Jobs
    BY LenProperties, ElementOfSeq DEF InOrder
  <2> QED BY <2>1 DEF InOrder
<1>3. /\ line' \in Seq(Jobs) /\ Len(line') = m + 1
      /\ \A i \in 1 .. m + 1 :
           line'[i] = IF i <= k THEN l[i] ELSE IF i = k + 1 THEN j ELSE l[i - 1]
  <2> DEFINE t == Queue!InsertAt(l, k + 1, j)
  <2>1. k \in 0 .. Len(l) /\ j \in Jobs
    OBVIOUS
  <2>2. /\ t \in Seq(Jobs) /\ Len(t) = Len(l) + 1
        /\ \A i \in 1 .. Len(l) + 1 :
             t[i] = IF i <= k THEN l[i] ELSE IF i = k + 1 THEN j ELSE l[i - 1]
    BY <1>2, <2>1, InsertAtPlaces
  <2> QED BY <1>1, <2>2
<1> HIDE DEF m
<1>4. /\ wait' \in [Jobs -> 0 .. PostponedWait] /\ wait'[j] = n
      /\ \A i \in 1 .. m : wait'[l[i]] = wait[l[i]] /\ wait[l[i]] \in Nat
      /\ n \in Nat
  <2>1. /\ n \in Nat /\ \A i \in Jobs : wait[i] \in Nat
    BY QueueConstants
  <2>2. wait' \in [Jobs -> 0 .. PostponedWait] /\ wait'[j] = n
    BY <1>1
  <2>3. \A i \in 1 .. m : l[i] \in Jobs /\ l[i] # j
    BY <1>2
  <2>4. \A i \in 1 .. m : wait'[l[i]] = wait[l[i]]
    BY <1>1, <2>3
  <2> QED BY <2>1, <2>2, <2>3, <2>4
<1> DEFINE old(i) == IF i <= k THEN i ELSE i - 1
<1>5. ASSUME NEW i \in 1 .. m + 1, i # k + 1
      PROVE  old(i) \in 1 .. m /\ line'[i] = l[old(i)]
  <2>1. i \in Int /\ m \in Int /\ k \in 0 .. m
    BY <1>2
  <2>2. line'[i] = IF i <= k THEN l[i] ELSE IF i = k + 1 THEN j ELSE l[i - 1]
    BY <1>3
  <2>3. CASE i <= k
    BY <2>1, <2>2, <2>3
  <2>4. CASE k + 1 < i
    <3>1. ~ (i <= k) /\ i - 1 \in 1 .. m
      BY <2>1, <2>4
    <3> QED BY <1>5, <2>2, <3>1
  <2> QED BY <1>5, <2>1, <2>3, <2>4
<1>6. line'[k + 1] = j /\ k + 1 \in 1 .. m + 1
  <2>1. k \in Int /\ k + 1 \in 1 .. m + 1 /\ ~ (k + 1 <= k)
    BY <1>2
  <2>2. line'[k + 1] = IF k + 1 <= k THEN l[k + 1] ELSE IF k + 1 = k + 1 THEN j ELSE l[k + 1 - 1]
    BY <1>3, <2>1
  <2> QED BY <2>1, <2>2
<1>7. \A a, b \in 1 .. m + 1 : line'[a] = line'[b] => a = b
  <2> SUFFICES ASSUME NEW a \in 1 .. m + 1, NEW b \in 1 .. m + 1, line'[a] = line'[b]
               PROVE  a = b
    OBVIOUS
  <2>1. CASE a # k + 1 /\ b # k + 1
    <3> HIDE DEF old
    <3>1. /\ old(a) \in 1 .. m /\ old(b) \in 1 .. m
          /\ l[old(a)] = l[old(b)]
      BY <1>5, <2>1
    <3>2. old(a) = old(b)
      BY <3>1 DEF InOrder, m
    <3> QED BY <1>1, <1>2, <2>1, <3>2 DEF old
  <2>2. CASE a = k + 1 \/ b = k + 1
    <3> HIDE DEF old
    <3>1. \A i \in 1 .. m + 1 : i # k + 1 => line'[i] \in J
      BY <1>2, <1>5
    <3> QED BY <1>6, <2>2, <3>1
  <2> QED BY <2>1, <2>2
<1>8. ASSUME NEW i \in Jobs
      PROVE  i \in J \cup {j} <=> \E a \in 1 .. m + 1 : line'[a] = i
  <2>1. ASSUME i \in J
        PROVE  \E a \in 1 .. m + 1 : line'[a] = i
    <3>1. PICK b \in 1 .. m : l[b] = i
      BY <2>1 DEF InOrder, m
    <3>2. CASE b <= k
      <4>1. b \in 1 .. m + 1 /\ line'[b] = l[b]
        BY <1>2, <1>3, <3>2
      <4> QED BY <3>1, <4>1
    <3>3. CASE b > k
      <4>1. b + 1 \in 1 .. m + 1 /\ ~ (b + 1 <= k) /\ b + 1 # k + 1 /\ (b + 1) - 1 = b
        BY <1>1, <1>2, <3>3
      <4> QED BY <1>3, <3>1, <4>1
    <3> QED BY <1>1, <1>2, <3>2, <3>3
  <2>2. ASSUME NEW a \in 1 .. m + 1, line'[a] = i
        PROVE  i \in J \cup {j}
    BY <1>2, <1>5, <1>6, <2>2
  <2> QED BY <1>6, <2>1, <2>2
<1>9. \A a, b \in 1 .. m + 1 : a < b => wait'[line'[a]] <= wait'[line'[b]]
  <2> SUFFICES ASSUME NEW a \in 1 .. m + 1, NEW b \in 1 .. m + 1, a < b
               PROVE  wait'[line'[a]] <= wait'[line'[b]]
    OBVIOUS
  <2>1. CASE a # k + 1 /\ b # k + 1
    <3>1. old(a) < old(b)
      BY <1>1, <1>2, <2>1
    <3>2. wait[l[old(a)]] <= wait[l[old(b)]]
      BY <1>5, <2>1, <3>1 DEF InOrder, m
    <3> QED BY <1>4, <1>5, <2>1, <3>2
  <2>2. CASE a = k + 1
    <3>1. b # k + 1 /\ old(b) \in k + 1 .. m
      BY <1>1, <1>2, <2>2
    <3>2. wait[l[old(b)]] >= n
      BY <1>1, <3>1 DEF m
    <3> QED BY <1>4, <1>5, <1>6, <2>2, <3>1, <3>2
  <2>3. CASE b = k + 1
    <3>1. a # k + 1 /\ old(a) \in 1 .. k
      BY <1>1, <1>2, <2>3
    <3>2. wait[l[old(a)]] <= n
      BY <1>1, <3>1
    <3> QED BY <1>4, <1>5, <1>6, <2>3, <3>1, <3>2
  <2> QED BY <2>1, <2>2, <2>3
<1> QED BY <1>3, <1>4, <1>7, <1>8, <1>9 DEF InOrder

\* The line without a job is the line of the others.
LEMMA WithoutInOrder ==
  ASSUME NEW J, InOrder(line, wait, J), wait \in [Jobs -> 0 .. PostponedWait], NEW j \in Jobs
  PROVE  InOrder(Queue!Without(j), wait, J \ {j})
<1> DEFINE m == Len(line)
<1>1. /\ line \in Seq(Jobs) /\ m \in Nat /\ DOMAIN line = 1 .. m
      /\ \A i \in 1 .. m : line[i] \in Jobs /\ wait[line[i]] \in Nat
  <2>1. line \in Seq(Jobs) /\ m \in Nat /\ DOMAIN line = 1 .. m
    BY LenProperties DEF InOrder
  <2>2. \A i \in 1 .. m : line[i] \in Jobs
    BY <2>1, ElementOfSeq
  <2> QED BY <2>1, <2>2, QueueConstants
<1>2. j \in Queue!ToSet(line) <=> \E i \in 1 .. m : line[i] = j
  BY <1>1 DEF Queue!ToSet
<1>3. CASE j \notin Queue!ToSet(line)
  <2>1. Queue!Without(j) = line /\ j \notin J
    BY <1>2, <1>3 DEF Queue!Without, InOrder
  <2>2. J \ {j} = J
    BY <2>1
  <2> QED BY <2>1, <2>2
<1>4. CASE j \in Queue!ToSet(line)
  <2> DEFINE k == CHOOSE i \in 1 .. m : line[i] = j
             t == Queue!Without(j)
  <2>1. k \in 1 .. m /\ line[k] = j
    BY <1>2, <1>4
  <2>2. t = Queue!RemoveAt(line, k)
    BY <1>4 DEF Queue!Without
  <2> HIDE DEF k, t
  <2>3. /\ t \in Seq(Jobs) /\ Len(t) = m - 1
        /\ \A i \in 1 .. m - 1 : t[i] = IF i < k THEN line[i] ELSE line[i + 1]
    BY <1>1, <2>1, <2>2, RemoveAtPlaces
  <2> HIDE DEF m
  <2> DEFINE old(i) == IF i < k THEN i ELSE i + 1
  <2>4. \A i \in 1 .. m - 1 : old(i) \in 1 .. m /\ old(i) # k /\ t[i] = line[old(i)]
    BY <1>1, <2>1, <2>3
  <2>5. \A a, b \in 1 .. m - 1 : (old(a) = old(b) => a = b) /\ (a < b => old(a) < old(b))
    BY <1>1, <2>1
  <2>6. \A a, b \in 1 .. m : /\ line[a] = line[b] => a = b
                             /\ a < b => wait[line[a]] <= wait[line[b]]
    BY DEF InOrder, m
  <2>7. ASSUME NEW i \in Jobs
        PROVE  i \in J \ {j} <=> \E a \in 1 .. m - 1 : t[a] = i
    <3>1. i \in J <=> \E b \in 1 .. m : line[b] = i
      BY DEF InOrder, m
    <3>2. ASSUME NEW b \in 1 .. m, line[b] = i, i # j
          PROVE  \E a \in 1 .. m - 1 : t[a] = i
      <4>1. CASE b < k
        <5>1. b \in 1 .. m - 1
          BY <1>1, <2>1, <4>1
        <5> QED BY <2>3, <3>2, <4>1, <5>1
      <4>2. CASE b > k
        <5>1. b - 1 \in 1 .. m - 1 /\ ~ (b - 1 < k) /\ (b - 1) + 1 = b
          BY <1>1, <2>1, <4>2
        <5> QED BY <2>3, <3>2, <5>1
      <4> QED BY <1>1, <2>1, <3>2, <4>1, <4>2
    <3>3. ASSUME NEW a \in 1 .. m - 1, t[a] = i
          PROVE  i # j /\ \E b \in 1 .. m : line[b] = i
      BY <2>1, <2>4, <2>6, <3>3
    <3> QED BY <3>1, <3>2, <3>3
  <2> HIDE DEF old
  <2>8. /\ \A a, b \in 1 .. m - 1 : t[a] = t[b] => a = b
        /\ \A a, b \in 1 .. m - 1 : a < b => wait[t[a]] <= wait[t[b]]
    BY <2>4, <2>5, <2>6
  <2> QED BY <2>3, <2>7, <2>8 DEF InOrder, t
<1> QED BY <1>3, <1>4

\* Only the times of the jobs in the line matter.
LEMMA InOrderCongruence ==
  ASSUME NEW J, NEW l, NEW w, NEW v, InOrder(l, w, J), \A j \in J : v[j] = w[j]
  PROVE  InOrder(l, v, J)
<1>1. \A a \in 1 .. Len(l) : l[a] \in Jobs /\ l[a] \in J
  <2>1. \A a \in 1 .. Len(l) : l[a] \in Jobs
    BY ElementOfSeq DEF InOrder
  <2> QED BY <2>1 DEF InOrder
<1> QED BY <1>1 DEF InOrder

\* What events do to the line: they leave the rows alone that workers have locked.
LEMMA EventsQueueInv ==
  ASSUME QueueInv, NEW j \in Jobs, Queue!Received(j) \/ Queue!Refused(j) \/ Queue!Placed(j)
  PROVE  QueueInv'
<1> DEFINE Others == Pending \ {j}
<1>1. /\ InOrder(line, wait, Pending) /\ wait \in [Jobs -> 0 .. PostponedWait]
      /\ status \in [Jobs -> {"none", "PENDING", "ASSIGNED", "PLACED"}]
      /\ refusals \in 0 .. MaxRefusals
  BY DEF QueueInv, QueueTyped
<1>2. InOrder(Queue!Without(j), wait, Others)
  BY <1>1, WithoutInOrder
<1>3. 0 \in 0 .. PostponedWait /\ RefusedWait \in 0 .. PostponedWait
  BY QueueConstants
<1>4. /\ InOrder(line', wait', Pending') /\ wait' \in [Jobs -> 0 .. PostponedWait]
      /\ status' \in [Jobs -> {"none", "PENDING", "ASSIGNED", "PLACED"}]
      /\ refusals' \in 0 .. MaxRefusals
      /\ j \notin Queue!Locked \/ status[j] = "none"
      /\ \A i \in Jobs \ {j} : status'[i] = status[i]
      /\ tried' = None /\ UNCHANGED <<worker, mutex, suitable, failures>>
  <2>1. CASE Queue!Received(j)
    <3>1. /\ Queue!Enter(line, j, 0) /\ status' = [status EXCEPT ![j] = "PENDING"]
          /\ status[j] = "none" /\ j \notin Pending
      BY <2>1 DEF Queue!Received, Pending
    <3>2. Pending' = Pending \cup {j}
      BY <1>1, <3>1 DEF Pending
    <3>3. /\ InOrder(line', wait', Pending \cup {j})
          /\ wait' \in [Jobs -> 0 .. PostponedWait]
      BY <1>1, <1>3, <3>1, EnterInOrder
    <3> QED BY <1>1, <2>1, <3>1, <3>2, <3>3 DEF Queue!Received
  <2>2. CASE Queue!Refused(j)
    <3>1. /\ Queue!Enter(Queue!Without(j), j, RefusedWait)
          /\ status' = [status EXCEPT ![j] = "PENDING"] /\ j \notin Others
      BY <2>2 DEF Queue!Refused
    <3>2. Pending' = Others \cup {j}
      BY <1>1, <3>1 DEF Pending
    <3> HIDE DEF Others
    <3>3. /\ InOrder(line', wait', Others \cup {j})
          /\ wait' \in [Jobs -> 0 .. PostponedWait]
      BY <1>1, <1>2, <1>3, <3>1, EnterInOrder
    <3>4. refusals' \in 0 .. MaxRefusals
      BY <1>1, <2>2, QueueConstants DEF Queue!Refused
    <3> QED BY <1>1, <2>2, <3>1, <3>2, <3>3, <3>4 DEF Queue!Refused
  <2>3. CASE Queue!Placed(j)
    <3>1. /\ line' = Queue!Without(j) /\ wait' = [wait EXCEPT ![j] = 0]
          /\ status' = [status EXCEPT ![j] = "PLACED"] /\ refusals' = refusals
      BY <2>3 DEF Queue!Placed
    <3>2. Pending' = Others
      BY <1>1, <3>1 DEF Pending
    <3>3. /\ wait' \in [Jobs -> 0 .. PostponedWait]
          /\ \A i \in Others : wait'[i] = wait[i]
      BY <1>1, <1>3, <3>1 DEF Pending
    <3> HIDE DEF Others
    <3>4. InOrder(line', wait', Others)
      BY <1>2, <3>1, <3>3, InOrderCongruence
    <3> QED BY <1>1, <2>3, <3>1, <3>2, <3>3, <3>4 DEF Queue!Placed
  <2> QED BY <2>1, <2>2, <2>3
<1>5. ASSUME NEW i \in Instances, worker[i].at # "idle"
      PROVE  worker[i].job \in Jobs \ {j} /\ status[worker[i].job] = "PENDING"
  <2>1. worker[i].job \in Jobs /\ status[worker[i].job] = "PENDING"
    BY <1>5 DEF QueueInv, RowsLocked
  <2>2. worker[i].job \in Queue!Locked
    BY <2>1, QueueConstants DEF Queue!Locked
  <2> QED BY <1>4, <2>1, <2>2
<1>6. QueueTyped'
  BY <1>4 DEF QueueInv, QueueTyped
<1>7. RowsLocked'
  BY <1>4, <1>5 DEF QueueInv, RowsLocked
<1> QED BY <1>6, <1>7 DEF QueueInv

\* Time passes for all jobs alike, but for those that are due.
LEMMA TickQueueInv ==
  ASSUME QueueInv, Queue!Tick
  PROVE  QueueInv'
<1>1. /\ wait' = [j \in Jobs |-> IF wait[j] > 0 THEN wait[j] - 1 ELSE 0] /\ tried' = None
      /\ UNCHANGED <<line, status, worker, mutex, suitable, refusals, failures>>
  BY DEF Queue!Tick
<1>2. InOrder(line, wait, Pending) /\ wait \in [Jobs -> 0 .. PostponedWait]
  BY DEF QueueInv, QueueTyped
<1>3. wait' \in [Jobs -> 0 .. PostponedWait]
  BY <1>1, <1>2, QueueConstants
<1>4. \A i, j \in Jobs : wait[i] <= wait[j] => wait'[i] <= wait'[j]
  BY <1>1, <1>2, QueueConstants
<1>5. \A a \in 1 .. Len(line) : line[a] \in Jobs
  BY <1>2, ElementOfSeq DEF InOrder
<1>6. InOrder(line, wait', Pending)
  BY <1>2, <1>4, <1>5 DEF InOrder
<1>7. QueueTyped'
  <2>1. line' = line /\ Pending' = Pending
    BY <1>1 DEF Pending
  <2> QED BY <1>1, <1>3, <1>6, <2>1 DEF QueueInv, QueueTyped
<1>8. RowsLocked'
  BY <1>1 DEF QueueInv, RowsLocked
<1> QED BY <1>7, <1>8 DEF QueueInv

\* A worker takes a row that nobody has locked.
LEMMA PickQueueInv ==
  ASSUME QueueInv, NEW i \in Instances, Queue!Pick(i)
  PROVE  QueueInv'
<1>1. PICK j \in Jobs :
        /\ Queue!First(j)
        /\ mutex' = [mutex EXCEPT ![WarehouseOf[j]] = i]
        /\ worker' = [worker EXCEPT ![i] = [Queue!Free EXCEPT !.at = "picked", !.job = j]]
  BY DEF Queue!Pick
<1>2. /\ tried' = None /\ UNCHANGED <<line, wait, status, suitable, refusals, failures>>
  BY DEF Queue!Pick
<1> DEFINE taken == [Queue!Free EXCEPT !.at = "picked", !.job = j]
<1>3. /\ taken \in [at : {"idle", "picked", "decided"}, job : Jobs \cup {None}, found : BOOLEAN]
      /\ taken.at = "picked" /\ taken.job = j
  BY DEF Queue!Free
<1> HIDE DEF taken
<1>4. status[j] = "PENDING" /\ j \notin Queue!Locked
  BY <1>1 DEF QueueInv, QueueTyped, InOrder, Pending, Queue!First
<1>5. /\ worker \in [Instances -> [at : {"idle", "picked", "decided"},
                                   job : Jobs \cup {None}, found : BOOLEAN]]
      /\ mutex \in [Warehouses -> Instances \cup {None}]
  BY DEF QueueInv, QueueTyped
<1>6. /\ worker' \in [Instances -> [at : {"idle", "picked", "decided"},
                                    job : Jobs \cup {None}, found : BOOLEAN]]
      /\ mutex' \in [Warehouses -> Instances \cup {None}]
      /\ \A k \in Instances : worker'[k] = IF k = i THEN taken ELSE worker[k]
  BY <1>1, <1>3, <1>5 DEF taken
<1>7. QueueTyped'
  BY <1>2, <1>6 DEF QueueInv, QueueTyped, Pending
<1>8. \A k \in Instances : worker[k].at # "idle" => worker[k].job # j
  BY <1>4, QueueConstants DEF Queue!Locked
<1>9. RowsLocked'
  BY <1>2, <1>3, <1>4, <1>6, <1>8 DEF QueueInv, RowsLocked
<1> QED BY <1>7, <1>9 DEF QueueInv

\* A worker that is done, or fails, lets its row go.
LEMMA FreeQueueInv ==
  ASSUME QueueTyped, RowsLocked, NEW i \in Instances,
         worker' = [worker EXCEPT ![i] = Queue!Free],
         \A k \in Instances \ {i} :
           worker[k].at # "idle" => status'[worker[k].job] = status[worker[k].job]
  PROVE  /\ RowsLocked'
         /\ worker' \in [Instances -> [at : {"idle", "picked", "decided"},
                                       job : Jobs \cup {None}, found : BOOLEAN]]
<1>1. Queue!Free \in [at : {"idle", "picked", "decided"}, job : Jobs \cup {None},
                      found : BOOLEAN]
  BY DEF Queue!Free
<1>2. Queue!Free.at = "idle"
  BY DEF Queue!Free
<1>3. /\ worker' \in [Instances -> [at : {"idle", "picked", "decided"},
                                    job : Jobs \cup {None}, found : BOOLEAN]]
      /\ \A k \in Instances : worker'[k] = IF k = i THEN Queue!Free ELSE worker[k]
  BY <1>1 DEF QueueTyped
<1>4. RowsLocked'
  BY <1>2, <1>3 DEF RowsLocked
<1> QED BY <1>3, <1>4

\* The end of a worker's transaction: the job leaves the line or goes to its place.
LEMMA EndQueueInv ==
  ASSUME QueueInv, NEW i \in Instances, Queue!Commit(i) \/ Queue!Postpone(i)
  PROVE  QueueInv'
<1> DEFINE j == worker[i].job
           Others == Pending \ {j}
<1>1. j \in Jobs /\ status[j] = "PENDING"
  BY DEF QueueInv, RowsLocked, Queue!Commit, Queue!Postpone
<1>2. /\ InOrder(line, wait, Pending) /\ wait \in [Jobs -> 0 .. PostponedWait]
      /\ status \in [Jobs -> {"none", "PENDING", "ASSIGNED", "PLACED"}]
  BY DEF QueueInv, QueueTyped
<1>3. InOrder(Queue!Without(j), wait, Others)
  BY <1>1, <1>2, WithoutInOrder
<1>4. /\ InOrder(line', wait', Pending') /\ wait' \in [Jobs -> 0 .. PostponedWait]
      /\ status' \in [Jobs -> {"none", "PENDING", "ASSIGNED", "PLACED"}]
      /\ \A k \in Jobs \ {j} : status'[k] = status[k]
      /\ tried' = j /\ worker' = [worker EXCEPT ![i] = Queue!Free]
      /\ UNCHANGED <<mutex, suitable, refusals, failures>>
  <2>1. CASE Queue!Commit(i)
    <3>1. PICK s \in {"ASSIGNED", "PLACED"} : status' = [status EXCEPT ![j] = s]
      BY <2>1 DEF Queue!Commit
    <3>2. line' = Queue!Without(j) /\ wait' = wait
      BY <2>1 DEF Queue!Commit
    <3>3. Pending' = Others
      BY <1>2, <3>1 DEF Pending
    <3>4. /\ status' \in [Jobs -> {"none", "PENDING", "ASSIGNED", "PLACED"}]
          /\ \A k \in Jobs \ {j} : status'[k] = status[k]
      BY <1>2, <3>1
    <3> HIDE DEF Others
    <3> QED BY <1>2, <1>3, <2>1, <3>2, <3>3, <3>4 DEF Queue!Commit
  <2>2. CASE Queue!Postpone(i)
    <3>1. Queue!Enter(Queue!Without(j), j, PostponedWait) /\ status' = status /\ j \notin Others
      BY <2>2 DEF Queue!Postpone
    <3>2. Pending' = Others \cup {j}
      BY <1>1, <3>1 DEF Pending
    <3>3. PostponedWait \in 0 .. PostponedWait
      BY QueueConstants
    <3> HIDE DEF Others
    <3>4. /\ InOrder(line', wait', Others \cup {j})
          /\ wait' \in [Jobs -> 0 .. PostponedWait]
      BY <1>1, <1>2, <1>3, <3>1, <3>3, EnterInOrder
    <3> QED BY <1>2, <2>2, <3>1, <3>2, <3>4 DEF Queue!Postpone
  <2> QED BY <2>1, <2>2
<1>5. worker[i].at # "idle"
  BY DEF Queue!Commit, Queue!Postpone
<1>6. \A k \in Instances \ {i} :
        worker[k].at # "idle" => status'[worker[k].job] = status[worker[k].job]
  <2>1. \A k \in Instances \ {i} : worker[k].at # "idle" => worker[k].job \in Jobs \ {j}
    BY <1>5 DEF QueueInv, RowsLocked
  <2> QED BY <1>4, <2>1
<1>7. /\ RowsLocked'
      /\ worker' \in [Instances -> [at : {"idle", "picked", "decided"},
                                    job : Jobs \cup {None}, found : BOOLEAN]]
  BY <1>4, <1>6, FreeQueueInv DEF QueueInv
<1>8. QueueTyped'
  BY <1>1, <1>4, <1>7 DEF QueueInv, QueueTyped
<1> QED BY <1>7, <1>8 DEF QueueInv

\* Decisions, failures, keys that expire and locations that change leave the line.
LEMMA OthersQueueInv ==
  ASSUME QueueInv,
         \/ \E i \in Instances : Queue!Decide(i) \/ Queue!Fail(i)
         \/ \E w \in Warehouses : Queue!Expire(w)
         \/ \E j \in Jobs : Queue!Change(j)
  PROVE  QueueInv'
<1>1. /\ mutex \in [Warehouses -> Instances \cup {None}] /\ suitable \subseteq Jobs
      /\ failures \in 0 .. MaxFailures /\ RowsLocked /\ QueueTyped
      /\ worker \in [Instances -> [at : {"idle", "picked", "decided"},
                                   job : Jobs \cup {None}, found : BOOLEAN]]
  BY DEF QueueInv, QueueTyped
<1>2. \A i \in Instances : \A w : Queue!Released(i, w) \in [Warehouses -> Instances \cup {None}]
  BY <1>1 DEF Queue!Released
<1>3. /\ UNCHANGED <<line, wait, status, refusals>>
      /\ mutex' \in [Warehouses -> Instances \cup {None}] /\ suitable' \subseteq Jobs
      /\ tried' = None /\ failures' \in 0 .. MaxFailures
      /\ RowsLocked'
      /\ worker' \in [Instances -> [at : {"idle", "picked", "decided"},
                                    job : Jobs \cup {None}, found : BOOLEAN]]
  <2>1. ASSUME NEW i \in Instances, Queue!Decide(i)
        PROVE  <1>3!:
    <3>1. /\ UNCHANGED <<line, wait, status, suitable, refusals, failures>> /\ tried' = None
          /\ mutex' = Queue!Released(i, WarehouseOf[worker[i].job])
          /\ worker' = [worker EXCEPT ![i].at = "decided",
                                      ![i].found = worker[i].job \in suitable]
          /\ worker[i].at = "picked"
      BY <2>1 DEF Queue!Decide
    <3>2. /\ worker' \in [Instances -> [at : {"idle", "picked", "decided"},
                                        job : Jobs \cup {None}, found : BOOLEAN]]
          /\ \A k \in Instances :
               worker'[k].job = worker[k].job /\ (worker'[k].at # "idle" => worker[k].at # "idle")
      <4> DEFINE found == worker[i].job \in suitable
                 decided == [worker[i] EXCEPT !.at = "decided", !.found = found]
      <4>1. found \in BOOLEAN
        OBVIOUS
      <4>2. worker' = [worker EXCEPT ![i] = decided]
        BY <1>1, <3>1
      <4> HIDE DEF found
      <4>3. /\ decided \in [at : {"idle", "picked", "decided"}, job : Jobs \cup {None},
                            found : BOOLEAN]
            /\ decided.job = worker[i].job
        BY <1>1, <4>1
      <4> HIDE DEF decided
      <4> QED BY <1>1, <3>1, <4>2, <4>3
    <3>3. RowsLocked'
      BY <1>1, <3>1, <3>2 DEF RowsLocked
    <3> QED BY <1>1, <1>2, <3>1, <3>2, <3>3
  <2>2. ASSUME NEW i \in Instances, Queue!Fail(i)
        PROVE  <1>3!:
    <3>1. /\ UNCHANGED <<line, wait, status, suitable, refusals>> /\ tried' = None
          /\ mutex' \in {mutex, Queue!Released(i, WarehouseOf[worker[i].job])}
          /\ worker' = [worker EXCEPT ![i] = Queue!Free]
          /\ failures' = failures + 1 /\ failures < MaxFailures
      BY <2>2 DEF Queue!Fail
    <3>2. /\ RowsLocked'
          /\ worker' \in [Instances -> [at : {"idle", "picked", "decided"},
                                        job : Jobs \cup {None}, found : BOOLEAN]]
      BY <1>1, <3>1, FreeQueueInv
    <3>3. failures' \in 0 .. MaxFailures
      BY <1>1, <3>1, QueueConstants
    <3> QED BY <1>1, <1>2, <3>1, <3>2, <3>3
  <2>3. ASSUME NEW w \in Warehouses, Queue!Expire(w)
        PROVE  <1>3!:
    BY <1>1, <2>3 DEF Queue!Expire, RowsLocked
  <2>4. ASSUME NEW j \in Jobs, Queue!Change(j)
        PROVE  <1>3!:
    BY <1>1, <2>4 DEF Queue!Change, RowsLocked
  <2> QED BY <2>1, <2>2, <2>3, <2>4
<1>4. QueueTyped'
  BY <1>1, <1>3 DEF QueueTyped, Pending
<1> QED BY <1>3, <1>4 DEF QueueInv

\* The invariant of the line holds at first, and every step keeps it.
LEMMA QueueInductive ==
  /\ Init => QueueInv
  /\ QueueInv /\ [Next]_vars => QueueInv'
<1>1. ASSUME Init
      PROVE  QueueInv
  <2>1. Queue!Init
    BY <1>1 DEF Init
  <2>2. Pending = {} /\ line = <<>> /\ Len(line) = 0 /\ line \in Seq(Jobs)
    BY <2>1, EmptySeq DEF Queue!Init, Pending
  <2>3. InOrder(line, wait, Pending)
    BY <2>2 DEF InOrder
  <2>4. 0 \in 0 .. PostponedWait /\ 0 \in 0 .. MaxRefusals /\ 0 \in 0 .. MaxFailures
    BY QueueConstants
  <2>5. QueueTyped
    BY <2>1, <2>3, <2>4 DEF QueueTyped, Queue!Init, Queue!Free
  <2>6. RowsLocked
    BY <2>1 DEF RowsLocked, Queue!Init, Queue!Free
  <2> QED BY <2>5, <2>6 DEF QueueInv
<1>2. ASSUME QueueInv, [Next]_vars
      PROVE  QueueInv'
  <2>1. CASE Queue!Next
    <3>1. \/ \E j \in Jobs : Queue!Received(j) \/ Queue!Refused(j) \/ Queue!Placed(j)
          \/ Queue!Tick
          \/ \E i \in Instances : Queue!Pick(i)
          \/ \E i \in Instances : Queue!Commit(i) \/ Queue!Postpone(i)
          \/ \/ \E i \in Instances : Queue!Decide(i) \/ Queue!Fail(i)
             \/ \E w \in Warehouses : Queue!Expire(w)
             \/ \E j \in Jobs : Queue!Change(j)
      BY <2>1 DEF Queue!Next, Queue!Work
    <3> QED BY <1>2, <3>1, EventsQueueInv, TickQueueInv, PickQueueInv, EndQueueInv,
               OthersQueueInv
  <2>2. CASE UNCHANGED queueVars
    BY <1>2, <2>2 DEF queueVars, QueueInv, QueueTyped, Pending, RowsLocked
  <2>3. Queue!Next \/ UNCHANGED queueVars
    BY <1>2 DEF Next, vars
  <2> QED BY <2>1, <2>2, <2>3
<1> QED BY <1>1, <1>2

-----------------------------------------------------------------------------
(***************************************************************************)
(* The theorems.                                                           *)
(***************************************************************************)
Inv == CatInv /\ LayoutInv /\ ChoiceInv /\ AuditInv /\ QueueInv

\* The parts side by side keep their invariants.
THEOREM ServicesInvariant == FairSpec => []Inv
<1>1. Init => Inv
  BY CatInductive, LayoutInductive, ChoiceInductive, AuditInductive, QueueInductive DEF Inv
<1>2. Inv /\ [Next]_vars => Inv'
  BY CatInductive, LayoutInductive, ChoiceInductive, AuditInductive, QueueInductive DEF Inv
<1> QED BY <1>1, <1>2, PTL DEF FairSpec

\* All tables, receipts, transactions, scans and workers stay what they are; every
\* committed row of the layout has a committed parent of its kind; and the line of
\* placement jobs holds each pending job once, by the time of its next attempt.
THEOREM ServicesTypes == FairSpec => []TypeOK
<1>1. Inv => TypeOK
  BY LayoutInvImplies, QueueInvImplies DEF Inv, CatInv, AuditInv, AuditTyped, TypeOK
<1> QED BY <1>1, ServicesInvariant, PTL

\* ProductService.update and Receive: what a lot has copied from its product is true
\* for ever, and a receipt that begins after a deactivation stores nothing.
THEOREM ServicesLotsMatch == FairSpec => []LotsMatchProducts
<1>1. Inv => LotsMatchProducts
  BY DEF Inv, CatInv, LotsMatchProducts
<1> QED BY <1>1, ServicesInvariant, PTL

\* The audit trail's pages, limit and offset while rows are inserted anywhere: no
\* row that was there when the scan began is skipped.
THEOREM ServicesNothingSkipped == FairSpec => []NothingSkipped
<1>1. Inv => NothingSkipped
  BY AuditInvImplies DEF Inv, NothingSkipped
<1> QED BY <1>1, ServicesInvariant, PTL

\* WarehouseService's creations, however many overlap: a code is one location of a
\* warehouse, which has the warehouse and type of its rack's zone.
THEOREM ServicesLocations == FairSpec => []LocationsConsistent
<1>1. Inv => LocationsConsistent
  BY LayoutInvImplies DEF Inv, LocationsConsistent
<1> QED BY <1>1, ServicesInvariant, PTL

\* The loop of assign(): the best candidate is chosen, in whatever order they come.
THEOREM ServicesChoice == FairSpec => []ChoiceIsBest
<1>1. Inv => ChoiceIsBest
  BY ChoiceInvImplies DEF Inv, ChoiceInv, ChoiceIsBest
<1> QED BY <1>1, ServicesInvariant, PTL

\* Score(): no factor outgrows its weight, and the emptier and nearer one is better,
\* for all limits, loads and distances.
THEOREM ServicesScore == FairSpec => []Choice!ScoreRanks
<1>1. Inv => Choice!ScoreRanks
  BY ChoiceInvImplies DEF Inv
<1> QED BY <1>1, ServicesInvariant, PTL

=============================================================================
