------------------------------- MODULE Catalogue ------------------------------
\* Products and the receipts that rely on them: the product service edits its
\* rows while the inventory service asks for them over HTTP and stores a copy of
\* their physical properties in each lot it receives.
EXTENDS Integers

CONSTANTS
  Products, Receipts,
  StorageTypes,   \* stands for weight, dimensions and storage type
  Names,          \* stands for name, description, category and barcode
  None

VARIABLES
  rows,       \* rows[p]: the product's row, or None
  receipts,   \* receipts[r]: the transaction that receives goods
  lots        \* lots[r]: the lot that receipt r has stored, or None

vars == <<rows, receipts, lots>>

ProductRows == [name : Names, storage : StorageTypes, active : BOOLEAN]
Inputs == [name : Names, storage : StorageTypes]

CatalogueAssumption == None \notin Products \cup StorageTypes \cup ProductRows

NoReceipt == [at |-> "idle", product |-> None, storage |-> None, late |-> FALSE]

Active(p) == rows[p] # None /\ rows[p].active
Deactivated(p) == rows[p] # None /\ ~ rows[p].active

Init ==
  /\ rows = [p \in Products |-> None]
  /\ receipts = [r \in Receipts |-> NoReceipt]
  /\ lots = [r \in Receipts |-> None]

-----------------------------------------------------------------------------
\* The product service; update and delete hold the lock of the row.
Create(p, q) ==
  /\ rows[p] = None
  /\ rows' = [rows EXCEPT ![p] = [name |-> q.name, storage |-> q.storage, active |-> TRUE]]
  /\ UNCHANGED <<receipts, lots>>

\* Seeded fault: the whole input is mapped, and the product is active again.
Patched_Whole(row, q) == [name |-> q.name, storage |-> row.storage, active |-> TRUE]

\* ProductMapper.patch writes the describing fields only.
Patched(row, q) == [row EXCEPT !.name = q.name]

\* Seeded fault: the physical properties may change.
Update_Physical(p, q) ==
  /\ rows[p] # None
  /\ rows' = [rows EXCEPT ![p].name = q.name, ![p].storage = q.storage]
  /\ UNCHANGED <<receipts, lots>>

Update(p, q) ==
  /\ rows[p] # None
  /\ rows[p].storage = q.storage
  /\ rows' = [rows EXCEPT ![p] = Patched(@, q)]
  /\ UNCHANGED <<receipts, lots>>

Delete(p) ==
  /\ rows[p] # None
  /\ rows' = [rows EXCEPT ![p].active = FALSE]
  /\ UNCHANGED <<receipts, lots>>

-----------------------------------------------------------------------------
\* Receive: the transaction begins, asks for the product, and stores the lot.
\* `late` notes whether the product was deactivated before it began.
Begin(r, p) ==
  /\ receipts[r] = NoReceipt /\ lots[r] = None
  /\ receipts' = [receipts EXCEPT ![r] =
                   [NoReceipt EXCEPT !.at = "asking", !.product = p, !.late = Deactivated(p)]]
  /\ UNCHANGED <<rows, lots>>

\* Seeded fault: an answer without a product counts as one.
Lookup_Unfound(r) ==
  LET p == receipts[r].product IN
  /\ receipts[r].at = "asking"
  /\ receipts' = [receipts EXCEPT ![r].at = "storing",
                   ![r].storage = IF rows[p] = None THEN None ELSE rows[p].storage]
  /\ UNCHANGED <<rows, lots>>

Lookup(r) ==
  LET p == receipts[r].product IN
  /\ receipts[r].at = "asking"
  /\ Active(p)
  /\ receipts' = [receipts EXCEPT ![r].at = "storing", ![r].storage = rows[p].storage]
  /\ UNCHANGED <<rows, lots>>

Store(r) ==
  /\ receipts[r].at = "storing"
  /\ lots' = [lots EXCEPT ![r] = [product |-> receipts[r].product,
                                  storage |-> receipts[r].storage,
                                  late |-> receipts[r].late]]
  /\ receipts' = [receipts EXCEPT ![r] = NoReceipt]
  /\ UNCHANGED rows

\* Product missing or inactive, dependency unavailable, other input invalid,
\* crash: rolled back.
Abort(r) ==
  /\ receipts[r] # NoReceipt
  /\ receipts' = [receipts EXCEPT ![r] = NoReceipt]
  /\ UNCHANGED <<rows, lots>>

Next ==
  \/ \E p \in Products :
       \/ \E q \in Inputs : Create(p, q) \/ Update(p, q)
       \/ Delete(p)
       \/ \E r \in Receipts : Begin(r, p)
  \/ \E r \in Receipts : Lookup(r) \/ Store(r) \/ Abort(r)

Spec == Init /\ [][Next]_vars

-----------------------------------------------------------------------------
\* Types of the two databases and of the receipts under way.
TypeOK ==
  /\ rows \in [Products -> ProductRows \cup {None}]
  /\ receipts \in [Receipts -> [at : {"idle", "asking", "storing"},
                                product : Products \cup {None},
                                storage : StorageTypes \cup {None}, late : BOOLEAN]]
  /\ lots \in [Receipts -> [product : Products, storage : StorageTypes,
                            late : BOOLEAN] \cup {None}]

\* A lot agrees with the catalogue. The copy it keeps of its product's physical
\* properties, read before other transactions of the product service committed,
\* is true for ever: what the capacity ledger counts is what the catalogue shows.
\* And no lot is stored by a receipt that began once its product was deactivated,
\* whatever edits the product meanwhile.
LotsMatchProducts ==
  \A r \in Receipts : lots[r] # None =>
    /\ rows[lots[r].product] # None
    /\ lots[r].storage = rows[lots[r].product].storage
    /\ ~ lots[r].late
=============================================================================
