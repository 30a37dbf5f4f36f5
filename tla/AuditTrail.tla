------------------------------ MODULE AuditTrail ------------------------------
\* The audit service: it appends every event it is delivered, in any order and
\* more than once, while clients page through the trail with limit and offset.
EXTENDS Integers, FiniteSets, Sequences, SequencesExt, FiniteSetsExt

CONSTANTS
  Events,     \* [id, timestamp, products]: what other services emit
  Products,   \* filters of GET /audit/products/{product}
  Limits,     \* page sizes clients ask for
  None

AuditAssumption ==
  /\ \A e \in Events : e.id \in Nat /\ e.timestamp \in Nat /\ e.products \subseteq Products
  /\ \A e, f \in Events : e.id = f.id => e = f
  /\ Limits \subseteq 1 .. 500
  /\ None \notin Products

VARIABLES
  trail,    \* rows of audit_events
  scan      \* the client's scan: filter, page size, rows got, rows there at first

vars == <<trail, scan>>

\* The product filter: the event names the product, or one of its items does.
Matching(rows, filter) ==
  {e \in rows : filter = None \/ filter \in e.products}

\* Seeded fault: rows are listed as their random ids sort.
Before_Id(e, f) == e.id < f.id

\* ORDER BY timestamp, id: the i-th row has i - 1 rows before it.
Before(e, f) ==
  \/ e.timestamp < f.timestamp
  \/ e.timestamp = f.timestamp /\ e.id < f.id

Listed(rows) ==
  [i \in 1 .. Cardinality(rows) |->
     CHOOSE e \in rows : Cardinality({f \in rows : Before(f, e)}) = i - 1]

\* LIMIT and OFFSET.
Slice(all, limit, offset) ==
  SubSeq(all, offset + 1, IF offset + limit < Len(all) THEN offset + limit ELSE Len(all))

\* Seeded fault: the limit applies to the rows before they are filtered.
Page_FilteredLate(filter, limit, offset) ==
  SelectSeq(Slice(Listed(trail), limit, offset), LAMBDA e : e \in Matching(trail, filter))

\* A page is cut from what matches at the moment of the query.
Page(filter, limit, offset) == Slice(Listed(Matching(trail, filter)), limit, offset)

-----------------------------------------------------------------------------
NoScan == [filter |-> None, limit |-> 0, got |-> <<>>, first |-> {}, over |-> TRUE]

Init == trail = {} /\ scan = NoScan

\* Seeded fault: an event that comes again is recorded with the time it came.
Handle_Restamped(e) ==
  /\ trail' = {r \in trail : r.id # e.id}
      \cup {IF \E r \in trail : r.id = e.id
            THEN [e EXCEPT !.timestamp = 1 + Max({r.timestamp : r \in trail})] ELSE e}
  /\ UNCHANGED scan

\* INSERT ... ON CONFLICT DO NOTHING, keyed by the event's id; the timestamp is
\* the emitting service's.
Handle(e) ==
  /\ trail' = trail \cup {e}
  /\ UNCHANGED scan

Open(filter, limit) ==
  /\ scan.over
  /\ scan' = [filter |-> filter, limit |-> limit, got |-> <<>>,
              first |-> Matching(trail, filter), over |-> FALSE]
  /\ UNCHANGED trail

\* The next page starts where the rows got so far end; a short page is the last.
Fetch ==
  LET page == Page(scan.filter, scan.limit, Len(scan.got)) IN
  /\ ~ scan.over
  /\ scan' = [scan EXCEPT !.got = @ \o page, !.over = Len(page) < scan.limit]
  /\ UNCHANGED trail

Next ==
  \/ \E e \in Events : Handle(e)
  \/ \E filter \in Products \cup {None}, limit \in Limits : Open(filter, limit)
  \/ Fetch

Spec == Init /\ [][Next]_vars

-----------------------------------------------------------------------------
\* Types; an event is in the trail once, as it was emitted.
TypeOK ==
  /\ trail \subseteq Events
  /\ scan \in [filter : Products \cup {None}, limit : Limits \cup {0},
              got : Seq(Events), first : SUBSET Events, over : BOOLEAN]

\* Late and repeated events change the offsets under a client that is paging. At
\* any page, no older row that was there at first is missing before a younger one,
\* so that the client may stop or resume at the last row it has; a finished scan
\* has shown every row that was there when it began.
NothingSkipped ==
  /\ \A i \in 1 .. Len(scan.got) : \A e \in scan.first :
       e.timestamp < scan.got[i].timestamp => e \in ToSet(SubSeq(scan.got, 1, i))
  /\ scan.over => scan.first \subseteq ToSet(scan.got)
=============================================================================
