------------------------------- MODULE MCServices ------------------------------
\* The instance of Services that TLC checks.
EXTENDS Services

CONSTANTS p1, p2, j1, j2, j3, w1, w2

\* Ids, times of emission and arrival all in different orders; an event of no
\* product and one of both.
Event(id, timestamp, products) == [id |-> id, timestamp |-> timestamp, products |-> products]

MCEvents == {Event(3, 1, {p1}), Event(5, 2, {p2}), Event(1, 2, {p1, p2}),
           Event(4, 3, {p1}), Event(2, 4, {})}

\* Locations of two sizes, with loads from empty to full in either dimension, at
\* three distances; three ids. 840 is divisible by 2, 4, 6, 12, and by 10, 12 and 20.
Candidate(id, w, v, lw, lv, distance, matches, state) ==
  [id |-> id, max |-> [weight |-> w, volume |-> v], load |-> [weight |-> lw, volume |-> lv],
   distance |-> distance, matches |-> matches, status |-> state]

MCCandidates ==
  UNION {
    {Candidate(id, 4, 6, l[1], l[2], d, TRUE, "AVAILABLE") :
       id \in 1 .. 3, l \in {<<0, 0>>, <<1, 0>>, <<2, 4>>, <<2, 5>>}, d \in {0, 2, 10}},
    {Candidate(id, 2, 12, l[1], l[2], 0, TRUE, "PARTIALLY_OCCUPIED") :
       id \in 1 .. 3, l \in {<<0, 3>>, <<1, 0>>}},
    {Candidate(id, 4, 6, 0, 0, 0, FALSE, "AVAILABLE") : id \in {1, 2}},
    {Candidate(id, 4, 6, 0, 0, 0, TRUE, "BLOCKED") : id \in {2, 3}} }

MCDemands == {[weight |-> 1, volume |-> 1], [weight |-> 2, volume |-> 2]}

\* Two jobs of the three in one warehouse.
MCWarehouseOf == [j \in Jobs |-> IF j = j3 THEN w2 ELSE w1]
=============================================================================
