------------------------------ MODULE AtomicLot ------------------------------
\* What the inventory service promises about concurrent work on one lot: work
\* that a key identifies (an Idempotency-Key or an event id) is done at most
\* once, in one step, on the lot as it is at that step. Commands implements it.
EXTENDS Integers

CONSTANTS
  Keys,     \* Idempotency-Keys and event ids
  Works,    \* [op: {"adjust", "write-off", "reserve"}, n: Nat]
  Units,    \* units of the lot at first
  None      \* no row

VARIABLES
  lot,      \* [quantity, reserved]
  memo      \* memo[k]: the work done for k and what it reported, or None

-----------------------------------------------------------------------------
Available(x) == x.quantity - x.reserved

\* Whether a transaction that read the lot as x goes through. A reservation
\* always does: without stock it commits its rejection.
Accepts(w, x) ==
  CASE w.op = "adjust"    -> w.n >= x.reserved
    [] w.op = "write-off" -> w.n \in 1 .. Available(x)
    [] w.op = "reserve"   -> TRUE

Take(w, x) == IF w.n <= Available(x) THEN w.n ELSE 0

\* The UPDATE of a transaction that read the lot as `seen` and finds it as x:
\* adjust writes the counted quantity, the others add to what the row holds.
Update(w, seen, x) ==
  CASE w.op = "adjust"    -> [x EXCEPT !.quantity = w.n]
    [] w.op = "write-off" -> [x EXCEPT !.quantity = @ - w.n]
    [] w.op = "reserve"   -> [x EXCEPT !.reserved = @ + Take(w, seen)]

\* What it reports: the difference announced, or the units reserved.
Report(w, seen) ==
  CASE w.op = "adjust"    -> w.n - seen.quantity
    [] w.op = "write-off" -> - w.n
    [] w.op = "reserve"   -> Take(w, seen)

-----------------------------------------------------------------------------
Init ==
  /\ lot = [quantity |-> Units, reserved |-> 0]
  /\ memo = [k \in Keys |-> None]

Do(k, w) ==
  /\ memo[k] = None
  /\ Accepts(w, lot)
  /\ lot' = Update(w, lot, lot)
  /\ memo' = [memo EXCEPT ![k] = [work |-> w, n |-> Report(w, lot)]]

Next == \E k \in Keys, w \in Works : Do(k, w)

Spec == Init /\ [][Next]_<<lot, memo>>
=============================================================================
