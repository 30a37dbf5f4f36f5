---------------------------- MODULE PlacementQueue ----------------------------
\* The order in which the placement workers take jobs: by next_attempt, one job
\* a tick, under a row lock and a mutex per warehouse. Putaway assumes that every
\* due job gets its turn; this module is where that comes from.
EXTENDS Integers, Sequences, FiniteSets, SequencesExt

CONSTANTS
  Jobs, Instances, Warehouses,
  WarehouseOf,      \* WarehouseOf[j]
  RefusedWait,      \* 3 seconds, in units of the clock
  PostponedWait,    \* 10 seconds
  MaxRefusals, MaxFailures,
  None

QueueAssumption ==
  /\ WarehouseOf \in [Jobs -> Warehouses]
  /\ RefusedWait \in 1 .. PostponedWait /\ PostponedWait \in Nat
  /\ MaxRefusals \in Nat /\ MaxFailures \in Nat
  /\ None \notin Jobs \cup Instances

VARIABLES
  line,       \* the PENDING jobs by next_attempt
  wait,       \* wait[j]: time until next_attempt, 0 when due
  status,     \* placement_jobs.status, "none" before the receipt
  worker,     \* worker[i]: the job whose row instance i has locked, and its step
  mutex,      \* mutex[w]: the owner of placement:w in Redis, or None
  suitable,   \* the jobs some location can take
  tried,      \* the job of the attempt that has just ended, or None
  refusals, failures

vars == <<line, wait, status, worker, mutex, suitable, tried, refusals, failures>>

Free == [at |-> "idle", job |-> None, found |-> FALSE]

Locked == {worker[i].job : i \in Instances} \ {None}
Due(j) == wait[j] = 0

Init ==
  /\ line = <<>> /\ wait = [j \in Jobs |-> 0]
  /\ status = [j \in Jobs |-> "none"]
  /\ worker = [i \in Instances |-> Free]
  /\ mutex = [w \in Warehouses |-> None]
  /\ suitable = {} /\ tried = None
  /\ refusals = 0 /\ failures = 0

\* The line without job j.
Without(j) ==
  IF j \in ToSet(line) THEN RemoveAt(line, CHOOSE i \in 1 .. Len(line) : line[i] = j)
  ELSE line

\* job j enters the line with n units to wait: behind the jobs that are due
\* earlier, before those that are due later, anywhere among those of its unit.
Enter(rest, j, n) ==
  \E k \in 0 .. Len(rest) :
    /\ \A i \in 1 .. k : wait[rest[i]] <= n
    /\ \A i \in k + 1 .. Len(rest) : wait[rest[i]] >= n
    /\ n = 0 => \A i \in k + 1 .. Len(rest) : wait[rest[i]] > 0
    /\ line' = InsertAt(rest, k + 1, j)
    /\ wait' = [wait EXCEPT ![j] = n]

-----------------------------------------------------------------------------
\* GoodsReceived: due at once, so behind whatever is due already.
Received(j) ==
  /\ status[j] = "none"
  /\ Enter(line, j, 0)
  /\ status' = [status EXCEPT ![j] = "PENDING"]
  /\ tried' = None
  /\ UNCHANGED <<worker, mutex, suitable, refusals, failures>>

\* PlacementRejected reopens whatever is not PLACED, a pending job included, as
\* after a replay; the update waits for the worker's row lock.
Refused(j) ==
  /\ status[j] \in {"PENDING", "ASSIGNED"} /\ j \notin Locked
  /\ refusals < MaxRefusals
  /\ refusals' = refusals + 1
  /\ Enter(Without(j), j, RefusedWait)
  /\ status' = [status EXCEPT ![j] = "PENDING"]
  /\ tried' = None
  /\ UNCHANGED <<worker, mutex, suitable, failures>>

\* StockAdded, for a job in whatever status.
Placed(j) ==
  /\ status[j] \in {"PENDING", "ASSIGNED"} /\ j \notin Locked
  /\ line' = Without(j)
  /\ wait' = [wait EXCEPT ![j] = 0]
  /\ status' = [status EXCEPT ![j] = "PLACED"]
  /\ tried' = None
  /\ UNCHANGED <<worker, mutex, suitable, refusals, failures>>

\* Time passes.
Tick ==
  /\ \E j \in Jobs : wait[j] > 0
  /\ wait' = [j \in Jobs |-> IF wait[j] > 0 THEN wait[j] - 1 ELSE 0]
  /\ tried' = None
  /\ UNCHANGED <<line, status, worker, mutex, suitable, refusals, failures>>

\* Locations are created, opened and blocked, loads change.
Change(j) ==
  /\ suitable' = (suitable \cup {j}) \ (suitable \cap {j})
  /\ tried' = None
  /\ UNCHANGED <<line, wait, status, worker, mutex, refusals, failures>>

-----------------------------------------------------------------------------
\* Seeded fault: the row is not locked.
First_Unlocked(j) ==
  \E i \in 1 .. Len(line) :
    line[i] = j /\ Due(j) /\ \A k \in 1 .. i - 1 : ~ Due(line[k])

\* ORDER BY next_attempt LIMIT 1 FOR UPDATE SKIP LOCKED, if it is due.
First(j) ==
  \E i \in 1 .. Len(line) :
    /\ line[i] = j /\ Due(j) /\ j \notin Locked
    /\ \A k \in 1 .. i - 1 : Due(line[k]) => line[k] \in Locked

\* A tick of instance i that gets the mutex; without it the row is let go.
Pick(i) ==
  /\ worker[i] = Free
  /\ \E j \in Jobs :
       /\ First(j)
       /\ mutex[WarehouseOf[j]] = None
       /\ mutex' = [mutex EXCEPT ![WarehouseOf[j]] = i]
       /\ worker' = [worker EXCEPT ![i] = [Free EXCEPT !.at = "picked", !.job = j]]
  /\ tried' = None
  /\ UNCHANGED <<line, wait, status, suitable, refusals, failures>>

Released(i, w) == IF mutex[w] = i THEN [mutex EXCEPT ![w] = None] ELSE mutex

\* Both lookups answer; the mutex is let go before the transaction ends.
Decide(i) ==
  LET j == worker[i].job IN
  /\ worker[i].at = "picked"
  /\ worker' = [worker EXCEPT ![i].at = "decided", ![i].found = j \in suitable]
  /\ mutex' = Released(i, WarehouseOf[j])
  /\ tried' = None
  /\ UNCHANGED <<line, wait, status, suitable, refusals, failures>>

\* The lot is gone or already placed, or a location is assigned: the job leaves.
\* ASSIGNED stands for CANCELLED too; a refusal reopens either.
Commit(i) ==
  LET j == worker[i].job IN
  /\ worker[i].at = "decided" /\ worker[i].found
  /\ line' = Without(j)
  /\ \E s \in {"ASSIGNED", "PLACED"} : status' = [status EXCEPT ![j] = s]
  /\ worker' = [worker EXCEPT ![i] = Free]
  /\ tried' = j
  /\ UNCHANGED <<wait, mutex, suitable, refusals, failures>>

\* Seeded fault: next_attempt stays what it was.
Postpone_InPlace(i) ==
  /\ worker[i].at = "decided" /\ ~ worker[i].found
  /\ worker' = [worker EXCEPT ![i] = Free]
  /\ tried' = worker[i].job
  /\ UNCHANGED <<line, wait, status, mutex, suitable, refusals, failures>>

\* NO_SUITABLE_LOCATION: next_attempt is ten seconds away.
Postpone(i) ==
  /\ worker[i].at = "decided" /\ ~ worker[i].found
  /\ Enter(Without(worker[i].job), worker[i].job, PostponedWait)
  /\ worker' = [worker EXCEPT ![i] = Free]
  /\ tried' = worker[i].job
  /\ UNCHANGED <<status, mutex, suitable, refusals, failures>>

\* A lookup or the transaction fails, or the instance crashes: the row is as it
\* was, first in line. A crash leaves the mutex behind.
Fail(i) ==
  /\ worker[i].at # "idle"
  /\ failures < MaxFailures
  /\ failures' = failures + 1
  /\ mutex' \in {mutex, Released(i, WarehouseOf[worker[i].job])}
  /\ worker' = [worker EXCEPT ![i] = Free]
  /\ tried' = None
  /\ UNCHANGED <<line, wait, status, suitable, refusals>>

\* The Redis key lives 15 seconds, whoever owns it.
Expire(w) ==
  /\ mutex[w] # None
  /\ mutex' = [mutex EXCEPT ![w] = None]
  /\ tried' = None
  /\ UNCHANGED <<line, wait, status, worker, suitable, refusals, failures>>

-----------------------------------------------------------------------------
Work(i) == Pick(i) \/ Decide(i) \/ Commit(i) \/ Postpone(i)

Next ==
  \/ \E j \in Jobs : Received(j) \/ Refused(j) \/ Placed(j) \/ Change(j)
  \/ Tick
  \/ \E i \in Instances : Work(i) \/ Fail(i)
  \/ \E w \in Warehouses : Expire(w)

Spec == Init /\ [][Next]_vars

\* Workers poll for ever, lookups answer, time passes, keys expire.
Fairness ==
  /\ \A i \in Instances : WF_vars(Work(i))
  /\ WF_vars(Tick)
  /\ \A w \in Warehouses : WF_vars(Expire(w))

FairSpec == Spec /\ Fairness

-----------------------------------------------------------------------------
\* Types; the line holds each PENDING job once, by the time of its next attempt.
TypeOK ==
  /\ line \in Seq(Jobs) /\ IsInjective(line)
  /\ \A j \in Jobs : status[j] = "PENDING" <=> j \in ToSet(line)
  /\ \A i, k \in 1 .. Len(line) : i < k => wait[line[i]] <= wait[line[k]]
  /\ wait \in [Jobs -> 0 .. PostponedWait]
  /\ status \in [Jobs -> {"none", "PENDING", "ASSIGNED", "PLACED"}]
  /\ worker \in [Instances -> [at : {"idle", "picked", "decided"},
                               job : Jobs \cup {None}, found : BOOLEAN]]
  /\ mutex \in [Warehouses -> Instances \cup {None}]
  /\ suitable \subseteq Jobs /\ tried \in Jobs \cup {None}
  /\ refusals \in 0 .. MaxRefusals /\ failures \in 0 .. MaxFailures

\* No job starves: whatever other jobs, of its own or another warehouse, are
\* postponed, refused or fail, and whoever crashes with the mutex, each pending
\* job is tried again, unless an event takes it out of the line.
EveryJobTried ==
  \A j \in Jobs : status[j] = "PENDING" ~> tried = j \/ status[j] # "PENDING"
=============================================================================
