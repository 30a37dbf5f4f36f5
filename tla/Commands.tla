------------------------------- MODULE Commands -------------------------------
\* Transactions on one lot, statement by statement: Runtime.Command and
\* Runtime.Process around Service.Change and reserve. Requests repeat and
\* overlap, servers crash, answers are lost. A client is a sender of a command
\* that retries until it is answered, or a consumer instance with an event.
EXTENDS Integers, FiniteSets

CONSTANTS
  Clients, Servers,
  Request,      \* Request[c]: [key, work] that client c sends
  Units, None,
  MaxFailures   \* bound on crashes and lost answers

Keys  == {Request[c].key : c \in Clients}
Works == {Request[c].work : c \in Clients}

ASSUME CommandsAssumption ==
  /\ Units \in Nat /\ MaxFailures \in Nat
  /\ \A c \in Clients : Request[c].work \in [op : {"adjust", "write-off", "reserve"}, n : Nat]
  /\ None \notin Clients
  /\ None \notin [work : Works, n : Int]   \* no saved row is the missing one

VARIABLES
  lot, memo,    \* committed rows: stocks; http_commands and processed_events
  tx,           \* tx[s]: the transaction server s runs
  answers,      \* answers[c]: what client c was answered so far
  failures

vars == <<lot, memo, tx, answers, failures>>

Lot == INSTANCE AtomicLot

-----------------------------------------------------------------------------
Idle == [at |-> "idle", client |-> None, seen |-> None, answer |-> None]

Key(s)  == Request[tx[s].client].key
Work(s) == Request[tx[s].client].work

\* pg_advisory_xact_lock on the key, or the uncommitted inbox row on which
\* another insert of the same event waits: held to the end of the transaction.
HoldsKey(s)   == tx[s].at \in {"look", "find", "house", "read", "commit"}
HoldsHouse(s) == tx[s].at \in {"read", "commit"}

Goto(s, at) == tx' = [tx EXCEPT ![s].at = at]
Finish(s, answer) == tx' = [tx EXCEPT ![s].at = "answer", ![s].answer = answer]

Init ==
  /\ Lot!Init
  /\ tx = [s \in Servers |-> Idle]
  /\ answers = [c \in Clients |-> {}]
  /\ failures = 0

\* A client without an answer sends its request, again if need be.
Send(c) ==
  /\ answers[c] = {}
  /\ \E s \in Servers :
       /\ tx[s] = Idle
       /\ tx' = [tx EXCEPT ![s] = [Idle EXCEPT !.at = "key", !.client = c]]
  /\ UNCHANGED <<lot, memo, answers, failures>>

LockKey(s) ==
  /\ tx[s].at = "key"
  /\ ~ \E o \in Servers : HoldsKey(o) /\ Key(o) = Key(s)
  /\ Goto(s, "look")
  /\ UNCHANGED <<lot, memo, answers, failures>>

\* Seeded fault: fingerprints are not compared.
Known_AnyBody(row, work) == [kind |-> "done", n |-> row.n]

\* The saved row decides: its answer, a conflict, or the work is to be done.
Known(row, work) ==
  IF row.work = work THEN [kind |-> "done", n |-> row.n]
                     ELSE [kind |-> "conflict", n |-> 0]

Look(s) ==
  /\ tx[s].at = "look"
  /\ IF memo[Key(s)] # None
     THEN Finish(s, Known(memo[Key(s)], Work(s)))
     ELSE Goto(s, IF Work(s).op = "reserve" THEN "house" ELSE "find")
  /\ UNCHANGED <<lot, memo, answers, failures>>

\* The first read of Change finds the warehouse to lock.
Find(s) ==
  /\ tx[s].at = "find"
  /\ tx' = [tx EXCEPT ![s].at = "house", ![s].seen = lot]
  /\ UNCHANGED <<lot, memo, answers, failures>>

LockHouse(s) ==
  /\ tx[s].at = "house"
  /\ ~ \E o \in Servers : HoldsHouse(o)
  /\ Goto(s, "read")
  /\ UNCHANGED <<lot, memo, answers, failures>>

\* Seeded fault: the lot is not read again under the lock.
Read_Once(s) ==
  /\ tx[s].at = "read"
  /\ tx' = [tx EXCEPT ![s].at = "commit", ![s].seen = IF @ = None THEN lot ELSE @]
  /\ UNCHANGED <<lot, memo, answers, failures>>

Read(s) ==
  /\ tx[s].at = "read"
  /\ tx' = [tx EXCEPT ![s].at = "commit", ![s].seen = lot]
  /\ UNCHANGED <<lot, memo, answers, failures>>

\* Seeded fault: the answer is not saved with the work it reports.
Commit_Unsaved(s) ==
  LET w == Work(s)  seen == tx[s].seen IN
  /\ tx[s].at = "commit"
  /\ Lot!Accepts(w, seen)
  /\ lot' = Lot!Update(w, seen, lot)
  /\ Finish(s, [kind |-> "done", n |-> Lot!Report(w, seen)])
  /\ UNCHANGED <<memo, answers, failures>>

\* UPDATE, the saved answer or inbox row, COMMIT.
Commit(s) ==
  LET w == Work(s)  seen == tx[s].seen IN
  /\ tx[s].at = "commit"
  /\ Lot!Accepts(w, seen)
  /\ lot' = Lot!Update(w, seen, lot)
  /\ memo' = [memo EXCEPT ![Key(s)] = [work |-> w, n |-> Lot!Report(w, seen)]]
  /\ Finish(s, [kind |-> "done", n |-> Lot!Report(w, seen)])
  /\ UNCHANGED <<answers, failures>>

\* Seeded fault: a refused transaction is answered and never rolled back.
Refuse_Open(s) ==
  /\ tx[s].at = "commit"
  /\ ~ Lot!Accepts(Work(s), tx[s].seen)
  /\ answers' = [answers EXCEPT ![tx[s].client] = {[kind |-> "refused", n |-> 0]}]
  /\ UNCHANGED <<lot, memo, tx, failures>>

\* A fault: everything is rolled back, nothing is saved under the key.
Refuse(s) ==
  /\ tx[s].at = "commit"
  /\ ~ Lot!Accepts(Work(s), tx[s].seen)
  /\ Finish(s, [kind |-> "refused", n |-> 0])
  /\ UNCHANGED <<lot, memo, answers, failures>>

Answer(s) ==
  /\ tx[s].at = "answer"
  /\ answers' = [answers EXCEPT ![tx[s].client] = @ \cup {tx[s].answer}]
  /\ tx' = [tx EXCEPT ![s] = Idle]
  /\ UNCHANGED <<lot, memo, failures>>

\* A crash, a lost connection, a timeout: the transaction is rolled back and
\* its locks go with it; after the commit only the answer is lost.
Crash(s) ==
  /\ tx[s].at # "idle"
  /\ failures < MaxFailures
  /\ failures' = failures + 1
  /\ tx' = [tx EXCEPT ![s] = Idle]
  /\ UNCHANGED <<lot, memo, answers>>

Step(s) ==
  \/ LockKey(s) \/ Look(s) \/ Find(s) \/ LockHouse(s) \/ Read(s)
  \/ Commit(s) \/ Refuse(s) \/ Answer(s)

Next ==
  \/ \E c \in Clients : Send(c)
  \/ \E s \in Servers : Step(s) \/ Crash(s)

Spec == Init /\ [][Next]_vars

\* Statements end, waiting transactions get a free lock, clients retry.
FairSpec ==
  /\ Spec
  /\ \A s \in Servers : WF_vars(Step(s))
  /\ \A c \in Clients : WF_vars(Send(c))

-----------------------------------------------------------------------------
Ats == {"idle", "key", "look", "find", "house", "read", "commit", "answer"}
Lots == [quantity : Nat, reserved : Nat]
Answers == [kind : {"done", "conflict", "refused"}, n : Int]
Transactions == [at : Ats, client : Clients \cup {None},
                 seen : Lots \cup {None}, answer : Answers \cup {None}]

\* The service never reserves more than the lot holds, whatever overlaps.
TypeOK ==
  /\ lot \in Lots /\ lot.reserved <= lot.quantity
  /\ memo \in [Keys -> [work : Works, n : Int] \cup {None}]
  /\ tx \in [Servers -> Transactions]
  /\ answers \in [Clients -> SUBSET Answers]
  /\ failures \in 0 .. MaxFailures

\* README.md:102: a repeated request gets the saved result, whichever attempt
\* did the work; only a request that differs from it is a conflict.
AnswersAgree ==
  \A c \in Clients : \A a \in answers[c] :
    LET row == memo[Request[c].key] IN
    /\ a.kind # "refused" => row # None
    /\ a.kind = "done" => row = [work |-> Request[c].work, n |-> a.n]
    /\ a.kind = "conflict" => row.work # Request[c].work

\* Overlapping transactions change the lot as if each ran alone at its commit,
\* and no key is worked for twice: no lost update, no repeated effect.
ImplementsAtomicLot == Lot!Spec

\* Nobody waits for ever for a lock: a client that keeps trying is answered.
EveryoneAnswered == \A c \in Clients : <>(answers[c] # {})
=============================================================================
