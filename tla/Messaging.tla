----------------------------- MODULE Messaging -----------------------------
(***************************************************************************)
(* How an event gets from the transaction of one service into a            *)
(* transaction of another (libs/platform/messaging.go; Events.java and     *)
(* KafkaConfig.java do the same for the Java services).  One partition of  *)
(* the topic, the transactions and publishers of one service that write to *)
(* it, and the instances of one consuming service.                         *)
(*                                                                         *)
(* Publishers and consumers crash and restart, a send or an offset commit  *)
(* may fail after it took effect, a handler may fail, and the partition    *)
(* may be given to another instance while the former owner still works on  *)
(* an event.                                                               *)
(***************************************************************************)
EXTENDS Naturals, FiniteSets, Sequences, SequencesExt

CONSTANTS
  MaxEvents,  \* number of events
  Serial,     \* whether a lock on the aggregate keeps its transactions apart
  Publishers, \* instances of the publishing service
  Batch,      \* rows read by one publisher transaction (50)
  Attempts,   \* failures after which an event goes to the dead letter topic (5)
  Consumers,  \* instances of the consuming service
  MaxFaults   \* bound on everything that goes wrong

ASSUME MessagingAssumption ==
  /\ MaxEvents \in Nat /\ MaxFaults \in Nat
  /\ Batch \in Nat \ {0} /\ Attempts \in Nat \ {0}
  /\ Consumers # {} /\ Publishers # {} /\ Serial \in BOOLEAN

VARIABLES
  drawn,      \* sequence numbers drawn from outbox_events.sequence so far
  open,       \* those of transactions that have not ended
  recorded,   \* table outbox_events: the events that are committed
  published,  \* the rows with a published_at
  batch,      \* the rows each publisher's transaction has read and locked
  sent,       \* those of them that are acknowledged and marked
  log,        \* the partition of wms.events
  offset,     \* committed offset of the consumer group: log records passed
  owner,      \* the instance the partition is assigned to
  position,   \* the log record each instance works on or fetches next
  phase,      \* "idle", "fetched", "failed" or "done"
  tries,      \* failed attempts at the fetched event
  inbox,      \* table processed_events of the consuming service
  effects,    \* the events whose handler committed, in order
  dlt,        \* wms.events.DLT
  replayed,   \* those of its records that the operator has replayed
  faults      \* things that went wrong so far

outboxVars == <<drawn, open, recorded>>
producerVars == <<outboxVars, published, batch, sent>>
consumerVars == <<offset, owner, position, phase, tries>>
databaseVars == <<inbox, effects>>
vars == <<producerVars, log, consumerVars, databaseVars, dlt, replayed, faults>>

AllEvents == 1..MaxEvents

Fault == faults < MaxFaults /\ faults' = faults + 1

Init ==
  /\ drawn = 0 /\ open = {} /\ recorded = {} /\ published = {}
  /\ batch = [p \in Publishers |-> {}] /\ sent = [p \in Publishers |-> {}]
  /\ log = <<>> /\ offset = 0
  /\ owner \in Consumers
  /\ position = [c \in Consumers |-> 1]
  /\ phase = [c \in Consumers |-> "idle"]
  /\ tries = [c \in Consumers |-> 0]
  /\ inbox = {} /\ effects = <<>>
  /\ dlt = <<>> /\ replayed = {} /\ faults = 0

-----------------------------------------------------------------------------
(***************************************************************************)
(* The producing service.                                                  *)
(***************************************************************************)

\* Emit draws the next sequence number inside a transaction, which holds the lock
\* of the aggregate where there is one.
Emit ==
  /\ drawn < MaxEvents
  /\ Serial => open = {}
  /\ drawn' = drawn + 1
  /\ open' = open \cup {drawn + 1}
  /\ UNCHANGED <<recorded, published, batch, sent, log, consumerVars, databaseVars, dlt, replayed, faults>>

\* The transaction commits its row, or rolls back and leaves a gap.
EndTransaction(e) ==
  /\ e \in open
  /\ open' = open \ {e}
  /\ recorded' \in {recorded, recorded \cup {e}}
  /\ UNCHANGED <<drawn, published, batch, sent, log, consumerVars, databaseVars, dlt, replayed, faults>>

Locked == UNION {batch[p] : p \in Publishers}

\* Seeded fault: the publisher goes on behind the last row it has published.
Pending_Behind == {e \in recorded \ Locked : \A f \in published : e > f}

\* The unpublished rows that no publisher has locked (SKIP LOCKED).
Pending == recorded \ (published \cup Locked)

\* Outbox: the transaction reads the oldest of them.
ReadBatch(p) ==
  /\ batch[p] = {}
  /\ \E rows \in SUBSET Pending \ {{}} :
       /\ Cardinality(rows) = Batch \/ (rows = Pending /\ Cardinality(rows) < Batch)
       /\ \A e \in rows, f \in Pending \ rows : e < f
       /\ batch' = [batch EXCEPT ![p] = rows]
  /\ sent' = [sent EXCEPT ![p] = {}]
  /\ UNCHANGED <<outboxVars, published, log, consumerVars, databaseVars, dlt, replayed, faults>>

\* The row to send next: the rows go out one after another, the oldest first.
NextRow(p) == {e \in batch[p] \ sent[p] : \A f \in batch[p] \ sent[p] : e <= f}

\* One record is acknowledged and its row marked.
SendNext(p) ==
  /\ \E e \in NextRow(p) :
       /\ log' = Append(log, e)
       /\ sent' = [sent EXCEPT ![p] = @ \cup {e}]
  /\ UNCHANGED <<outboxVars, published, batch, consumerVars, databaseVars, dlt, replayed, faults>>

EndBatch(p) ==
  /\ batch' = [batch EXCEPT ![p] = {}]
  /\ sent' = [sent EXCEPT ![p] = {}]
  /\ UNCHANGED <<outboxVars, consumerVars, databaseVars, dlt, replayed>>

CommitBatch(p) ==
  /\ batch[p] # {}
  /\ sent[p] = batch[p]
  /\ published' = published \cup batch[p]
  /\ EndBatch(p)
  /\ UNCHANGED <<log, faults>>

\* What may be in the topic after a batch was given up: the record in flight may
\* have been written all the same.
LogsAfter(p) == {log} \cup {Append(log, e) : e \in NextRow(p)}

\* Seeded fault: the rows are marked outside of the transaction, before the send.
PublisherFails_Marked(p) ==
  /\ Fault
  /\ batch[p] # {}
  /\ log' \in LogsAfter(p)
  /\ published' = published \cup sent[p] \cup NextRow(p)
  /\ EndBatch(p)

\* A send fails or the process dies: the transaction is rolled back with all
\* its marks.
PublisherFails(p) ==
  /\ Fault
  /\ batch[p] # {}
  /\ log' \in LogsAfter(p)
  /\ EndBatch(p)
  /\ UNCHANGED published

-----------------------------------------------------------------------------
(***************************************************************************)
(* The consuming service.                                                  *)
(***************************************************************************)
Fetch(c) ==
  /\ owner = c
  /\ phase[c] = "idle"
  /\ position[c] <= Len(log)
  /\ phase' = [phase EXCEPT ![c] = "fetched"]
  /\ tries' = [tries EXCEPT ![c] = 0]
  /\ UNCHANGED <<producerVars, log, offset, owner, position, databaseVars, dlt, replayed, faults>>

\* Seeded fault: the handler runs whether or not the inbox has the event.
Process_Always(c) ==
  LET e == log[position[c]]
  IN  /\ phase[c] = "fetched"
      /\ inbox' = inbox \cup {e}
      /\ effects' = Append(effects, e)
      /\ phase' = [phase EXCEPT ![c] = "done"]
      /\ UNCHANGED <<producerVars, log, offset, owner, position, tries, dlt, replayed, faults>>

\* The transaction of Process: inbox marker and effects are committed together,
\* or the event is known and nothing happens.
Effect(e) ==
  /\ inbox' = inbox \cup {e}
  /\ effects' = IF e \in inbox THEN effects ELSE Append(effects, e)

Process(c) ==
  /\ phase[c] = "fetched"
  /\ Effect(log[position[c]])
  /\ phase' = [phase EXCEPT ![c] = "done"]
  /\ UNCHANGED <<producerVars, log, offset, owner, position, tries, dlt, replayed, faults>>

\* Process returns an error: the transaction was rolled back, or its commit went
\* through and the answer was lost.  From the last attempt on the event is for
\* the dead letter topic.
ProcessFails(c, committed) ==
  /\ Fault
  /\ phase[c] = "fetched"
  /\ IF committed THEN Effect(log[position[c]]) ELSE UNCHANGED databaseVars
  /\ tries' = [tries EXCEPT ![c] = IF @ < Attempts THEN @ + 1 ELSE @]
  /\ phase' = [phase EXCEPT ![c] = IF tries'[c] = Attempts THEN "failed" ELSE @]
  /\ UNCHANGED <<producerVars, log, offset, owner, position, dlt, replayed>>

\* The event is copied to the dead letter topic.
DeadLetter(c) ==
  /\ phase[c] = "failed"
  /\ dlt' = Append(dlt, log[position[c]])
  /\ phase' = [phase EXCEPT ![c] = "done"]
  /\ UNCHANGED <<producerVars, log, offset, owner, position, tries, databaseVars, replayed, faults>>

\* The copy is not acknowledged, written or not: the event is processed again.
DeadLetterFails(c, written) ==
  /\ Fault
  /\ phase[c] = "failed"
  /\ dlt' = IF written THEN Append(dlt, log[position[c]]) ELSE dlt
  /\ phase' = [phase EXCEPT ![c] = "fetched"]
  /\ UNCHANGED <<producerVars, log, offset, owner, position, tries, databaseVars, replayed>>

\* Seeded fault: the offset of a fetched event is committed before it is processed.
GoOn_Early(c) ==
  /\ phase[c] \in {"fetched", "done"}
  /\ phase' = [phase EXCEPT ![c] = "idle"]
  /\ position' = [position EXCEPT ![c] = @ + 1]
  /\ offset' = IF owner = c THEN position[c] ELSE offset
  /\ UNCHANGED <<producerVars, log, owner, tries, databaseVars, dlt, replayed, faults>>

\* CommitMessages, refused if the partition has moved on; then the next record.
GoOn(c) ==
  /\ phase[c] = "done"
  /\ phase' = [phase EXCEPT ![c] = "idle"]
  /\ position' = [position EXCEPT ![c] = @ + 1]
  /\ offset' = IF owner = c THEN position[c] ELSE offset
  /\ UNCHANGED <<producerVars, log, owner, tries, databaseVars, dlt, replayed, faults>>

\* The offset commit fails; the consumer logs it and goes on all the same.
GoOnUncommitted(c) ==
  /\ Fault
  /\ phase[c] = "done"
  /\ phase' = [phase EXCEPT ![c] = "idle"]
  /\ position' = [position EXCEPT ![c] = @ + 1]
  /\ UNCHANGED <<producerVars, log, offset, owner, tries, databaseVars, dlt, replayed>>

\* Seeded fault: the instance keeps the event it held when it restarts.
Assign_Holding(c) ==
  /\ Fault
  /\ owner' = c
  /\ position' = [position EXCEPT ![c] = offset + 1]
  /\ UNCHANGED <<producerVars, log, offset, phase, tries, databaseVars, dlt, replayed>>

\* The partition is assigned to c, which starts at the committed offset: c
\* restarted, or another instance that still holds an event lost it.
Assign(c) ==
  /\ Fault
  /\ owner' = c
  /\ position' = [position EXCEPT ![c] = offset + 1]
  /\ phase' = [phase EXCEPT ![c] = "idle"]
  /\ tries' = [tries EXCEPT ![c] = 0]
  /\ UNCHANGED <<producerVars, log, offset, databaseVars, dlt, replayed>>

\* The operator publishes a record of the dead letter topic again, unchanged.
Replay(i) ==
  /\ i \in DOMAIN dlt \ replayed
  /\ log' = Append(log, dlt[i])
  /\ replayed' = replayed \cup {i}
  /\ UNCHANGED <<producerVars, consumerVars, databaseVars, dlt, faults>>

-----------------------------------------------------------------------------
Transactions == Emit \/ \E e \in open : EndTransaction(e)
Publisher(p) == ReadBatch(p) \/ SendNext(p) \/ CommitBatch(p)
Consumer(c) == Fetch(c) \/ Process(c) \/ DeadLetter(c) \/ GoOn(c)

Failure ==
  \/ \E p \in Publishers : PublisherFails(p)
  \/ \E c \in Consumers :
       \/ GoOnUncommitted(c)
       \/ Assign(c)
       \/ \E committed \in BOOLEAN : ProcessFails(c, committed)
       \/ \E written \in BOOLEAN : DeadLetterFails(c, written)

Next ==
  \/ Transactions
  \/ \E p \in Publishers : Publisher(p)
  \/ \E c \in Consumers : Consumer(c)
  \/ \E i \in DOMAIN dlt : Replay(i)
  \/ Failure

Spec == Init /\ [][Next]_vars

\* Publisher and consumers are loops that never end, and the dead letter topic
\* is replayed; no transaction needs to be recorded.
Fairness ==
  /\ \A p \in Publishers : WF_vars(Publisher(p))
  /\ \A c \in Consumers : WF_vars(Consumer(c))
  /\ WF_vars(\E i \in DOMAIN dlt : Replay(i))

FairSpec == Spec /\ Fairness

-----------------------------------------------------------------------------
(***************************************************************************)
(* What messaging promises.                                                *)
(***************************************************************************)

\* Types of the tables, the topics and the processes' memory.
TypeOK ==
  /\ drawn \in 0..MaxEvents /\ open \subseteq 1..drawn
  /\ recorded \subseteq (1..drawn) \ open
  /\ published \subseteq recorded
  /\ batch \in [Publishers -> SUBSET recorded] /\ sent \in [Publishers -> SUBSET recorded]
  /\ \A p \in Publishers : Cardinality(batch[p]) <= Batch /\ sent[p] \subseteq batch[p]
  /\ log \in Seq(recorded)
  /\ offset \in 0..Len(log)
  /\ owner \in Consumers
  /\ position \in [Consumers -> 1..(Len(log) + 1)]
  /\ phase \in [Consumers -> {"idle", "fetched", "failed", "done"}]
  /\ \A c \in Consumers : phase[c] # "idle" => position[c] <= Len(log)
  /\ tries \in [Consumers -> 0..Attempts]
  /\ inbox \subseteq recorded
  /\ effects \in Seq(recorded)
  /\ dlt \in Seq(recorded)
  /\ replayed \subseteq DOMAIN dlt
  /\ faults \in 0..MaxFaults

\* Nothing is lost: a row is marked published only if its record is in the
\* topic, and the group's offset passes a record only when its effects are
\* committed or a copy of it is in the dead letter topic.
NothingLost ==
  /\ published \subseteq ToSet(log)
  /\ \A i \in 1..offset : log[i] \in inbox \cup ToSet(dlt)

\* Duplicates in the topic, crashes and reassigned partitions are invisible to
\* the business effects: each event takes effect once, and with one publisher and
\* serial transactions in the order recorded, unless it was dead-lettered.
Stream == INSTANCE EventStream WITH
  aside <- ToSet(dlt), InOrder <- Serial /\ \E p \in Publishers : Publishers = {p}
ImplementsStream == Stream!Spec

\* Every committed event takes effect in the end.
EveryEventTakesEffect == \A e \in AllEvents : e \in recorded ~> e \in inbox
=============================================================================
