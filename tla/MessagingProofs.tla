---------------------------- MODULE MessagingProofs ----------------------------
(***************************************************************************)
(* Outbox, topic and inbox lose nothing and implement EventStream, for any *)
(* number of events, publishers, consumers and faults.                     *)
(***************************************************************************)
EXTENDS Messaging, DataTheorems

-----------------------------------------------------------------------------
(***************************************************************************)
(* The inductive invariant.                                                *)
(***************************************************************************)
\* Rows marked in a publisher's transaction and records of the dead letter
\* topic are in the topic.
Marked == \A p \in Publishers : sent[p] \subseteq ToSet(log)
Copied == ToSet(dlt) \subseteq ToSet(log)

\* Inbox markers and effects are committed together.
Together == ToSet(effects) = inbox

\* What any instance has behind it, the owner of the partition or a former one,
\* has taken effect or is in the dead letter topic.
Gone(e) == e \in inbox \cup ToSet(dlt)
Passed ==
  \A c \in Consumers :
    /\ \A i \in 1 .. (position[c] - 1) : Gone(log[i])
    /\ phase[c] = "done" => Gone(log[position[c]])

\* With serial transactions and one publisher: one transaction at a time has a
\* number, a batch holds the oldest rows, and in the topic each event follows
\* all the earlier ones, whatever is repeated.
InOrder == Serial /\ \E p \in Publishers : Publishers = {p}
OneOpen == open \subseteq {drawn}
BatchOldest ==
  \A p \in Publishers : \A e \in batch[p], r \in recorded : r < e => r \in published \cup batch[p]
LogOrdered ==
  \A i \in 1 .. Len(log) : \A r \in recorded : r < log[i] => \E j \in 1 .. (i - 1) : log[j] = r
Ordered == OneOpen /\ BatchOldest /\ LogOrdered

Inv ==
  /\ TypeOK /\ NothingLost /\ Marked /\ Copied /\ Together /\ Passed
  /\ InOrder => Ordered

-----------------------------------------------------------------------------
(***************************************************************************)
(* Topics and tables.                                                      *)
(***************************************************************************)
\* What is in a topic after one more record.
LEMMA ToSetAppend ==
  ASSUME NEW S, NEW q \in Seq(S), NEW x \in S
  PROVE  /\ Append(q, x) \in Seq(S) /\ Len(q) \in Nat /\ Len(Append(q, x)) = Len(q) + 1
         /\ \A i \in 1 .. Len(q) : Append(q, x)[i] = q[i]
         /\ Append(q, x)[Len(q) + 1] = x
         /\ ToSet(Append(q, x)) = ToSet(q) \cup {x}
<1>1. Range(Append(q, x)) = Range(q) \cup {x}
  BY RangeAppend
<1>2. \A f : ToSet(f) = Range(f)
  BY DEF ToSet, Range
<1> QED BY <1>1, <1>2, AppendProperties, LenProperties

\* Records of a topic are elements of it.
LEMMA ToSetElements ==
  ASSUME NEW S, NEW q \in Seq(S)
  PROVE  /\ Len(q) \in Nat /\ DOMAIN q = 1 .. Len(q)
         /\ ToSet(q) = {q[i] : i \in 1 .. Len(q)} /\ ToSet(q) \subseteq S
         /\ \A i \in 1 .. Len(q) : q[i] \in ToSet(q) /\ q[i] \in S
<1>1. Len(q) \in Nat /\ DOMAIN q = 1 .. Len(q) /\ \A i \in 1 .. Len(q) : q[i] \in S
  BY LenProperties, ElementOfSeq
<1> QED BY <1>1 DEF ToSet

\* A transaction of Process with event e.
LEMMA EffectGrows ==
  ASSUME TypeOK, Together, NEW e \in recorded, Effect(e)
  PROVE  /\ inbox' = inbox \cup {e} /\ inbox' \subseteq recorded
         /\ effects' \in Seq(recorded) /\ ToSet(effects') = inbox'
<1>1. inbox' = inbox \cup {e} /\ effects \in Seq(recorded) /\ inbox \subseteq recorded
  BY DEF Effect, TypeOK
<1>2. CASE e \in inbox
  BY <1>1, <1>2 DEF Effect, Together
<1>3. CASE e \notin inbox
  BY <1>1, <1>3, ToSetAppend DEF Effect, Together
<1> QED BY <1>1, <1>2, <1>3

\* One more record in the topic.
LEMMA LogGrows ==
  ASSUME Inv, NEW e \in recorded, log' = Append(log, e),
         UNCHANGED <<outboxVars, consumerVars, databaseVars, dlt>>,
         InOrder => \A r \in recorded : r < e => r \in ToSet(log)
  PROVE  /\ log' \in Seq(recorded) /\ ToSet(log') = ToSet(log) \cup {e}
         /\ offset' \in 0 .. Len(log') /\ position' \in [Consumers -> 1 .. (Len(log') + 1)]
         /\ \A c \in Consumers : phase'[c] # "idle" => position'[c] <= Len(log')
         /\ Passed' /\ \A i \in 1 .. offset' : Gone(log'[i])
         /\ InOrder => LogOrdered'
<1>1. /\ log \in Seq(recorded) /\ offset \in 0 .. Len(log)
      /\ position \in [Consumers -> 1 .. (Len(log) + 1)]
      /\ \A c \in Consumers : phase[c] # "idle" => position[c] <= Len(log)
      /\ recorded \subseteq Nat
  BY MessagingAssumption DEF Inv, TypeOK
<1>2. UNCHANGED <<recorded, offset, position, phase, inbox, dlt>>
  BY DEF outboxVars, consumerVars, databaseVars
<1>3. /\ log' \in Seq(recorded) /\ Len(log) \in Nat /\ Len(log') = Len(log) + 1
      /\ \A i \in 1 .. Len(log) : log'[i] = log[i]
      /\ log'[Len(log) + 1] = e
      /\ ToSet(log') = ToSet(log) \cup {e}
  BY <1>1, ToSetAppend
<1>4. /\ offset' \in 0 .. Len(log') /\ position' \in [Consumers -> 1 .. (Len(log') + 1)]
      /\ \A c \in Consumers : phase'[c] # "idle" => position'[c] <= Len(log')
  BY <1>1, <1>2, <1>3
<1>5. \A i \in 1 .. offset' : Gone(log'[i])
  BY <1>1, <1>2, <1>3 DEF Inv, NothingLost, Gone
<1>6. Passed'
  <2>1. ASSUME NEW c \in Consumers, NEW i \in 1 .. (position[c] - 1)
        PROVE  i \in 1 .. Len(log) /\ Gone(log[i])
    BY <1>1, <1>3 DEF Inv, Passed
  <2>2. ASSUME NEW c \in Consumers, phase[c] = "done"
        PROVE  position[c] \in 1 .. Len(log) /\ Gone(log[position[c]])
    BY <1>1, <1>3, <2>2 DEF Inv, Passed
  <2> QED BY <1>2, <1>3, <2>1, <2>2 DEF Passed, Gone
<1>7. ASSUME InOrder PROVE LogOrdered'
  <2>1. ASSUME NEW i \in 1 .. Len(log'), NEW r \in recorded, r < log'[i]
        PROVE  \E j \in 1 .. (i - 1) : log'[j] = r
    <3>1. CASE i \in 1 .. Len(log)
      <4>1. PICK j \in 1 .. (i - 1) : log[j] = r
        BY <1>3, <1>7, <2>1, <3>1 DEF Inv, Ordered, LogOrdered
      <4> QED BY <1>3, <3>1, <4>1
    <3>2. CASE i = Len(log) + 1
      <4>1. r \in ToSet(log)
        BY <1>3, <1>7, <2>1, <3>2
      <4>2. PICK j \in 1 .. Len(log) : log[j] = r
        BY <1>1, <4>1, ToSetElements
      <4> QED BY <1>3, <3>2, <4>2
    <3> QED BY <1>3, <3>1, <3>2
  <2> QED BY <1>2, <2>1 DEF LogOrdered
<1> QED BY <1>3, <1>4, <1>5, <1>6, <1>7

-----------------------------------------------------------------------------
(***************************************************************************)
(* The actions of the producing service.                                   *)
(***************************************************************************)
LEMMA InitInv == Init => Inv
<1> SUFFICES ASSUME Init PROVE Inv
  OBVIOUS
<1>1. /\ Len(<<>>) = 0 /\ ToSet(<<>>) = {} /\ Cardinality({}) = 0 /\ \A S : <<>> \in Seq(S)
  BY EmptySeq, FS_EmptySet DEF ToSet
<1>2. TypeOK
  BY <1>1, MessagingAssumption DEF Init, TypeOK
<1>3. NothingLost /\ Marked /\ Copied /\ Together /\ Passed
  BY <1>1 DEF Init, NothingLost, Marked, Copied, Together, Passed
<1>4. Ordered
  BY <1>1 DEF Init, Ordered, OneOpen, BatchOldest, LogOrdered
<1> QED BY <1>2, <1>3, <1>4 DEF Inv

\* A transaction draws a number.
LEMMA EmitInv ==
  ASSUME Inv, Emit
  PROVE  Inv'
<1>1. /\ drawn < MaxEvents /\ (Serial => open = {})
      /\ drawn' = drawn + 1 /\ open' = open \cup {drawn + 1}
      /\ UNCHANGED <<recorded, published, batch, sent, log, consumerVars, databaseVars, dlt, replayed, faults>>
  BY DEF Emit
<1>2. TypeOK'
  <2>1. /\ drawn \in Nat /\ drawn' \in 0 .. MaxEvents /\ drawn + 1 \in 1 .. drawn'
        /\ drawn + 1 \notin 1 .. drawn
        /\ open \subseteq 1 .. drawn /\ 1 .. drawn \subseteq 1 .. drawn'
    BY <1>1, MessagingAssumption DEF Inv, TypeOK
  <2>2. /\ drawn' \in 0 .. MaxEvents /\ open' \subseteq 1 .. drawn'
        /\ recorded \subseteq (1 .. drawn') \ open'
    <3>1. recorded \subseteq (1 .. drawn) \ open
      BY DEF Inv, TypeOK
    <3> QED BY <1>1, <2>1, <3>1
  <2> QED BY <1>1, <2>2 DEF Inv, TypeOK, consumerVars, databaseVars
<1>3. NothingLost' /\ Marked' /\ Copied' /\ Together' /\ Passed'
  BY <1>1 DEF Inv, NothingLost, Marked, Copied, Together, Passed, Gone, consumerVars, databaseVars
<1>4. InOrder => Ordered'
  BY <1>1 DEF Inv, InOrder, Ordered, OneOpen, BatchOldest, LogOrdered
<1> QED BY <1>2, <1>3, <1>4 DEF Inv

\* A transaction commits its event or rolls back. With serial transactions the
\* event is the latest of all.
LEMMA EndTransactionInv ==
  ASSUME Inv, NEW e \in open, EndTransaction(e)
  PROVE  Inv'
<1>1. /\ open' = open \ {e} /\ recorded' \in {recorded, recorded \cup {e}}
      /\ UNCHANGED <<drawn, published, batch, sent, log, consumerVars, databaseVars, dlt, replayed, faults>>
  BY DEF EndTransaction
<1>2. /\ drawn \in Nat /\ open \subseteq 1 .. drawn /\ recorded \subseteq (1 .. drawn) \ open
      /\ recorded \subseteq recorded' /\ recorded' \subseteq (1 .. drawn) \ open'
  BY <1>1, MessagingAssumption DEF Inv, TypeOK
<1>3. log \in Seq(recorded') /\ effects \in Seq(recorded') /\ dlt \in Seq(recorded')
  BY <1>2, SeqMonotonic DEF Inv, TypeOK
<1>4. TypeOK'
  BY <1>1, <1>2, <1>3 DEF Inv, TypeOK, consumerVars, databaseVars
<1>5. NothingLost' /\ Marked' /\ Copied' /\ Together' /\ Passed'
  BY <1>1 DEF Inv, NothingLost, Marked, Copied, Together, Passed, Gone, consumerVars, databaseVars
<1>6. ASSUME InOrder PROVE Ordered'
  <2>1. OneOpen'
    BY <1>1, <1>6 DEF Inv, Ordered, OneOpen
  <2>2. \A r \in recorded' : r \in recorded \/ \A x \in recorded : ~ (r < x)
    BY <1>1, <1>2, <1>6 DEF Inv, Ordered, OneOpen
  <2>3. BatchOldest'
    BY <1>1, <1>6, <2>2 DEF Inv, TypeOK, Ordered, BatchOldest
  <2>4. \A i \in 1 .. Len(log) : log[i] \in recorded
    BY ToSetElements DEF Inv, TypeOK
  <2>5. LogOrdered'
    BY <1>1, <1>6, <2>2, <2>4 DEF Inv, Ordered, LogOrdered
  <2> QED BY <2>1, <2>3, <2>5 DEF Ordered
<1> QED BY <1>4, <1>5, <1>6 DEF Inv

\* A publisher reads the oldest rows that nobody has locked.
LEMMA ReadBatchInv ==
  ASSUME Inv, NEW p \in Publishers, ReadBatch(p)
  PROVE  Inv'
<1>1. PICK rows \in SUBSET Pending :
        /\ Cardinality(rows) = Batch \/ (rows = Pending /\ Cardinality(rows) < Batch)
        /\ \A e \in rows, f \in Pending \ rows : e < f
        /\ batch' = [batch EXCEPT ![p] = rows]
  BY DEF ReadBatch
<1>2. /\ batch[p] = {} /\ sent' = [sent EXCEPT ![p] = {}]
      /\ UNCHANGED <<outboxVars, published, log, consumerVars, databaseVars, dlt, replayed, faults>>
  BY DEF ReadBatch
<1>3. /\ recorded \subseteq Nat /\ Pending \subseteq recorded
      /\ batch \in [Publishers -> SUBSET recorded] /\ sent \in [Publishers -> SUBSET recorded]
  BY MessagingAssumption DEF Inv, TypeOK, Pending
<1>4. Cardinality(rows) <= Batch
  <2>1. drawn \in Nat /\ rows \in SUBSET (1 .. drawn)
    BY <1>3, MessagingAssumption DEF Inv, TypeOK
  <2>2. IsFiniteSet(1 .. drawn)
    BY <2>1, FS_Interval
  <2>3. Cardinality(rows) \in Nat
    BY <2>1, <2>2, FS_Subset, FS_CardinalityType
  <2> QED BY <1>1, <2>3, MessagingAssumption
<1>5. TypeOK'
  <2>1. /\ batch' \in [Publishers -> SUBSET recorded] /\ sent' \in [Publishers -> SUBSET recorded]
        /\ \A q \in Publishers : Cardinality(batch'[q]) <= Batch /\ sent'[q] \subseteq batch'[q]
    BY <1>1, <1>2, <1>3, <1>4 DEF Inv, TypeOK
  <2> QED BY <1>2, <2>1 DEF Inv, TypeOK, outboxVars, consumerVars, databaseVars
<1>6. NothingLost' /\ Marked' /\ Copied' /\ Together' /\ Passed'
  BY <1>2, <1>3 DEF Inv, NothingLost, Marked, Copied, Together, Passed, Gone, outboxVars, consumerVars,
                    databaseVars
<1>7. ASSUME InOrder PROVE Ordered'
  <2>1. Publishers = {p}
    BY <1>7 DEF InOrder
  <2>2. Pending = recorded \ published
    BY <1>2, <2>1 DEF Pending, Locked
  <2>3. BatchOldest'
    BY <1>1, <1>2, <1>3, <2>1, <2>2 DEF BatchOldest, outboxVars
  <2> QED BY <1>2, <1>7, <2>3 DEF Inv, Ordered, OneOpen, LogOrdered, outboxVars
<1> QED BY <1>5, <1>6, <1>7 DEF Inv

\* Before a row goes out, all the earlier events are in the topic.
LEMMA NextInOrder ==
  ASSUME Inv, NEW p \in Publishers, NEW e \in NextRow(p)
  PROVE  /\ e \in batch[p] /\ e \in recorded
         /\ InOrder => \A r \in recorded : r < e => r \in ToSet(log)
<1>1. /\ e \in batch[p] /\ e \in recorded /\ recorded \subseteq Nat
      /\ \A f \in batch[p] \ sent[p] : e <= f
      /\ sent[p] \subseteq ToSet(log) /\ published \subseteq ToSet(log)
  BY MessagingAssumption DEF NextRow, Inv, TypeOK, Marked, NothingLost
<1>2. ASSUME InOrder, NEW r \in recorded, r < e PROVE r \in ToSet(log)
  <2>1. r \in published \cup batch[p]
    BY <1>1, <1>2 DEF Inv, Ordered, BatchOldest
  <2>2. e \in Nat /\ r \in Nat
    BY <1>1
  <2>3. r \notin batch[p] \ sent[p]
    BY <1>1, <1>2, <2>2
  <2> QED BY <1>1, <2>1, <2>3
<1> QED BY <1>1, <1>2

\* A row goes out.
LEMMA SendNextInv ==
  ASSUME Inv, NEW p \in Publishers, SendNext(p)
  PROVE  Inv'
<1>1. PICK e \in NextRow(p) : log' = Append(log, e) /\ sent' = [sent EXCEPT ![p] = @ \cup {e}]
  BY DEF SendNext
<1>2. UNCHANGED <<outboxVars, published, batch, consumerVars, databaseVars, dlt, replayed, faults>>
  BY DEF SendNext
<1>3. /\ e \in batch[p] /\ e \in recorded
      /\ InOrder => \A r \in recorded : r < e => r \in ToSet(log)
  BY NextInOrder
<1>4. /\ log' \in Seq(recorded) /\ ToSet(log') = ToSet(log) \cup {e}
      /\ offset' \in 0 .. Len(log') /\ position' \in [Consumers -> 1 .. (Len(log') + 1)]
      /\ \A c \in Consumers : phase'[c] # "idle" => position'[c] <= Len(log')
      /\ Passed' /\ (\A i \in 1 .. offset' : Gone(log'[i])) /\ (InOrder => LogOrdered')
  BY <1>1, <1>2, <1>3, LogGrows
<1>5. TypeOK'
  <2>1. /\ sent' \in [Publishers -> SUBSET recorded]
        /\ \A q \in Publishers : sent'[q] \subseteq batch[q]
    BY <1>1, <1>3 DEF Inv, TypeOK
  <2> QED BY <1>2, <1>4, <2>1 DEF Inv, TypeOK, outboxVars, consumerVars, databaseVars
<1>6. NothingLost' /\ Marked' /\ Copied' /\ Together'
  BY <1>1, <1>2, <1>4 DEF Inv, TypeOK, NothingLost, Marked, Copied, Together, Gone, databaseVars
<1>7. InOrder => Ordered'
  BY <1>2, <1>4 DEF Inv, Ordered, OneOpen, BatchOldest, outboxVars
<1> QED BY <1>4, <1>5, <1>6, <1>7 DEF Inv

\* A publisher's transaction commits the marks.
LEMMA CommitBatchInv ==
  ASSUME Inv, NEW p \in Publishers, CommitBatch(p)
  PROVE  Inv'
<1>1. /\ sent[p] = batch[p] /\ published' = published \cup batch[p]
      /\ batch' = [batch EXCEPT ![p] = {}] /\ sent' = [sent EXCEPT ![p] = {}]
      /\ UNCHANGED <<outboxVars, consumerVars, databaseVars, dlt, replayed, log, faults>>
  BY DEF CommitBatch, EndBatch
<1>2. TypeOK'
  <2>1. /\ batch' \in [Publishers -> SUBSET recorded] /\ sent' \in [Publishers -> SUBSET recorded]
        /\ published' \subseteq recorded
    BY <1>1 DEF Inv, TypeOK
  <2>2. \A q \in Publishers : Cardinality(batch'[q]) <= Batch /\ sent'[q] \subseteq batch'[q]
    BY <1>1, FS_EmptySet, MessagingAssumption DEF Inv, TypeOK
  <2> QED BY <1>1, <2>1, <2>2 DEF Inv, TypeOK, outboxVars, consumerVars, databaseVars
<1>3. NothingLost' /\ Marked' /\ Copied' /\ Together' /\ Passed'
  BY <1>1 DEF Inv, TypeOK, NothingLost, Marked, Copied, Together, Passed, Gone, consumerVars, databaseVars
<1>4. InOrder => Ordered'
  BY <1>1 DEF Inv, TypeOK, Ordered, OneOpen, BatchOldest, LogOrdered, outboxVars
<1> QED BY <1>2, <1>3, <1>4 DEF Inv

\* A publisher's transaction is rolled back, its last record written or not.
LEMMA PublisherFailsInv ==
  ASSUME Inv, NEW p \in Publishers, PublisherFails(p)
  PROVE  Inv'
<1>1. /\ faults < MaxFaults /\ faults' = faults + 1 /\ log' \in LogsAfter(p)
      /\ batch' = [batch EXCEPT ![p] = {}] /\ sent' = [sent EXCEPT ![p] = {}]
      /\ UNCHANGED <<outboxVars, consumerVars, databaseVars, dlt, replayed, published>>
  BY DEF PublisherFails, EndBatch, Fault
<1>2. /\ log' \in Seq(recorded) /\ ToSet(log) \subseteq ToSet(log')
      /\ offset' \in 0 .. Len(log') /\ position' \in [Consumers -> 1 .. (Len(log') + 1)]
      /\ \A c \in Consumers : phase'[c] # "idle" => position'[c] <= Len(log')
      /\ Passed' /\ (\A i \in 1 .. offset' : Gone(log'[i])) /\ (InOrder => LogOrdered')
  <2>1. CASE log' = log
    BY <1>1, <2>1 DEF Inv, TypeOK, Passed, NothingLost, Gone, Ordered, LogOrdered, outboxVars, consumerVars,
                      databaseVars
  <2>2. CASE \E e \in NextRow(p) : log' = Append(log, e)
    <3>1. PICK e \in NextRow(p) : log' = Append(log, e)
      BY <2>2
    <3>2. e \in recorded /\ (InOrder => \A r \in recorded : r < e => r \in ToSet(log))
      BY NextInOrder
    <3> QED BY <1>1, <3>1, <3>2, LogGrows
  <2> QED BY <1>1, <2>1, <2>2 DEF LogsAfter
<1>3. TypeOK'
  <2>1. /\ batch' \in [Publishers -> SUBSET recorded] /\ sent' \in [Publishers -> SUBSET recorded]
    BY <1>1 DEF Inv, TypeOK
  <2>2. \A q \in Publishers : Cardinality(batch'[q]) <= Batch /\ sent'[q] \subseteq batch'[q]
    BY <1>1, FS_EmptySet, MessagingAssumption DEF Inv, TypeOK
  <2>3. faults' \in 0 .. MaxFaults
    BY <1>1, MessagingAssumption DEF Inv, TypeOK
  <2> QED BY <1>1, <1>2, <2>1, <2>2, <2>3 DEF Inv, TypeOK, outboxVars, consumerVars, databaseVars
<1>4. NothingLost' /\ Marked' /\ Copied' /\ Together'
  BY <1>1, <1>2 DEF Inv, TypeOK, NothingLost, Marked, Copied, Together, Gone, databaseVars
<1>5. InOrder => Ordered'
  BY <1>1, <1>2 DEF Inv, TypeOK, Ordered, OneOpen, BatchOldest, outboxVars
<1> QED BY <1>2, <1>3, <1>4, <1>5 DEF Inv

\* A record of the dead letter topic is published again: it is in the topic
\* already, and so are the events before it.
LEMMA ReplayInv ==
  ASSUME Inv, NEW i \in DOMAIN dlt, Replay(i)
  PROVE  Inv'
<1>1. /\ log' = Append(log, dlt[i]) /\ replayed' = replayed \cup {i}
      /\ UNCHANGED <<producerVars, consumerVars, databaseVars, dlt, faults>>
  BY DEF Replay
<1>2. /\ dlt[i] \in recorded /\ dlt[i] \in ToSet(log)
      /\ log \in Seq(recorded)
  BY ToSetElements DEF Inv, TypeOK, Copied
<1>3. ASSUME InOrder, NEW r \in recorded, r < dlt[i] PROVE r \in ToSet(log)
  <2>1. PICK k \in 1 .. Len(log) : log[k] = dlt[i]
    BY <1>2, ToSetElements
  <2>2. PICK j \in 1 .. (k - 1) : log[j] = r
    BY <1>3, <2>1 DEF Inv, Ordered, LogOrdered
  <2> QED BY <1>2, <2>1, <2>2, ToSetElements
<1>4. /\ log' \in Seq(recorded) /\ ToSet(log) \subseteq ToSet(log')
      /\ offset' \in 0 .. Len(log') /\ position' \in [Consumers -> 1 .. (Len(log') + 1)]
      /\ \A c \in Consumers : phase'[c] # "idle" => position'[c] <= Len(log')
      /\ Passed' /\ (\A k \in 1 .. offset' : Gone(log'[k])) /\ (InOrder => LogOrdered')
  BY <1>1, <1>2, <1>3, LogGrows DEF producerVars
<1>5. TypeOK'
  BY <1>1, <1>4 DEF Inv, TypeOK, producerVars, outboxVars, consumerVars, databaseVars
<1>6. NothingLost' /\ Marked' /\ Copied' /\ Together'
  BY <1>1, <1>4 DEF Inv, NothingLost, Marked, Copied, Together, Gone, producerVars, databaseVars
<1>7. InOrder => Ordered'
  BY <1>1, <1>4 DEF Inv, Ordered, OneOpen, BatchOldest, producerVars, outboxVars
<1> QED BY <1>4, <1>5, <1>6, <1>7 DEF Inv

-----------------------------------------------------------------------------
(***************************************************************************)
(* The actions of the consuming service.                                   *)
(***************************************************************************)
\* The event that an instance holds is a committed one and in the topic.
LEMMA HeldEvent ==
  ASSUME Inv, NEW c \in Consumers, phase[c] # "idle"
  PROVE  /\ position[c] \in 1 .. Len(log)
         /\ log[position[c]] \in recorded /\ log[position[c]] \in ToSet(log)
<1>1. log \in Seq(recorded) /\ position[c] \in 1 .. (Len(log) + 1) /\ position[c] <= Len(log)
  BY DEF Inv, TypeOK
<1>2. Len(log) \in Nat
  BY <1>1, ToSetElements
<1>3. position[c] \in 1 .. Len(log)
  BY <1>1, <1>2
<1> QED BY <1>1, <1>3, ToSetElements

\* What consumers do leaves the order of the topic alone.
LEMMA OrderedKept ==
  ASSUME Inv, UNCHANGED <<producerVars, log>>
  PROVE  InOrder => Ordered'
BY DEF Inv, Ordered, OneOpen, BatchOldest, LogOrdered, producerVars, outboxVars

\* What one consumer does with its memory and the partition leaves everything
\* else typed.
LEMMA TypeKept ==
  ASSUME TypeOK, UNCHANGED <<producerVars, log, databaseVars, dlt, replayed>>,
         offset' \in 0 .. Len(log), owner' \in Consumers, faults' \in 0 .. MaxFaults,
         position' \in [Consumers -> 1 .. (Len(log) + 1)], tries' \in [Consumers -> 0 .. Attempts],
         phase' \in [Consumers -> {"idle", "fetched", "failed", "done"}],
         \A c \in Consumers : phase'[c] # "idle" => position'[c] <= Len(log)
  PROVE  TypeOK'
BY DEF TypeOK, producerVars, outboxVars, databaseVars

\* The owner of the partition fetches a record.
LEMMA FetchInv ==
  ASSUME Inv, NEW c \in Consumers, Fetch(c)
  PROVE  Inv'
<1>1. /\ position[c] <= Len(log) /\ phase[c] = "idle"
      /\ phase' = [phase EXCEPT ![c] = "fetched"] /\ tries' = [tries EXCEPT ![c] = 0]
      /\ UNCHANGED <<producerVars, log, offset, owner, position, databaseVars, dlt, replayed, faults>>
  BY DEF Fetch
<1>2. TypeOK'
  <2>1. /\ position' \in [Consumers -> 1 .. (Len(log) + 1)]
        /\ tries' \in [Consumers -> 0 .. Attempts]
        /\ phase' \in [Consumers -> {"idle", "fetched", "failed", "done"}]
        /\ \A d \in Consumers : phase'[d] # "idle" => position'[d] <= Len(log)
    BY <1>1, MessagingAssumption DEF Inv, TypeOK
  <2>2. offset' \in 0 .. Len(log) /\ owner' \in Consumers /\ faults' \in 0 .. MaxFaults
    BY <1>1 DEF Inv, TypeOK
  <2> QED BY <1>1, <2>1, <2>2, TypeKept DEF Inv
<1>3. NothingLost' /\ Marked' /\ Copied' /\ Together'
  BY <1>1 DEF Inv, NothingLost, Marked, Copied, Together, Gone, producerVars, databaseVars
<1>4. Passed'
  BY <1>1 DEF Inv, TypeOK, Passed, Gone, databaseVars
<1> QED BY <1>1, <1>2, <1>3, <1>4, OrderedKept DEF Inv

\* The handler's transaction commits, or the event is known already.
LEMMA ProcessInv ==
  ASSUME Inv, NEW c \in Consumers, Process(c)
  PROVE  Inv'
<1> DEFINE e == log[position[c]]
<1>1. /\ phase[c] = "fetched" /\ Effect(e) /\ phase' = [phase EXCEPT ![c] = "done"]
      /\ UNCHANGED <<producerVars, log, offset, owner, position, tries, dlt, replayed, faults>>
  BY DEF Process
<1>2. position[c] \in 1 .. Len(log) /\ e \in recorded
  BY <1>1, HeldEvent
<1>3. /\ inbox' = inbox \cup {e} /\ inbox' \subseteq recorded
      /\ effects' \in Seq(recorded) /\ ToSet(effects') = inbox'
  BY <1>1, <1>2, EffectGrows DEF Inv
<1> HIDE DEF e
<1>4. TypeOK'
  BY <1>1, <1>2, <1>3 DEF Inv, TypeOK, producerVars, outboxVars
<1>5. NothingLost' /\ Marked' /\ Copied' /\ Together'
  BY <1>1, <1>3 DEF Inv, NothingLost, Marked, Copied, Together, Gone, producerVars
<1>6. Passed'
  <2>1. \A x : x = e \/ Gone(x) => Gone(x)'
    BY <1>1, <1>3 DEF Gone
  <2>2. \A d \in Consumers : phase'[d] = "done" => d = c \/ phase[d] = "done"
    BY <1>1 DEF Inv, TypeOK
  <2>3. /\ UNCHANGED <<position, log>>
        /\ \A d \in Consumers : phase[d] = "done" => Gone(log[position[d]])
        /\ \A d \in Consumers : \A i \in 1 .. (position[d] - 1) : Gone(log[i])
    BY <1>1 DEF Inv, Passed
  <2> QED BY <2>1, <2>2, <2>3 DEF Passed, Gone, e
<1> QED BY <1>1, <1>4, <1>5, <1>6, OrderedKept DEF Inv

\* The handler fails, or only its answer is lost.
LEMMA ProcessFailsInv ==
  ASSUME Inv, NEW c \in Consumers, NEW committed \in BOOLEAN, ProcessFails(c, committed)
  PROVE  Inv'
<1> DEFINE e == log[position[c]]
<1>1. /\ faults < MaxFaults /\ faults' = faults + 1 /\ phase[c] = "fetched"
      /\ IF committed THEN Effect(e) ELSE UNCHANGED databaseVars
      /\ tries' = [tries EXCEPT ![c] = IF @ < Attempts THEN @ + 1 ELSE @]
      /\ phase' = [phase EXCEPT ![c] = IF tries'[c] = Attempts THEN "failed" ELSE @]
      /\ UNCHANGED <<producerVars, log, offset, owner, position, dlt, replayed>>
  BY DEF ProcessFails, Fault
<1>2. position[c] \in 1 .. Len(log) /\ e \in recorded
  BY <1>1, HeldEvent
<1>3. /\ inbox \subseteq inbox' /\ inbox' \subseteq recorded
      /\ effects' \in Seq(recorded) /\ ToSet(effects') = inbox'
  <2>1. CASE committed
    BY <1>1, <1>2, <2>1, EffectGrows DEF Inv
  <2>2. CASE ~ committed
    BY <1>1, <2>2 DEF Inv, TypeOK, Together, databaseVars
  <2> QED BY <2>1, <2>2
<1>4. TypeOK'
  <2>1. tries' \in [Consumers -> 0 .. Attempts] /\ faults' \in 0 .. MaxFaults
    BY <1>1, MessagingAssumption DEF Inv, TypeOK
  <2>2. phase' \in [Consumers -> {"idle", "fetched", "failed", "done"}]
    BY <1>1 DEF Inv, TypeOK
  <2>3. \A d \in Consumers : phase'[d] # "idle" => phase[d] # "idle"
    BY <1>1 DEF Inv, TypeOK
  <2> QED BY <1>1, <1>3, <2>1, <2>2, <2>3 DEF Inv, TypeOK, producerVars, outboxVars
<1>5. NothingLost' /\ Marked' /\ Copied' /\ Together'
  BY <1>1, <1>3 DEF Inv, NothingLost, Marked, Copied, Together, Gone, producerVars
<1>6. Passed'
  <2>1. \A d \in Consumers : phase'[d] = "done" => phase[d] = "done"
    BY <1>1 DEF Inv, TypeOK
  <2> QED BY <1>1, <1>3, <2>1 DEF Inv, Passed, Gone
<1> QED BY <1>1, <1>4, <1>5, <1>6, OrderedKept DEF Inv

\* The event that an instance holds is copied to the dead letter topic.
LEMMA CopyGrows ==
  ASSUME Inv, NEW c \in Consumers, phase[c] = "failed", dlt' = Append(dlt, log[position[c]])
  PROVE  /\ dlt' \in Seq(recorded) /\ replayed \subseteq DOMAIN dlt'
         /\ ToSet(dlt') = ToSet(dlt) \cup {log[position[c]]} /\ ToSet(dlt') \subseteq ToSet(log)
<1>1. /\ log[position[c]] \in recorded /\ log[position[c]] \in ToSet(log)
      /\ dlt \in Seq(recorded) /\ replayed \subseteq DOMAIN dlt /\ ToSet(dlt) \subseteq ToSet(log)
  BY HeldEvent DEF Inv, TypeOK, Copied
<1>2. /\ dlt' \in Seq(recorded) /\ Len(dlt) \in Nat /\ Len(dlt') = Len(dlt) + 1
      /\ ToSet(dlt') = ToSet(dlt) \cup {log[position[c]]}
  BY <1>1, ToSetAppend
<1>3. DOMAIN dlt = 1 .. Len(dlt) /\ DOMAIN dlt' = 1 .. Len(dlt')
  BY <1>1, <1>2, ToSetElements
<1> QED BY <1>1, <1>2, <1>3

\* The copy is acknowledged.
LEMMA DeadLetterInv ==
  ASSUME Inv, NEW c \in Consumers, DeadLetter(c)
  PROVE  Inv'
<1> DEFINE e == log[position[c]]
<1>1. /\ phase[c] = "failed" /\ dlt' = Append(dlt, e) /\ phase' = [phase EXCEPT ![c] = "done"]
      /\ UNCHANGED <<producerVars, log, offset, owner, position, tries, databaseVars, replayed, faults>>
  BY DEF DeadLetter
<1>2. /\ dlt' \in Seq(recorded) /\ replayed \subseteq DOMAIN dlt'
      /\ ToSet(dlt') = ToSet(dlt) \cup {e} /\ ToSet(dlt') \subseteq ToSet(log)
  BY <1>1, CopyGrows
<1>3. position[c] \in 1 .. Len(log)
  BY <1>1, HeldEvent
<1> HIDE DEF e
<1>4. TypeOK'
  BY <1>1, <1>2, <1>3 DEF Inv, TypeOK, producerVars, outboxVars, databaseVars
<1>5. NothingLost' /\ Marked' /\ Copied' /\ Together'
  BY <1>1, <1>2 DEF Inv, NothingLost, Marked, Copied, Together, Gone, producerVars, databaseVars
<1>6. Passed'
  <2>1. \A x : x = e \/ Gone(x) => Gone(x)'
    BY <1>1, <1>2 DEF Gone, databaseVars
  <2>2. \A d \in Consumers : phase'[d] = "done" => d = c \/ phase[d] = "done"
    BY <1>1 DEF Inv, TypeOK
  <2>3. /\ UNCHANGED <<position, log>>
        /\ \A d \in Consumers : phase[d] = "done" => Gone(log[position[d]])
        /\ \A d \in Consumers : \A i \in 1 .. (position[d] - 1) : Gone(log[i])
    BY <1>1 DEF Inv, Passed
  <2> QED BY <2>1, <2>2, <2>3 DEF Passed, Gone, e
<1> QED BY <1>1, <1>4, <1>5, <1>6, OrderedKept DEF Inv

\* The copy is not acknowledged.
LEMMA DeadLetterFailsInv ==
  ASSUME Inv, NEW c \in Consumers, NEW written \in BOOLEAN, DeadLetterFails(c, written)
  PROVE  Inv'
<1>1. /\ faults < MaxFaults /\ faults' = faults + 1 /\ phase[c] = "failed"
      /\ dlt' = IF written THEN Append(dlt, log[position[c]]) ELSE dlt
      /\ phase' = [phase EXCEPT ![c] = "fetched"]
      /\ UNCHANGED <<producerVars, log, offset, owner, position, tries, databaseVars, replayed>>
  BY DEF DeadLetterFails, Fault
<1>2. /\ dlt' \in Seq(recorded) /\ replayed \subseteq DOMAIN dlt'
      /\ ToSet(dlt) \subseteq ToSet(dlt') /\ ToSet(dlt') \subseteq ToSet(log)
  <2>1. CASE written
    BY <1>1, <2>1, CopyGrows
  <2>2. CASE ~ written
    BY <1>1, <2>2 DEF Inv, TypeOK, Copied
  <2> QED BY <2>1, <2>2
<1>3. position[c] \in 1 .. Len(log)
  BY <1>1, HeldEvent
<1>4. TypeOK'
  <2>1. faults' \in 0 .. MaxFaults
    BY <1>1, MessagingAssumption DEF Inv, TypeOK
  <2> QED BY <1>1, <1>2, <1>3, <2>1 DEF Inv, TypeOK, producerVars, outboxVars, databaseVars
<1>5. NothingLost' /\ Marked' /\ Copied' /\ Together'
  BY <1>1, <1>2 DEF Inv, NothingLost, Marked, Copied, Together, Gone, producerVars, databaseVars
<1>6. Passed'
  <2>1. \A d \in Consumers : phase'[d] = "done" => phase[d] = "done"
    BY <1>1 DEF Inv, TypeOK
  <2> QED BY <1>1, <1>2, <2>1 DEF Inv, Passed, Gone, databaseVars
<1> QED BY <1>1, <1>4, <1>5, <1>6, OrderedKept DEF Inv

\* An instance goes on to the next record, the offset committed or not.
LEMMA GoOnGrows ==
  ASSUME Inv, NEW c \in Consumers, phase[c] = "done",
         phase' = [phase EXCEPT ![c] = "idle"],
         position' = [position EXCEPT ![c] = @ + 1],
         offset' \in {offset, position[c]},
         UNCHANGED <<producerVars, log, owner, tries, databaseVars, dlt, replayed>>,
         faults' \in 0 .. MaxFaults
  PROVE  Inv'
<1>1. /\ position[c] \in 1 .. Len(log) /\ Len(log) \in Nat
      /\ \A i \in 1 .. position[c] : Gone(log[i])
  <2>1. position[c] \in 1 .. Len(log)
    BY HeldEvent
  <2>2. Len(log) \in Nat
    BY ToSetElements DEF Inv, TypeOK
  <2>3. (\A i \in 1 .. (position[c] - 1) : Gone(log[i])) /\ Gone(log[position[c]])
    BY DEF Inv, Passed
  <2> QED BY <2>1, <2>2, <2>3
<1>2. TypeOK'
  <2>1. /\ offset' \in 0 .. Len(log) /\ position' \in [Consumers -> 1 .. (Len(log) + 1)]
        /\ phase' \in [Consumers -> {"idle", "fetched", "failed", "done"}]
        /\ \A d \in Consumers : phase'[d] # "idle" => position'[d] <= Len(log)
    <3>1. /\ offset \in 0 .. Len(log) /\ position \in [Consumers -> 1 .. (Len(log) + 1)]
          /\ phase \in [Consumers -> {"idle", "fetched", "failed", "done"}]
          /\ \A d \in Consumers : phase[d] # "idle" => position[d] <= Len(log)
      BY DEF Inv, TypeOK
    <3>2. offset' \in 0 .. Len(log)
      BY <1>1, <3>1
    <3>3. position[c] + 1 \in 1 .. (Len(log) + 1)
      BY <1>1
    <3>4. position' \in [Consumers -> 1 .. (Len(log) + 1)]
      BY <3>1, <3>3
    <3>5. /\ phase' \in [Consumers -> {"idle", "fetched", "failed", "done"}]
          /\ phase'[c] = "idle"
          /\ \A d \in Consumers \ {c} : phase'[d] = phase[d] /\ position'[d] = position[d]
      BY <3>1
    <3> QED BY <3>1, <3>2, <3>4, <3>5
  <2>2. owner' \in Consumers /\ tries' \in [Consumers -> 0 .. Attempts]
    BY DEF Inv, TypeOK
  <2> QED BY <2>1, <2>2, TypeKept DEF Inv
<1>3. NothingLost' /\ Marked' /\ Copied' /\ Together'
  BY <1>1 DEF Inv, NothingLost, Marked, Copied, Together, Gone, producerVars, databaseVars
<1>4. Passed'
  <2>1. ASSUME NEW d \in Consumers, d # c
        PROVE  /\ \A i \in 1 .. (position'[d] - 1) : Gone(log[i])
               /\ phase'[d] = "done" => Gone(log[position'[d]])
    BY <2>1 DEF Inv, TypeOK, Passed
  <2>2. position'[c] - 1 = position[c] /\ phase'[c] = "idle"
    BY <1>1 DEF Inv, TypeOK
  <2> QED BY <1>1, <2>1, <2>2 DEF Passed, Gone, databaseVars
<1> QED BY <1>2, <1>3, <1>4, OrderedKept DEF Inv

\* The offset is committed if the instance still owns the partition.
LEMMA GoOnInv ==
  ASSUME Inv, NEW c \in Consumers, GoOn(c)
  PROVE  Inv'
<1>1. /\ phase[c] = "done" /\ phase' = [phase EXCEPT ![c] = "idle"]
      /\ position' = [position EXCEPT ![c] = @ + 1] /\ offset' \in {offset, position[c]}
      /\ UNCHANGED <<producerVars, log, owner, tries, databaseVars, dlt, replayed>>
      /\ faults' \in 0 .. MaxFaults
  BY DEF GoOn, Inv, TypeOK
<1> QED BY <1>1, GoOnGrows

\* The offset commit fails.
LEMMA GoOnUncommittedInv ==
  ASSUME Inv, NEW c \in Consumers, GoOnUncommitted(c)
  PROVE  Inv'
<1>1. /\ phase[c] = "done" /\ phase' = [phase EXCEPT ![c] = "idle"]
      /\ position' = [position EXCEPT ![c] = @ + 1] /\ offset' \in {offset, position[c]}
      /\ UNCHANGED <<producerVars, log, owner, tries, databaseVars, dlt, replayed>>
      /\ faults' \in 0 .. MaxFaults
  BY MessagingAssumption DEF GoOnUncommitted, Fault, Inv, TypeOK
<1> QED BY <1>1, GoOnGrows

\* The partition is assigned: its owner starts at the committed offset.
LEMMA AssignInv ==
  ASSUME Inv, NEW c \in Consumers, Assign(c)
  PROVE  Inv'
<1>1. /\ faults < MaxFaults /\ faults' = faults + 1 /\ owner' = c
      /\ position' = [position EXCEPT ![c] = offset + 1]
      /\ phase' = [phase EXCEPT ![c] = "idle"] /\ tries' = [tries EXCEPT ![c] = 0]
      /\ UNCHANGED <<producerVars, log, offset, databaseVars, dlt, replayed>>
  BY DEF Assign, Fault
<1>2. Len(log) \in Nat /\ offset \in 0 .. Len(log)
  BY ToSetElements DEF Inv, TypeOK
<1>3. TypeOK'
  <2>1. /\ position' \in [Consumers -> 1 .. (Len(log) + 1)]
        /\ tries' \in [Consumers -> 0 .. Attempts]
        /\ phase' \in [Consumers -> {"idle", "fetched", "failed", "done"}]
        /\ \A d \in Consumers : phase'[d] # "idle" => position'[d] <= Len(log)
    BY <1>1, <1>2, MessagingAssumption DEF Inv, TypeOK
  <2>2. offset' \in 0 .. Len(log) /\ owner' \in Consumers /\ faults' \in 0 .. MaxFaults
    BY <1>1, MessagingAssumption DEF Inv, TypeOK
  <2> QED BY <1>1, <2>1, <2>2, TypeKept DEF Inv
<1>4. NothingLost' /\ Marked' /\ Copied' /\ Together'
  BY <1>1 DEF Inv, NothingLost, Marked, Copied, Together, Gone, producerVars, databaseVars
<1>5. Passed'
  <2>1. ASSUME NEW d \in Consumers, d # c
        PROVE  /\ \A i \in 1 .. (position'[d] - 1) : Gone(log[i])
               /\ phase'[d] = "done" => Gone(log[position'[d]])
    BY <1>1, <2>1 DEF Inv, TypeOK, Passed
  <2>2. position'[c] - 1 = offset /\ phase'[c] = "idle"
    BY <1>1, <1>2 DEF Inv, TypeOK
  <2>3. \A i \in 1 .. offset : Gone(log[i])
    BY DEF Inv, NothingLost, Gone
  <2> QED BY <1>1, <2>1, <2>2, <2>3 DEF Passed, Gone, databaseVars
<1> QED BY <1>1, <1>3, <1>4, <1>5, OrderedKept DEF Inv

-----------------------------------------------------------------------------
(***************************************************************************)
(* The theorems.                                                           *)
(***************************************************************************)
\* Every step keeps the invariant.
LEMMA NextInv == Inv /\ [Next]_vars => Inv'
<1> SUFFICES ASSUME Inv, [Next]_vars PROVE Inv'
  OBVIOUS
<1>1. CASE UNCHANGED vars
  BY <1>1 DEF Inv, TypeOK, NothingLost, Marked, Copied, Together, Passed, Gone, Ordered, OneOpen, BatchOldest,
              LogOrdered, vars, producerVars, outboxVars, consumerVars, databaseVars
<1>2. CASE Transactions
  BY <1>2, EmitInv, EndTransactionInv DEF Transactions
<1>3. ASSUME NEW p \in Publishers, Publisher(p) PROVE Inv'
  BY <1>3, ReadBatchInv, SendNextInv, CommitBatchInv DEF Publisher
<1>4. ASSUME NEW c \in Consumers, Consumer(c) PROVE Inv'
  BY <1>4, FetchInv, ProcessInv, DeadLetterInv, GoOnInv DEF Consumer
<1>5. CASE \E i \in DOMAIN dlt : Replay(i)
  BY <1>5, ReplayInv
<1>6. CASE Failure
  BY <1>6, PublisherFailsInv, GoOnUncommittedInv, AssignInv, ProcessFailsInv, DeadLetterFailsInv DEF Failure
<1> QED BY <1>1, <1>2, <1>3, <1>4, <1>5, <1>6 DEF Next

\* The invariant holds in every reachable state.
THEOREM MessagingInvariant == Spec => []Inv
<1> QED BY InitInv, NextInv, PTL DEF Spec

\* Types of the tables, the topics and the processes' memory.
THEOREM MessagingTypes == Spec => []TypeOK
<1>1. Inv => TypeOK
  BY DEF Inv
<1> QED BY <1>1, MessagingInvariant, PTL

\* However publishers and consumers crash and the partition moves, a row marked
\* published is in the topic, and the group's offset passes a record only when
\* its effects are committed or a copy is in the dead letter topic.
THEOREM MessagingNothingLost == Spec => []NothingLost
<1>1. Inv => NothingLost
  BY DEF Inv
<1> QED BY <1>1, MessagingInvariant, PTL

-----------------------------------------------------------------------------
(***************************************************************************)
(* Every step records, takes or sets aside one event, or is invisible.     *)
(***************************************************************************)
\* What has taken effect.
LEMMA DoneIsInbox ==
  ASSUME Inv
  PROVE  Stream!Done = inbox
BY DEF Inv, Together, ToSet, Stream!Done, Stream!ToSet

\* All events before one that an instance holds are behind that instance.
LEMMA HeldIsReady ==
  ASSUME Inv, NEW c \in Consumers, phase[c] # "idle"
  PROVE  log[position[c]] \in AllEvents /\ Stream!Ready(log[position[c]])
<1> DEFINE e == log[position[c]]
<1>1. /\ position[c] \in 1 .. Len(log) /\ e \in recorded
      /\ recorded \subseteq AllEvents /\ Len(log) \in Nat
  BY HeldEvent, ToSetElements, MessagingAssumption DEF Inv, TypeOK, AllEvents
<1>2. ASSUME InOrder, NEW r \in recorded, r < e
      PROVE  r \in Stream!Done \cup ToSet(dlt)
  <2>1. PICK j \in 1 .. (position[c] - 1) : log[j] = r
    BY <1>1, <1>2 DEF Inv, Ordered, LogOrdered
  <2>2. Gone(r)
    BY <2>1 DEF Inv, Passed
  <2> QED BY <2>2, DoneIsInbox DEF Gone
<1> QED BY <1>1, <1>2 DEF Stream!Ready, InOrder

\* A transaction of Process with the event that an instance holds.
LEMMA EffectTakes ==
  ASSUME Inv, NEW c \in Consumers, phase[c] # "idle", Effect(log[position[c]]), UNCHANGED <<recorded, dlt>>
  PROVE  [Stream!Next]_(Stream!streamVars)
<1> DEFINE e == log[position[c]]
<1>1. e \in AllEvents /\ Stream!Ready(e)
  BY HeldIsReady
<1>2. CASE e \in inbox
  BY <1>2 DEF Effect, Stream!streamVars
<1>3. CASE e \notin inbox
  <2>1. Stream!Take(e)
    BY <1>1, <1>3, DoneIsInbox DEF Effect, Stream!Take
  <2> QED BY <1>1, <2>1 DEF Stream!Next, AllEvents
<1> QED BY <1>2, <1>3

\* A copy of that event in the dead letter topic.
LEMMA CopySetsAside ==
  ASSUME Inv, NEW c \in Consumers, phase[c] = "failed", dlt' = Append(dlt, log[position[c]]),
         UNCHANGED <<recorded, effects>>
  PROVE  [Stream!Next]_(Stream!streamVars)
<1> DEFINE e == log[position[c]]
<1>1. e \in AllEvents /\ Stream!Ready(e)
  BY HeldIsReady
<1>2. ToSet(dlt') = ToSet(dlt) \cup {e}
  BY CopyGrows
<1>3. Stream!SetAside(e)
  BY <1>1, <1>2 DEF Stream!SetAside
<1> QED BY <1>1, <1>3 DEF Stream!Next, AllEvents

\* A transaction that commits records its event, the latest if there is an order.
LEMMA EndTransactionRecords ==
  ASSUME Inv, NEW e \in open, EndTransaction(e)
  PROVE  [Stream!Next]_(Stream!streamVars)
<1>1. /\ e \in AllEvents /\ e \notin recorded
      /\ InOrder => \A r \in recorded : r < e
  <2>1. /\ drawn \in 0 .. MaxEvents /\ open \subseteq 1 .. drawn /\ recorded \subseteq (1 .. drawn) \ open
        /\ InOrder => e = drawn
    BY DEF Inv, TypeOK, Ordered, OneOpen
  <2> QED BY <2>1, MessagingAssumption DEF AllEvents
<1>2. UNCHANGED <<effects, dlt>> /\ recorded' \in {recorded, recorded \cup {e}}
  BY DEF EndTransaction, databaseVars
<1>3. CASE recorded' = recorded
  BY <1>2, <1>3 DEF Stream!streamVars
<1>4. CASE recorded' = recorded \cup {e}
  <2>1. Stream!Record(e)
    BY <1>1, <1>2, <1>4 DEF Stream!Record, InOrder
  <2> QED BY <1>1, <2>1 DEF Stream!Next, AllEvents
<1> QED BY <1>2, <1>3, <1>4

\* Every step of the parts is a step of the stream or none.
LEMMA StreamStep == Inv /\ [Next]_vars => [Stream!Next]_(Stream!streamVars)
<1> SUFFICES ASSUME Inv, [Next]_vars PROVE [Stream!Next]_(Stream!streamVars)
  OBVIOUS
<1>1. CASE UNCHANGED <<recorded, effects, dlt>>
  BY <1>1 DEF Stream!streamVars
<1>2. CASE UNCHANGED vars
  BY <1>1, <1>2 DEF vars, producerVars, outboxVars, databaseVars
<1>3. CASE Transactions
  <2>1. CASE Emit
    BY <1>1, <2>1 DEF Emit, databaseVars
  <2> QED BY <1>3, <2>1, EndTransactionRecords DEF Transactions
<1>4. ASSUME NEW p \in Publishers, Publisher(p) PROVE UNCHANGED <<recorded, effects, dlt>>
  BY <1>4 DEF Publisher, ReadBatch, SendNext, CommitBatch, EndBatch, outboxVars, databaseVars
<1>5. ASSUME NEW c \in Consumers, Consumer(c) PROVE [Stream!Next]_(Stream!streamVars)
  <2>1. CASE Fetch(c) \/ GoOn(c)
    BY <1>1, <2>1 DEF Fetch, GoOn, producerVars, outboxVars, databaseVars
  <2>2. CASE Process(c)
    BY <2>2, EffectTakes DEF Process, producerVars, outboxVars
  <2>3. CASE DeadLetter(c)
    BY <2>3, CopySetsAside DEF DeadLetter, producerVars, outboxVars, databaseVars
  <2> QED BY <1>5, <2>1, <2>2, <2>3 DEF Consumer
<1>6. CASE \E i \in DOMAIN dlt : Replay(i)
  BY <1>1, <1>6 DEF Replay, producerVars, outboxVars, databaseVars
<1>7. CASE Failure
  <2>1. ASSUME NEW p \in Publishers, PublisherFails(p) PROVE UNCHANGED <<recorded, effects, dlt>>
    BY <2>1 DEF PublisherFails, EndBatch, outboxVars, databaseVars
  <2>2. ASSUME NEW c \in Consumers, GoOnUncommitted(c) \/ Assign(c)
        PROVE  UNCHANGED <<recorded, effects, dlt>>
    BY <2>2 DEF GoOnUncommitted, Assign, producerVars, outboxVars, databaseVars
  <2>3. ASSUME NEW c \in Consumers, NEW committed \in BOOLEAN, ProcessFails(c, committed)
        PROVE  [Stream!Next]_(Stream!streamVars)
    <3>1. phase[c] # "idle" /\ UNCHANGED <<recorded, dlt>>
      BY <2>3 DEF ProcessFails, producerVars, outboxVars
    <3>2. CASE committed
      BY <2>3, <3>1, <3>2, EffectTakes DEF ProcessFails
    <3>3. CASE ~ committed
      BY <1>1, <2>3, <3>1, <3>3 DEF ProcessFails, databaseVars
    <3> QED BY <3>2, <3>3
  <2>4. ASSUME NEW c \in Consumers, NEW written \in BOOLEAN, DeadLetterFails(c, written)
        PROVE  [Stream!Next]_(Stream!streamVars)
    <3>1. phase[c] = "failed" /\ UNCHANGED <<recorded, effects>>
      BY <2>4 DEF DeadLetterFails, producerVars, outboxVars, databaseVars
    <3>2. CASE written
      BY <2>4, <3>1, <3>2, CopySetsAside DEF DeadLetterFails
    <3>3. CASE ~ written
      BY <1>1, <2>4, <3>1, <3>3 DEF DeadLetterFails
    <3> QED BY <3>2, <3>3
  <2> QED BY <1>1, <1>7, <2>1, <2>2, <2>3, <2>4 DEF Failure
<1> QED BY <1>1, <1>2, <1>3, <1>4, <1>5, <1>6, <1>7 DEF Next

\* Duplicates in the topic, crashes and reassigned partitions are invisible to
\* the business effects: each event takes effect at most once, and with one
\* publisher and serial transactions in the order recorded, unless it was
\* dead-lettered.
THEOREM MessagingImplementsStream == Spec => ImplementsStream
<1>1. Init => Stream!Init
  <2>1. ToSet(<<>>) = {}
    BY DEF ToSet
  <2> QED BY <2>1 DEF Init, Stream!Init
<1>2. Inv /\ [Next]_vars => [Stream!Next]_(Stream!streamVars)
  BY StreamStep
<1> QED BY <1>1, <1>2, MessagingInvariant, PTL DEF Spec, ImplementsStream, Stream!Spec

=============================================================================
