---------------------------- MODULE CommandsProofs ----------------------------
(***************************************************************************)
(* Proofs about module Commands, for every set of clients and servers,     *)
(* every request and any number of failures: its types, that answers agree *)
(* with the saved rows, and that transactions on one lot take effect as    *)
(* AtomicLot says.                                                         *)
(***************************************************************************)
EXTENDS Commands, TLAPS

-----------------------------------------------------------------------------
(***************************************************************************)
(* The inductive invariant.                                                *)
(***************************************************************************)
\* A command that runs or was answered but not heard has a client.
Served ==
  \A s \in Servers :
    /\ tx[s].at # "idle" => tx[s].client \in Clients
    /\ tx[s].at = "answer" => tx[s].answer \in Answers

\* One transaction at most works under a key ...
KeyLocked ==
  \A s, o \in Servers : s # o /\ HoldsKey(s) /\ HoldsKey(o) => Key(s) # Key(o)

\* ... and one at most reads and writes the lot ...
HouseLocked == \A s, o \in Servers : HoldsHouse(s) /\ HoldsHouse(o) => s = o

\* ... so what it read is still there when it commits, ...
Fresh == \A s \in Servers : tx[s].at = "commit" => tx[s].seen = lot

\* ... and nobody did the work of the key since it looked for the saved row.
Undone ==
  \A s \in Servers :
    tx[s].at \in {"find", "house", "read", "commit"} => memo[Key(s)] = None

\* An answer a to client c is what the saved rows m say.
Agrees(m, c, a) ==
  LET row == m[Request[c].key] IN
  /\ a.kind # "refused" => row # None
  /\ a.kind = "done" => row = [work |-> Request[c].work, n |-> a.n]
  /\ a.kind = "conflict" => row.work # Request[c].work

\* The answers on their way agree with the rows, as those that arrived do.
Truthful ==
  \A s \in Servers : tx[s].at = "answer" => Agrees(memo, tx[s].client, tx[s].answer)

Inv ==
  /\ TypeOK /\ Served /\ KeyLocked /\ HouseLocked
  /\ Fresh /\ Undone /\ Truthful /\ AnswersAgree

-----------------------------------------------------------------------------
(***************************************************************************)
(* Lemmas about the operators of the specification.                        *)
(***************************************************************************)
\* An accepted transaction that read the lot as it is leaves a legal lot, and
\* reports a number.
LEMMA UpdateTyped ==
  ASSUME NEW w \in [op : {"adjust", "write-off", "reserve"}, n : Nat],
         NEW x \in Lots, x.reserved <= x.quantity, Lot!Accepts(w, x)
  PROVE  /\ Lot!Update(w, x, x) \in Lots
         /\ Lot!Update(w, x, x).reserved <= Lot!Update(w, x, x).quantity
         /\ Lot!Report(w, x) \in Int
<1> USE DEF Lots, Lot!Accepts, Lot!Update, Lot!Report, Lot!Take, Lot!Available
<1>1. CASE w.op = "adjust"
  BY <1>1
<1>2. CASE w.op = "write-off"
  BY <1>2
<1>3. CASE w.op = "reserve"
  BY <1>3
<1> QED BY <1>1, <1>2, <1>3

\* The key and the work of a transaction are those of its client.
LEMMA Requested ==
  ASSUME NEW s \in Servers, tx[s].client \in Clients
  PROVE  /\ Key(s) \in Keys
         /\ Work(s) \in Works
         /\ Work(s) \in [op : {"adjust", "write-off", "reserve"}, n : Nat]
BY CommandsAssumption DEF Key, Work, Keys, Works

\* Saving the answer of a key that had none contradicts no answer given so far.
LEMMA AgreesKept ==
  ASSUME TypeOK, NEW k \in Keys, memo[k] = None, NEW row \in [work : Works, n : Int],
         memo' = [memo EXCEPT ![k] = row], NEW c \in Clients, NEW a \in Answers, Agrees(memo, c, a)
  PROVE  Agrees(memo', c, a)
<1>1. CASE Request[c].key = k
  <2>1. a.kind = "refused"
    BY <1>1 DEF Agrees
  <2> QED BY <2>1 DEF Agrees
<1>2. CASE Request[c].key # k
  <2>1. memo'[Request[c].key] = memo[Request[c].key]
    BY <1>2 DEF TypeOK, Keys
  <2> QED BY <2>1 DEF Agrees
<1> QED BY <1>1, <1>2

-----------------------------------------------------------------------------
(***************************************************************************)
(* The invariant holds at first and is preserved by every action.          *)
(***************************************************************************)
LEMMA InitInv == Init => Inv
<1> SUFFICES ASSUME Init PROVE Inv
  OBVIOUS
<1>1. TypeOK
  BY CommandsAssumption DEF Init, Lot!Init, TypeOK, Lots, Transactions, Idle, Ats
<1>2. \A s \in Servers : tx[s].at = "idle"
  BY DEF Init, Idle
<1>3. AnswersAgree
  BY DEF Init, AnswersAgree
<1> QED BY <1>1, <1>2, <1>3 DEF Inv, Served, KeyLocked, HouseLocked, Fresh, Undone, Truthful,
                                HoldsKey, HoldsHouse

\* Server s goes on with its transaction, which becomes row, and the committed
\* rows stay as they are.
LEMMA MoveInv ==
  ASSUME Inv, NEW s \in Servers, NEW row \in Transactions,
         tx' = [tx EXCEPT ![s] = row], UNCHANGED <<lot, memo>>,
         row.at # "idle" => row.client \in Clients,
         row.at = "answer" => row.answer \in Answers /\ Agrees(memo, row.client, row.answer),
         row.at \in {"look", "find", "house", "read", "commit"} =>
           /\ row.client = tx[s].client
           /\ HoldsKey(s) \/ ~ \E o \in Servers : HoldsKey(o) /\ Key(o) = Key(s),
         row.at \in {"read", "commit"} => HoldsHouse(s) \/ ~ \E o \in Servers : HoldsHouse(o),
         row.at \in {"find", "house", "read", "commit"} => memo[Key(s)] = None,
         row.at = "commit" => row.seen = lot
  PROVE  /\ tx' \in [Servers -> Transactions]
         /\ Served' /\ KeyLocked' /\ HouseLocked' /\ Fresh' /\ Undone' /\ Truthful'
<1>1. /\ tx'[s] = row
      /\ \A o \in Servers : o # s => tx'[o] = tx[o]
  BY DEF Inv, TypeOK
<1>2. tx' \in [Servers -> Transactions]
  BY DEF Inv, TypeOK
<1>3. Served' /\ Fresh'
  BY <1>1 DEF Inv, Served, Fresh
<1>4. KeyLocked'
  <2>1. \A o \in Servers : o # s => HoldsKey(o)' = HoldsKey(o) /\ Key(o)' = Key(o)
    BY <1>1 DEF HoldsKey, Key
  <2>2. HoldsKey(s)' =>
          /\ Key(s)' = Key(s)
          /\ HoldsKey(s) \/ ~ \E o \in Servers : HoldsKey(o) /\ Key(o) = Key(s)
    BY <1>1 DEF HoldsKey, Key
  <2> QED BY <2>1, <2>2 DEF Inv, KeyLocked
<1>5. HouseLocked'
  <2>1. \A o \in Servers : o # s => HoldsHouse(o)' = HoldsHouse(o)
    BY <1>1 DEF HoldsHouse
  <2>2. HoldsHouse(s)' => HoldsHouse(s) \/ ~ \E o \in Servers : HoldsHouse(o)
    BY <1>1 DEF HoldsHouse
  <2> QED BY <2>1, <2>2 DEF Inv, HouseLocked
<1>6. Undone'
  BY <1>1 DEF Inv, Undone, Key
<1>7. Truthful'
  <2>1. ASSUME NEW o \in Servers, tx'[o].at = "answer"
        PROVE  Agrees(memo', tx'[o].client, tx'[o].answer)
    <3>1. CASE o = s
      BY <1>1, <2>1, <3>1 DEF Agrees
    <3>2. CASE o # s
      <4>1. tx'[o] = tx[o] /\ Agrees(memo, tx[o].client, tx[o].answer)
        BY <1>1, <2>1, <3>2 DEF Inv, Truthful
      <4> QED BY <4>1 DEF Agrees
    <3> QED BY <3>1, <3>2
  <2> QED BY <2>1 DEF Truthful
<1> QED BY <1>2, <1>3, <1>4, <1>5, <1>6, <1>7

\* Answers that arrived depend on the saved rows alone.
LEMMA AnswersKept ==
  ASSUME Inv, UNCHANGED <<memo, answers>>
  PROVE  AnswersAgree'
BY DEF Inv, AnswersAgree

\* A client begins a transaction on an idle server.
LEMMA SendInv ==
  ASSUME Inv, NEW c \in Clients, Send(c)
  PROVE  Inv'
<1>1. PICK s \in Servers : tx[s] = Idle /\ tx' = [tx EXCEPT ![s] = [Idle EXCEPT !.at = "key", !.client = c]]
  BY DEF Send
<1> DEFINE row == [Idle EXCEPT !.at = "key", !.client = c]
<1>2. row \in Transactions /\ row.at = "key" /\ row.client = c
  BY DEF Idle, Transactions, Ats
<1>3. UNCHANGED <<lot, memo, answers, failures>>
  BY DEF Send
<1> HIDE DEF row
<1>4. /\ tx' \in [Servers -> Transactions]
      /\ Served' /\ KeyLocked' /\ HouseLocked' /\ Fresh' /\ Undone' /\ Truthful'
  BY <1>1, <1>2, <1>3, MoveInv DEF row
<1> QED BY <1>3, <1>4, AnswersKept DEF Inv, TypeOK

\* A transaction goes on to the next statement.
LEMMA AdvanceInv ==
  ASSUME Inv, NEW s \in Servers, LockKey(s) \/ Find(s) \/ LockHouse(s) \/ Read(s)
  PROVE  Inv'
<1> DEFINE at == tx[s].at
<1> DEFINE row == IF at \in {"find", "read"}
                    THEN [tx[s] EXCEPT !.at = IF at = "find" THEN "house" ELSE "commit", !.seen = lot]
                    ELSE [tx[s] EXCEPT !.at = IF at = "key" THEN "look" ELSE "read"]
<1>1. tx' = [tx EXCEPT ![s] = row]
  BY DEF Inv, TypeOK, LockKey, Find, LockHouse, Read, Goto, Transactions
<1>2. UNCHANGED <<lot, memo, answers, failures>>
  BY DEF LockKey, Find, LockHouse, Read
<1>3. tx[s] \in Transactions /\ lot \in Lots /\ tx[s].client \in Clients
  BY DEF Inv, TypeOK, Served, LockKey, Find, LockHouse, Read
<1>4. /\ row \in Transactions /\ row.client = tx[s].client
      /\ row.at \in {"look", "house", "read", "commit"}
  BY <1>3 DEF Transactions, Ats, LockKey, Find, LockHouse, Read
<1>5. HoldsKey(s) \/ ~ \E o \in Servers : HoldsKey(o) /\ Key(o) = Key(s)
  BY DEF LockKey, Find, LockHouse, Read, HoldsKey
<1>6. row.at \in {"read", "commit"} => HoldsHouse(s) \/ ~ \E o \in Servers : HoldsHouse(o)
  BY <1>3 DEF LockKey, Find, LockHouse, Read, HoldsHouse, Transactions
<1>7. row.at \in {"house", "read", "commit"} => memo[Key(s)] = None
  BY <1>3 DEF Inv, Undone, LockKey, Find, LockHouse, Read, Transactions
<1>8. row.at = "commit" => row.seen = lot
  BY <1>3 DEF LockKey, Find, LockHouse, Read, Transactions
<1> HIDE DEF row
<1>9. /\ tx' \in [Servers -> Transactions]
      /\ Served' /\ KeyLocked' /\ HouseLocked' /\ Fresh' /\ Undone' /\ Truthful'
  BY <1>1, <1>2, <1>3, <1>4, <1>5, <1>6, <1>7, <1>8, MoveInv
<1> QED BY <1>2, <1>9, AnswersKept DEF Inv, TypeOK

\* A transaction ends with an answer that the saved rows support, and nothing else.
LEMMA AnsweringInv ==
  ASSUME Inv, NEW s \in Servers, tx[s].at # "idle", NEW a \in Answers,
         Agrees(memo, tx[s].client, a), Finish(s, a), UNCHANGED <<lot, memo, answers, failures>>
  PROVE  Inv'
<1> DEFINE row == [tx[s] EXCEPT !.at = "answer", !.answer = a]
<1>1. tx' = [tx EXCEPT ![s] = row]
  BY DEF Finish, Inv, TypeOK, Transactions
<1>2. tx[s] \in Transactions /\ tx[s].client \in Clients
  BY DEF Inv, TypeOK, Served
<1>3. row \in Transactions /\ row.client = tx[s].client /\ row.at = "answer" /\ row.answer = a
  BY <1>2 DEF Transactions, Ats
<1> HIDE DEF row
<1>4. /\ tx' \in [Servers -> Transactions]
      /\ Served' /\ KeyLocked' /\ HouseLocked' /\ Fresh' /\ Undone' /\ Truthful'
  BY <1>1, <1>2, <1>3, MoveInv
<1> QED BY <1>4, AnswersKept DEF Inv, TypeOK

\* Looking for the saved row: it answers, or there is work to do.
LEMMA LookInv ==
  ASSUME Inv, NEW s \in Servers, Look(s)
  PROVE  Inv'
<1>1. /\ tx[s].at = "look" /\ HoldsKey(s) /\ tx[s] \in Transactions /\ tx[s].client \in Clients
      /\ UNCHANGED <<lot, memo, answers, failures>>
  BY DEF Look, Inv, TypeOK, Served, HoldsKey
<1>2. CASE memo[Key(s)] # None
  <2> DEFINE a == Known(memo[Key(s)], Work(s))
  <2>1. memo[Key(s)] \in [work : Works, n : Int]
    BY <1>1, <1>2, Requested DEF Inv, TypeOK
  <2>2. a \in Answers
    BY <2>1 DEF Known, Answers
  <2>3. Agrees(memo, tx[s].client, a)
    BY <1>2, <2>1 DEF Agrees, Known, Key, Work
  <2>4. Finish(s, a)
    BY <1>2 DEF Look
  <2> QED BY <1>1, <2>2, <2>3, <2>4, AnsweringInv
<1>3. CASE memo[Key(s)] = None
  <2> DEFINE row == [tx[s] EXCEPT !.at = IF Work(s).op = "reserve" THEN "house" ELSE "find"]
  <2>1. tx' = [tx EXCEPT ![s] = row]
    BY <1>3 DEF Look, Goto, Inv, TypeOK, Transactions
  <2>2. row \in Transactions /\ row.client = tx[s].client /\ row.at \in {"house", "find"}
    BY <1>1 DEF Transactions, Ats
  <2> HIDE DEF row
  <2>3. /\ tx' \in [Servers -> Transactions]
        /\ Served' /\ KeyLocked' /\ HouseLocked' /\ Fresh' /\ Undone' /\ Truthful'
    BY <1>1, <1>3, <2>1, <2>2, MoveInv
  <2> QED BY <1>1, <2>3, AnswersKept DEF Inv, TypeOK
<1> QED BY <1>2, <1>3

\* A refused transaction is rolled back and answered.
LEMMA RefuseInv ==
  ASSUME Inv, NEW s \in Servers, Refuse(s)
  PROVE  Inv'
<1> DEFINE a == [kind |-> "refused", n |-> 0]
<1>1. a \in Answers /\ Agrees(memo, tx[s].client, a)
  BY DEF Answers, Agrees
<1>2. tx[s].at # "idle" /\ Finish(s, a) /\ UNCHANGED <<lot, memo, answers, failures>>
  BY DEF Refuse
<1> HIDE DEF a
<1> QED BY <1>1, <1>2, AnsweringInv

\* A transaction ends without an answer: its server is idle again.
LEMMA EndInv ==
  ASSUME Inv, NEW s \in Servers, tx' = [tx EXCEPT ![s] = Idle], UNCHANGED <<lot, memo>>
  PROVE  /\ tx' \in [Servers -> Transactions]
         /\ Served' /\ KeyLocked' /\ HouseLocked' /\ Fresh' /\ Undone' /\ Truthful'
<1>1. Idle \in Transactions /\ Idle.at = "idle"
  BY DEF Idle, Transactions, Ats
<1> QED BY <1>1, MoveInv

\* The answer arrives.
LEMMA AnswerInv ==
  ASSUME Inv, NEW s \in Servers, Answer(s)
  PROVE  Inv'
<1> DEFINE c == tx[s].client
           a == tx[s].answer
<1>1. c \in Clients /\ a \in Answers /\ Agrees(memo, c, a)
  BY DEF Answer, Inv, Served, Truthful
<1>2. /\ answers' = [answers EXCEPT ![c] = @ \cup {a}]
      /\ UNCHANGED <<lot, memo, failures>>
  BY DEF Answer
<1>3. answers' \in [Clients -> SUBSET Answers]
  BY <1>1, <1>2 DEF Inv, TypeOK
<1>4. \A d \in Clients : \A b \in answers'[d] : b \in answers[d] \/ (d = c /\ b = a)
  BY <1>1, <1>2 DEF Inv, TypeOK
<1>5. AnswersAgree'
  BY <1>1, <1>2, <1>4 DEF Inv, AnswersAgree, Agrees
<1>6. /\ tx' \in [Servers -> Transactions]
      /\ Served' /\ KeyLocked' /\ HouseLocked' /\ Fresh' /\ Undone' /\ Truthful'
  BY <1>2, EndInv DEF Answer
<1> QED BY <1>2, <1>3, <1>5, <1>6 DEF Inv, TypeOK

\* A crash rolls back.
LEMMA CrashInv ==
  ASSUME Inv, NEW s \in Servers, Crash(s)
  PROVE  Inv'
<1>1. UNCHANGED <<lot, memo, answers>> /\ failures' \in 0 .. MaxFailures
  BY CommandsAssumption DEF Crash, Inv, TypeOK
<1>2. /\ tx' \in [Servers -> Transactions]
      /\ Served' /\ KeyLocked' /\ HouseLocked' /\ Fresh' /\ Undone' /\ Truthful'
  BY <1>1, EndInv DEF Crash
<1> QED BY <1>1, <1>2, AnswersKept DEF Inv, TypeOK

-----------------------------------------------------------------------------
\* What a commit does to the rows: it read the lot as it is, under a key that
\* nobody worked for.
LEMMA CommitRows ==
  ASSUME Inv, NEW s \in Servers, Commit(s)
  PROVE  /\ Key(s) \in Keys /\ Work(s) \in Works /\ memo[Key(s)] = None
         /\ Lot!Accepts(Work(s), lot)
         /\ lot' = Lot!Update(Work(s), lot, lot)
         /\ memo' = [memo EXCEPT ![Key(s)] = [work |-> Work(s), n |-> Lot!Report(Work(s), lot)]]
         /\ lot' \in Lots /\ lot'.reserved <= lot'.quantity
         /\ Lot!Report(Work(s), lot) \in Int
<1>1. tx[s].at = "commit" /\ tx[s].seen = lot /\ memo[Key(s)] = None /\ tx[s].client \in Clients
  BY DEF Commit, Inv, Fresh, Undone, Served
<1>2. /\ Lot!Accepts(Work(s), lot)
      /\ lot' = Lot!Update(Work(s), lot, lot)
      /\ memo' = [memo EXCEPT ![Key(s)] = [work |-> Work(s), n |-> Lot!Report(Work(s), lot)]]
  BY <1>1 DEF Commit
<1>3. /\ Key(s) \in Keys /\ Work(s) \in Works
      /\ Work(s) \in [op : {"adjust", "write-off", "reserve"}, n : Nat]
  BY <1>1, Requested
<1>4. lot \in Lots /\ lot.reserved <= lot.quantity
  BY DEF Inv, TypeOK
<1> QED BY <1>1, <1>2, <1>3, <1>4, UpdateTyped

\* The commit: nobody else is at work on the lot or under the key.
LEMMA CommitInv ==
  ASSUME Inv, NEW s \in Servers, Commit(s)
  PROVE  Inv'
<1> DEFINE c == tx[s].client
           saved == [work |-> Work(s), n |-> Lot!Report(Work(s), lot)]
           a == [kind |-> "done", n |-> Lot!Report(Work(s), lot)]
           row == [tx[s] EXCEPT !.at = "answer", !.answer = a]
<1>1. tx[s].at = "commit" /\ tx[s].seen = lot /\ c \in Clients /\ tx[s] \in Transactions
  BY DEF Commit, Inv, Fresh, Served, TypeOK
<1>2. tx' = [tx EXCEPT ![s] = row] /\ UNCHANGED <<answers, failures>>
  BY <1>1 DEF Commit, Finish, Inv, TypeOK, Transactions
<1>3. saved \in [work : Works, n : Int] /\ saved # None
  BY CommitRows, CommandsAssumption
<1>4. memo' = [memo EXCEPT ![Key(s)] = saved] /\ memo[Key(s)] = None /\ Key(s) \in Keys
  BY CommitRows
<1>5. /\ a \in Answers /\ row \in Transactions
      /\ row.client = c /\ row.at = "answer" /\ row.answer = a
  BY <1>1, CommitRows DEF Answers, Transactions, Ats
<1>6. Agrees(memo', c, a)
  BY <1>3, <1>4 DEF Inv, TypeOK, Agrees, Key, Work
<1>7. \A d \in Clients, b \in Answers : Agrees(memo, d, b) => Agrees(memo', d, b)
  BY <1>3, <1>4, AgreesKept DEF Inv
<1> HIDE DEF row, a, saved
<1>8. /\ tx'[s] = row
      /\ \A o \in Servers : o # s => tx'[o] = tx[o]
  BY <1>2 DEF Inv, TypeOK
<1>9. TypeOK'
  <2>1. tx' \in [Servers -> Transactions] /\ memo' \in [Keys -> [work : Works, n : Int] \cup {None}]
    BY <1>2, <1>3, <1>4, <1>5 DEF Inv, TypeOK
  <2> QED BY <1>2, <2>1, CommitRows DEF Inv, TypeOK
<1>10. Served'
  BY <1>1, <1>5, <1>8 DEF Inv, Served
<1>11. KeyLocked' /\ HouseLocked'
  <2>1. \A o \in Servers : HoldsKey(o)' => o # s /\ HoldsKey(o) /\ Key(o)' = Key(o)
    BY <1>5, <1>8 DEF HoldsKey, Key
  <2>2. \A o \in Servers : HoldsHouse(o)' => HoldsHouse(o)
    BY <1>5, <1>8 DEF HoldsHouse
  <2> QED BY <2>1, <2>2 DEF Inv, KeyLocked, HouseLocked
<1>12. Fresh'
  BY <1>1, <1>5, <1>8 DEF Inv, HouseLocked, HoldsHouse, Fresh
<1>13. Undone'
  <2>1. ASSUME NEW o \in Servers, tx'[o].at \in {"find", "house", "read", "commit"}
        PROVE  memo'[Key(o)'] = None
    <3>1. o # s /\ tx'[o] = tx[o]
      BY <1>5, <1>8, <2>1
    <3>2. Key(o)' = Key(o) /\ Key(o) # Key(s) /\ memo[Key(o)] = None
      BY <1>1, <2>1, <3>1 DEF Inv, KeyLocked, HoldsKey, Undone, Key
    <3>3. Key(o) \in Keys
      BY <2>1, <3>1, Requested DEF Inv, Served
    <3> QED BY <1>4, <3>2, <3>3 DEF Inv, TypeOK
  <2> QED BY <2>1 DEF Undone, Key
<1>14. Truthful'
  <2>1. ASSUME NEW o \in Servers, tx'[o].at = "answer"
        PROVE  Agrees(memo', tx'[o].client, tx'[o].answer)
    <3>1. CASE o = s
      BY <1>5, <1>6, <1>8, <3>1 DEF Agrees
    <3>2. CASE o # s
      <4>1. /\ tx'[o] = tx[o] /\ Agrees(memo, tx[o].client, tx[o].answer)
            /\ tx[o].client \in Clients /\ tx[o].answer \in Answers
        BY <1>8, <2>1, <3>2 DEF Inv, Truthful, Served
      <4> QED BY <1>7, <4>1 DEF Agrees
    <3> QED BY <3>1, <3>2
  <2> QED BY <2>1 DEF Truthful
<1>15. AnswersAgree'
  <2>1. \A d \in Clients : \A b \in answers[d] : b \in Answers /\ Agrees(memo, d, b)
    BY DEF Inv, TypeOK, AnswersAgree, Agrees
  <2>2. \A d \in Clients : \A b \in answers'[d] : Agrees(memo', d, b)
    BY <1>2, <1>7, <2>1
  <2> QED BY <2>2 DEF AnswersAgree, Agrees
<1> QED BY <1>9, <1>10, <1>11, <1>12, <1>13, <1>14, <1>15 DEF Inv

\* Every step preserves the invariant.
LEMMA NextInv == Inv /\ [Next]_vars => Inv'
<1> SUFFICES ASSUME Inv, [Next]_vars PROVE Inv'
  OBVIOUS
<1>1. ASSUME NEW c \in Clients, Send(c) PROVE Inv'
  BY <1>1, SendInv
<1>2. ASSUME NEW s \in Servers, Step(s) PROVE Inv'
  BY <1>2, AdvanceInv, LookInv, CommitInv, RefuseInv, AnswerInv DEF Step
<1>3. ASSUME NEW s \in Servers, Crash(s) PROVE Inv'
  BY <1>3, CrashInv
<1>4. CASE UNCHANGED vars
  BY <1>4 DEF vars, Inv, TypeOK, Served, KeyLocked, HouseLocked, Fresh, Undone, Truthful, Agrees,
              AnswersAgree, HoldsKey, HoldsHouse, Key
<1> QED BY <1>1, <1>2, <1>3, <1>4 DEF Next

-----------------------------------------------------------------------------
(***************************************************************************)
(* The theorems.                                                           *)
(***************************************************************************)
\* The invariant holds in every reachable state.
THEOREM CommandsInvariant == Spec => []Inv
BY InitInv, NextInv, PTL DEF Spec

\* The rows have their types, and no more is reserved than the lot holds,
\* whatever transactions overlap.
THEOREM CommandsTypes == Spec => []TypeOK
<1>1. Inv => TypeOK
  BY DEF Inv
<1> QED BY <1>1, CommandsInvariant, PTL

\* Every answer a client gets is the saved one, whichever attempt did the work.
THEOREM CommandsAnswersAgree == Spec => []AnswersAgree
<1>1. Inv => AnswersAgree
  BY DEF Inv
<1> QED BY <1>1, CommandsInvariant, PTL

\* A step of a transaction is a step of the abstract lot when it commits, and
\* changes no row otherwise.
LEMMA StepRefined == Inv /\ [Next]_vars => [Lot!Next]_<<lot, memo>>
<1> SUFFICES ASSUME Inv, [Next]_vars PROVE [Lot!Next]_<<lot, memo>>
  OBVIOUS
<1>1. ASSUME NEW s \in Servers, Commit(s) PROVE Lot!Next
  BY <1>1, CommitRows DEF Lot!Next, Lot!Do
<1>2. ASSUME NEW s \in Servers, Step(s), ~ Commit(s) PROVE UNCHANGED <<lot, memo>>
  BY <1>2 DEF Step, LockKey, Look, Find, LockHouse, Read, Refuse, Answer
<1>3. ASSUME NEW s \in Servers, Crash(s) PROVE UNCHANGED <<lot, memo>>
  BY <1>3 DEF Crash
<1>4. ASSUME NEW c \in Clients, Send(c) PROVE UNCHANGED <<lot, memo>>
  BY <1>4 DEF Send
<1> QED BY <1>1, <1>2, <1>3, <1>4 DEF Next, vars

\* Overlapping transactions on the lot implement AtomicLot: each takes effect
\* in one step, at its commit, and once for each key.
THEOREM CommandsImplementAtomicLot == Spec => ImplementsAtomicLot
<1>1. Init => Lot!Init
  BY DEF Init
<1> QED BY <1>1, CommandsInvariant, StepRefined, PTL DEF Spec, ImplementsAtomicLot, Lot!Spec
=============================================================================
