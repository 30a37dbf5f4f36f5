---------------------------- MODULE DataTheorems ----------------------------
(***************************************************************************)
(* Facts about the data that the models share.                             *)
(*                                                                         *)
(* SumFunctionOnSet(f, S) of the community module Functions is the finite  *)
(* sum of f[x] for x in S.  The stock ledger of the inventory service is a *)
(* set of sums (units held per lot, weight and volume held per location),  *)
(* and its proofs need to know how a sum changes when the function changes *)
(* at one point or everywhere.  Induction over finite sets is replaced by  *)
(* minimal counterexamples: WFMin gives a minimal element of any non-empty *)
(* collection of finite sets, so no induction theorem with an operator     *)
(* parameter is needed.                                                    *)
(*                                                                         *)
(* Events wait in queues, first in, first out: what is in a queue when an  *)
(* event joins its end or leaves its head.                                 *)
(*                                                                         *)
(* The elements of a finite set under a total order, lots by expiration    *)
(* date or rows by time, are numbered by how many come before each.        *)
(***************************************************************************)
EXTENDS Integers, Sequences, FiniteSets, Functions, SequencesExt, FiniteSetTheorems,
        SequenceTheorems, WellFoundedInduction, TLAPS

-----------------------------------------------------------------------------
(* Queues. *)

\* At most one place of queue q is taken by an element of E.
Once(q, E) == \A i, j \in DOMAIN q : q[i] \in E /\ q[j] \in E => i = j

\* What joins a queue is in it, with what was there.
LEMMA RangeAppend ==
  ASSUME NEW S, NEW q \in Seq(S), NEW x \in S
  PROVE  Range(Append(q, x)) = Range(q) \cup {x}
<1>1. Append(q, x) = q \o <<x>> /\ <<x>> \in Seq(S)
  BY AppendIsConcat
<1>2. Range(<<x>>) = {x}
  BY DEF Range
<1>3. Range(q \o <<x>>) = Range(q) \cup Range(<<x>>)
  BY <1>1, RangeConcatenation
<1> QED BY <1>1, <1>2, <1>3

\* A queue holds its head and what follows it.
LEMMA RangeTail ==
  ASSUME NEW S, NEW q \in Seq(S), q # <<>>
  PROVE  /\ Head(q) \in S /\ Tail(q) \in Seq(S)
         /\ Range(q) = {Head(q)} \cup Range(Tail(q))
<1>1. /\ Head(q) \in S /\ Tail(q) \in Seq(S)
      /\ Len(q) \in Nat \ {0} /\ Len(Tail(q)) = Len(q) - 1
      /\ \A i \in 1 .. Len(Tail(q)) : Tail(q)[i] = q[i + 1]
      /\ Head(q) = q[1]
  BY HeadTailProperties, EmptySeq
<1>2. /\ Range(q) = {q[i] : i \in 1 .. Len(q)}
      /\ Range(Tail(q)) = {Tail(q)[i] : i \in 1 .. Len(Tail(q))}
  <2>1. DOMAIN q = 1 .. Len(q) /\ DOMAIN Tail(q) = 1 .. Len(Tail(q))
    BY <1>1, LenProperties
  <2> QED BY <2>1 DEF Range
<1>3. ASSUME NEW i \in 1 .. Len(q)
      PROVE  q[i] \in {Head(q)} \cup Range(Tail(q))
  <2>1. CASE i = 1
    BY <1>1, <2>1
  <2>2. CASE i # 1
    <3>1. i - 1 \in 1 .. Len(Tail(q)) /\ Tail(q)[i - 1] = q[i]
      BY <1>1, <2>2
    <3> QED BY <1>2, <3>1
  <2> QED BY <2>1, <2>2
<1>4. ASSUME NEW i \in 1 .. Len(Tail(q))
      PROVE  Tail(q)[i] \in Range(q)
  BY <1>1, <1>2
<1>5. Head(q) \in Range(q)
  BY <1>1, <1>2
<1> QED BY <1>1, <1>2, <1>3, <1>4, <1>5

\* An element of E that joins a queue without one, or any other, is the only one.
LEMMA OnceAppend ==
  ASSUME NEW S, NEW q \in Seq(S), NEW x \in S, NEW E,
         Once(q, E), x \notin E \/ Range(q) \cap E = {}
  PROVE  Once(Append(q, x), E)
<1>1. /\ Append(q, x) \in Seq(S) /\ Len(Append(q, x)) = Len(q) + 1
      /\ \A i \in 1 .. Len(q) : Append(q, x)[i] = q[i]
      /\ Append(q, x)[Len(q) + 1] = x /\ Len(q) \in Nat
  BY AppendProperties, LenProperties
<1>2. DOMAIN q = 1 .. Len(q) /\ DOMAIN Append(q, x) = 1 .. Len(q) + 1
  BY <1>1, LenProperties
<1>3. x \in E => \A i \in 1 .. Len(q) : q[i] \notin E
  BY <1>2 DEF Range
<1> QED BY <1>1, <1>2, <1>3 DEF Once

\* Once its only element of E has left, a queue does not hold one any more.
LEMMA OnceTail ==
  ASSUME NEW S, NEW q \in Seq(S), q # <<>>, NEW E, Once(q, E)
  PROVE  /\ Once(Tail(q), E)
         /\ Head(q) \in E => Range(Tail(q)) \cap E = {}
<1>1. /\ Tail(q) \in Seq(S) /\ Len(q) \in Nat \ {0} /\ Len(Tail(q)) = Len(q) - 1
      /\ \A i \in 1 .. Len(Tail(q)) : Tail(q)[i] = q[i + 1]
      /\ Head(q) = q[1]
  BY HeadTailProperties, EmptySeq
<1>2. DOMAIN q = 1 .. Len(q) /\ DOMAIN Tail(q) = 1 .. Len(q) - 1
  BY <1>1, LenProperties
<1>3. Once(Tail(q), E)
  BY <1>1, <1>2 DEF Once
<1>4. ASSUME Head(q) \in E, NEW e \in E, e \in Range(Tail(q))
      PROVE  FALSE
  <2>1. PICK i \in DOMAIN Tail(q) : Tail(q)[i] = e
    BY <1>4 DEF Range
  <2>2. 1 \in DOMAIN q /\ i + 1 \in DOMAIN q /\ q[1] \in E /\ q[i + 1] \in E /\ i + 1 # 1
    BY <1>1, <1>2, <1>4, <2>1
  <2> QED BY <2>2 DEF Once
<1> QED BY <1>3, <1>4

\* One queue behind another.
LEMMA OnceConcat ==
  ASSUME NEW S, NEW q \in Seq(S), NEW r \in Seq(S), NEW E, Once(q, E), Once(r, E),
         Range(q) \cap E = {} \/ Range(r) \cap E = {}
  PROVE  Once(q \o r, E)
<1>1. /\ DOMAIN q = 1 .. Len(q) /\ DOMAIN r = 1 .. Len(r) /\ Len(q) \in Nat /\ Len(r) \in Nat
      /\ q \o r \in Seq(S) /\ Len(q \o r) = Len(q) + Len(r) /\ DOMAIN (q \o r) = 1 .. Len(q) + Len(r)
      /\ \A i \in 1 .. Len(q) + Len(r) : (q \o r)[i] = IF i <= Len(q) THEN q[i] ELSE r[i - Len(q)]
  BY ConcatProperties, LenProperties
<1>2. ASSUME NEW i \in DOMAIN (q \o r), (q \o r)[i] \in E
      PROVE  \/ i \in DOMAIN q /\ q[i] \in E /\ q[i] \in Range(q) \cap E
             \/ /\ i - Len(q) \in DOMAIN r /\ r[i - Len(q)] \in E
                /\ r[i - Len(q)] \in Range(r) \cap E
  <2>1. CASE i <= Len(q)
    BY <1>1, <1>2, <2>1 DEF Range
  <2>2. CASE ~ (i <= Len(q))
    BY <1>1, <1>2, <2>2 DEF Range
  <2> QED BY <2>1, <2>2
<1> SUFFICES ASSUME NEW i \in DOMAIN (q \o r), NEW j \in DOMAIN (q \o r),
                    (q \o r)[i] \in E, (q \o r)[j] \in E
             PROVE  i = j
  BY DEF Once
<1>3. CASE Range(q) \cap E = {}
  <2>1. /\ i - Len(q) \in DOMAIN r /\ r[i - Len(q)] \in E
        /\ j - Len(q) \in DOMAIN r /\ r[j - Len(q)] \in E
    BY <1>2, <1>3
  <2>2. i - Len(q) = j - Len(q)
    BY <2>1 DEF Once
  <2> QED BY <1>1, <2>2
<1>4. CASE Range(r) \cap E = {}
  <2>1. i \in DOMAIN q /\ q[i] \in E /\ j \in DOMAIN q /\ q[j] \in E
    BY <1>2, <1>4
  <2> QED BY <2>1 DEF Once
<1> QED BY <1>3, <1>4

\* The elements of a finite set, one after another.
LEMMA SetToSeqElements ==
  ASSUME NEW S, IsFiniteSet(S)
  PROVE  /\ SetToSeq(S) \in Seq(S) /\ Range(SetToSeq(S)) = S
         /\ \A E : (\A x, y \in S \cap E : x = y) => Once(SetToSeq(S), E)
<1> DEFINE n == Cardinality(S)
           q == SetToSeq(S)
<1>1. n \in Nat /\ \E f \in [1 .. n -> S] : IsInjective(f)
  BY FS_CardinalityType DEF ExistsBijection, Bijection, Injection
<1>2. q \in [1 .. n -> S] /\ IsInjective(q)
  BY <1>1 DEF SetToSeq
<1>3. IsFiniteSet(1 .. n) /\ Cardinality(1 .. n) = n
  BY <1>1, FS_Interval
<1>4. q \in Injection(1 .. n, S)
  BY <1>2 DEF Injection
<1>5. q \in Surjection(1 .. n, S)
  BY <1>3, <1>4, FS_Injection
<1> HIDE DEF n, q
<1>6. q \in Seq(S)
  BY <1>1, <1>2
<1>7. Range(q) = S
  BY <1>2, <1>5 DEF Range, Surjection
<1>8. ASSUME NEW E, \A x, y \in S \cap E : x = y
      PROVE  Once(q, E)
  BY <1>2, <1>8 DEF Once, IsInjective
<1> QED BY <1>6, <1>7, <1>8 DEF q

-----------------------------------------------------------------------------
(* Sums. *)

\* h tabulates the sums of f over every subset of S.
IsTable(h, f, S) ==
  h = [T \in SUBSET S |-> IF T = {} THEN 0
                          ELSE LET x == CHOOSE x \in T : TRUE
                               IN  f[x] + h[T \ {x}]]

Table(f, S) == CHOOSE h : IsTable(h, f, S)

\* A non-empty collection of subsets of a finite set has a minimal member.
LEMMA MinimalSubset ==
  ASSUME NEW S, IsFiniteSet(S), NEW C, C \subseteq SUBSET S, C # {}
  PROVE  \E T \in C : \A U \in C : ~ (U \subseteq T /\ U # T)
<1>1. FiniteSubsetsOf(S) = SUBSET S
  BY FS_Subset DEF FiniteSubsetsOf
<1>2. PICK T \in C : \A U \in C : ~ (<<U, T>> \in StrictSubsetOrdering(S))
  BY <1>1, FS_StrictSubsetOrderingWellFounded, WFMin
<1>3. ASSUME NEW U \in C, U \subseteq T, U # T
      PROVE  FALSE
  <2>1. <<U, T>> \in StrictSubsetOrdering(S)
    BY <1>3 DEF StrictSubsetOrdering
  <2> QED BY <1>2, <2>1
<1> QED BY <1>3

\* A table of S restricts to a table of each subset of S.
LEMMA TableRestricts ==
  ASSUME NEW f, NEW S, NEW h, IsTable(h, f, S), NEW U, U \subseteq S
  PROVE  IsTable([T \in SUBSET U |-> h[T]], f, U)
<1> DEFINE k == [T \in SUBSET U |-> h[T]]
<1>1. ASSUME NEW T \in SUBSET U
      PROVE  k[T] = IF T = {} THEN 0
                    ELSE LET x == CHOOSE x \in T : TRUE IN f[x] + k[T \ {x}]
  <2>1. T \in SUBSET S
    OBVIOUS
  <2>2. h[T] = IF T = {} THEN 0
               ELSE LET x == CHOOSE x \in T : TRUE IN f[x] + h[T \ {x}]
    BY <2>1 DEF IsTable
  <2>3. \A x : k[T \ {x}] = h[T \ {x}]
    OBVIOUS
  <2> QED BY <2>2, <2>3
<1>2. k = [T \in SUBSET U |-> IF T = {} THEN 0
                    ELSE LET x == CHOOSE x \in T : TRUE IN f[x] + k[T \ {x}]]
  BY <1>1
<1> QED BY <1>2 DEF IsTable

\* Two tables of a finite set are equal.
LEMMA TableUnique ==
  ASSUME NEW f, NEW S, IsFiniteSet(S), NEW h, NEW k,
         IsTable(h, f, S), IsTable(k, f, S)
  PROVE  h = k
<1> DEFINE C == {T \in SUBSET S : h[T] # k[T]}
<1>1. C = {}
  <2>1. SUFFICES ASSUME C # {} PROVE FALSE
    OBVIOUS
  <2>2. PICK T \in C : \A U \in C : ~ (U \subseteq T /\ U # T)
    <3> HIDE DEF C
    <3>1. C \subseteq SUBSET S
      BY DEF C
    <3> QED BY <2>1, <3>1, MinimalSubset
  <2>3. h[T] = (IF T = {} THEN 0 ELSE LET x == CHOOSE x \in T : TRUE IN f[x] + h[T \ {x}])
    BY DEF IsTable
  <2>4. k[T] = (IF T = {} THEN 0 ELSE LET x == CHOOSE x \in T : TRUE IN f[x] + k[T \ {x}])
    BY DEF IsTable
  <2>5. T # {}
    BY <2>3, <2>4
  <2> DEFINE x == CHOOSE x \in T : TRUE
  <2>6. x \in T
    BY <2>5
  <2>7. T \ {x} \subseteq T /\ T \ {x} # T /\ T \ {x} \in SUBSET S
    BY <2>6
  <2>8. h[T \ {x}] = k[T \ {x}]
    BY <2>2, <2>7
  <2> QED BY <2>2, <2>3, <2>4, <2>8
<1>3. h = [T \in SUBSET S |-> h[T]] /\ k = [T \in SUBSET S |-> k[T]]
  BY DEF IsTable
<1> QED BY <1>1, <1>3

\* Every finite set has a table.
LEMMA TableExists ==
  ASSUME NEW f, NEW S, IsFiniteSet(S)
  PROVE  \E h : IsTable(h, f, S)
<1> DEFINE C == {T \in SUBSET S : ~ \E h : IsTable(h, f, T)}
<1>1. C = {}
  <2>1. SUFFICES ASSUME C # {} PROVE FALSE
    OBVIOUS
  <2>2. PICK T \in C : \A U \in C : ~ (U \subseteq T /\ U # T)
    <3> HIDE DEF C
    <3>1. C \subseteq SUBSET S
      BY DEF C
    <3> QED BY <2>1, <3>1, MinimalSubset
  <2>3. \A U \in SUBSET T : U # T => IsTable(Table(f, U), f, U)
    BY <2>2 DEF Table
  <2>4. \A U \in SUBSET T : IsFiniteSet(U)
    BY FS_Subset
  \* The tables of the proper subsets agree where they overlap.
  <2>5. ASSUME NEW U \in SUBSET T, U # T, NEW V \in SUBSET U
        PROVE  Table(f, U)[V] = Table(f, V)[V]
    <3>1. IsTable(Table(f, U), f, U) /\ V # T
      BY <2>3, <2>5
    <3>2. IsTable([W \in SUBSET V |-> Table(f, U)[W]], f, V)
      BY <3>1, TableRestricts
    <3>3. IsTable(Table(f, V), f, V)
      BY <2>3, <3>1
    <3>4. [W \in SUBSET V |-> Table(f, U)[W]] = Table(f, V)
      BY <3>2, <3>3, <2>4, TableUnique
    <3>5. [W \in SUBSET V |-> Table(f, U)[W]][V] = Table(f, U)[V]
      OBVIOUS
    <3> QED BY <3>4, <3>5
  <2> DEFINE top == IF T = {} THEN 0
                    ELSE LET x == CHOOSE x \in T : TRUE
                         IN  f[x] + Table(f, T \ {x})[T \ {x}]
             h == [U \in SUBSET T |-> IF U = T THEN top ELSE Table(f, U)[U]]
  <2>6. ASSUME NEW U \in SUBSET T
        PROVE  h[U] = IF U = {} THEN 0
                      ELSE LET x == CHOOSE x \in U : TRUE IN f[x] + h[U \ {x}]
    <3> DEFINE x == CHOOSE x \in U : TRUE
    <3>1. CASE U = T
      <4>1. T # {} => x \in T /\ T \ {x} # T
        BY <3>1
      <4>2. T # {} => h[T \ {x}] = Table(f, T \ {x})[T \ {x}]
        BY <4>1
      <4> QED BY <3>1, <4>2
    <3>2. CASE U # T
      <4>1. h[U] = Table(f, U)[U]
        BY <3>2
      <4>2. IsTable(Table(f, U), f, U)
        BY <3>2, <2>3
      <4>3. Table(f, U)[U] = IF U = {} THEN 0 ELSE f[x] + Table(f, U)[U \ {x}]
        BY <4>2 DEF IsTable
      <4>4. Table(f, U)[U \ {x}] = Table(f, U \ {x})[U \ {x}]
        BY <2>5, <3>2
      <4>5. U # {} => h[U \ {x}] = Table(f, U \ {x})[U \ {x}]
        BY <3>2
      <4> QED BY <4>1, <4>3, <4>4, <4>5
    <3> QED BY <3>1, <3>2
  <2>7. IsTable(h, f, T)
    <3>1. h = [U \in SUBSET T |-> IF U = {} THEN 0
                ELSE LET x == CHOOSE x \in U : TRUE IN f[x] + h[U \ {x}]]
      BY <2>6
    <3> QED BY <3>1 DEF IsTable
  <2> QED BY <2>2, <2>7
<1>2. S \notin C
  BY <1>1
<1> QED BY <1>2

(***************************************************************************)
(* The facts the other modules cite.                                       *)
(***************************************************************************)
LEMMA SumOfTable ==
  ASSUME NEW f, NEW S, IsFiniteSet(S)
  PROVE  /\ IsTable(Table(f, S), f, S)
         /\ SumFunctionOnSet(f, S) = Table(f, S)[S]
<1>1. IsTable(Table(f, S), f, S)
  BY TableExists DEF Table
<1>2. SumFunctionOnSet(f, S) = (CHOOSE h : IsTable(h, f, S))[S]
  BY DEF SumFunctionOnSet, FoldFunctionOnSet, MapThenFoldSet, IsTable
<1> QED BY <1>1, <1>2 DEF Table

\* The sum over the empty set.
LEMMA SumEmpty ==
  ASSUME NEW f
  PROVE  SumFunctionOnSet(f, {}) = 0
<1>1. IsTable(Table(f, {}), f, {}) /\ SumFunctionOnSet(f, {}) = Table(f, {})[{}]
  BY FS_EmptySet, SumOfTable
<1>2. {} \in SUBSET {}
  OBVIOUS
<1> QED BY <1>1, <1>2 DEF IsTable

\* The sum over a non-empty set, opened at the element CHOOSE returns.
LEMMA SumStep ==
  ASSUME NEW f, NEW S, IsFiniteSet(S), S # {}
  PROVE  LET x == CHOOSE x \in S : TRUE
         IN  SumFunctionOnSet(f, S) = f[x] + SumFunctionOnSet(f, S \ {x})
<1> DEFINE x == CHOOSE x \in S : TRUE
           U == S \ {x}
<1>1. IsTable(Table(f, S), f, S) /\ SumFunctionOnSet(f, S) = Table(f, S)[S]
  BY SumOfTable
<1>2. IsFiniteSet(U)
  BY FS_Subset
<1>3. IsTable(Table(f, U), f, U) /\ SumFunctionOnSet(f, U) = Table(f, U)[U]
  BY <1>2, SumOfTable
<1>4. IsTable([T \in SUBSET U |-> Table(f, S)[T]], f, U)
  BY <1>1, TableRestricts
<1>5. [T \in SUBSET U |-> Table(f, S)[T]] = Table(f, U)
  BY <1>2, <1>3, <1>4, TableUnique
<1>6. Table(f, S)[U] = Table(f, U)[U]
  <2>1. [T \in SUBSET U |-> Table(f, S)[T]][U] = Table(f, S)[U]
    OBVIOUS
  <2> QED BY <1>5, <2>1
<1>7. Table(f, S)[S] = f[x] + Table(f, S)[U]
  BY <1>1 DEF IsTable
<1> QED BY <1>1, <1>3, <1>6, <1>7

\* A sum of integers is an integer.
LEMMA SumType ==
  ASSUME NEW f, NEW S, IsFiniteSet(S), \A x \in S : f[x] \in Int
  PROVE  SumFunctionOnSet(f, S) \in Int
<1> DEFINE C == {T \in SUBSET S : SumFunctionOnSet(f, T) \notin Int}
<1>1. C = {}
  <2>1. SUFFICES ASSUME C # {} PROVE FALSE
    OBVIOUS
  <2>2. PICK T \in C : \A U \in C : ~ (U \subseteq T /\ U # T)
    <3>1. C \subseteq SUBSET S
      OBVIOUS
    <3> HIDE DEF C
    <3> QED BY <2>1, <3>1, MinimalSubset
  <2>3. T # {}
    BY SumEmpty
  <2>4. IsFiniteSet(T)
    BY FS_Subset
  <2> DEFINE x == CHOOSE x \in T : TRUE
  <2>5. SumFunctionOnSet(f, T) = f[x] + SumFunctionOnSet(f, T \ {x})
    BY <2>3, <2>4, SumStep
  <2>6. x \in T /\ T \ {x} \subseteq T /\ T \ {x} # T
    BY <2>3
  <2>7. SumFunctionOnSet(f, T \ {x}) \in Int
    BY <2>2, <2>6
  <2> QED BY <2>5, <2>6, <2>7
<1> QED BY <1>1

\* The sum over a set, opened at any of its elements.
LEMMA SumAt ==
  ASSUME NEW f, NEW S, IsFiniteSet(S), \A y \in S : f[y] \in Int, NEW x \in S
  PROVE  SumFunctionOnSet(f, S) = f[x] + SumFunctionOnSet(f, S \ {x})
<1> DEFINE Opens(T) == \A y \in T : SumFunctionOnSet(f, T)
                                    = f[y] + SumFunctionOnSet(f, T \ {y})
           C == {T \in SUBSET S : ~ Opens(T)}
<1>1. C = {}
  <2>1. SUFFICES ASSUME C # {} PROVE FALSE
    OBVIOUS
  <2>2. PICK T \in C : \A U \in C : ~ (U \subseteq T /\ U # T)
    <3>1. C \subseteq SUBSET S
      OBVIOUS
    <3> HIDE DEF C
    <3> QED BY <2>1, <3>1, MinimalSubset
  <2>3. PICK y \in T : SumFunctionOnSet(f, T) # f[y] + SumFunctionOnSet(f, T \ {y})
    BY <2>2
  <2> DEFINE c == CHOOSE c \in T : TRUE
  <2>4. c \in T /\ T # {}
    BY <2>3
  <2>5. \A U \in SUBSET T : IsFiniteSet(U) /\ SumFunctionOnSet(f, U) \in Int
    <3>1. \A U \in SUBSET T : IsFiniteSet(U)
      BY FS_Subset
    <3> QED BY <3>1, SumType
  <2>6. SumFunctionOnSet(f, T) = f[c] + SumFunctionOnSet(f, T \ {c})
    BY <2>4, <2>5, SumStep
  <2>7. c # y
    BY <2>3, <2>6
  <2>8. Opens(T \ {c}) /\ Opens(T \ {y})
    BY <2>2, <2>3, <2>4
  <2>9. SumFunctionOnSet(f, T \ {c}) = f[y] + SumFunctionOnSet(f, (T \ {c}) \ {y})
    BY <2>3, <2>7, <2>8
  <2>10. SumFunctionOnSet(f, T \ {y}) = f[c] + SumFunctionOnSet(f, (T \ {y}) \ {c})
    BY <2>4, <2>7, <2>8
  <2>11. (T \ {c}) \ {y} = (T \ {y}) \ {c}
    OBVIOUS
  <2> DEFINE rest == SumFunctionOnSet(f, (T \ {c}) \ {y})
  <2>12. rest \in Int /\ f[c] \in Int /\ f[y] \in Int
    BY <2>4, <2>5
  <2> HIDE DEF rest, c, Opens
  <2>13. SumFunctionOnSet(f, T) = f[c] + (f[y] + rest)
    BY <2>6, <2>9 DEF rest
  <2>14. SumFunctionOnSet(f, T \ {y}) = f[c] + rest
    BY <2>10, <2>11 DEF rest
  <2> QED BY <2>3, <2>12, <2>13, <2>14
<1> QED BY <1>1

\* The sum of a pointwise sum is the sum of the sums.
LEMMA SumAdd ==
  ASSUME NEW f, NEW g, NEW h, NEW S, IsFiniteSet(S),
         \A x \in S : f[x] \in Int /\ g[x] \in Int /\ h[x] = f[x] + g[x]
  PROVE  SumFunctionOnSet(h, S) = SumFunctionOnSet(f, S) + SumFunctionOnSet(g, S)
<1> DEFINE C == {T \in SUBSET S : SumFunctionOnSet(h, T)
                     # SumFunctionOnSet(f, T) + SumFunctionOnSet(g, T)}
<1>1. C = {}
  <2>1. SUFFICES ASSUME C # {} PROVE FALSE
    OBVIOUS
  <2>2. PICK T \in C : \A U \in C : ~ (U \subseteq T /\ U # T)
    <3>1. C \subseteq SUBSET S
      OBVIOUS
    <3> HIDE DEF C
    <3> QED BY <2>1, <3>1, MinimalSubset
  <2>3. T # {}
    <3>1. T = {} => /\ SumFunctionOnSet(f, T) = 0
                    /\ SumFunctionOnSet(g, T) = 0
                    /\ SumFunctionOnSet(h, T) = 0
      BY SumEmpty, Zenon
    <3>2. SumFunctionOnSet(h, T) # SumFunctionOnSet(f, T) + SumFunctionOnSet(g, T)
      BY <2>2
    <3>3. 0 = 0 + 0
      OBVIOUS
    <3> QED BY <3>1, <3>2, <3>3, Zenon
  <2>4. IsFiniteSet(T)
    BY FS_Subset
  <2> DEFINE x == CHOOSE x \in T : TRUE
             U == T \ {x}
  <2>5. /\ SumFunctionOnSet(f, T) = f[x] + SumFunctionOnSet(f, U)
        /\ SumFunctionOnSet(g, T) = g[x] + SumFunctionOnSet(g, U)
        /\ SumFunctionOnSet(h, T) = h[x] + SumFunctionOnSet(h, U)
    BY <2>3, <2>4, SumStep
  <2>6. x \in T /\ x \in S /\ U \subseteq T /\ U # T
    BY <2>3
  <2>7. SumFunctionOnSet(h, U) = SumFunctionOnSet(f, U) + SumFunctionOnSet(g, U)
    BY <2>2, <2>6
  <2>8. /\ IsFiniteSet(U)
        /\ SumFunctionOnSet(f, U) \in Int
        /\ SumFunctionOnSet(g, U) \in Int
    <3>1. IsFiniteSet(U)
      BY <2>4, FS_Subset
    <3> QED BY <3>1, SumType
  <2>9. f[x] \in Int /\ g[x] \in Int /\ h[x] = f[x] + g[x]
    BY <2>6
  <2> HIDE DEF x, U
  <2> QED BY <2>2, <2>5, <2>7, <2>8, <2>9
<1> QED BY <1>1

\* The sum of a function that is zero on the set.
LEMMA SumZero ==
  ASSUME NEW f, NEW S, IsFiniteSet(S), \A x \in S : f[x] = 0
  PROVE  SumFunctionOnSet(f, S) = 0
<1>1. SumFunctionOnSet(f, S) \in Int
  BY SumType
<1>2. SumFunctionOnSet(f, S) = SumFunctionOnSet(f, S) + SumFunctionOnSet(f, S)
  <2>1. \A x \in S : f[x] \in Int /\ f[x] \in Int /\ f[x] = f[x] + f[x]
    OBVIOUS
  <2> QED BY <2>1, SumAdd
<1>3. \A n \in Int : n = n + n => n = 0
  OBVIOUS
<1> QED BY <1>1, <1>2, <1>3, Zenon

\* Functions that agree on the set have the same sum.
LEMMA SumCongruence ==
  ASSUME NEW f, NEW g, NEW S, IsFiniteSet(S),
         \A x \in S : f[x] \in Int /\ g[x] = f[x]
  PROVE  SumFunctionOnSet(g, S) = SumFunctionOnSet(f, S)
<1> DEFINE zero == [x \in S |-> 0]
<1>1. SumFunctionOnSet(zero, S) = 0
  BY SumZero
<1>2. SumFunctionOnSet(g, S) = SumFunctionOnSet(f, S) + SumFunctionOnSet(zero, S)
  <2>1. \A x \in S : f[x] \in Int /\ zero[x] \in Int /\ g[x] = f[x] + zero[x]
    OBVIOUS
  <2> HIDE DEF zero
  <2> QED BY <2>1, SumAdd
<1>3. SumFunctionOnSet(f, S) \in Int
  BY SumType
<1> QED BY <1>1, <1>2, <1>3

\* Two functions that agree except at one element.
LEMMA SumUpdate ==
  ASSUME NEW f, NEW g, NEW S, IsFiniteSet(S), NEW a \in S,
         \A x \in S : f[x] \in Int /\ g[x] \in Int,
         \A x \in S \ {a} : g[x] = f[x]
  PROVE  SumFunctionOnSet(g, S) = SumFunctionOnSet(f, S) + (g[a] - f[a])
<1>1. SumFunctionOnSet(f, S) = f[a] + SumFunctionOnSet(f, S \ {a})
  BY SumAt
<1>2. SumFunctionOnSet(g, S) = g[a] + SumFunctionOnSet(g, S \ {a})
  BY SumAt
<1>3. IsFiniteSet(S \ {a})
  BY FS_Subset
<1>4. SumFunctionOnSet(g, S \ {a}) = SumFunctionOnSet(f, S \ {a})
  BY <1>3, SumCongruence
<1>5. SumFunctionOnSet(f, S \ {a}) \in Int
  BY <1>3, SumType
<1> QED BY <1>1, <1>2, <1>4, <1>5

\* A sum of naturals is a natural.
LEMMA SumNat ==
  ASSUME NEW f, NEW S, IsFiniteSet(S), \A x \in S : f[x] \in Nat
  PROVE  SumFunctionOnSet(f, S) \in Nat
<1> DEFINE C == {T \in SUBSET S : SumFunctionOnSet(f, T) \notin Nat}
<1>1. C = {}
  <2>1. SUFFICES ASSUME C # {} PROVE FALSE
    OBVIOUS
  <2>2. PICK T \in C : \A U \in C : ~ (U \subseteq T /\ U # T)
    <3>1. C \subseteq SUBSET S
      OBVIOUS
    <3> HIDE DEF C
    <3> QED BY <2>1, <3>1, MinimalSubset
  <2>3. T # {}
    BY SumEmpty
  <2>4. IsFiniteSet(T)
    BY FS_Subset
  <2> DEFINE x == CHOOSE x \in T : TRUE
  <2>5. SumFunctionOnSet(f, T) = f[x] + SumFunctionOnSet(f, T \ {x})
    BY <2>3, <2>4, SumStep
  <2>6. x \in T /\ T \ {x} \subseteq T /\ T \ {x} # T
    BY <2>3
  <2>7. SumFunctionOnSet(f, T \ {x}) \in Nat
    BY <2>2, <2>6
  <2> QED BY <2>5, <2>6, <2>7
<1> QED BY <1>1

\* Sums of naturals are monotone in the function.
LEMMA SumMonotone ==
  ASSUME NEW f, NEW g, NEW S, IsFiniteSet(S),
         \A x \in S : f[x] \in Nat /\ g[x] \in Nat /\ f[x] <= g[x]
  PROVE  SumFunctionOnSet(f, S) <= SumFunctionOnSet(g, S)
<1> DEFINE d == [x \in S |-> g[x] - f[x]]
<1>1. \A x \in S : f[x] \in Int /\ d[x] \in Nat /\ g[x] = f[x] + d[x]
  OBVIOUS
<1> HIDE DEF d
<1>2. SumFunctionOnSet(g, S) = SumFunctionOnSet(f, S) + SumFunctionOnSet(d, S)
  BY <1>1, SumAdd
<1>3. SumFunctionOnSet(d, S) \in Nat /\ SumFunctionOnSet(f, S) \in Nat
  BY <1>1, SumNat
<1> QED BY <1>2, <1>3

\* One term of a sum of naturals is at most the sum.
LEMMA SumTerm ==
  ASSUME NEW f, NEW S, IsFiniteSet(S), \A x \in S : f[x] \in Nat, NEW a \in S
  PROVE  f[a] <= SumFunctionOnSet(f, S)
<1>1. SumFunctionOnSet(f, S) = f[a] + SumFunctionOnSet(f, S \ {a})
  BY SumAt
<1>2. SumFunctionOnSet(f, S \ {a}) \in Nat
  <2>1. IsFiniteSet(S \ {a})
    BY FS_Subset
  <2> QED BY <2>1, SumNat
<1> QED BY <1>1, <1>2

\* Summing over a part of a finite set is summing zero for the rest.
LEMMA SumSubset ==
  ASSUME NEW f, NEW g, NEW S, IsFiniteSet(S), NEW R, R \subseteq S,
         \A x \in S : f[x] \in Int /\ g[x] = IF x \in R THEN f[x] ELSE 0
  PROVE  SumFunctionOnSet(g, S) = SumFunctionOnSet(f, R)
<1> DEFINE C == {T \in SUBSET S : SumFunctionOnSet(g, T) # SumFunctionOnSet(f, T \cap R)}
<1>1. C = {}
  <2>1. SUFFICES ASSUME C # {} PROVE FALSE
    OBVIOUS
  <2>2. PICK T \in C : \A U \in C : ~ (U \subseteq T /\ U # T)
    <3>1. C \subseteq SUBSET S
      OBVIOUS
    <3> HIDE DEF C
    <3> QED BY <2>1, <3>1, MinimalSubset
  <2>3. T # {}
    <3>1. T = {} => T \cap R = {}
      OBVIOUS
    <3>2. SumFunctionOnSet(g, T) # SumFunctionOnSet(f, T \cap R)
      BY <2>2
    <3> QED BY <3>1, <3>2, SumEmpty, Zenon
  <2>4. IsFiniteSet(T) /\ IsFiniteSet(T \cap R)
    BY FS_Subset
  <2> DEFINE x == CHOOSE x \in T : TRUE
             U == T \ {x}
  <2>5. SumFunctionOnSet(g, T) = g[x] + SumFunctionOnSet(g, U)
    BY <2>3, <2>4, SumStep
  <2>6. x \in T /\ x \in S /\ U \subseteq T /\ U # T
    BY <2>3
  <2>7. SumFunctionOnSet(g, U) = SumFunctionOnSet(f, U \cap R)
    BY <2>2, <2>6
  <2>8. SumFunctionOnSet(f, U \cap R) \in Int
    <3>1. IsFiniteSet(U \cap R)
      BY <2>4, FS_Subset
    <3> QED BY <3>1, SumType
  <2>9. CASE x \in R
    <3>1. SumFunctionOnSet(f, T \cap R) = f[x] + SumFunctionOnSet(f, (T \cap R) \ {x})
      <4>1. x \in T \cap R /\ \A y \in T \cap R : f[y] \in Int
        BY <2>6, <2>9
      <4> HIDE DEF x
      <4> QED BY <2>4, <4>1, SumAt
    <3>2. (T \cap R) \ {x} = U \cap R
      OBVIOUS
    <3>3. g[x] = f[x]
      BY <2>6, <2>9
    <3> HIDE DEF x, U
    <3> QED BY <2>2, <2>5, <2>7, <3>1, <3>2, <3>3
  <2>10. CASE x \notin R
    <3>1. SumFunctionOnSet(f, T \cap R) = SumFunctionOnSet(f, U \cap R)
      <4>1. T \cap R = U \cap R
        BY <2>10
      <4> QED BY <4>1, Zenon
    <3>2. g[x] = 0 /\ SumFunctionOnSet(g, T) # SumFunctionOnSet(f, T \cap R)
      BY <2>2, <2>6, <2>10
    <3> HIDE DEF x, U
    <3> QED BY <2>5, <2>7, <2>8, <3>1, <3>2
  <2> QED BY <2>9, <2>10
<1>2. S \cap R = R /\ S \in SUBSET S
  OBVIOUS
<1>3. SumFunctionOnSet(g, S) = SumFunctionOnSet(f, S \cap R)
  BY <1>1, <1>2
<1> QED BY <1>2, <1>3

\* What a function returns on a finite set is finite, and as large as the set
\* when the function is one-to-one.
LEMMA ImageSize ==
  ASSUME NEW h, NEW S, IsFiniteSet(S)
  PROVE  /\ IsFiniteSet({h[x] : x \in S})
         /\ (\A x, y \in S : h[x] = h[y] => x = y) =>
               Cardinality({h[x] : x \in S}) = Cardinality(S)
<1> DEFINE T == {h[x] : x \in S}
           k == [x \in S |-> h[x]]
<1>1. k \in Surjection(S, T)
  BY DEF Surjection
<1>2. (\A x, y \in S : h[x] = h[y] => x = y) => k \in Injection(S, T)
  BY DEF Injection, IsInjective
<1> QED BY <1>1, <1>2, FS_Surjection

\* Summing over what a one-to-one function returns is summing over its arguments.
LEMMA SumImage ==
  ASSUME NEW f, NEW g, NEW h, NEW S, IsFiniteSet(S),
         \A x, y \in S : h[x] = h[y] => x = y,
         \A x \in S : g[x] \in Int /\ f[h[x]] = g[x]
  PROVE  SumFunctionOnSet(f, {h[x] : x \in S}) = SumFunctionOnSet(g, S)
<1> DEFINE Image(T) == {h[y] : y \in T}
           C == {T \in SUBSET S : SumFunctionOnSet(f, Image(T)) # SumFunctionOnSet(g, T)}
<1>1. C = {}
  <2>1. SUFFICES ASSUME C # {} PROVE FALSE
    OBVIOUS
  <2>2. PICK T \in C : \A U \in C : ~ (U \subseteq T /\ U # T)
    <3>1. C \subseteq SUBSET S
      OBVIOUS
    <3> HIDE DEF C
    <3> QED BY <2>1, <3>1, MinimalSubset
  <2>3. T # {}
    <3>1. T = {} => Image(T) = {}
      OBVIOUS
    <3>2. SumFunctionOnSet(f, Image(T)) # SumFunctionOnSet(g, T)
      BY <2>2
    <3> HIDE DEF Image
    <3> QED BY <3>1, <3>2, SumEmpty, Zenon
  <2>4. IsFiniteSet(T) /\ IsFiniteSet(Image(T))
    <3>1. IsFiniteSet(T)
      BY FS_Subset
    <3> QED BY <3>1, ImageSize
  <2> DEFINE x == CHOOSE x \in T : TRUE
             U == T \ {x}
  <2>5. SumFunctionOnSet(g, T) = g[x] + SumFunctionOnSet(g, U)
    BY <2>3, <2>4, SumStep
  <2>6. x \in T /\ x \in S /\ U \subseteq T /\ U # T
    BY <2>3
  <2>7. SumFunctionOnSet(f, Image(U)) = SumFunctionOnSet(g, U)
    BY <2>2, <2>6
  <2>8. h[x] \in Image(T) /\ Image(T) \ {h[x]} = Image(U)
    <3> HIDE DEF x
    <3> QED BY <2>6
  <2>9. \A z \in Image(T) : f[z] \in Int
    BY <2>6
  <2>10. SumFunctionOnSet(f, Image(T)) = f[h[x]] + SumFunctionOnSet(f, Image(U))
    <3> HIDE DEF Image, x, U
    <3> QED BY <2>4, <2>8, <2>9, SumAt
  <2>11. f[h[x]] = g[x] /\ SumFunctionOnSet(f, Image(T)) # SumFunctionOnSet(g, T)
    BY <2>2, <2>6
  <2> HIDE DEF Image, x, U
  <2> QED BY <2>5, <2>7, <2>10, <2>11
<1>2. SumFunctionOnSet(f, Image(S)) = SumFunctionOnSet(g, S)
  BY <1>1
<1> QED BY <1>2

-----------------------------------------------------------------------------
(* Ranks. *)

\* In a finite set with a total order, below[e] being what comes before e, the
\* number of elements before each is its place, and every place is taken once.
LEMMA RankOrder ==
  ASSUME NEW R, IsFiniteSet(R), NEW below,
         \A e \in R : below[e] \in SUBSET (R \ {e}),
         \A e, f \in R : e \in below[f] => below[e] \subseteq below[f],
         \A e, f \in R : e = f \/ e \in below[f] \/ f \in below[e]
  PROVE  /\ Cardinality(R) \in Nat
         /\ \A e \in R : Cardinality(below[e]) \in 0 .. Cardinality(R) - 1
         /\ \A e, f \in R : e \in below[f] => Cardinality(below[e]) < Cardinality(below[f])
         /\ \A e, f \in R : Cardinality(below[e]) = Cardinality(below[f]) => e = f
         /\ \A k \in 0 .. Cardinality(R) - 1 : \E e \in R : Cardinality(below[e]) = k
<1>1. Cardinality(R) \in Nat
  BY FS_CardinalityType
<1>2. ASSUME NEW e \in R
      PROVE  IsFiniteSet(below[e]) /\ Cardinality(below[e]) \in 0 .. Cardinality(R) - 1
  <2>1. below[e] \in SUBSET R /\ below[e] # R
    OBVIOUS
  <2>2. /\ IsFiniteSet(below[e]) /\ Cardinality(below[e]) <= Cardinality(R)
        /\ Cardinality(below[e]) # Cardinality(R)
    BY <2>1, FS_Subset
  <2>3. Cardinality(below[e]) \in Nat
    BY <2>2, FS_CardinalityType
  <2> QED BY <1>1, <2>2, <2>3
<1>3. ASSUME NEW e \in R, NEW f \in R, e \in below[f]
      PROVE  Cardinality(below[e]) < Cardinality(below[f])
  <2>1. below[e] \in SUBSET below[f] /\ below[e] # below[f]
    BY <1>3
  <2>2. /\ Cardinality(below[e]) <= Cardinality(below[f])
        /\ Cardinality(below[e]) # Cardinality(below[f])
    BY <1>2, <2>1, FS_Subset
  <2>3. Cardinality(below[e]) \in Int /\ Cardinality(below[f]) \in Int
    BY <1>1, <1>2
  <2> QED BY <2>2, <2>3
<1>4. ASSUME NEW e \in R, NEW f \in R, Cardinality(below[e]) = Cardinality(below[f])
      PROVE  e = f
  <2>1. Cardinality(below[e]) \in Int /\ Cardinality(below[f]) \in Int
    BY <1>1, <1>2
  <2> QED BY <1>3, <1>4, <2>1
<1>5. \A k \in 0 .. Cardinality(R) - 1 : \E e \in R : Cardinality(below[e]) = k
  <2> DEFINE T == 0 .. Cardinality(R) - 1
             rank == [e \in R |-> Cardinality(below[e])]
  <2>1. rank \in Injection(R, T)
    BY <1>2, <1>4 DEF Injection, IsInjective
  <2>2. IsFiniteSet(T) /\ Cardinality(T) = Cardinality(R)
    <3>1. Cardinality(R) - 1 \in Int
      BY <1>1
    <3>2. /\ IsFiniteSet(T)
          /\ Cardinality(T) = IF 0 > Cardinality(R) - 1 THEN 0 ELSE Cardinality(R) - 1 - 0 + 1
      BY <3>1, FS_Interval
    <3> QED BY <1>1, <3>2
  <2>3. rank \in Surjection(R, T)
    BY <2>1, <2>2, FS_Injection
  <2> QED BY <2>3 DEF Surjection
<1> QED BY <1>1, <1>2, <1>3, <1>4, <1>5

\* A non-empty finite set with a total order has a last element.
LEMMA LastElement ==
  ASSUME NEW R, IsFiniteSet(R), R # {}, NEW below,
         \A e \in R : below[e] \in SUBSET (R \ {e}),
         \A e, f \in R : e \in below[f] => below[e] \subseteq below[f],
         \A e, f \in R : e = f \/ e \in below[f] \/ f \in below[e]
  PROVE  \E e \in R : below[e] = R \ {e}
<1> DEFINE n == Cardinality(R)
<1>1. n \in Nat /\ n # 0
  BY FS_CardinalityType, FS_EmptySet
<1>2. PICK e \in R : Cardinality(below[e]) = n - 1
  <2>1. n - 1 \in 0 .. n - 1
    BY <1>1
  <2> QED BY <2>1, RankOrder
<1>3. ASSUME NEW f \in R, e \in below[f]
      PROVE  FALSE
  <2>1. Cardinality(below[e]) < Cardinality(below[f]) /\ Cardinality(below[f]) \in 0 .. n - 1
    BY <1>3, RankOrder
  <2> QED BY <1>1, <1>2, <2>1
<1>4. below[e] = R \ {e}
  BY <1>3
<1> QED BY <1>4

=============================================================================
