---------------------------- MODULE EventStream ----------------------------
(***************************************************************************)
(* What outbox, Kafka and inbox promise one consumer about the events of   *)
(* one service: every recorded event takes effect at most once.  Where a   *)
(* lock on the aggregate makes its transactions follow each other and one  *)
(* publisher sends them (InOrder), they take effect in the order in which  *)
(* they were recorded, unless they are set aside in the dead letter topic. *)
(* Module Messaging implements this specification; the channels of modules *)
(* Saga and Putaway are streams of the ordered kind.                       *)
(***************************************************************************)
EXTENDS Naturals, Sequences, SequencesExt

CONSTANTS
  MaxEvents,  \* number of events
  InOrder     \* whether the order of the events matters and is kept

VARIABLES
  recorded,  \* the events committed in the producer's database
  effects,   \* the events whose effects the consumer has committed, in order
  aside      \* the events that went to the dead letter topic

streamVars == <<recorded, effects, aside>>

Done == ToSet(effects)

Init ==
  /\ recorded = {}
  /\ effects = <<>>
  /\ aside = {}

Record(e) ==
  /\ e \notin recorded
  /\ InOrder => \A r \in recorded : r < e
  /\ recorded' = recorded \cup {e}
  /\ UNCHANGED <<effects, aside>>

\* Every earlier event has taken effect or was set aside.
Ready(e) ==
  /\ e \in recorded
  /\ InOrder => \A r \in recorded : r < e => r \in Done \cup aside

Take(e) ==
  /\ Ready(e) \/ e \in aside
  /\ e \notin Done
  /\ effects' = Append(effects, e)
  /\ UNCHANGED <<recorded, aside>>

SetAside(e) ==
  /\ Ready(e) \/ e \in aside
  /\ aside' = aside \cup {e}
  /\ UNCHANGED <<recorded, effects>>

Next == \E e \in 1..MaxEvents : Record(e) \/ Take(e) \/ SetAside(e)

Spec == Init /\ [][Next]_streamVars
=============================================================================
