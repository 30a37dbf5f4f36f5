---------------------------- MODULE MCMessaging ----------------------------
(***************************************************************************)
(* Small instances of outbox, topic and inbox.                             *)
(***************************************************************************)
EXTENDS Messaging, TLC

\* Instances of a service are interchangeable.
ConsumerSymmetry == Permutations(Consumers)
=============================================================================
