------------------------------- MODULE MCSaga -------------------------------
(***************************************************************************)
(* One reservation and its shipment. Sagas of different reservations share *)
(* no row; they only queue behind each other in the topics, which delays   *)
(* an event as a failed attempt does. So the bound is spent on failures.   *)
(***************************************************************************)
EXTENDS Saga
=============================================================================
