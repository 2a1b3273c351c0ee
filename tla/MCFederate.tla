----------------------------- MODULE MCFederate -----------------------------
(* Federate for TLC. *)
EXTENDS FederateProofs
=============================================================================
