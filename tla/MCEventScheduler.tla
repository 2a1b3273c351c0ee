-------------------------- MODULE MCEventScheduler --------------------------
(* EventScheduler for TLC.  The cfg files give the constants their values; *)
(* the module of the proofs is extended so that TLC checks the inductive   *)
(* invariant as well, and the assumptions the proofs make.                 *)
EXTENDS EventSchedulerWireProofs
=============================================================================
