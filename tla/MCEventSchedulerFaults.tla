----------------------- MODULE MCEventSchedulerFaults -----------------------
(* EventSchedulerFaults for TLC, with the invariant of the proofs. *)
EXTENDS EventSchedulerFaultsProofs
=============================================================================
