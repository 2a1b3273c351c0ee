----------------------------- MODULE MCStartup -----------------------------
(* Startup for TLC; with the module of the proofs, so that TLC checks the  *)
(* inductive invariant as well.                                            *)
EXTENDS StartupProofs
=============================================================================
