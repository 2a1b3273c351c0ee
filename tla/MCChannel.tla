----------------------------- MODULE MCChannel -----------------------------
(* Channel for TLC.  A base of 2 makes prefixes of one, two and four       *)
(* bytes from short messages; cutting that of length 2 leaves a size of 0. *)
EXTENDS ChannelProofs
=============================================================================
