----------------------------- MODULE MCProxyApp -----------------------------
(* ProxyApp for TLC: two channels are enough for a packet to be sent on    *)
(* the wrong one.                                                          *)
EXTENDS ProxyApp
=============================================================================
