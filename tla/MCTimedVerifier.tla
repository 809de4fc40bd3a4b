--------------------------- MODULE MCTimedVerifier ---------------------------
(* An instance of TimedVerifier for TLC: the code's timeout, a shorter interval. *)
EXTENDS TimedVerifier
MCTokens == {}
==============================================================================
