---------------------------- MODULE MCHttpAgent ----------------------------
(* An instance of HttpAgent for TLC.                                       *)
EXTENDS HttpAgent, TLC
=============================================================================
