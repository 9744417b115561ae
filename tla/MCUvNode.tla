------------------------------ MODULE MCUvNode ------------------------------
(* Instances of UvNode for TLC.                                            *)
EXTENDS UvNode, TLC
=============================================================================
