---------------------------- MODULE MCNetSocket ----------------------------
(* Instances of NetSocket for TLC.                                         *)
EXTENDS NetSocket, TLC
=============================================================================
