----------------------------- MODULE MCLogPipe -----------------------------
(* An instance of LogPipe for TLC: a logger that also writes to root's     *)
(* console, and one that writes only to its own.                           *)
EXTENDS LogPipe, TLC

CONSTANTS l1, l2, other, console, stderr, file

MCLoggers == {l1, l2}
MCNames == {l1, l2, other}
MCConsoles == {console, stderr}
MCRefs == (l1 :> <<stderr, file>>) @@ (l2 :> <<console>>) @@ (Root :> <<console>>)
MCAdditivity == (l1 :> TRUE) @@ (l2 :> FALSE)
=============================================================================
