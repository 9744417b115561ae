---------------------------- MODULE WriteStream ----------------------------
(***************************************************************************)
(* What net_socket_write promises, whatever thread calls it: the data of   *)
(* every call is queued, and the whole queue is passed on in the order of  *)
(* the calls, nothing lost, repeated or reordered, and sooner or later.    *)
(***************************************************************************)
EXTENDS Sequences

CONSTANT Data

VARIABLES
  queue,  \* data accepted and not yet passed on
  out     \* data passed on

vars == <<queue, out>>

Init == queue = <<>> /\ out = <<>>

Write(d) ==
  /\ queue' = Append(queue, d)
  /\ UNCHANGED out

Flush ==
  /\ queue # <<>>
  /\ out' = out \o queue
  /\ queue' = <<>>

Next == (\E d \in Data : Write(d)) \/ Flush

SafeSpec == Init /\ [][Next]_vars

Spec == SafeSpec /\ WF_vars(Flush)
=============================================================================
