----------------------------- MODULE LogChannel -----------------------------
(***************************************************************************)
(* What one logger promises to those who submit to it: a bounded queue     *)
(* whose tasks are written one at a time, each once, in the order in which *)
(* they were accepted.  A task submitted to a full queue is dropped.       *)
(***************************************************************************)
EXTENDS Naturals, Sequences

CONSTANTS Data, Capacity

VARIABLES
  queue,    \* tasks accepted and not yet written
  out,      \* tasks written
  dropped   \* tasks refused

vars == <<queue, out, dropped>>

Init == queue = <<>> /\ out = <<>> /\ dropped = {}

Accept(d) ==
  /\ Len(queue) < Capacity
  /\ queue' = Append(queue, d)
  /\ UNCHANGED <<out, dropped>>

Refuse(d) ==
  /\ Len(queue) = Capacity
  /\ dropped' = dropped \cup {d}
  /\ UNCHANGED <<queue, out>>

Take ==
  /\ queue # <<>>
  /\ out' = Append(out, Head(queue))
  /\ queue' = Tail(queue)
  /\ UNCHANGED dropped

Next == (\E d \in Data : Accept(d) \/ Refuse(d)) \/ Take

SafeSpec == Init /\ [][Next]_vars
=============================================================================
