----------------------------- MODULE SaxStream ------------------------------
(***************************************************************************)
(* What the function given to TravelXmlBuffer may rely on, whatever the    *)
(* text is: the calls it gets nest.  It is told of the end of an element   *)
(* under the name it was told at its beginning, innermost element first,   *)
(* and never before it has been told of something inside that element.     *)
(***************************************************************************)
EXTENDS Naturals, Sequences, SequencesExt

VARIABLES
  told,         \* the number of calls so far
  call,         \* the last one: its type and the name of its element
  open,         \* the names of the elements begun and not ended
  fresh         \* nothing has been told of the innermost of them yet

Init == told = 0 /\ open = <<>> /\ fresh = FALSE

Enter ==
  /\ told' = told + 1 /\ call'.type = "enter"
  /\ open' = Append(open, call'.node) /\ fresh' = TRUE

Inside ==
  /\ told' = told + 1 /\ call'.type \in {"branch", "leaf"}
  /\ open' = open /\ fresh' = FALSE

Leave ==
  /\ told' = told + 1 /\ call'.type = "leave"
  /\ open # <<>> /\ ~fresh
  /\ call'.node = Last(open)
  /\ open' = Front(open) /\ fresh' = FALSE

Next == Enter \/ Inside \/ Leave

Spec == Init /\ [][Next]_<<told, call, open, fresh>>
=============================================================================
