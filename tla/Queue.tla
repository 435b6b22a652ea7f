------------------------------- MODULE Queue -------------------------------
(***************************************************************************)
(* A queue that is offered an item in a step, or gives one, or both, and   *)
(* gives them in the order in which it took them.  It may lose an item     *)
(* that it is offered, but only when Enough items wait in it.              *)
(***************************************************************************)
EXTENDS Naturals, Sequences

CONSTANTS
  None,  \* no item
  Enough \* the number of items the queue holds for certain

VARIABLES
  items, \* what waits in the queue, the oldest first
  offer, \* the item offered in this step, or None
  give   \* the item given in this step, or None

vars == <<items, offer, give>>

Give == give # None => items # <<>> /\ give = Head(items)

Left == IF give = None THEN items ELSE Tail(items)

Take == offer # None /\ items' = Append(Left, offer)

Pass == (offer # None => Len(items) >= Enough) /\ items' = Left

Init == items = <<>>

Next == Give /\ (Take \/ Pass)

Safety == Init /\ [][Next]_vars

\* The queue is empty again and again, or gives again and again.
Moves == []<>(items = <<>> \/ give # None)

=============================================================================
