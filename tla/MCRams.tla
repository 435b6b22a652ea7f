------------------------------- MODULE MCRams -------------------------------
(* The instance of module Rams that TLC checks. *)
EXTENDS Rams

\* The selects of a word and of a byte store.
MCSel == {{0, 1, 2, 3}, {2}}

MCWrite == [sel : MCSel, data : {[l \in Lane |-> 1]}]

Blank == {[a \in Adr |-> [l \in Lane |-> 0]]}

=============================================================================
