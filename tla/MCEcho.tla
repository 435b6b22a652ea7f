------------------------------- MODULE MCEcho -------------------------------
(* The instance of module Echo that TLC checks. *)
EXTENDS Echo

\* The characters on the line come in turn, so that one too many, one too few
\* or two in the wrong order are seen.
InTurn == [x \in Char |-> Char \ {x}]

=============================================================================
