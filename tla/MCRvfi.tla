------------------------------- MODULE MCRvfi -------------------------------
\* Module Rvfi with the toy instructions.
EXTENDS Rvfi, ToyInstructions

=============================================================================
