------------------------------- MODULE MCCore -------------------------------
\* Module Core with the toy instructions.
EXTENDS Core, ToyInstructions

=============================================================================
