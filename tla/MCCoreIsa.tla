------------------------------ MODULE MCCoreIsa -----------------------------
\* Module CoreIsa with the toy instructions.
EXTENDS CoreIsa, ToyInstructions

=============================================================================
