-------------------------------- MODULE MCSoc -------------------------------
(* The instances of module Soc that TLC checks. *)
EXTENDS Soc, ToyInstructions

\* As FullMenu, but with loads and stores at offsets: at first, when registers
\* are zero, they go to RAM, and later to each of the four addresses.
SocMenu == [FullMenu EXCEPT ![5].imm = 2, ![6].imm = 1]

\* A store adds, so that one that is performed twice is seen.
AddingStoreData(w, a, d, b) == Wrap(d + b)

=============================================================================
