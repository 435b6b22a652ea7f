----------------------------- MODULE MCDatapath -----------------------------
(* The instances of module Datapath that TLC checks. *)
EXTENDS Datapath

MCFields == {<<1, 2, 3>>, <<0, 2, 3>>, <<1, 0, 3>>, <<1, 2, 0>>}

MCOperands == {0, 2, 5, 131, 255}

=============================================================================
