------------------------------ MODULE Pipeline ------------------------------
(***************************************************************************)
(* The rules every stage of the Icicle pipeline obeys (icicle/pipeline.py, *)
(* class Stage).  A stage reads the register of the stage before it, the   *)
(* input i, and owns a register of its own, the output o.  Both carry a    *)
(* state beside their payload:                                             *)
(*                                                                         *)
(*   BUBBLE  the slot holds no instruction and its payload is meaningless; *)
(*   VALID   it holds an instruction;                                      *)
(*   TRAP    it holds an instruction that will trap when it retires.       *)
(*                                                                         *)
(* Every operator here is a pure function of signal levels.  The stages    *)
(* themselves, and how their signals are wired, are in module Core.        *)
(***************************************************************************)

State == {"BUBBLE", "VALID", "TRAP"}

StageStallDespiteFlush(i_state, sources, next_stall, flush) ==
  (i_state = "VALID" /\ sources) \/ next_stall

(* A stage stalls for a reason of its own, which counts only if it holds a *)
(* valid instruction, or because the next stage does.  A flush overrides   *)
(* both: a flushed stage never stalls.                                     *)
StageStall(i_state, sources, next_stall, flush) ==
  ((i_state = "VALID" /\ sources) \/ next_stall) /\ ~flush

(* A stage traps its instruction for a reason of its own, or passes on the *)
(* trap of a stage before it.                                              *)
StageTrap(i_state, sources) ==
  i_state = "TRAP" \/ (i_state = "VALID" /\ sources)

(* The state o takes at the clock edge.  A stage that moves flushes, traps *)
(* or passes its instruction on, in this order of priority; a stage that   *)
(* is held leaves a bubble behind once the next stage has taken o.         *)
StageState(o_state, i_state, stall, next_stall, flush, trap) ==
  IF ~stall
    THEN IF flush THEN "BUBBLE" ELSE IF trap THEN "TRAP" ELSE i_state
    ELSE IF ~next_stall THEN "BUBBLE" ELSE o_state

=============================================================================
