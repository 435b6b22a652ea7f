------------------------------ MODULE CoreIsa ------------------------------
(***************************************************************************)
(* Why the pipeline of module Core keeps the promise of module Isa: the    *)
(* program sees the instruction in the memory access stage retire when     *)
(* that stage moves on.  Then its store has been performed, its trap or    *)
(* branch has redirected the fetch, and its register result is on its way  *)
(* to the register file with nothing left that could stop it.              *)
(***************************************************************************)
EXTENDS Core

\* History: the words each instruction address has held since the last FENCE.I.
VARIABLE visible

SawFence == Commit /\ xm.state = "VALID" /\ Control(xm.insn).fence_i

RecordVisible ==
  visible' = [p \in PC |-> IF SawFence THEN {memory[p]} ELSE visible[p] \union {memory'[p]}]

Full(s) == s.state # "BUBBLE"

(* The program stands at the oldest instruction that has not retired, or,  *)
(* with the pipeline empty, at the one that will be fetched next.          *)
OldestPC ==
  IF Full(xm) THEN xm.pc
  ELSE IF Full(dx) THEN dx.pc
  ELSE IF Full(fd) THEN fd.pc
  ELSE IF Full(pf) THEN pf.pc ELSE Plus4(pf.pc)

\* The register file with the result that writeback is about to store.
WrittenRegs ==
  IF mw.state = "VALID" /\ Control(mw.insn).rd_wen
    THEN [regs EXCEPT ![Control(mw.insn).rd] = mw.wdata]
    ELSE regs

ISA == INSTANCE Isa WITH pc <- OldestPC, regs <- WrittenRegs

IInit == Init /\ visible = [p \in PC |-> {memory[p]}]

INext == Next /\ RecordVisible

ivars == <<vars, visible>>

ISpec == IInit /\ [][INext]_ivars

(***************************************************************************)
(* The inductive invariant, part by part.                                  *)
(***************************************************************************)

\* The address after those of the instructions that have left decode, and execute.
PCAfterDecode == IF Full(fd) THEN fd.pc ELSE pf.pc
PCAfterExecute == IF Full(dx) THEN dx.pc ELSE PCAfterDecode

(* The instructions in flight are consecutive: whatever has not been       *)
(* flushed follows in memory what is ahead of it.                          *)
Consecutive ==
  /\ pf.state # "TRAP"
  /\ ~Full(pf) => ~Full(fd) /\ ~Full(dx) /\ ~Full(xm)
  /\ Full(fd) => pf.pc = Plus4(fd.pc)
  /\ Full(dx) => PCAfterDecode = Plus4(dx.pc)
  /\ Full(xm) => PCAfterExecute = Plus4(xm.pc)

SawLegal(s) == s.insn \in visible[s.pc] /\ ~Control(s.insn).illegal
SawIllegal(s) == s.insn \in visible[s.pc] /\ Control(s.insn).illegal

(* A valid instruction in flight is one that a fetch may still return; one *)
(* marked to trap had a bus error or is no instruction.                    *)
Fetched ==
  /\ \A p \in PC : memory[p] \in visible[p]
  /\ fd.state = "VALID" => fd.insn \in visible[fd.pc]
  /\ fd.state = "TRAP" => "err" \in Answers
  /\ dx.state = "VALID" => SawLegal(dx)
  /\ dx.state = "TRAP" => SawIllegal(dx) \/ "err" \in Answers
  /\ xm.state = "VALID" => SawLegal(xm)
  /\ xm.state = "TRAP" => SawIllegal(xm) \/ "err" \in Answers

\* Nothing is fetched behind a FENCE.I before it reaches the memory access stage.
Fenced ==
  /\ dx.state = "VALID" /\ Control(dx.insn).fence_i => ~Full(fd)
  /\ xm.state = "VALID" /\ Control(xm.insn).fence_i => ~Full(dx) /\ ~Full(fd)

UpToDate(s) ==
  LET c == Control(s.insn) IN
  s.state = "VALID" =>
    /\ c.rs1_ren \/ c.rs1 = X0 => s.rs1_rdata = WrittenRegs[c.rs1]
    /\ c.rs2_ren \/ c.rs2 = X0 => s.rs2_rdata = WrittenRegs[c.rs2]

(* An operand was read after the last instruction to write its register    *)
(* had passed writeback, and no instruction ahead will write it again.     *)
OperandsRead ==
  /\ UpToDate(dx) /\ UpToDate(xm)
  /\ dx.state = "VALID" /\ xm.state = "VALID" /\ Control(xm.insn).rd_wen =>
       ~Reads(dx.insn, Control(xm.insn).rd)

ITypeOK == TypeOK /\ visible \in [PC -> SUBSET Word]

IInv == ITypeOK /\ Consecutive /\ Fetched /\ Fenced /\ OperandsRead

(***************************************************************************)
(* Properties.                                                             *)
(***************************************************************************)

(* Every run of the pipeline is a run of the program on Isa: no hazard is  *)
(* missed, no flushed instruction leaves a trace, no store or load happens *)
(* twice, and a FENCE.I shows every store ahead of it to every fetch       *)
(* behind it (cpu.py 50-68).                                               *)
IsaSpec == ISA!Spec

=============================================================================
