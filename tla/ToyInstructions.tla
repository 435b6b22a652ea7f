------------------------------- MODULE ToyInstructions ---------------------------
(***************************************************************************)
(* A toy instruction set for the parameters of module Instructions.  A     *)
(* word is an index into Menu, a list of instructions whose first entry is *)
(* no instruction; a program is any filling of memory with such words.     *)
(***************************************************************************)
EXTENDS Instructions, Sequences

CONSTANT Menu

MCWord == 0 .. Len(Menu) - 1

MCReg == {0, 1, 2}

I(w) == Menu[w + 1]

\* An instruction, its registers and its immediate.
Ins(op, rd, rs1, rs2, imm) == [op |-> op, rd |-> rd, rs1 |-> rs1, rs2 |-> rs2, imm |-> imm]

Wrap(n) == n % Len(Menu)

MCControl(w) ==
  LET i == I(w) IN
  [rd |-> i.rd, rd_wen |-> i.rd # 0 /\ i.op \in {"add", "jalr", "lw"},
   rs1 |-> i.rs1, rs1_ren |-> i.rs1 # 0 /\ i.op # "fence_i",
   rs2 |-> i.rs2, rs2_ren |-> i.rs2 # 0 /\ i.op \in {"add", "beq", "sw", "illegal"},
   mem_load |-> i.op = "lw", mem_store |-> i.op = "sw",
   fence_i |-> i.op = "fence_i", illegal |-> i.op = "illegal"]

MCTaken(w, p, a, b) ==
  \/ I(w).op = "jalr"
  \/ I(w).op = "beq" /\ a = b

\* A value names one of the NPC words of memory, and is misaligned beyond them.
Misaligned(a) == a >= NPC

MCTarget(w, p, a) == (IF I(w).op = "jalr" THEN a ELSE p + I(w).imm) % NPC

MCTargetMisaligned(w, p, a) ==
  \/ I(w).op = "jalr" /\ Misaligned(a)
  \/ I(w).op = "beq" /\ Misaligned(I(w).imm)

MCResult(w, p, a, b) == Wrap(IF I(w).op = "jalr" THEN p + 1 ELSE a + b + I(w).imm)

MCDataAddr(w, a) == (a + I(w).imm) % NPC

MCDataMisaligned(w, a) == Misaligned(a)

MCLoadData(w, a, d) == d

MCStoreData(w, a, d, b) == b

MCAddr == PC

FullMenu ==
  << Ins("illegal", 0, 0, 0, 0), Ins("add", 1, 1, 2, 1), Ins("beq", 0, 1, 2, 2),
     Ins("jalr", 2, 1, 0, 0), Ins("lw", 1, 2, 0, 0), Ins("sw", 0, 2, 1, 0),
     Ins("fence_i", 0, 0, 0, 0) >>

\* Data and instructions in one memory, and a branch that flushes what was
\* fetched behind it.
DataMenu ==
  << Ins("illegal", 0, 0, 0, 0), Ins("lw", 1, 1, 0, 0), Ins("sw", 0, 1, 1, 0),
     Ins("fence_i", 0, 0, 0, 0), Ins("beq", 0, 0, 1, 2) >>

\* All of them, and an illegal word that reads registers.  With two words of
\* memory the target of the branch is misaligned.
RvfiMenu ==
  << Ins("illegal", 0, 0, 0, 0), Ins("illegal", 0, 1, 2, 0), Ins("add", 1, 2, 0, 3),
     Ins("lw", 1, 1, 0, 0), Ins("sw", 0, 1, 1, 0), Ins("fence_i", 0, 0, 0, 0),
     Ins("beq", 0, 0, 1, 2), Ins("jalr", 2, 1, 0, 0) >>

\* Without memory accesses.  The target of the branch is misaligned.
ControlMenu ==
  << Ins("illegal", 0, 0, 0, 0), Ins("illegal", 0, 1, 2, 0), Ins("add", 1, 2, 0, 3),
     Ins("add", 2, 1, 1, 1), Ins("beq", 0, 1, 2, 5), Ins("jalr", 2, 1, 0, 0) >>

=============================================================================
