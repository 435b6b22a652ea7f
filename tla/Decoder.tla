------------------------------- MODULE Decoder ------------------------------
(***************************************************************************)
(* The instruction decoder: the control signals that control.py derives    *)
(* from an instruction word and the wires that imm.py draws its immediate  *)
(* with.  A word is the record of its fields; an opcode is its name, and   *)
(* "UNKNOWN" any opcode outside class Opcode of riscv.py.                    *)
(***************************************************************************)
EXTENDS Integers

Bit(n, i) == (n \div 2 ^ i) % 2

\* Class Opcode, each with its format.  A signal left alone is 0, and 0 is format R.
FormatOf ==
  [LUI |-> "U", AUIPC |-> "U", JAL |-> "J", JALR |-> "I", BRANCH |-> "B", LOAD |-> "I",
   STORE |-> "S", OP_IMM |-> "I", OP |-> "R", MISC_MEM |-> "I", SYSTEM |-> "I", UNKNOWN |-> "R"]

Opcodes == DOMAIN FormatOf

Arithmetic == {"OP_IMM", "OP"}

\* Classes Funct3 and Funct7.
F3 ==
  [ADD_SUB |-> 0, SLL |-> 1, SLT |-> 2, SLTU |-> 3, XOR |-> 4, SRL_SRA |-> 5, OR |-> 6, AND |-> 7,
   BEQ |-> 0, BNE |-> 1, BLT |-> 4, BGE |-> 5, BLTU |-> 6, BGEU |-> 7,
   LB |-> 0, LH |-> 1, LW |-> 2, LBU |-> 4, LHU |-> 5, FENCE |-> 0, FENCE_I |-> 1,
   CSRRWI |-> 5, CSRRSI |-> 6, CSRRCI |-> 7]

F7 == [ZERO |-> 0, SUB_SRA |-> 32]

IllegalArithmeticAnyShift(opcode, f3, f7) ==
  opcode = "OP" /\ f7 # F7.ZERO /\ ~(f7 = F7.SUB_SRA /\ f3 \in {F3.ADD_SUB, F3.SRL_SRA})

\* An arithmetic instruction that is none: the upper bits select no variant of
\* the operation.  Those of an immediate are free unless it is a shift amount.
IllegalArithmetic(opcode, f3, f7) ==
  \/ /\ (opcode = "OP" /\ f3 = F3.ADD_SUB) \/ f3 = F3.SRL_SRA
     /\ f7 \notin {F7.ZERO, F7.SUB_SRA}
  \/ /\ (opcode = "OP" /\ f3 \notin {F3.ADD_SUB, F3.SRL_SRA}) \/ f3 = F3.SLL
     /\ f7 # F7.ZERO

Illegal(insn) ==
  LET f3 == insn.funct3 IN
  \/ insn.opcode \in {"SYSTEM", "UNKNOWN"}
  \/ insn.opcode = "JALR" /\ f3 # 0
  \/ insn.opcode = "BRANCH" /\ f3 \notin {F3.BEQ, F3.BNE, F3.BLT, F3.BGE, F3.BLTU, F3.BGEU}
  \/ insn.opcode = "LOAD" /\ f3 \notin {F3.LB, F3.LH, F3.LW, F3.LBU, F3.LHU}
  \/ insn.opcode = "STORE" /\ f3 \notin {F3.LB, F3.LH, F3.LW}
  \/ insn.opcode = "MISC_MEM" /\ f3 \notin {F3.FENCE, F3.FENCE_I}
  \/ insn.opcode \in Arithmetic /\ IllegalArithmetic(insn.opcode, f3, insn.funct7)

BranchOp(insn) ==
  IF insn.opcode \in {"JAL", "JALR"} THEN "ALWAYS"
  ELSE IF insn.opcode # "BRANCH" THEN "NEVER"
  ELSE IF insn.funct3 = F3.BEQ THEN "EQ"
  ELSE IF insn.funct3 = F3.BNE THEN "NE"
  ELSE IF insn.funct3 \in {F3.BLT, F3.BLTU} THEN "LT"
  ELSE IF insn.funct3 \in {F3.BGE, F3.BGEU} THEN "GE"
  ELSE "NEVER"

ResultSel(insn) ==
  IF insn.opcode \notin Arithmetic \/ insn.funct3 = F3.ADD_SUB THEN "ADDER"
  ELSE IF insn.funct3 \in {F3.SLT, F3.SLTU} THEN "SLT"
  ELSE IF insn.funct3 \in {F3.XOR, F3.OR, F3.AND} THEN "LOGIC"
  ELSE "SHIFT"

ASel(opcode) ==
  IF opcode = "LUI" THEN "ZERO" ELSE IF opcode \in {"AUIPC", "JAL", "JALR"} THEN "PC" ELSE "RS1"

BSel(opcode) ==
  IF opcode \in {"JAL", "JALR"} THEN "FOUR"
  ELSE IF opcode \in {"LUI", "AUIPC", "LOAD", "STORE", "OP_IMM"} THEN "IMM" ELSE "RS2"

AddSubAnyOpcode(insn) ==
  \/ insn.opcode = "BRANCH"
  \/ insn.opcode \in Arithmetic /\ insn.funct3 \in {F3.SLT, F3.SLTU}
  \/ insn.opcode \in Arithmetic /\ insn.funct3 = F3.ADD_SUB /\ Bit(insn.funct7, 5) = 1

\* The adder subtracts to compare, and for the instruction SUB.
AddSub(insn) ==
  \/ insn.opcode = "BRANCH"
  \/ insn.opcode \in Arithmetic /\ insn.funct3 \in {F3.SLT, F3.SLTU}
  \/ insn.opcode = "OP" /\ insn.funct3 = F3.ADD_SUB /\ Bit(insn.funct7, 5) = 1

AddSignedCompare(insn) ==
  \/ insn.opcode = "BRANCH" /\ Bit(insn.funct3, 1) = 0
  \/ insn.opcode \in Arithmetic /\ insn.funct3 = F3.SLT

RegisterUseFenceWrites(insn) ==
  LET fmt == FormatOf[insn.opcode]
  IN [rd_wen  |-> insn.rd # 0 /\ fmt \in {"R", "I", "U", "J"},
      rs1_ren |-> insn.rs1 # 0 /\ fmt \in {"R", "I", "S", "B"},
      rs2_ren |-> insn.rs2 # 0 /\ fmt \in {"R", "S", "B"}]

RegisterUseNoBranch(insn) ==
  LET fmt == FormatOf[insn.opcode]
  IN [rd_wen  |-> insn.rd # 0 /\ fmt \in {"R", "I", "U", "J"} /\ insn.opcode # "MISC_MEM",
      rs1_ren |-> insn.rs1 # 0 /\ fmt \in {"R", "I", "S", "B"},
      rs2_ren |-> insn.rs2 # 0 /\ fmt \in {"R", "S"}]

\* Which registers an instruction writes and reads; x0 is neither.
RegisterUse(insn) ==
  LET fmt   == FormatOf[insn.opcode]
      fence == insn.opcode = "MISC_MEM"
      zimm  == insn.opcode = "SYSTEM" /\ insn.funct3 \in {F3.CSRRWI, F3.CSRRSI, F3.CSRRCI}
  IN [rd_wen  |-> insn.rd # 0 /\ fmt \in {"R", "I", "U", "J"} /\ ~fence,
      rs1_ren |-> insn.rs1 # 0 /\ fmt \in {"R", "I", "S", "B"} /\ ~(fence \/ zimm),
      rs2_ren |-> insn.rs2 # 0 /\ fmt \in {"R", "S", "B"}]

Control(insn) ==
  [rd |-> insn.rd, rd_wen |-> RegisterUse(insn).rd_wen,
   rs1 |-> insn.rs1, rs1_ren |-> RegisterUse(insn).rs1_ren,
   rs2 |-> insn.rs2, rs2_ren |-> RegisterUse(insn).rs2_ren,
   fmt |-> FormatOf[insn.opcode],
   a_sel |-> ASel(insn.opcode), b_sel |-> BSel(insn.opcode),
   add_sub |-> AddSub(insn), add_signed_compare |-> AddSignedCompare(insn),
   logic_op |-> insn.funct3 % 4,
   shift_right |-> Bit(insn.funct3, 2) = 1, shift_arithmetic |-> Bit(insn.funct7, 5) = 1,
   result_sel |-> ResultSel(insn),
   branch_target_sel |-> IF insn.opcode = "JALR" THEN "RS1" ELSE "PC",
   branch_op |-> BranchOp(insn),
   mem_load |-> insn.opcode = "LOAD", mem_store |-> insn.opcode = "STORE",
   mem_width |-> insn.funct3 % 4, mem_unsigned |-> Bit(insn.funct3, 2) = 1,
   fence_i |-> insn.opcode = "MISC_MEM" /\ insn.funct3 = F3.FENCE_I,
   wdata_sel |-> IF insn.opcode = "LOAD" THEN "MEM_RDATA" ELSE "ALU_RESULT",
   illegal |-> Illegal(insn)]

\* What the pipeline relies on (assumption DecoderAssumption of Instructions).
Contract(c) ==
  /\ c.rd_wen => c.rd # 0
  /\ c.rs1_ren => c.rs1 # 0
  /\ c.rs2_ren => c.rs2 # 0
  /\ ~(c.mem_load /\ c.mem_store)
  /\ c.mem_store \/ c.fence_i => ~c.rd_wen
  /\ c.fence_i => ~c.mem_load /\ ~c.mem_store
  /\ c.mem_load \/ c.mem_store \/ c.fence_i => c.branch_op = "NEVER"

(* Each bit of an immediate is a wire from a bit of the instruction, or    *)
(* from Ground; bit 31 is the sign of all of them.                         *)
Ground == -1

Sign == 31

ImmediateWireBranchAsStore(fmt, i) ==
  IF fmt = "U" THEN IF i < 12 THEN Ground ELSE i
  ELSE IF fmt \in {"B", "J"} /\ i = 0 THEN Ground
  ELSE IF fmt \in {"S", "B"} /\ i < 5 THEN 7 + i
  ELSE IF i < 11 THEN 20 + i
  ELSE IF fmt = "J" /\ i = 11 THEN 20
  ELSE IF fmt = "J" /\ i < 20 THEN i
  ELSE Sign

ImmediateWire(fmt, i) ==
  IF fmt = "U" THEN IF i < 12 THEN Ground ELSE i
  ELSE IF fmt \in {"B", "J"} /\ i = 0 THEN Ground
  ELSE IF fmt \in {"S", "B"} /\ i < 5 THEN 7 + i
  ELSE IF i < 11 THEN 20 + i
  ELSE IF fmt = "B" /\ i = 11 THEN 7
  ELSE IF fmt = "J" /\ i = 11 THEN 20
  ELSE IF fmt = "J" /\ i < 20 THEN i
  ELSE Sign

=============================================================================
