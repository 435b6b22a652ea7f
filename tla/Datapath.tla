------------------------------ MODULE Datapath ------------------------------
(***************************************************************************)
(* One instruction on its way through the decoder and the units, alone in  *)
(* the pipeline (decode.py, execute.py, mem.py, writeback.py).  What Core  *)
(* takes as parameters is computed here from the fields of the word; when  *)
(* stages move is Core's concern.  Module Rv32i says what should come out. *)
(***************************************************************************)
EXTENDS Pipeline, Units, FiniteSetsExt

CONSTANTS
  Operands,  \* the register, memory and immediate values to try
  Addresses, \* the instruction addresses to try
  Stale,     \* what a register port may hold when it was not read in time
  Fields,    \* the register fields to try, <<rd, rs1, rs2>>
  Upper,     \* the values of funct7 to try
  TrapVector

VARIABLES
  fd,   \* the fetched instruction and its address
  regs, \* what the registers that its fields rs1 and rs2 name hold
  dx,   \* decoded
  xm,   \* executed
  mw    \* done with memory

vars == <<fd, regs, dx, xm, mw>>

ASSUME DatapathAssumption ==
  /\ Operands \subseteq Word /\ Addresses \subseteq Word /\ Stale \subseteq Word
  /\ TrapVector \in Word
  /\ \A p \in Addresses : p % 4 = 0
  /\ Upper \subseteq 0 .. 127 /\ Fields \subseteq (0 .. 31) \X (0 .. 31) \X (0 .. 31)

Insn ==
  { [opcode |-> op, funct3 |-> f3, funct7 |-> f7, rd |-> f[1], rs1 |-> f[2], rs2 |-> f[3]] :
      op \in Opcodes, f3 \in 0 .. 7, f7 \in Upper, f \in Fields }

Empty == [state |-> "BUBBLE"]

Pass(i_state, trap) == StageState("BUBBLE", i_state, FALSE, FALSE, FALSE, StageTrap(i_state, trap))

\* The low bits of an immediate that are grounded; of the twelve of format U,
\* as many as there are in proportion in a word of Width bits.
Immediates(fmt) ==
  LET grain == CASE fmt = "U" -> 2 ^ ((3 * Width) \div 8) [] fmt \in {"B", "J"} -> 2 [] OTHER -> 1
  IN IF fmt = "R" THEN {0} ELSE { n \in Operands : n % grain = 0 }

\* Register x0 holds 0 (regs.py, and no instruction writes it).
Init ==
  /\ fd \in [insn : Insn, pc_rdata : Addresses]
  /\ regs \in [rs1 : Operands, rs2 : Operands]
  /\ fd.insn.rs1 = 0 => regs.rs1 = 0
  /\ fd.insn.rs2 = 0 => regs.rs2 = 0
  /\ dx = Empty /\ xm = Empty /\ mw = Empty

\* What a register port delivers: the register if the hazard logic waited for
\* it, or if it is x0; else whatever it held before.
Port(ren, addr, value) == IF ren \/ addr = 0 THEN {value} ELSE Stale

Decoded(imm, rs1_rdata, rs2_rdata) ==
  LET c == Control(fd.insn)
  IN [state |-> Pass("VALID", c.illegal), control |-> c, imm |-> imm,
      rs1_rdata |-> rs1_rdata, rs2_rdata |-> rs2_rdata]

Decode ==
  /\ dx.state = "BUBBLE"
  /\ LET c == Control(fd.insn) IN
     \E imm \in Immediates(c.fmt),
        rs1_rdata \in Port(c.rs1_ren, c.rs1, regs.rs1),
        rs2_rdata \in Port(c.rs2_ren, c.rs2, regs.rs2) :
       dx' = Decoded(imm, rs1_rdata, rs2_rdata)
  /\ UNCHANGED <<fd, regs, xm, mw>>

Executed ==
  LET c == dx.control
      o == OperandMux(c.a_sel, c.b_sel, fd.pc_rdata, dx.rs1_rdata, dx.rs2_rdata, dx.imm)
  IN [state |-> Pass(dx.state, FALSE), control |-> c, rs2_rdata |-> dx.rs2_rdata,
      add |-> Adder(c.add_sub, c.add_signed_compare, o.a, o.b),
      logic_result |-> Logic(c.logic_op, dx.rs1_rdata, o.b),
      shift_result |-> BarrelShifter(c.shift_right, c.shift_arithmetic, dx.rs1_rdata, o.b),
      branch |-> BranchTargetMux(c.branch_target_sel, fd.pc_rdata, dx.rs1_rdata, dx.imm)]

Execute ==
  /\ dx.state # "BUBBLE" /\ xm.state = "BUBBLE"
  /\ xm' = Executed
  /\ UNCHANGED <<fd, regs, dx, mw>>

\* What mem passes on when it finds word at the address.
Accessed(word) ==
  LET c     == xm.control
      taken == xm.state = "VALID" /\ Branch(c.branch_op, xm.add)
      align == WordAlign(c.mem_width, c.mem_unsigned, xm.add.result, word, xm.rs2_rdata)
      trap  == (taken /\ xm.branch.misaligned)
               \/ ((c.mem_load \/ c.mem_store) /\ align.misaligned)
      state == Pass(xm.state, trap)
  IN [state |-> state, control |-> c, align |-> align, word |-> word,
      result |-> ResultMux(c.result_sel, xm.add, xm.logic_result, xm.shift_result),
      pc_wdata |-> IF taken THEN xm.branch.target
                   ELSE IF state = "TRAP" THEN TrapVector ELSE Wrap(fd.pc_rdata + 4)]

MemoryAccess ==
  /\ xm.state # "BUBBLE" /\ mw.state = "BUBBLE"
  /\ \E word \in IF xm.control.mem_load \/ xm.control.mem_store THEN Operands ELSE {0} :
       mw' = Accessed(word)
  /\ UNCHANGED <<fd, regs, dx, xm>>

Next == Decode \/ Execute \/ MemoryAccess

Spec == Init /\ [][Next]_vars

\* The inductive invariant: each slot holds what its stage made of the ones before it.
DInv ==
  /\ fd \in [insn : Insn, pc_rdata : Addresses] /\ regs \in [rs1 : Operands, rs2 : Operands]
  /\ fd.insn.rs1 = 0 => regs.rs1 = 0
  /\ fd.insn.rs2 = 0 => regs.rs2 = 0
  /\ dx # Empty =>
       LET c == Control(fd.insn) IN
       \E imm \in Immediates(c.fmt),
          rs1_rdata \in Port(c.rs1_ren, c.rs1, regs.rs1),
          rs2_rdata \in Port(c.rs2_ren, c.rs2, regs.rs2) :
         dx = Decoded(imm, rs1_rdata, rs2_rdata)
  /\ xm # Empty => dx # Empty /\ xm = Executed
  /\ mw # Empty =>
       /\ xm # Empty
       /\ \E word \in Operands \cup {0} : mw = Accessed(word)

-----------------------------------------------------------------------------

ISA == INSTANCE Rv32i

Op == ISA!Operation(fd.insn)

\* The second operand of the operation.
Second == IF fd.insn.opcode \in {"OP", "BRANCH"} THEN regs.rs2 ELSE dx.imm

DataAddress == Wrap(regs.rs1 + dx.imm)

\* The decoder accepts the instructions of the ISA and no other word.
LegalExactly ==
  dx # Empty => ((dx.state = "VALID") <=> ISA!Legal(fd.insn))

\* Every bit of an immediate comes from the bit of the instruction where its
\* format keeps it, the bits above are its sign and those below are 0, and a
\* format has no bit that the immediate leaves out.
ImmediateOfFormat ==
  dx # Empty /\ dx.control.fmt # "R" =>
    LET fmt  == dx.control.fmt
        kept == ISA!ImmediateBits(fmt)
        top  == Max({ k[2] : k \in kept })
    IN /\ \A k \in kept : ImmediateWire(fmt, k[2]) = k[1]
       /\ \A i \in 0 .. 31 \ { k[2] : k \in kept } :
            ImmediateWire(fmt, i) = IF i > top THEN Sign ELSE Ground

\* An instruction that completes writes the register and the value that the ISA
\* says, whatever the ports delivered for registers it did not ask to read.
ResultOfOperation ==
  mw.state = "VALID" =>
    /\ mw.control.rd_wen <=> fd.insn.rd # 0 /\ Op \notin ISA!Silent
    /\ mw.control.rd_wen =>
         WDataMux(mw.control.wdata_sel, mw.result, mw.align.rdata) =
           IF Op \in ISA!Loads THEN ISA!Loaded(Op, DataAddress, mw.word)
           ELSE ISA!Value(Op, fd.pc_rdata, regs.rs1, Second)

\* It continues where the ISA says.
NextOfOperation ==
  mw.state = "VALID" =>
    mw.pc_wdata = IF ISA!Jumps(Op, regs.rs1, Second)
                  THEN ISA!Destination(Op, fd.pc_rdata, regs.rs1, dx.imm)
                  ELSE Wrap(fd.pc_rdata + 4)

\* The memory word that results when the bytes of the mask are written.
Masked(mask, word, wdata) ==
  ISA!FromBytes([i \in 0 .. 3 |-> ISA!ByteAt(IF i \in mask THEN wdata ELSE word, i)])

\* A store changes its bytes of memory, in the word they are in, and nothing
\* else does.  A load selects the bytes that it returns.
MemoryOfOperation ==
  mw.state = "VALID" =>
    /\ mw.control.mem_load <=> Op \in ISA!Loads
    /\ mw.control.mem_store <=> Op \in ISA!Stores
    /\ Op \in ISA!Loads \cup ISA!Stores =>
         /\ mw.align.addr_aligned = 4 * (DataAddress \div 4)
         /\ mw.align.mask = { (DataAddress % 4) + i : i \in 0 .. ISA!Size(Op) - 1 }
    /\ Op \in ISA!Stores =>
         Masked(mw.align.mask, mw.word, mw.align.wdata_aligned) =
           ISA!Stored(Op, DataAddress, mw.word, regs.rs2)

\* Exactly these instructions trap: those the ISA does not have, accesses
\* that are not aligned to their size, and jumps and branches taken to an
\* address that is not a multiple of four.
TrapsExactly ==
  mw # Empty =>
    ((mw.state = "TRAP") <=>
       \/ ~ISA!Legal(fd.insn)
       \/ Op \in ISA!Loads \cup ISA!Stores /\ DataAddress % ISA!Size(Op) # 0
       \/ /\ ISA!Jumps(Op, regs.rs1, Second)
          /\ ISA!Destination(Op, fd.pc_rdata, regs.rs1, dx.imm) % 4 # 0)

\* What module Instructions assumes of the decoder.
DecoderContract == dx # Empty => Contract(dx.control)

=============================================================================
