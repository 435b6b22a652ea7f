---------------------------- MODULE DatapathProofs ----------------------------
(***************************************************************************)
(* Proofs about modules Decoder, Units and Datapath: that the decoder      *)
(* keeps the contract under which the pipeline is proved correct, and that *)
(* decoder and units together do what module Rv32i says.                   *)
(***************************************************************************)
EXTENDS Datapath, UnitsProofs

Insns ==
  [opcode : Opcodes, funct3 : 0 .. 7, funct7 : 0 .. 127, rd : 0 .. 31, rs1 : 0 .. 31, rs2 : 0 .. 31]

LEMMA InsnType == Insn \subseteq Insns
  BY DatapathAssumption DEF Insn, Insns

(***************************************************************************)
(* The decoder.                                                            *)
(***************************************************************************)

LEMMA Formats ==
  /\ Opcodes = {"LUI", "AUIPC", "JAL", "JALR", "BRANCH", "LOAD", "STORE", "OP_IMM", "OP",
                "MISC_MEM", "SYSTEM", "UNKNOWN"}
  /\ FormatOf["LUI"] = "U" /\ FormatOf["AUIPC"] = "U" /\ FormatOf["JAL"] = "J"
  /\ FormatOf["JALR"] = "I" /\ FormatOf["BRANCH"] = "B" /\ FormatOf["LOAD"] = "I"
  /\ FormatOf["STORE"] = "S" /\ FormatOf["OP_IMM"] = "I" /\ FormatOf["OP"] = "R"
  /\ FormatOf["MISC_MEM"] = "I" /\ FormatOf["SYSTEM"] = "I" /\ FormatOf["UNKNOWN"] = "R"
  BY DEF FormatOf, Opcodes

\* The instructions of the ISA, opcode by opcode.
LEMMA LegalByOpcode ==
  ASSUME NEW insn \in Insns
  PROVE  ISA!Legal(insn) <=>
           \/ insn.opcode \in {"LUI", "AUIPC", "JAL"}
           \/ insn.opcode = "JALR" /\ insn.funct3 = 0
           \/ insn.opcode = "BRANCH" /\ insn.funct3 \in {0, 1, 4, 5, 6, 7}
           \/ insn.opcode = "LOAD" /\ insn.funct3 \in {0, 1, 2, 4, 5}
           \/ insn.opcode = "STORE" /\ insn.funct3 \in {0, 1, 2}
           \/ insn.opcode = "OP_IMM" /\ insn.funct3 \in {0, 2, 3, 4, 6, 7}
           \/ insn.opcode = "OP_IMM" /\ insn.funct3 = 1 /\ insn.funct7 = 0
           \/ insn.opcode = "OP_IMM" /\ insn.funct3 = 5 /\ insn.funct7 \in {0, 32}
           \/ insn.opcode = "OP" /\ insn.funct3 \in {1, 2, 3, 4, 6, 7} /\ insn.funct7 = 0
           \/ insn.opcode = "OP" /\ insn.funct3 \in {0, 5} /\ insn.funct7 \in {0, 32}
           \/ insn.opcode = "MISC_MEM" /\ insn.funct3 \in {0, 1}
  BY DEF ISA!Legal, ISA!Instructions, ISA!Encodes, ISA!Funct3, ISA!Funct7, Insns

LEMMA LegalDecoded ==
  ASSUME NEW insn \in Insns
  PROVE  Control(insn).illegal <=> ~ISA!Legal(insn)
<1>1. Control(insn).illegal <=> Illegal(insn)
  BY DEF Control
<1>2. /\ insn.opcode \in Opcodes /\ insn.funct3 \in 0 .. 7 /\ insn.funct7 \in 0 .. 127
  BY DEF Insns
<1>3. Illegal(insn) <=> ~ISA!Legal(insn)
  BY <1>2, LegalByOpcode, Formats DEF Illegal, IllegalArithmetic, Arithmetic, F3, F7
<1> QED
  BY <1>1, <1>3

\* Control.elaborate (control.py) never enables a write or a read of x0, takes a
\* load, a store and FENCE.I apart, lets neither of the last two write a register
\* and none of the three branch, whatever the instruction word.
THEOREM ContractKept == \A insn \in Insns : Contract(Control(insn))
<1> SUFFICES ASSUME NEW insn \in Insns
             PROVE  Contract(Control(insn))
    OBVIOUS
<1> DEFINE c == Control(insn)
<1>1. /\ c.rd = insn.rd /\ c.rs1 = insn.rs1 /\ c.rs2 = insn.rs2
      /\ c.rd_wen = RegisterUse(insn).rd_wen
      /\ c.rs1_ren = RegisterUse(insn).rs1_ren
      /\ c.rs2_ren = RegisterUse(insn).rs2_ren
      /\ c.mem_load = (insn.opcode = "LOAD") /\ c.mem_store = (insn.opcode = "STORE")
      /\ c.branch_op = BranchOp(insn)
      /\ c.fence_i => insn.opcode = "MISC_MEM"
      BY DEF Control
<1>2. /\ c.rd_wen => c.rd # 0
      /\ c.rs1_ren => c.rs1 # 0
      /\ c.rs2_ren => c.rs2 # 0
      BY <1>1 DEF RegisterUse
<1>3. c.mem_store \/ c.fence_i => ~c.rd_wen
      BY <1>1, Formats DEF RegisterUse
<1>4. /\ ~(c.mem_load /\ c.mem_store)
      /\ c.fence_i => ~c.mem_load /\ ~c.mem_store
      BY <1>1
<1>5. c.mem_load \/ c.mem_store \/ c.fence_i => c.branch_op = "NEVER"
      BY <1>1 DEF BranchOp
<1>6. QED
      BY <1>2, <1>3, <1>4, <1>5 DEF Contract

\* The word 0, which a failed fetch leaves in the decoder, is illegal: its opcode
\* is none of class Opcode (riscv.py); and its register fields name x0.
THEOREM ZeroIsIllegal ==
  ASSUME NEW insn \in Insns, insn.opcode = "UNKNOWN", insn.rs1 = 0, insn.rs2 = 0
  PROVE  Control(insn).illegal /\ ~Control(insn).rs1_ren /\ ~Control(insn).rs2_ren
BY DEF Control, Illegal, RegisterUse

(***************************************************************************)
(* The immediate.                                                          *)
(***************************************************************************)

\* The bits of the immediate that format fmt has.
BitsOf(fmt) == CASE fmt = "U" -> 12 .. 31 [] fmt = "J" -> 1 .. 20 [] fmt = "B" -> 1 .. 12 [] OTHER -> 0 .. 11

Wires(fmt) == { <<ImmediateWire(fmt, i), i>> : i \in BitsOf(fmt) }

LEMMA WiresOfFormat ==
  ASSUME NEW fmt \in {"I", "S", "B", "U", "J"}
  PROVE  ISA!ImmediateBits(fmt) = Wires(fmt)
  BY DEF Wires, BitsOf, ImmediateWire, Sign, Ground, ISA!ImmediateBits

LEMMA ImmediatesWired ==
  ASSUME NEW fmt \in {"I", "S", "B", "U", "J"}
  PROVE  LET kept == ISA!ImmediateBits(fmt)
             top  == Max({ k[2] : k \in kept })
         IN /\ \A k \in kept : ImmediateWire(fmt, k[2]) = k[1]
            /\ \A i \in 0 .. 31 \ { k[2] : k \in kept } :
                 ImmediateWire(fmt, i) = IF i > top THEN Sign ELSE Ground
<1> DEFINE bits == { k[2] : k \in Wires(fmt) }
<1>1. bits = BitsOf(fmt)
  <2>1. \A k \in Wires(fmt) : k[2] \in BitsOf(fmt)
    BY DEF Wires
  <2>2. ASSUME NEW i \in BitsOf(fmt) PROVE i \in bits
    <3>1. <<ImmediateWire(fmt, i), i>> \in Wires(fmt)
      BY DEF Wires
    <3> QED
      BY <3>1
  <2> QED
    BY <2>1, <2>2
<1>2. Max(bits) = CASE fmt = "U" -> 31 [] fmt = "J" -> 20 [] fmt = "B" -> 12 [] OTHER -> 11
  BY <1>1 DEF Max, BitsOf
<1>3. \A k \in Wires(fmt) : ImmediateWire(fmt, k[2]) = k[1]
  BY DEF Wires
<1>4. \A i \in 0 .. 31 \ BitsOf(fmt) :
        ImmediateWire(fmt, i) = IF i > Max(bits) THEN Sign ELSE Ground
  BY <1>2 DEF BitsOf, ImmediateWire, Sign, Ground
<1> QED
  BY <1>1, <1>3, <1>4, WiresOfFormat

(***************************************************************************)
(* The inductive invariant of module Datapath.                             *)
(***************************************************************************)

\* An instruction stays one, valid or to trap.
LEMMA Passing ==
  ASSUME NEW i_state \in {"VALID", "TRAP"}, NEW trap \in BOOLEAN
  PROVE  Pass(i_state, trap) = IF i_state = "TRAP" \/ trap THEN "TRAP" ELSE "VALID"
  BY DEF Pass, StageState, StageTrap

LEMMA SlotStates ==
  ASSUME DInv
  PROVE  /\ dx.state \in {"BUBBLE", "VALID", "TRAP"} /\ (dx.state = "BUBBLE" <=> dx = Empty)
         /\ xm.state \in {"BUBBLE", "VALID", "TRAP"} /\ (xm.state = "BUBBLE" <=> xm = Empty)
         /\ mw.state \in {"BUBBLE", "VALID", "TRAP"} /\ (mw.state = "BUBBLE" <=> mw = Empty)
         /\ dx # Empty => dx.state = IF Control(fd.insn).illegal THEN "TRAP" ELSE "VALID"
         /\ xm # Empty => xm.state = dx.state /\ xm.control = dx.control
         /\ mw # Empty => mw.control = xm.control
<1>1. Empty.state = "BUBBLE"
  BY DEF Empty
<1>2. Control(fd.insn).illegal \in BOOLEAN
  BY DEF Control, Illegal
<1>3. dx # Empty => dx.state = IF Control(fd.insn).illegal THEN "TRAP" ELSE "VALID"
  <2> SUFFICES ASSUME dx # Empty
               PROVE  dx.state = IF Control(fd.insn).illegal THEN "TRAP" ELSE "VALID"
    OBVIOUS
  <2>1. PICK imm, a, b : dx = Decoded(imm, a, b)
    BY DEF DInv
  <2>2. dx.state = Pass("VALID", Control(fd.insn).illegal)
    BY <2>1 DEF Decoded
  <2> QED
    BY <1>2, <2>2, Passing
<1>4. xm # Empty => xm.state = dx.state /\ xm.control = dx.control
  <2> SUFFICES ASSUME xm # Empty PROVE xm.state = dx.state /\ xm.control = dx.control
    OBVIOUS
  <2>1. dx # Empty /\ xm = Executed
    BY DEF DInv
  <2>2. xm.state = Pass(dx.state, FALSE) /\ xm.control = dx.control
    BY <2>1 DEF Executed
  <2> QED
    BY <1>3, <2>1, <2>2, Passing
<1>5. mw # Empty => mw.state \in {"VALID", "TRAP"} /\ mw.control = xm.control
  <2> SUFFICES ASSUME mw # Empty PROVE mw.state \in {"VALID", "TRAP"} /\ mw.control = xm.control
    OBVIOUS
  <2>1. PICK word : mw = Accessed(word)
    BY DEF DInv
  <2>2. xm.state \in {"VALID", "TRAP"}
    BY <1>3, <1>4 DEF DInv
  <2> QED
    BY <2>1, <2>2 DEF Accessed, Pass, StageState, StageTrap
<1> QED
  BY <1>1, <1>3, <1>4, <1>5 DEF DInv

LEMMA DInvInit == Init => DInv
  BY DEF Init, DInv

LEMMA DInvNext == DInv /\ [Next]_vars => DInv'
<1> SUFFICES ASSUME DInv, [Next]_vars PROVE DInv'
  OBVIOUS
<1>1. fd' = fd /\ regs' = regs
  BY DEF Next, Decode, Execute, MemoryAccess, vars
<1>2. \A imm, a, b : Decoded(imm, a, b)' = Decoded(imm, a, b)
  BY <1>1 DEF Decoded
<1>3. dx' = dx => Executed' = Executed
  BY <1>1 DEF Executed
<1>4. xm' = xm => \A word : Accessed(word)' = Accessed(word)
  BY <1>1 DEF Accessed
<1>5. CASE Decode
  <2>1. dx = Empty /\ xm = Empty /\ mw = Empty /\ xm' = xm /\ mw' = mw
    BY <1>5, SlotStates DEF Decode, DInv
  <2> QED
    BY <1>1, <1>2, <1>5, <2>1 DEF Decode, DInv
<1>6. CASE Execute
  <2>1. dx # Empty /\ xm = Empty /\ mw = Empty /\ dx' = dx /\ mw' = mw /\ xm' = Executed
    BY <1>6, SlotStates DEF Execute, DInv
  <2> QED
    BY <1>1, <1>2, <1>3, <2>1 DEF DInv
<1>7. CASE MemoryAccess
  <2>1. xm # Empty /\ dx' = dx /\ xm' = xm
    BY <1>7, SlotStates DEF MemoryAccess
  <2>2. \E word \in Operands \cup {0} : mw' = Accessed(word)
    BY <1>7 DEF MemoryAccess
  <2> QED
    BY <1>1, <1>2, <1>3, <1>4, <2>1, <2>2 DEF DInv
<1>8. CASE UNCHANGED vars
  <2>1. dx' = dx /\ xm' = xm /\ mw' = mw
    BY <1>8 DEF vars
  <2> QED
    BY <1>1, <1>2, <1>3, <1>4, <2>1 DEF DInv
<1> QED
  BY <1>5, <1>6, <1>7, <1>8 DEF Next

LEMMA DInvariant == Spec => []DInv
  BY DInvInit, DInvNext, PTL DEF Spec

(* LegalExactly of module Datapath: for every value of every field of the  *)
(* word, the decoder accepts exactly the instructions of the ISA.          *)
THEOREM Accepts == Spec => []LegalExactly
<1>1. DInv => LegalExactly
  <2> SUFFICES ASSUME DInv, dx # Empty PROVE (dx.state = "VALID") <=> ISA!Legal(fd.insn)
    BY DEF LegalExactly
  <2>1. fd.insn \in Insns
    BY InsnType DEF DInv
  <2> QED
    BY <2>1, LegalDecoded, SlotStates
<1> QED
  BY <1>1, DInvariant, PTL

(* DecoderContract of module Datapath: what decode passes on keeps the     *)
(* contract that the proofs about the pipeline rest on.                    *)
THEOREM Contracted == Spec => []DecoderContract
<1>1. DInv => DecoderContract
  <2> SUFFICES ASSUME DInv, dx # Empty PROVE Contract(dx.control)
    BY DEF DecoderContract
  <2>1. fd.insn \in Insns
    BY InsnType DEF DInv
  <2>2. dx.control = Control(fd.insn)
    BY DEF DInv, Decoded
  <2> QED
    BY <2>1, <2>2, ContractKept
<1> QED
  BY <1>1, DInvariant, PTL

(* ImmediateOfFormat of module Datapath: the wires of imm.py are those of  *)
(* the five immediate formats, bit for bit.                                *)
THEOREM Wired == Spec => []ImmediateOfFormat
<1>1. DInv => ImmediateOfFormat
  <2> SUFFICES ASSUME DInv, dx # Empty, dx.control.fmt # "R" PROVE ImmediateOfFormat
    BY DEF ImmediateOfFormat
  <2>1. fd.insn.opcode \in Opcodes
    BY InsnType DEF DInv, Insns
  <2>2. dx.control = Control(fd.insn)
    BY DEF DInv, Decoded
  <2>3. dx.control.fmt \in {"I", "S", "B", "U", "J"}
    BY <2>1, <2>2, Formats DEF Control
  <2> QED
    BY <2>3, ImmediatesWired DEF ImmediateOfFormat
<1> QED
  BY <1>1, DInvariant, PTL

(***************************************************************************)
(* The operation of an instruction.                                        *)
(***************************************************************************)

\* The operation that an encoding stands for.
Mnemonic(opcode, f3, f7) ==
  CASE opcode \in {"LUI", "AUIPC", "JAL", "JALR"} -> opcode
    [] opcode = "BRANCH" /\ f3 = 0 -> "BEQ"
    [] opcode = "BRANCH" /\ f3 = 1 -> "BNE"
    [] opcode = "BRANCH" /\ f3 = 4 -> "BLT"
    [] opcode = "BRANCH" /\ f3 = 5 -> "BGE"
    [] opcode = "BRANCH" /\ f3 = 6 -> "BLTU"
    [] opcode = "BRANCH" /\ f3 = 7 -> "BGEU"
    [] opcode = "LOAD" /\ f3 = 0 -> "LB"
    [] opcode = "LOAD" /\ f3 = 1 -> "LH"
    [] opcode = "LOAD" /\ f3 = 2 -> "LW"
    [] opcode = "LOAD" /\ f3 = 4 -> "LBU"
    [] opcode = "LOAD" /\ f3 = 5 -> "LHU"
    [] opcode = "STORE" /\ f3 = 0 -> "SB"
    [] opcode = "STORE" /\ f3 = 1 -> "SH"
    [] opcode = "STORE" /\ f3 = 2 -> "SW"
    [] opcode \in Arithmetic /\ f3 = 0 -> IF opcode = "OP" /\ f7 = 32 THEN "SUB" ELSE "ADD"
    [] opcode \in Arithmetic /\ f3 = 1 -> "SLL"
    [] opcode \in Arithmetic /\ f3 = 2 -> "SLT"
    [] opcode \in Arithmetic /\ f3 = 3 -> "SLTU"
    [] opcode \in Arithmetic /\ f3 = 4 -> "XOR"
    [] opcode \in Arithmetic /\ f3 = 5 -> IF f7 = 32 THEN "SRA" ELSE "SRL"
    [] opcode \in Arithmetic /\ f3 = 6 -> "OR"
    [] opcode \in Arithmetic /\ f3 = 7 -> "AND"
    [] opcode = "MISC_MEM" /\ f3 = 0 -> "FENCE"
    [] opcode = "MISC_MEM" /\ f3 = 1 -> "FENCE_I"

\* No two instructions have the same encoding.
LEMMA OneOperation ==
  ASSUME NEW insn \in Insns, NEW i \in ISA!Instructions, ISA!Encodes(i, insn)
  PROVE  i[4] = Mnemonic(insn.opcode, insn.funct3, insn.funct7)
<1> DEFINE opcode == insn.opcode
           f3     == insn.funct3
           f7     == insn.funct7
<1>1. opcode = i[1] /\ f3 \in i[2] /\ f7 \in i[3]
  BY DEF ISA!Encodes
<1> HIDE DEF opcode, f3, f7
<1>2. i[4] = Mnemonic(opcode, f3, f7)
  BY <1>1 DEF ISA!Instructions, ISA!Encodes, ISA!Funct3, ISA!Funct7, Mnemonic, Arithmetic
<1> QED
  BY <1>2 DEF opcode, f3, f7

LEMMA OperationOfWord ==
  ASSUME NEW insn \in Insns, ISA!Legal(insn)
  PROVE  ISA!Operation(insn) = Mnemonic(insn.opcode, insn.funct3, insn.funct7)
<1> DEFINE i == CHOOSE i \in ISA!Instructions : ISA!Encodes(i, insn)
<1>1. \E j \in ISA!Instructions : ISA!Encodes(j, insn)
  BY DEF ISA!Legal
<1>2. i \in ISA!Instructions /\ ISA!Encodes(i, insn)
  BY <1>1, Zenon
<1>3. ISA!Operation(insn) = i[4]
  BY DEF ISA!Operation
<1> QED
  BY <1>2, <1>3, OneOperation

(***************************************************************************)
(* Arithmetic on words of 32 bits.                                         *)
(***************************************************************************)

LEMMA Powers ==
  ASSUME ByteWidth = 8
  PROVE  /\ Width = 32
         /\ 2 ^ (Width - 1) = 2147483648
         /\ 2 ^ Width = 4294967296
         /\ 2 ^ (Width + 1) = 8589934592
<1>1. Width = 32
  BY DEF Width
<1> QED
  BY <1>1

LEMMA WordsAreNumbers ==
  ASSUME ByteWidth = 8
  PROVE  Word \subseteq Nat
  BY SMT, Powers DEF Word

LEMMA Wrapping ==
  ASSUME ByteWidth = 8, NEW n \in Int
  PROVE  ISA!Modulo(n) = Wrap(n) /\ Wrap(n) \in Word /\ Wrap(n) \in Nat /\ Wrap(n) % 4 = n % 4
<1>1. 4 * ByteWidth = Width
  BY DEF Width
<1>2. ISA!Modulo(n) = Wrap(n)
  BY <1>1 DEF ISA!Modulo, Wrap
<1>3. Wrap(n) \in Word /\ Wrap(n) \in Nat /\ Wrap(n) % 4 = n % 4
  BY SMT, Powers DEF Wrap, Word
<1> QED
  BY <1>2, <1>3

LEMMA Adding ==
  ASSUME ByteWidth = 8, NEW x \in Word, NEW y \in Word
  PROVE  Adder(FALSE, FALSE, x, y).result = Wrap(x + y)
  BY SMT, Powers DEF Adder, Wrap, Word

\* The borrow of a subtraction says which operand is less.
LEMMA Borrowing ==
  ASSUME ByteWidth = 8, NEW x \in Word, NEW y \in Word
  PROVE  LET diff == (x - y) % 2 ^ (Width + 1)
         IN /\ Wrap(diff) = 0 <=> x = y
            /\ diff \div 2 ^ Width = 1 <=> x < y
<1>1. /\ x \in Nat /\ x < 4294967296 /\ y \in Nat /\ y < 4294967296
      /\ 2 ^ Width = 4294967296 /\ 2 ^ (Width + 1) = 8589934592
  BY SMT, Powers DEF Word
<1> DEFINE diff == (x - y) % 8589934592
<1>2. diff = IF x < y THEN x - y + 8589934592 ELSE x - y
  BY <1>1, SMT
<1>3. diff % 4294967296 = 0 <=> x = y
  BY <1>1, <1>2, SMT
<1>4. diff \div 4294967296 = 1 <=> x < y
  BY <1>1, <1>2, SMT
<1> HIDE DEF diff
<1>5. (x - y) % 2 ^ (Width + 1) = diff /\ Wrap(diff) = diff % 4294967296
  BY <1>1, SMT DEF diff, Wrap
<1> QED
  BY <1>1, <1>3, <1>4, <1>5, SMT

LEMMA ComparingUnsigned ==
  ASSUME ByteWidth = 8, NEW x \in Word, NEW y \in Word
  PROVE  /\ Adder(TRUE, FALSE, x, y).result = 0 <=> x = y
         /\ Adder(TRUE, FALSE, x, y).carry <=> x < y
  BY Borrowing DEF Adder

LEMMA ComparingSigned ==
  ASSUME ByteWidth = 8, NEW x \in Word, NEW y \in Word
  PROVE  /\ Adder(TRUE, TRUE, x, y).result = 0 <=> x = y
         /\ Adder(TRUE, TRUE, x, y).carry <=> ISA!Signed(x, 32) < ISA!Signed(y, 32)
<1>1. /\ FlipSign(x) = IF x < 2147483648 THEN x + 2147483648 ELSE x - 2147483648
      /\ FlipSign(y) = IF y < 2147483648 THEN y + 2147483648 ELSE y - 2147483648
  BY SMT, Powers DEF FlipSign, Wrap, Word
<1>2. /\ ISA!Signed(x, 32) = IF x < 2147483648 THEN x ELSE x - 4294967296
      /\ ISA!Signed(y, 32) = IF y < 2147483648 THEN y ELSE y - 4294967296
  BY SMT, Powers DEF ISA!Signed, ISA!IsSet, Word
<1>3. /\ FlipSign(x) \in Word /\ FlipSign(y) \in Word
      /\ FlipSign(x) = FlipSign(y) <=> x = y
      /\ FlipSign(x) < FlipSign(y) <=> ISA!Signed(x, 32) < ISA!Signed(y, 32)
  BY <1>1, <1>2, SMT, Powers DEF Word
<1> QED
  BY <1>3, Borrowing DEF Adder

(***************************************************************************)
(* Jumps and traps.                                                        *)
(***************************************************************************)

LEMMA OperationOfOpcode ==
  ASSUME NEW insn \in Insns, ISA!Legal(insn)
  PROVE  LET op == ISA!Operation(insn)
             f3 == insn.funct3
         IN /\ insn.opcode = "JAL" => op = "JAL"
            /\ insn.opcode = "JALR" => op = "JALR"
            /\ insn.opcode = "BRANCH" =>
                 /\ f3 \in {0, 1, 4, 5, 6, 7}
                 /\ op = CASE f3 = 0 -> "BEQ" [] f3 = 1 -> "BNE" [] f3 = 4 -> "BLT"
                           [] f3 = 5 -> "BGE" [] f3 = 6 -> "BLTU" [] f3 = 7 -> "BGEU"
            /\ insn.opcode = "LOAD" =>
                 /\ f3 \in {0, 1, 2, 4, 5}
                 /\ op = CASE f3 = 0 -> "LB" [] f3 = 1 -> "LH" [] f3 = 2 -> "LW"
                           [] f3 = 4 -> "LBU" [] f3 = 5 -> "LHU"
            /\ insn.opcode = "STORE" =>
                 /\ f3 \in {0, 1, 2}
                 /\ op = CASE f3 = 0 -> "SB" [] f3 = 1 -> "SH" [] f3 = 2 -> "SW"
            /\ insn.opcode \notin {"JAL", "JALR", "BRANCH", "LOAD", "STORE"} =>
                 op \notin {"JAL", "JALR"} \cup ISA!Branches \cup ISA!Loads \cup ISA!Stores
<1> DEFINE opcode == insn.opcode
           f3     == insn.funct3
           f7     == insn.funct7
<1>1. ISA!Operation(insn) = Mnemonic(opcode, f3, f7)
  BY OperationOfWord
<1>2. /\ opcode \in Opcodes
      /\ opcode \notin {"SYSTEM", "UNKNOWN"}
      /\ opcode = "BRANCH" => f3 \in {0, 1, 4, 5, 6, 7}
      /\ opcode = "LOAD" => f3 \in {0, 1, 2, 4, 5}
      /\ opcode = "STORE" => f3 \in {0, 1, 2}
      /\ opcode = "MISC_MEM" => f3 \in {0, 1}
      /\ f3 \in 0 .. 7
  BY LegalByOpcode DEF Insns
<1> HIDE DEF opcode, f3, f7
<1> DEFINE op == Mnemonic(opcode, f3, f7)
<1>3. opcode \in {"JAL", "JALR"} => op = opcode
  BY DEF Mnemonic, Arithmetic
<1>4. opcode = "BRANCH" =>
        op = CASE f3 = 0 -> "BEQ" [] f3 = 1 -> "BNE" [] f3 = 4 -> "BLT"
               [] f3 = 5 -> "BGE" [] f3 = 6 -> "BLTU" [] f3 = 7 -> "BGEU"
  BY <1>2 DEF Mnemonic, Arithmetic
<1>5. opcode = "LOAD" =>
        op = CASE f3 = 0 -> "LB" [] f3 = 1 -> "LH" [] f3 = 2 -> "LW"
               [] f3 = 4 -> "LBU" [] f3 = 5 -> "LHU"
  BY <1>2 DEF Mnemonic, Arithmetic
<1>6. opcode = "STORE" => op = CASE f3 = 0 -> "SB" [] f3 = 1 -> "SH" [] f3 = 2 -> "SW"
  BY <1>2 DEF Mnemonic, Arithmetic
<1>7. opcode \notin {"JAL", "JALR", "BRANCH", "LOAD", "STORE"} =>
        op \notin {"JAL", "JALR"} \cup ISA!Branches \cup ISA!Loads \cup ISA!Stores
  <2> SUFFICES ASSUME opcode \in {"LUI", "AUIPC", "OP", "OP_IMM", "MISC_MEM"}
               PROVE  op \in {"LUI", "AUIPC", "SUB", "ADD", "SLL", "SLT", "SLTU", "XOR", "SRA",
                              "SRL", "OR", "AND", "FENCE", "FENCE_I"}
    BY <1>2, Formats DEF ISA!Branches, ISA!Loads, ISA!Stores
  <2>1. CASE opcode \in {"LUI", "AUIPC", "MISC_MEM"}
    BY <1>2, <2>1 DEF Mnemonic, Arithmetic
  <2>2. CASE opcode \in {"OP", "OP_IMM"}
    BY <1>2, <2>2 DEF Mnemonic, Arithmetic
  <2> QED
    BY <2>1, <2>2
<1> HIDE DEF op
<1> QED
  BY <1>1, <1>2, <1>3, <1>4, <1>5, <1>6, <1>7 DEF opcode, f3, op

\* The operands that a unit takes are those that the registers hold.
LEMMA OperandsOfPorts ==
  ASSUME ByteWidth = 8, DInv, dx # Empty
  PROVE  /\ dx.control = Control(fd.insn)
         /\ dx.imm \in Immediates(Control(fd.insn).fmt) /\ dx.imm \in Word
         /\ dx.rs1_rdata \in Word /\ dx.rs2_rdata \in Word
         /\ regs.rs1 \in Word /\ regs.rs2 \in Word /\ fd.pc_rdata \in Word
         /\ fd.insn.opcode \in {"JALR", "BRANCH", "LOAD", "STORE", "OP_IMM", "OP"} =>
              dx.rs1_rdata = regs.rs1
         /\ fd.insn.opcode \in {"BRANCH", "STORE", "OP"} => dx.rs2_rdata = regs.rs2
<1> DEFINE c == Control(fd.insn)
<1>1. PICK imm \in Immediates(c.fmt),
           a \in Port(c.rs1_ren, c.rs1, regs.rs1),
           b \in Port(c.rs2_ren, c.rs2, regs.rs2) :
        dx = Decoded(imm, a, b)
  BY DEF DInv
<1>2. dx.control = c /\ dx.imm = imm /\ dx.rs1_rdata = a /\ dx.rs2_rdata = b
  BY <1>1 DEF Decoded
<1>3. regs.rs1 \in Word /\ regs.rs2 \in Word /\ fd.pc_rdata \in Word /\ fd.insn \in Insns
  BY DatapathAssumption, InsnType DEF DInv
<1>4. 0 \in Word
  BY SMT, Powers DEF Word
<1>5. imm \in Word
  BY <1>4, DatapathAssumption DEF Immediates
<1>6. a \in Word /\ b \in Word
  BY <1>3, DatapathAssumption DEF Port
<1>7. /\ c.rs1 = fd.insn.rs1 /\ c.rs2 = fd.insn.rs2
      /\ c.rs1_ren = RegisterUse(fd.insn).rs1_ren /\ c.rs2_ren = RegisterUse(fd.insn).rs2_ren
  BY DEF Control
<1>8. /\ fd.insn.opcode \in {"JALR", "BRANCH", "LOAD", "STORE", "OP_IMM", "OP"} =>
           c.rs1_ren \/ c.rs1 = 0
      /\ fd.insn.opcode \in {"BRANCH", "STORE", "OP"} => c.rs2_ren \/ c.rs2 = 0
  BY <1>7, Formats DEF RegisterUse
<1> QED
  BY <1>2, <1>3, <1>5, <1>6, <1>8 DEF Port

\* What mem decides, in terms of what decode passed on.
LEMMA AtMem ==
  ASSUME ByteWidth = 8, DInv, mw # Empty
  PROVE  LET c == Control(fd.insn)
             o == OperandMux(c.a_sel, c.b_sel, fd.pc_rdata, dx.rs1_rdata, dx.rs2_rdata, dx.imm)
             add    == Adder(c.add_sub, c.add_signed_compare, o.a, o.b)
             branch == BranchTargetMux(c.branch_target_sel, fd.pc_rdata, dx.rs1_rdata, dx.imm)
             taken  == ~c.illegal /\ Branch(c.branch_op, add)
             align  == WordAlign(c.mem_width, c.mem_unsigned, add.result, mw.word, dx.rs2_rdata)
         IN /\ dx # Empty /\ mw.control = c /\ mw.word \in Operands \cup {0}
            /\ mw.align = align
            /\ mw.result = ResultMux(c.result_sel, add, Logic(c.logic_op, dx.rs1_rdata, o.b),
                             BarrelShifter(c.shift_right, c.shift_arithmetic, dx.rs1_rdata, o.b))
            /\ mw.state = IF \/ c.illegal
                             \/ taken /\ branch.misaligned
                             \/ (c.mem_load \/ c.mem_store) /\ align.misaligned
                          THEN "TRAP" ELSE "VALID"
            /\ mw.state = "VALID" =>
                 mw.pc_wdata = IF taken THEN branch.target ELSE Wrap(fd.pc_rdata + 4)
<1>1. /\ dx # Empty /\ xm # Empty /\ xm = Executed
      /\ dx.state = IF Control(fd.insn).illegal THEN "TRAP" ELSE "VALID"
      /\ xm.state = dx.state /\ xm.control = dx.control /\ mw.control = xm.control
  BY SlotStates DEF DInv
<1>2. dx.control = Control(fd.insn)
  BY <1>1, OperandsOfPorts
<1>3. PICK word \in Operands \cup {0} : mw = Accessed(word)
  BY DEF DInv
<1> DEFINE c == Control(fd.insn)
           o == OperandMux(c.a_sel, c.b_sel, fd.pc_rdata, dx.rs1_rdata, dx.rs2_rdata, dx.imm)
           add    == Adder(c.add_sub, c.add_signed_compare, o.a, o.b)
           branch == BranchTargetMux(c.branch_target_sel, fd.pc_rdata, dx.rs1_rdata, dx.imm)
           taken  == ~c.illegal /\ Branch(c.branch_op, add)
           align  == WordAlign(c.mem_width, c.mem_unsigned, add.result, word, dx.rs2_rdata)
           trap   == (taken /\ branch.misaligned) \/ ((c.mem_load \/ c.mem_store) /\ align.misaligned)
<1>4. /\ xm.add = add /\ xm.branch = branch /\ xm.rs2_rdata = dx.rs2_rdata
      /\ xm.logic_result = Logic(c.logic_op, dx.rs1_rdata, o.b)
      /\ xm.shift_result =
           BarrelShifter(c.shift_right, c.shift_arithmetic, dx.rs1_rdata, o.b)
  BY <1>1, <1>2 DEF Executed
<1>5. c.illegal \in BOOLEAN
  BY DEF Control, Illegal
<1>6. (xm.state = "VALID" /\ Branch(c.branch_op, add)) <=> taken
  BY <1>1, <1>5
<1> HIDE DEF add, branch, taken, align
<1>7. /\ mw.word = word /\ mw.align = align
      /\ mw.result = ResultMux(c.result_sel, add, xm.logic_result, xm.shift_result)
      /\ mw.state = IF c.illegal \/ trap THEN "TRAP" ELSE "VALID"
      /\ mw.state = "VALID" =>
           mw.pc_wdata = IF taken THEN branch.target ELSE Wrap(fd.pc_rdata + 4)
  BY <1>1, <1>2, <1>3, <1>4, <1>5, <1>6 DEF Accessed, Pass, StageState, StageTrap, align
<1> QED
  BY <1>1, <1>2, <1>3, <1>4, <1>7 DEF add, branch, taken, align


LEMMA Compares ==
  ASSUME NEW add, NEW x, NEW y
  PROVE  /\ Branch("EQ", add) <=> add.result = 0
         /\ Branch("NE", add) <=> add.result # 0
         /\ Branch("LT", add) <=> add.carry
         /\ Branch("GE", add) <=> ~add.carry
         /\ ISA!Jumps("BEQ", x, y) <=> x = y
         /\ ISA!Jumps("BNE", x, y) <=> x # y
         /\ ISA!Jumps("BLT", x, y) <=> ISA!Signed(x, 4 * ByteWidth) < ISA!Signed(y, 4 * ByteWidth)
         /\ ISA!Jumps("BGE", x, y) <=> ISA!Signed(x, 4 * ByteWidth) >= ISA!Signed(y, 4 * ByteWidth)
         /\ ISA!Jumps("BLTU", x, y) <=> x < y
         /\ ISA!Jumps("BGEU", x, y) <=> x >= y
<1>1. /\ Branch("EQ", add) <=> add.result = 0
      /\ Branch("NE", add) <=> add.result # 0
  BY DEF Branch
<1>2. Branch("LT", add) <=> add.carry
  BY DEF Branch
<1>3. Branch("GE", add) <=> ~add.carry
  BY DEF Branch
<1>4. /\ ISA!Jumps("BEQ", x, y) <=> x = y
      /\ ISA!Jumps("BNE", x, y) <=> x # y
  BY DEF ISA!Jumps
<1>5. /\ ISA!Jumps("BLT", x, y) <=> ISA!Signed(x, 4 * ByteWidth) < ISA!Signed(y, 4 * ByteWidth)
      /\ ISA!Jumps("BGE", x, y) <=> ISA!Signed(x, 4 * ByteWidth) >= ISA!Signed(y, 4 * ByteWidth)
  BY DEF ISA!Jumps
<1>6. /\ ISA!Jumps("BLTU", x, y) <=> x < y
      /\ ISA!Jumps("BGEU", x, y) <=> x >= y
  BY DEF ISA!Jumps
<1> QED
  BY <1>1, <1>2, <1>3, <1>4, <1>5, <1>6

\* A branch compares what its funct3 says; jumps are always taken.
LEMMA Taken ==
  ASSUME ByteWidth = 8, DInv, dx # Empty, ISA!Legal(fd.insn)
  PROVE  LET c == Control(fd.insn)
             o == OperandMux(c.a_sel, c.b_sel, fd.pc_rdata, dx.rs1_rdata, dx.rs2_rdata, dx.imm)
         IN Branch(c.branch_op, Adder(c.add_sub, c.add_signed_compare, o.a, o.b))
              <=> ISA!Jumps(Op, regs.rs1, Second)
<1> DEFINE c == Control(fd.insn)
           o == OperandMux(c.a_sel, c.b_sel, fd.pc_rdata, dx.rs1_rdata, dx.rs2_rdata, dx.imm)
           add == Adder(c.add_sub, c.add_signed_compare, o.a, o.b)
<1> SUFFICES Branch(c.branch_op, add) <=> ISA!Jumps(Op, regs.rs1, Second)
  OBVIOUS
<1>1. fd.insn \in Insns /\ fd.insn.opcode \in Opcodes /\ fd.insn.funct3 \in 0 .. 7
  BY InsnType DEF DInv, Insns
<1>2. c.branch_op = BranchOp(fd.insn)
  BY DEF Control
<1>3. CASE fd.insn.opcode \in {"JAL", "JALR"}
  <2>1. Op \in {"JAL", "JALR"}
    BY <1>1, <1>3, OperationOfOpcode DEF Op
  <2>2. ISA!Jumps(Op, regs.rs1, Second)
    BY <2>1 DEF ISA!Jumps
  <2>3. c.branch_op = "ALWAYS"
    BY <1>2, <1>3 DEF BranchOp
  <2> QED
    BY <2>2, <2>3 DEF Branch
<1>4. CASE fd.insn.opcode = "BRANCH"
  <2>1. /\ c.a_sel = "RS1" /\ c.b_sel = "RS2" /\ c.add_sub = TRUE
        /\ c.add_signed_compare = (Bit(fd.insn.funct3, 1) = 0)
    BY <1>4 DEF Control, ASel, BSel, AddSub, AddSignedCompare, Arithmetic
  <2>2. dx.rs1_rdata = regs.rs1 /\ dx.rs2_rdata = regs.rs2 /\ regs.rs1 \in Word /\ regs.rs2 \in Word
    BY <1>4, OperandsOfPorts
  <2>3. o.a = regs.rs1 /\ o.b = regs.rs2
    BY <2>1, <2>2 DEF OperandMux
  <2>4. Second = regs.rs2
    BY <1>4 DEF Second
  <2> DEFINE f3 == fd.insn.funct3
             x == regs.rs1
             y == regs.rs2
  <2>5. Op = CASE f3 = 0 -> "BEQ" [] f3 = 1 -> "BNE" [] f3 = 4 -> "BLT"
               [] f3 = 5 -> "BGE" [] f3 = 6 -> "BLTU" [] f3 = 7 -> "BGEU"
    BY <1>1, <1>4, OperationOfOpcode DEF Op
  <2>6. f3 \in {0, 1, 4, 5, 6, 7}
    BY <1>1, <1>4, LegalByOpcode
  <2>7. CASE f3 \in {0, 1, 4, 5}
    <3>1. Bit(f3, 1) = 0
      BY <2>7 DEF Bit
    <3>2. add = Adder(TRUE, TRUE, x, y)
      BY <2>1, <2>3, <3>1
    <3>3. /\ add.result = 0 <=> x = y
          /\ add.carry <=> ISA!Signed(x, 32) < ISA!Signed(y, 32)
      <4>1. /\ Adder(TRUE, TRUE, x, y).result = 0 <=> x = y
            /\ Adder(TRUE, TRUE, x, y).carry <=> ISA!Signed(x, 32) < ISA!Signed(y, 32)
        BY <2>2, ComparingSigned
      <4> HIDE DEF add
      <4> QED
        BY <3>2, <4>1
    <3>4. ISA!Signed(x, 32) \in Int /\ ISA!Signed(y, 32) \in Int
      BY <2>2, SMT, Powers DEF ISA!Signed, Word
    <3>5. 4 * ByteWidth = 32
      OBVIOUS
    <3>6. c.branch_op = CASE f3 = 0 -> "EQ" [] f3 = 1 -> "NE" [] f3 = 4 -> "LT" [] f3 = 5 -> "GE"
      BY <1>2, <1>4, <2>7 DEF BranchOp, F3
    <3> HIDE DEF add, f3
    <3>7. /\ f3 = 0 => c.branch_op = "EQ" /\ Op = "BEQ"
          /\ f3 = 1 => c.branch_op = "NE" /\ Op = "BNE"
          /\ f3 = 4 => c.branch_op = "LT" /\ Op = "BLT"
          /\ f3 = 5 => c.branch_op = "GE" /\ Op = "BGE"
      BY <2>5, <3>6
    <3>8. ISA!Signed(x, 32) >= ISA!Signed(y, 32) <=> ~(ISA!Signed(x, 32) < ISA!Signed(y, 32))
      BY <3>4
    <3> QED
      BY <2>4, <2>7, <3>3, <3>5, <3>7, <3>8, Compares
  <2>8. CASE f3 \in {6, 7}
    <3>1. Bit(f3, 1) # 0
      BY <2>8 DEF Bit
    <3>2. add = Adder(TRUE, FALSE, x, y)
      BY <2>1, <2>3, <3>1
    <3>3. add.carry <=> x < y
      BY <2>2, <3>2, ComparingUnsigned
    <3>4. c.branch_op = CASE f3 = 6 -> "LT" [] f3 = 7 -> "GE"
      BY <1>2, <1>4, <2>8 DEF BranchOp, F3
    <3>5. x \in Int /\ y \in Int
      BY <2>2, WordsAreNumbers
    <3> HIDE DEF add, f3
    <3>6. /\ f3 = 6 => c.branch_op = "LT" /\ Op = "BLTU"
          /\ f3 = 7 => c.branch_op = "GE" /\ Op = "BGEU"
      BY <2>5, <3>4
    <3>7. x >= y <=> ~(x < y)
      BY <3>5
    <3> QED
      BY <2>4, <2>8, <3>3, <3>6, <3>7, Compares
  <2> QED
    BY <2>6, <2>7, <2>8
<1>5. CASE fd.insn.opcode \notin {"JAL", "JALR", "BRANCH"}
  <2>1. Op \notin {"JAL", "JALR"} \cup ISA!Branches
    BY <1>1, <1>5, OperationOfOpcode DEF Op, ISA!Branches
  <2>2. ~ISA!Jumps(Op, regs.rs1, Second)
    BY <2>1 DEF ISA!Jumps, ISA!Branches
  <2>3. c.branch_op = "NEVER"
    BY <1>2, <1>5 DEF BranchOp
  <2> QED
    BY <2>2, <2>3 DEF Branch
<1> QED
  BY <1>3, <1>4, <1>5

\* Clearing the two low bits of a target changes none that is a multiple of four,
\* and bit 1 tells those apart: bit 0 is 0 already, but for JALR, which clears it.
LEMMA Targeted ==
  ASSUME ByteWidth = 8, DInv, dx # Empty, ISA!Legal(fd.insn), ISA!Jumps(Op, regs.rs1, Second)
  PROVE  LET c == Control(fd.insn)
             branch == BranchTargetMux(c.branch_target_sel, fd.pc_rdata, dx.rs1_rdata, dx.imm)
             dest == ISA!Destination(Op, fd.pc_rdata, regs.rs1, dx.imm)
         IN /\ branch.misaligned <=> dest % 4 # 0
            /\ ~branch.misaligned => branch.target = dest
<1> DEFINE c == Control(fd.insn)
           branch == BranchTargetMux(c.branch_target_sel, fd.pc_rdata, dx.rs1_rdata, dx.imm)
           dest == ISA!Destination(Op, fd.pc_rdata, regs.rs1, dx.imm)
<1> SUFFICES /\ branch.misaligned <=> dest % 4 # 0
             /\ ~branch.misaligned => branch.target = dest
  OBVIOUS
<1>1. fd.insn \in Insns /\ fd.insn.opcode \in Opcodes
  BY InsnType DEF DInv, Insns
<1>2. /\ dx.imm \in Word /\ regs.rs1 \in Word /\ fd.pc_rdata \in Word /\ fd.pc_rdata % 4 = 0
  BY OperandsOfPorts, DatapathAssumption DEF DInv
<1>3. fd.insn.opcode \in {"JAL", "JALR", "BRANCH"}
  <2>1. Op \in {"JAL", "JALR"} \cup ISA!Branches
    BY DEF ISA!Jumps, ISA!Branches
  <2> QED
    BY <1>1, <2>1, OperationOfOpcode DEF Op, ISA!Branches, ISA!Loads, ISA!Stores
<1>4. CASE fd.insn.opcode = "JALR"
  <2>1. Op = "JALR"
    BY <1>1, <1>4, OperationOfOpcode DEF Op
  <2>2. dx.rs1_rdata = regs.rs1
    BY <1>4, OperandsOfPorts
  <2>3. c.branch_target_sel = "RS1"
    BY <1>4 DEF Control
  <2> DEFINE t == Wrap(regs.rs1 + dx.imm)
  <2>4. t \in Nat /\ ISA!Modulo(regs.rs1 + dx.imm) = t
    BY <1>2, Wrapping, WordsAreNumbers
  <2>5. branch = [target |-> 4 * (t \div 4), misaligned |-> Bit(t, 1) = 1]
    BY <2>2, <2>3 DEF BranchTargetMux
  <2>6. dest = 2 * (t \div 2)
    BY <2>1, <2>4 DEF ISA!Destination
  <2>7. Bit(t, 1) = (t \div 2) % 2
    BY <2>4 DEF Bit
  <2> HIDE DEF t, dest, branch
  <2>8. /\ Bit(t, 1) = 1 <=> (2 * (t \div 2)) % 4 # 0
        /\ Bit(t, 1) # 1 => 4 * (t \div 4) = 2 * (t \div 2)
    BY <2>4, <2>7
  <2> QED
    BY <2>5, <2>6, <2>8
<1>5. CASE fd.insn.opcode \in {"JAL", "BRANCH"}
  <2>1. Op # "JALR"
    BY <1>1, <1>5, OperationOfOpcode DEF Op
  <2>2. c.branch_target_sel = "PC" /\ c.fmt \in {"J", "B"}
    BY <1>5, Formats DEF Control
  <2>3. dx.imm % 2 = 0
    <3>1. dx.imm \in Immediates(c.fmt)
      BY OperandsOfPorts
    <3> QED
      BY <2>2, <3>1 DEF Immediates
  <2> DEFINE t == Wrap(fd.pc_rdata + dx.imm)
  <2>4. t \in Nat /\ t % 2 = 0 /\ ISA!Modulo(fd.pc_rdata + dx.imm) = t
    <3>1. fd.pc_rdata \in Int /\ dx.imm \in Int
      BY <1>2, WordsAreNumbers
    <3>2. (fd.pc_rdata + dx.imm) % 2 = 0
      BY <1>2, <2>3, <3>1, SMT
    <3>3. t \in Nat /\ t % 4 = (fd.pc_rdata + dx.imm) % 4 /\ ISA!Modulo(fd.pc_rdata + dx.imm) = t
      BY <3>1, Wrapping
    <3>4. fd.pc_rdata + dx.imm \in Int
      BY <3>1
    <3> HIDE DEF t
    <3> QED
      BY <3>2, <3>3, <3>4, SMT
  <2>5. branch = [target |-> 4 * (t \div 4), misaligned |-> Bit(t, 1) = 1]
    BY <2>2 DEF BranchTargetMux
  <2>6. dest = t
    BY <2>1, <2>4 DEF ISA!Destination
  <2>7. Bit(t, 1) = (t \div 2) % 2
    BY <2>4 DEF Bit
  <2> HIDE DEF t, dest, branch
  <2>8. /\ Bit(t, 1) = 1 <=> t % 4 # 0
        /\ Bit(t, 1) # 1 => 4 * (t \div 4) = t
    BY <2>4, <2>7
  <2> QED
    BY <2>5, <2>6, <2>8
<1> QED
  BY <1>3, <1>4, <1>5


\* The width code that control.py takes from funct3 for a load or store.
WidthOf(op) ==
  IF op \in {"LB", "LBU", "SB"} THEN Byte
  ELSE IF op \in {"LH", "LHU", "SH"} THEN Half ELSE WordWide

\* Loads and stores add the immediate to rs1 for the address, and mem finds it
\* misaligned for their size.
LEMMA Addressed ==
  ASSUME ByteWidth = 8, DInv, dx # Empty, ISA!Legal(fd.insn), fd.insn.opcode \in {"LOAD", "STORE"}
  PROVE  LET c == Control(fd.insn)
             o == OperandMux(c.a_sel, c.b_sel, fd.pc_rdata, dx.rs1_rdata, dx.rs2_rdata, dx.imm)
         IN /\ Adder(c.add_sub, c.add_signed_compare, o.a, o.b).result = DataAddress
            /\ DataAddress \in Word /\ DataAddress \in Nat
            /\ c.mem_width = WidthOf(Op)
            /\ Op \in ISA!Loads <=> fd.insn.opcode = "LOAD"
            /\ Op \in ISA!Stores <=> fd.insn.opcode = "STORE"
<1> DEFINE c == Control(fd.insn)
           o == OperandMux(c.a_sel, c.b_sel, fd.pc_rdata, dx.rs1_rdata, dx.rs2_rdata, dx.imm)
           f3 == fd.insn.funct3
<1>1. fd.insn \in Insns /\ fd.insn.opcode \in Opcodes /\ f3 \in 0 .. 7
  BY InsnType DEF DInv, Insns
<1>2. /\ c.a_sel = "RS1" /\ c.b_sel = "IMM"
      /\ c.add_sub = FALSE /\ c.add_signed_compare = FALSE /\ c.mem_width = f3 % 4
  BY DEF Control, ASel, BSel, AddSub, AddSignedCompare, Arithmetic
<1>3. dx.rs1_rdata = regs.rs1 /\ regs.rs1 \in Word /\ dx.imm \in Word
  BY OperandsOfPorts
<1>4. o.a = regs.rs1 /\ o.b = dx.imm
  BY <1>2, <1>3 DEF OperandMux
<1>5. Adder(FALSE, FALSE, regs.rs1, dx.imm).result = DataAddress
  BY <1>3, Adding DEF DataAddress
<1>6. Adder(c.add_sub, c.add_signed_compare, o.a, o.b).result = DataAddress
  BY <1>2, <1>4, <1>5
<1>7. DataAddress \in Word /\ DataAddress \in Nat
  <2>1. regs.rs1 + dx.imm \in Int
    BY <1>3, WordsAreNumbers
  <2> QED
    BY <2>1, Wrapping DEF DataAddress
<1>8. /\ fd.insn.opcode = "LOAD" =>
           /\ f3 \in {0, 1, 2, 4, 5}
           /\ Op = CASE f3 = 0 -> "LB" [] f3 = 1 -> "LH" [] f3 = 2 -> "LW"
                     [] f3 = 4 -> "LBU" [] f3 = 5 -> "LHU"
      /\ fd.insn.opcode = "STORE" =>
           /\ f3 \in {0, 1, 2}
           /\ Op = CASE f3 = 0 -> "SB" [] f3 = 1 -> "SH" [] f3 = 2 -> "SW"
  BY <1>1, OperationOfOpcode DEF Op
<1>9. /\ c.mem_width = WidthOf(Op)
      /\ Op \in ISA!Loads <=> fd.insn.opcode = "LOAD"
      /\ Op \in ISA!Stores <=> fd.insn.opcode = "STORE"
  <2> HIDE DEF c, f3
  <2> QED
    BY <1>2, <1>8 DEF ISA!Loads, ISA!Stores, WidthOf, Byte, Half, WordWide
<1> QED
  BY <1>6, <1>7, <1>9

LEMMA Misaligning ==
  ASSUME NEW addr \in Nat, NEW op, NEW unsigned, NEW word, NEW wdata,
         op \in {"LB", "LH", "LW", "LBU", "LHU", "SB", "SH", "SW"},
         NEW width, width = WidthOf(op)
  PROVE  WordAlign(width, unsigned, addr, word, wdata).misaligned <=> addr % ISA!Size(op) # 0
<1>1. WordAlign(width, unsigned, addr, word, wdata).misaligned <=>
        (width = Half /\ (addr % 4) % 2 # 0) \/ (width = WordWide /\ addr % 4 # 0)
  BY DEF WordAlign
<1>2. ISA!Size(op) = IF width = Byte THEN 1 ELSE IF width = Half THEN 2 ELSE 4
  BY DEF ISA!Size, WidthOf, Byte, Half, WordWide
<1>3. /\ width \in {Byte, Half, WordWide} /\ Byte # Half /\ Byte # WordWide /\ Half # WordWide
      /\ (addr % 4) % 2 = addr % 2 /\ addr % 1 = 0
  BY DEF WidthOf, Byte, Half, WordWide
<1> QED
  BY <1>1, <1>2, <1>3

(* TrapsExactly of module Datapath, for the words of 32 bits of the code:  *)
(* an instruction traps exactly when the ISA does not have it, when it is  *)
(* a load or a store whose address is no multiple of its size, or when it  *)
(* jumps, or branches and is taken, to an address that is no multiple of   *)
(* four; for all operands and addresses and all fields of the word.        *)
THEOREM Traps == ASSUME ByteWidth = 8 PROVE Spec => []TrapsExactly
<1>1. DInv => TrapsExactly
  <2> SUFFICES ASSUME DInv, mw # Empty
               PROVE  (mw.state = "TRAP") <=>
                        \/ ~ISA!Legal(fd.insn)
                        \/ /\ Op \in ISA!Loads \cup ISA!Stores
                           /\ DataAddress % ISA!Size(Op) # 0
                        \/ /\ ISA!Jumps(Op, regs.rs1, Second)
                           /\ ISA!Destination(Op, fd.pc_rdata, regs.rs1, dx.imm) % 4 # 0
    BY DEF TrapsExactly
  <2> DEFINE c == Control(fd.insn)
             o == OperandMux(c.a_sel, c.b_sel, fd.pc_rdata, dx.rs1_rdata, dx.rs2_rdata, dx.imm)
             add    == Adder(c.add_sub, c.add_signed_compare, o.a, o.b)
             branch == BranchTargetMux(c.branch_target_sel, fd.pc_rdata, dx.rs1_rdata, dx.imm)
             align  == WordAlign(c.mem_width, c.mem_unsigned, add.result, mw.word, dx.rs2_rdata)
  <2>1. fd.insn \in Insns /\ fd.insn.opcode \in Opcodes /\ dx # Empty
    BY InsnType DEF DInv, Insns
  <2>2. mw.state = IF \/ c.illegal
                      \/ (~c.illegal /\ Branch(c.branch_op, add)) /\ branch.misaligned
                      \/ (c.mem_load \/ c.mem_store) /\ align.misaligned
                   THEN "TRAP" ELSE "VALID"
    BY AtMem
  <2>3. c.illegal <=> ~ISA!Legal(fd.insn)
    BY <2>1, LegalDecoded
  <2>4. (c.mem_load \/ c.mem_store) <=> fd.insn.opcode \in {"LOAD", "STORE"}
    BY DEF Control
  <2>5. ASSUME ISA!Legal(fd.insn)
        PROVE  Branch(c.branch_op, add) <=> ISA!Jumps(Op, regs.rs1, Second)
    BY <2>1, <2>5, Taken
  <2>6. ASSUME ISA!Legal(fd.insn), ISA!Jumps(Op, regs.rs1, Second)
        PROVE  branch.misaligned <=>
                 ISA!Destination(Op, fd.pc_rdata, regs.rs1, dx.imm) % 4 # 0
    BY <2>1, <2>6, Targeted
  <2>7. ASSUME ISA!Legal(fd.insn), fd.insn.opcode \in {"LOAD", "STORE"}
        PROVE  align.misaligned <=> DataAddress % ISA!Size(Op) # 0
    <3>1. /\ add.result = DataAddress /\ DataAddress \in Nat
          /\ c.mem_width = WidthOf(Op)
          /\ Op \in ISA!Loads \cup ISA!Stores
      BY <2>1, <2>7, Addressed
    <3>2. Op \in {"LB", "LH", "LW", "LBU", "LHU", "SB", "SH", "SW"}
      BY <3>1 DEF ISA!Loads, ISA!Stores
    <3> QED
      BY <3>1, <3>2, Misaligning
  <2>8. ASSUME ISA!Legal(fd.insn)
        PROVE  fd.insn.opcode \in {"LOAD", "STORE"} <=> Op \in ISA!Loads \cup ISA!Stores
    <3>1. CASE fd.insn.opcode \in {"LOAD", "STORE"}
      BY <2>1, <2>8, <3>1, Addressed
    <3>2. CASE fd.insn.opcode \notin {"LOAD", "STORE"}
      BY <2>1, <2>8, <3>2, OperationOfOpcode DEF Op, ISA!Loads, ISA!Stores
    <3> QED
      BY <3>1, <3>2
  <2> HIDE DEF c, o, add, branch, align
  <2> QED
    BY <2>2, <2>3, <2>4, <2>5, <2>6, <2>7, <2>8
<1> QED
  BY <1>1, DInvariant, PTL

(* NextOfOperation of module Datapath, for the words of 32 bits of the     *)
(* code: what completes continues at its destination if it jumps, or is a  *)
(* branch that is taken, and else at the next word.                        *)
THEOREM Continues == ASSUME ByteWidth = 8 PROVE Spec => []NextOfOperation
<1>1. DInv => NextOfOperation
  <2> SUFFICES ASSUME DInv, mw.state = "VALID"
               PROVE  mw.pc_wdata =
                        IF ISA!Jumps(Op, regs.rs1, Second)
                        THEN ISA!Destination(Op, fd.pc_rdata, regs.rs1, dx.imm)
                        ELSE Wrap(fd.pc_rdata + 4)
    BY DEF NextOfOperation
  <2> DEFINE c == Control(fd.insn)
             o == OperandMux(c.a_sel, c.b_sel, fd.pc_rdata, dx.rs1_rdata, dx.rs2_rdata, dx.imm)
             add    == Adder(c.add_sub, c.add_signed_compare, o.a, o.b)
             branch == BranchTargetMux(c.branch_target_sel, fd.pc_rdata, dx.rs1_rdata, dx.imm)
             align  == WordAlign(c.mem_width, c.mem_unsigned, add.result, mw.word, dx.rs2_rdata)
             taken  == ~c.illegal /\ Branch(c.branch_op, add)
  <2>1. mw # Empty /\ dx # Empty /\ fd.insn \in Insns
    BY SlotStates, InsnType DEF DInv
  <2>2. /\ mw.state = IF \/ c.illegal
                         \/ taken /\ branch.misaligned
                         \/ (c.mem_load \/ c.mem_store) /\ align.misaligned
                      THEN "TRAP" ELSE "VALID"
        /\ mw.pc_wdata = IF taken THEN branch.target ELSE Wrap(fd.pc_rdata + 4)
    BY <2>1, AtMem
  <2>3. ISA!Legal(fd.insn) /\ ~c.illegal
    BY <2>1, <2>2, LegalDecoded
  <2>4. Branch(c.branch_op, add) <=> ISA!Jumps(Op, regs.rs1, Second)
    BY <2>1, <2>3, Taken
  <2>5. ASSUME ISA!Jumps(Op, regs.rs1, Second)
        PROVE  ~branch.misaligned =>
                 branch.target = ISA!Destination(Op, fd.pc_rdata, regs.rs1, dx.imm)
    BY <2>1, <2>3, <2>5, Targeted
  <2> HIDE DEF c, o, add, branch, align
  <2> QED
    BY <2>2, <2>3, <2>4, <2>5
<1> QED
  BY <1>1, DInvariant, PTL


(***************************************************************************)
(* Memory.                                                                 *)
(***************************************************************************)

\* Moving a word up by k bytes moves each of its bytes up by k lanes.
LEMMA MovingBytes ==
  ASSUME ByteWidth = 8, NEW w \in Word, NEW k \in 0 .. 3, NEW i \in k .. 3
  PROVE  ISA!ByteAt(Wrap(w * 2 ^ (k * ByteWidth)), i) = ISA!ByteAt(w, i - k)
<1>1. w \in Nat /\ w < 4294967296 /\ 2 ^ Width = 4294967296
  BY SMT, Powers DEF Word
<1>2. /\ 2 ^ (0 * ByteWidth) = 1 /\ 2 ^ (1 * ByteWidth) = 256 /\ 2 ^ (2 * ByteWidth) = 65536
      /\ 2 ^ (3 * ByteWidth) = 16777216 /\ 2 ^ ByteWidth = 256
  OBVIOUS
<1> DEFINE v == Wrap(w * 2 ^ (k * ByteWidth))
<1>4. k = 0 => v = w
  BY <1>1, <1>2, SMT DEF Wrap
<1>5. k = 1 => v = (w * 256) % 4294967296
  BY <1>1, <1>2, SMT DEF Wrap
<1>6. k = 2 => v = (w * 65536) % 4294967296
  BY <1>1, <1>2, SMT DEF Wrap
<1>7. k = 3 => v = (w * 16777216) % 4294967296
  BY <1>1, <1>2, SMT DEF Wrap
<1> HIDE DEF v
<1>8. w \in Nat /\ v \in Nat
  BY <1>1, <1>4, <1>5, <1>6, <1>7, SMT
<1>3. /\ ISA!ByteAt(v, 1) = (v \div 256) % 256
      /\ ISA!ByteAt(v, 2) = (v \div 65536) % 256
      /\ ISA!ByteAt(v, 3) = (v \div 16777216) % 256
      /\ ISA!ByteAt(w, 0) = w % 256
      /\ ISA!ByteAt(w, 1) = (w \div 256) % 256
      /\ ISA!ByteAt(w, 2) = (w \div 65536) % 256
  <2>1. w \div 1 = w
    BY <1>8
  <2> QED
    BY <1>2, <1>8, <2>1, SMT DEF ISA!ByteAt
<1> SUFFICES ISA!ByteAt(v, i) = ISA!ByteAt(w, i - k)
  BY DEF v
<1>9. CASE k = 0
  <2>1. v = w
    BY <1>4, <1>9
  <2>2. i - k = i
    BY <1>9
  <2> QED
    BY <2>1, <2>2
<1>10. CASE k = 1
  <2>1. /\ (v \div 256) % 256 = w % 256
        /\ (v \div 65536) % 256 = (w \div 256) % 256
        /\ (v \div 16777216) % 256 = (w \div 65536) % 256
    BY <1>1, <1>5, <1>10, SMT
  <2>2. /\ ISA!ByteAt(v, 1) = ISA!ByteAt(w, 0)
        /\ ISA!ByteAt(v, 2) = ISA!ByteAt(w, 1)
        /\ ISA!ByteAt(v, 3) = ISA!ByteAt(w, 2)
    BY <1>3, <2>1, SMT
  <2>3. (i = 1 /\ i - k = 0) \/ (i = 2 /\ i - k = 1) \/ (i = 3 /\ i - k = 2)
    BY <1>10
  <2> QED
    BY <2>2, <2>3
<1>11. CASE k = 2
  <2>1. /\ (v \div 65536) % 256 = w % 256
        /\ (v \div 16777216) % 256 = (w \div 256) % 256
    BY <1>1, <1>6, <1>11, SMT
  <2>2. ISA!ByteAt(v, 2) = ISA!ByteAt(w, 0) /\ ISA!ByteAt(v, 3) = ISA!ByteAt(w, 1)
    BY <1>3, <2>1, SMT
  <2>3. (i = 2 /\ i - k = 0) \/ (i = 3 /\ i - k = 1)
    BY <1>11
  <2> QED
    BY <2>2, <2>3
<1>12. CASE k = 3
  <2>1. (v \div 16777216) % 256 = w % 256
    BY <1>1, <1>7, <1>12, SMT
  <2>2. ISA!ByteAt(v, 3) = ISA!ByteAt(w, 0)
    BY <1>3, <2>1, SMT
  <2>3. i = 3 /\ i - k = 0
    BY <1>12
  <2> QED
    BY <2>2, <2>3
<1> QED
  BY <1>9, <1>10, <1>11, <1>12

\* The lanes of an aligned access, and where it puts the bytes of a store.
LEMMA Aligning ==
  ASSUME ByteWidth = 8, NEW addr \in Nat, NEW op, NEW unsigned, NEW word, NEW wdata \in Word,
         op \in {"LB", "LH", "LW", "LBU", "LHU", "SB", "SH", "SW"}, addr % ISA!Size(op) = 0,
         NEW width, width = WidthOf(op)
  PROVE  LET a == WordAlign(width, unsigned, addr, word, wdata)
             k == addr % 4
             lanes == k .. k + ISA!Size(op) - 1
         IN /\ a.addr_aligned = 4 * (addr \div 4)
            /\ a.mask = lanes /\ lanes \subseteq 0 .. 3
            /\ a.wdata_aligned = Wrap(wdata * 2 ^ (k * ByteWidth))
            /\ a.rdata = IF width = WordWide THEN word
                         ELSE Extend(word \div 2 ^ (k * ByteWidth),
                                     ISA!Size(op) * ByteWidth, unsigned)
<1> DEFINE a == WordAlign(width, unsigned, addr, word, wdata)
           k == addr % 4
           size == ISA!Size(op)
<1>1. /\ width \in {Byte, Half, WordWide} /\ Byte # Half /\ Byte # WordWide /\ Half # WordWide
      /\ size = IF width = Byte THEN 1 ELSE IF width = Half THEN 2 ELSE 4
  BY DEF ISA!Size, WidthOf, Byte, Half, WordWide
<1>2. /\ k \in 0 .. 3 /\ addr - k = 4 * (addr \div 4)
      /\ width = Half => k \in {0, 2}
      /\ width = WordWide => k = 0
  BY <1>1
<1>3. Bit(0, 1) = 0 /\ Bit(2, 1) = 1
  BY DEF Bit
<1> HIDE DEF k, size
<1> DEFINE shift == CASE width = Byte -> k * ByteWidth
                      [] width = Half -> Bit(k, 1) * 2 * ByteWidth
                      [] OTHER        -> 0
<1>4. shift = k * ByteWidth
  BY <1>1, <1>2, <1>3
<1>5. /\ a.addr_aligned = addr - k
      /\ a.mask = CASE width = Byte -> {k}
                    [] width = Half -> (k .. k + 1) \cap (0 .. 3)
                    [] width = WordWide -> 0 .. 3
                    [] OTHER -> {}
      /\ a.wdata_aligned = IF width > WordWide THEN 0 ELSE Wrap(wdata * 2 ^ shift)
      /\ a.rdata = CASE width = Byte -> Extend(word \div 2 ^ shift, ByteWidth, unsigned)
                     [] width = Half -> Extend(word \div 2 ^ shift, 2 * ByteWidth, unsigned)
                     [] width = WordWide -> word
                     [] OTHER -> 0
  BY DEF WordAlign, k
<1> HIDE DEF a, shift
<1>6. a.mask = k .. k + size - 1 /\ k .. k + size - 1 \subseteq 0 .. 3
  <2>1. CASE width = Byte
    <3>1. a.mask = {k} /\ size = 1
      BY <1>1, <1>5, <2>1
    <3> QED
      BY <1>2, <3>1
  <2>2. CASE width = Half
    <3>1. a.mask = (k .. k + 1) \cap (0 .. 3) /\ size = 2 /\ k \in {0, 2}
      BY <1>1, <1>2, <1>5, <2>2
    <3> QED
      BY <3>1
  <2>3. CASE width = WordWide
    <3>1. a.mask = 0 .. 3 /\ size = 4 /\ k = 0
      BY <1>1, <1>2, <1>5, <2>3
    <3> QED
      BY <3>1
  <2> QED
    BY <1>1, <2>1, <2>2, <2>3
<1>7. ~(width > WordWide)
  BY <1>1 DEF Byte, Half, WordWide
<1>8. a.wdata_aligned = Wrap(wdata * 2 ^ (k * ByteWidth))
  BY <1>4, <1>5, <1>7
<1>9. a.rdata = IF width = WordWide THEN word
                ELSE Extend(word \div 2 ^ (k * ByteWidth), size * ByteWidth, unsigned)
  <2>1. width = Byte => size * ByteWidth = ByteWidth
    BY <1>1
  <2>2. width = Half => size * ByteWidth = 2 * ByteWidth
    BY <1>1
  <2> QED
    BY <1>1, <1>4, <1>5, <2>1, <2>2
<1> QED
  BY <1>2, <1>5, <1>6, <1>8, <1>9 DEF a, k, size


(* MemoryOfOperation of module Datapath, for the words of 32 bits of the   *)
(* code: only the loads and stores of the ISA access memory, they select   *)
(* the bytes of their size in the word that holds their address, and a     *)
(* store leaves the bytes of rs2 in them and every other byte alone.       *)
THEOREM Accesses == ASSUME ByteWidth = 8 PROVE Spec => []MemoryOfOperation
<1>1. DInv => MemoryOfOperation
  <2> SUFFICES ASSUME DInv, mw.state = "VALID"
               PROVE  /\ mw.control.mem_load <=> Op \in ISA!Loads
                      /\ mw.control.mem_store <=> Op \in ISA!Stores
                      /\ Op \in ISA!Loads \cup ISA!Stores =>
                           /\ mw.align.addr_aligned = 4 * (DataAddress \div 4)
                           /\ mw.align.mask =
                                { (DataAddress % 4) + i : i \in 0 .. ISA!Size(Op) - 1 }
                      /\ Op \in ISA!Stores =>
                           Masked(mw.align.mask, mw.word, mw.align.wdata_aligned) =
                             ISA!Stored(Op, DataAddress, mw.word, regs.rs2)
    BY DEF MemoryOfOperation
  <2> DEFINE c == Control(fd.insn)
             o == OperandMux(c.a_sel, c.b_sel, fd.pc_rdata, dx.rs1_rdata, dx.rs2_rdata, dx.imm)
             add    == Adder(c.add_sub, c.add_signed_compare, o.a, o.b)
             branch == BranchTargetMux(c.branch_target_sel, fd.pc_rdata, dx.rs1_rdata, dx.imm)
             align  == WordAlign(c.mem_width, c.mem_unsigned, add.result, mw.word, dx.rs2_rdata)
             k      == DataAddress % 4
             lanes  == k .. k + ISA!Size(Op) - 1
  <2>1. mw # Empty /\ dx # Empty /\ fd.insn \in Insns /\ fd.insn.opcode \in Opcodes
    BY SlotStates, InsnType DEF DInv, Insns
  <2>2. /\ mw.state = IF \/ c.illegal
                         \/ (~c.illegal /\ Branch(c.branch_op, add)) /\ branch.misaligned
                         \/ (c.mem_load \/ c.mem_store) /\ align.misaligned
                      THEN "TRAP" ELSE "VALID"
        /\ mw.control = c /\ mw.align = align
    BY <2>1, AtMem
  <2>3. ISA!Legal(fd.insn) /\ ~((c.mem_load \/ c.mem_store) /\ align.misaligned)
    BY <2>1, <2>2, LegalDecoded
  <2>4. /\ c.mem_load <=> fd.insn.opcode = "LOAD"
        /\ c.mem_store <=> fd.insn.opcode = "STORE"
    BY DEF Control
  <2>5. CASE fd.insn.opcode \notin {"LOAD", "STORE"}
    <3>1. Op \notin ISA!Loads \cup ISA!Stores
      BY <2>1, <2>3, <2>5, OperationOfOpcode DEF Op, ISA!Loads, ISA!Stores
    <3> HIDE DEF c
    <3> QED
      BY <2>2, <2>4, <2>5, <3>1
  <2>6. CASE fd.insn.opcode \in {"LOAD", "STORE"}
    <3>1. /\ add.result = DataAddress /\ DataAddress \in Nat
          /\ c.mem_width = WidthOf(Op)
          /\ Op \in ISA!Loads <=> fd.insn.opcode = "LOAD"
          /\ Op \in ISA!Stores <=> fd.insn.opcode = "STORE"
      BY <2>1, <2>3, <2>6, Addressed
    <3>2. Op \in {"LB", "LH", "LW", "LBU", "LHU", "SB", "SH", "SW"}
      BY <2>6, <3>1 DEF ISA!Loads, ISA!Stores
    <3>3. /\ dx.rs2_rdata \in Word /\ regs.rs2 \in Word
          /\ fd.insn.opcode = "STORE" => dx.rs2_rdata = regs.rs2
      BY <2>1, OperandsOfPorts
    <3>4. DataAddress % ISA!Size(Op) = 0
      <4>1. align.misaligned <=> DataAddress % ISA!Size(Op) # 0
        BY <3>1, <3>2, Misaligning
      <4> HIDE DEF c, align
      <4> QED
        BY <2>3, <2>4, <2>6, <4>1
    <3>5. /\ align.addr_aligned = 4 * (DataAddress \div 4)
          /\ align.mask = lanes /\ lanes \subseteq 0 .. 3
          /\ align.wdata_aligned = Wrap(dx.rs2_rdata * 2 ^ (k * ByteWidth))
      <4>1. align = WordAlign(c.mem_width, c.mem_unsigned, DataAddress, mw.word, dx.rs2_rdata)
        BY <3>1
      <4> HIDE DEF c, align
      <4> QED
        BY <3>1, <3>2, <3>3, <3>4, <4>1, Aligning
    <3>6. k \in 0 .. 3 /\ ISA!Size(Op) \in {1, 2, 4}
      BY <3>1 DEF ISA!Size
    <3>7. lanes = { k + i : i \in 0 .. ISA!Size(Op) - 1 }
      <4> HIDE DEF k
      <4>1. ASSUME NEW j \in lanes PROVE j \in { k + i : i \in 0 .. ISA!Size(Op) - 1 }
        <5>1. j - k \in 0 .. ISA!Size(Op) - 1 /\ j = k + (j - k)
          BY <3>6, <4>1
        <5> QED
          BY <5>1
      <4>2. ASSUME NEW i \in 0 .. ISA!Size(Op) - 1 PROVE k + i \in lanes
        BY <3>6, <4>2
      <4> QED
        BY <4>1, <4>2
    <3>8. ASSUME fd.insn.opcode = "STORE"
          PROVE  Masked(align.mask, mw.word, align.wdata_aligned) =
                   ISA!Stored(Op, DataAddress, mw.word, regs.rs2)
      <4> DEFINE moved == Wrap(regs.rs2 * 2 ^ (k * ByteWidth))
      <4>1. \A i \in 0 .. 3 : i \in lanes => ISA!ByteAt(moved, i) = ISA!ByteAt(regs.rs2, i - k)
        <5> SUFFICES ASSUME NEW i \in 0 .. 3, i \in lanes
                     PROVE  ISA!ByteAt(moved, i) = ISA!ByteAt(regs.rs2, i - k)
          OBVIOUS
        <5> HIDE DEF k
        <5>1. i \in k .. 3
          BY <3>6
        <5> QED
          BY <3>3, <3>6, <5>1, MovingBytes
      <4>2. Masked(lanes, mw.word, moved) =
              ISA!FromBytes([i \in 0 .. 3 |-> ISA!ByteAt(IF i \in lanes THEN moved ELSE mw.word, i)])
        BY DEF Masked
      <4>3. ISA!Stored(Op, DataAddress, mw.word, regs.rs2) =
              ISA!FromBytes([i \in 0 .. 3 |-> IF i \in lanes THEN ISA!ByteAt(regs.rs2, i - k)
                                              ELSE ISA!ByteAt(mw.word, i)])
        BY DEF ISA!Stored
      <4> HIDE DEF align, lanes, k
      <4>4. align.mask = lanes /\ align.wdata_aligned = moved
        BY <3>3, <3>5, <3>8
      <4> HIDE DEF moved
      <4>5. [i \in 0 .. 3 |-> ISA!ByteAt(IF i \in lanes THEN moved ELSE mw.word, i)] =
              [i \in 0 .. 3 |-> IF i \in lanes THEN ISA!ByteAt(regs.rs2, i - k)
                                ELSE ISA!ByteAt(mw.word, i)]
        BY <4>1
      <4> QED
        BY <4>2, <4>3, <4>4, <4>5
    <3> HIDE DEF c, align, lanes
    <3> QED
      BY <2>2, <2>4, <2>6, <3>1, <3>5, <3>7, <3>8
  <2> QED
    BY <2>5, <2>6
<1> QED
  BY <1>1, DInvariant, PTL


(***************************************************************************)
(* Results.                                                                *)
(***************************************************************************)

LEMMA Values ==
  ASSUME NEW pc, NEW x, NEW y
  PROVE  LET bits == 4 * ByteWidth
         IN /\ ISA!Value("LUI", pc, x, y) = y
            /\ ISA!Value("AUIPC", pc, x, y) = ISA!Modulo(pc + y)
            /\ ISA!Value("JAL", pc, x, y) = ISA!Modulo(pc + 4)
            /\ ISA!Value("JALR", pc, x, y) = ISA!Modulo(pc + 4)
            /\ ISA!Value("ADD", pc, x, y) = ISA!Modulo(x + y)
            /\ ISA!Value("SUB", pc, x, y) = ISA!Modulo(x - y)
            /\ ISA!Value("SLT", pc, x, y) =
                 IF ISA!Signed(x, bits) < ISA!Signed(y, bits) THEN 1 ELSE 0
            /\ ISA!Value("SLTU", pc, x, y) = IF x < y THEN 1 ELSE 0
  BY DEF ISA!Value

\* Both descriptions give a number by its bits.
LEMMA SameNumbers ==
  ASSUME ByteWidth = 8
  PROVE  ISA!Bits = Places /\ \A ones \in SUBSET Places : ISA!FromBits[ones] = Number[ones]
<1>1. ISA!Bits = Places /\ 0 .. 2 ^ (4 * ByteWidth) - 1 = Word
  BY DEF ISA!Bits, Places, Word, Width
<1>2. \A n, i : ISA!IsSet(n, i) <=> Bit(n, i) = 1
  BY DEF ISA!IsSet, Bit
<1>3. ASSUME NEW ones \in SUBSET Places
      PROVE  ISA!FromBits[ones] = Number[ones]
  <2>1. ISA!FromBits[ones] =
          CHOOSE n \in 0 .. 2 ^ (4 * ByteWidth) - 1 :
            \A i \in ISA!Bits : ISA!IsSet(n, i) <=> i \in ones
    BY <1>1 DEF ISA!FromBits
  <2>2. /\ ISA!FromBits[ones] \in Word
        /\ \A i \in Places : Bit(ISA!FromBits[ones], i) = 1 <=> i \in ones
    <3>1. \E n \in 0 .. 2 ^ (4 * ByteWidth) - 1 :
            \A i \in ISA!Bits : ISA!IsSet(n, i) <=> i \in ones
      BY <1>1, <1>2, AnyBits
    <3>2. /\ ISA!FromBits[ones] \in 0 .. 2 ^ (4 * ByteWidth) - 1
          /\ \A i \in ISA!Bits : ISA!IsSet(ISA!FromBits[ones], i) <=> i \in ones
      BY <2>1, <3>1, Zenon
    <3> QED
      BY <1>1, <1>2, <3>2
  <2>3. Number[ones] \in Word /\ \A i \in Places : Bit(Number[ones], i) = 1 <=> i \in ones
    BY Numbered
  <2>4. \A i \in Places : Bit(ISA!FromBits[ones], i) = 1 <=> Bit(Number[ones], i) = 1
    BY <2>2, <2>3
  <2> QED
    BY <2>2, <2>3, <2>4, SameBits
<1> QED
  BY <1>1, <1>3

\* The three operations of the logic unit.
LEMMA Gates ==
  ASSUME ByteWidth = 8, NEW pc, NEW x, NEW y
  PROVE  /\ Logic(0, x, y) = ISA!Value("XOR", pc, x, y)
         /\ Logic(2, x, y) = ISA!Value("OR", pc, x, y)
         /\ Logic(3, x, y) = ISA!Value("AND", pc, x, y)
<1>1. \A n, i : ISA!IsSet(n, i) <=> Bit(n, i) = 1
  BY DEF ISA!IsSet, Bit
<1>2. ISA!Bits = Places
  BY SameNumbers
<1>3. ASSUME NEW op, NEW ones, ones = { i \in Places : Gate(op, Bit(x, i) = 1, Bit(y, i) = 1) }
      PROVE  Logic(op, x, y) = ISA!FromBits[ones]
  <2>1. ones \in SUBSET Places
    BY <1>3
  <2>2. Logic(op, x, y) = Number[ones]
    BY <1>3 DEF Logic
  <2> QED
    BY <2>1, <2>2, SameNumbers
<1>4. Logic(0, x, y) = ISA!Value("XOR", pc, x, y)
  <2>1. { i \in Places : Gate(0, Bit(x, i) = 1, Bit(y, i) = 1) } =
          { i \in ISA!Bits : ISA!IsSet(x, i) # ISA!IsSet(y, i) }
    <3>1. \A p, q \in BOOLEAN : Gate(0, p, q) <=> p # q
      BY DEF Gate
    <3>2. \A i : ISA!IsSet(x, i) = (Bit(x, i) = 1) /\ ISA!IsSet(y, i) = (Bit(y, i) = 1)
      BY DEF ISA!IsSet, Bit
    <3>3. \A i : Gate(0, Bit(x, i) = 1, Bit(y, i) = 1) <=> ISA!IsSet(x, i) # ISA!IsSet(y, i)
      BY <3>1, <3>2, Zenon
    <3> QED
      BY <1>2, <3>3
  <2>2. ISA!Value("XOR", pc, x, y) =
          ISA!FromBits[{ i \in ISA!Bits : ISA!IsSet(x, i) # ISA!IsSet(y, i) }]
    BY DEF ISA!Value
  <2> QED
    BY <1>3, <2>1, <2>2
<1>5. Logic(2, x, y) = ISA!Value("OR", pc, x, y)
  <2>1. { i \in Places : Gate(2, Bit(x, i) = 1, Bit(y, i) = 1) } =
          { i \in ISA!Bits : ISA!IsSet(x, i) \/ ISA!IsSet(y, i) }
    BY <1>1, <1>2 DEF Gate
  <2>2. ISA!Value("OR", pc, x, y) =
          ISA!FromBits[{ i \in ISA!Bits : ISA!IsSet(x, i) \/ ISA!IsSet(y, i) }]
    BY DEF ISA!Value
  <2> QED
    BY <1>3, <2>1, <2>2
<1>6. Logic(3, x, y) = ISA!Value("AND", pc, x, y)
  <2>1. { i \in Places : Gate(3, Bit(x, i) = 1, Bit(y, i) = 1) } =
          { i \in ISA!Bits : ISA!IsSet(x, i) /\ ISA!IsSet(y, i) }
    BY <1>1, <1>2 DEF Gate
  <2>2. ISA!Value("AND", pc, x, y) =
          ISA!FromBits[{ i \in ISA!Bits : ISA!IsSet(x, i) /\ ISA!IsSet(y, i) }]
    BY DEF ISA!Value
  <2> QED
    BY <1>3, <2>1, <2>2
<1> QED
  BY <1>4, <1>5, <1>6

\* The three shifts.
LEMMA Shifts ==
  ASSUME ByteWidth = 8, NEW pc, NEW x \in Word, NEW y \in Word
  PROVE  /\ BarrelShifter(FALSE, FALSE, x, y) = ISA!Value("SLL", pc, x, y)
         /\ BarrelShifter(TRUE, FALSE, x, y) = ISA!Value("SRL", pc, x, y)
         /\ BarrelShifter(TRUE, TRUE, x, y) = ISA!Value("SRA", pc, x, y)
<1> DEFINE s == y % 32
<1>1. 4 * ByteWidth = 32 /\ Width = 32 /\ s \in 0 .. 31
  <2>1. y \in Nat /\ Width = 32
    BY Widths
  <2> QED
    BY <2>1
<1>2. 2 ^ s = Power(s)
  BY DEF Power
<1>3. y % Width = s /\ y % (4 * ByteWidth) = s
  BY <1>1
<1> HIDE DEF s
<1>4. BarrelShifter(FALSE, FALSE, x, y) = Reverse(Wrap(Reverse(x) \div 2 ^ s))
  BY <1>3 DEF BarrelShifter
<1>5. ISA!Value("SLL", pc, x, y) = Wrap(x * 2 ^ s)
  <2>1. ISA!Value("SLL", pc, x, y) = ISA!Modulo(x * 2 ^ (y % (4 * ByteWidth)))
    BY DEF ISA!Value
  <2> QED
    BY <1>1, <1>3, <2>1 DEF ISA!Modulo, Wrap
<1>6. BarrelShifter(TRUE, FALSE, x, y) = Wrap(x \div 2 ^ s)
  BY <1>3 DEF BarrelShifter
<1>7. ISA!Value("SRL", pc, x, y) = x \div 2 ^ s
  <2>1. ISA!Value("SRL", pc, x, y) = x \div 2 ^ (y % (4 * ByteWidth))
    BY DEF ISA!Value
  <2> QED
    BY <1>3, <2>1
<1>8. BarrelShifter(TRUE, TRUE, x, y) =
        Wrap((IF Bit(x, Width - 1) = 1 THEN x - 2 ^ Width ELSE x) \div 2 ^ s)
  BY <1>3 DEF BarrelShifter
<1>9. ISA!Value("SRA", pc, x, y) =
        Wrap((IF Bit(x, Width - 1) = 1 THEN x - 2 ^ Width ELSE x) \div 2 ^ s)
  <2>1. ISA!Value("SRA", pc, x, y) =
          ISA!Modulo(ISA!Signed(x, 4 * ByteWidth) \div 2 ^ (y % (4 * ByteWidth)))
    BY DEF ISA!Value
  <2> QED
    BY <1>1, <1>3, <2>1 DEF ISA!Modulo, Wrap, ISA!Signed, ISA!IsSet, Bit
<1> QED
  BY <1>1, <1>2, <1>4, <1>5, <1>6, <1>7, <1>8, <1>9, ShiftingLeft, ShiftingRight

\* A load extends what it returns with its sign, or with zeros.
LEMMA Extending ==
  ASSUME ByteWidth = 8, NEW m \in Nat, NEW bits \in {8, 16}
  PROVE  /\ Extend(m, bits, TRUE) = m % 2 ^ bits
         /\ Extend(m, bits, FALSE) = ISA!Modulo(ISA!Signed(m % 2 ^ bits, bits))
<1> DEFINE low == m % 2 ^ bits
<1>1. 2 ^ bits \in {256, 65536} /\ 2 ^ Width = 4294967296
  <2>1. bits = 8 => 2 ^ bits = 256
    BY SMT
  <2>2. bits = 16 => 2 ^ bits = 65536
    BY SMT
  <2>3. 2 ^ Width = 4294967296
    BY Powers, SMT
  <2> QED
    BY <2>1, <2>2, <2>3, SMT
<1>2. low \in 0 .. 2 ^ bits - 1
  BY <1>1, SMT
<1>3. Extend(m, bits, TRUE) = low
  BY DEF Extend
<1>4. Extend(m, bits, FALSE) = IF Bit(low, bits - 1) = 1 THEN low + 2 ^ Width - 2 ^ bits ELSE low
  BY DEF Extend
<1> HIDE DEF low
<1>5. ISA!Signed(low, bits) = IF Bit(low, bits - 1) = 1 THEN low - 2 ^ bits ELSE low
  BY DEF ISA!Signed, ISA!IsSet, Bit
<1>6. ISA!Modulo(low) = low /\ ISA!Modulo(low - 2 ^ bits) = low + 2 ^ Width - 2 ^ bits
  <2>1. \A n \in Int : ISA!Modulo(n) = n % 2 ^ Width
    BY Wrapping DEF Wrap
  <2>2. low \in Int /\ low - 2 ^ bits \in Int
    BY <1>1, <1>2, SMT
  <2>3. low % 2 ^ Width = low
    BY <1>1, <1>2, SMT
  <2>4. (low - 2 ^ bits) % 2 ^ Width = low + 2 ^ Width - 2 ^ bits
    BY <1>1, <1>2, SMT
  <2> QED
    BY <2>1, <2>2, <2>3, <2>4
<1>7. Extend(m, bits, FALSE) = ISA!Modulo(ISA!Signed(low, bits))
  BY <1>4, <1>5, <1>6
<1> QED
  BY <1>3, <1>7 DEF low

\* The bytes of an aligned access are a slice of the word.
LEMMA Slicing ==
  ASSUME ByteWidth = 8, NEW word \in Word
  PROVE  /\ \A k \in 0 .. 3 : ISA!Bytes(word, k, 1) = (word \div 2 ^ (k * ByteWidth)) % 2 ^ 8
         /\ \A k \in {0, 2} : ISA!Bytes(word, k, 2) = (word \div 2 ^ (k * ByteWidth)) % 2 ^ 16
         /\ ISA!Bytes(word, 0, 4) = word
<1>1. word \in Nat /\ word < 4294967296
  BY SMT, Powers DEF Word
<1>2. /\ 2 ^ (0 * ByteWidth) = 1 /\ 2 ^ (1 * ByteWidth) = 256 /\ 2 ^ (2 * ByteWidth) = 65536
      /\ 2 ^ (3 * ByteWidth) = 16777216 /\ 2 ^ ByteWidth = 256 /\ 2 ^ 8 = 256 /\ 2 ^ 16 = 65536
  BY SMT
<1>3. /\ ISA!ByteAt(word, 0) = word % 256
      /\ ISA!ByteAt(word, 1) = (word \div 256) % 256
      /\ ISA!ByteAt(word, 2) = (word \div 65536) % 256
      /\ ISA!ByteAt(word, 3) = (word \div 16777216) % 256
  <2>1. word \div 1 = word
    BY <1>1
  <2> QED
    BY <1>1, <1>2, <2>1, SMT DEF ISA!ByteAt
<1>4. ASSUME NEW k \in 0 .. 3
      PROVE  /\ ISA!Bytes(word, k, 1) = ISA!ByteAt(word, k) + 0 * 256 + 0 * 65536 + 0 * 16777216
             /\ ISA!Bytes(word, k, 2) =
                  ISA!ByteAt(word, k) + ISA!ByteAt(word, k + 1) * 256 + 0 * 65536 + 0 * 16777216
             /\ ISA!Bytes(word, k, 4) =
                  ISA!ByteAt(word, k) + ISA!ByteAt(word, k + 1) * 256
                    + ISA!ByteAt(word, k + 2) * 65536 + ISA!ByteAt(word, k + 3) * 16777216
  <2>1. k + 0 = k
    OBVIOUS
  <2> QED
    BY <1>2, <2>1, SMT DEF ISA!Bytes, ISA!FromBytes
<1>5. ASSUME NEW k \in 0 .. 3
      PROVE  ISA!Bytes(word, k, 1) = (word \div 2 ^ (k * ByteWidth)) % 2 ^ 8
  <2>1. ISA!ByteAt(word, k) = (word \div 2 ^ (k * ByteWidth)) % 2 ^ 8
    BY DEF ISA!ByteAt
  <2>2. ISA!ByteAt(word, k) \in Int
    <3>1. k = 0 \/ k = 1 \/ k = 2 \/ k = 3
      OBVIOUS
    <3> QED
      BY <1>1, <1>3, <3>1, SMT
  <2> QED
    BY <1>4, <2>1, <2>2, SMT
<1> DEFINE b0 == word % 256
           b1 == (word \div 256) % 256
           b2 == (word \div 65536) % 256
           b3 == (word \div 16777216) % 256
<1>6. /\ b0 \in Int /\ b1 \in Int /\ b2 \in Int /\ b3 \in Int
      /\ word % 65536 = b0 + b1 * 256
      /\ (word \div 65536) % 65536 = b2 + b3 * 256
      /\ word = b0 + b1 * 256 + b2 * 65536 + b3 * 16777216
  BY <1>1, SMT
<1>7. /\ ISA!ByteAt(word, 0) = b0 /\ ISA!ByteAt(word, 1) = b1
      /\ ISA!ByteAt(word, 2) = b2 /\ ISA!ByteAt(word, 3) = b3
  BY <1>3
<1> HIDE DEF b0, b1, b2, b3
<1>8. ISA!Bytes(word, 0, 2) = (word \div 2 ^ (0 * ByteWidth)) % 2 ^ 16
  <2>1. word \div 1 = word /\ 0 \in 0 .. 3 /\ 0 + 1 = 1
    BY <1>1
  <2>2. ISA!Bytes(word, 0, 2) = b0 + b1 * 256 + 0 * 65536 + 0 * 16777216
    BY <1>4, <1>7, <2>1, SMT
  <2>3. ISA!Bytes(word, 0, 2) = word % 65536
    BY <1>6, <2>2, SMT
  <2>4. (word \div 2 ^ (0 * ByteWidth)) % 2 ^ 16 = word % 65536
    BY <1>2, <2>1, SMT
  <2> QED
    BY <2>3, <2>4, SMT
<1>9. ISA!Bytes(word, 2, 2) = (word \div 2 ^ (2 * ByteWidth)) % 2 ^ 16
  <2>1. 2 \in 0 .. 3 /\ 2 + 1 = 3
    OBVIOUS
  <2>2. ISA!Bytes(word, 2, 2) = b2 + b3 * 256 + 0 * 65536 + 0 * 16777216
    BY <1>4, <1>7, <2>1, SMT
  <2>3. ISA!Bytes(word, 2, 2) = (word \div 65536) % 65536
    BY <1>6, <2>2, SMT
  <2>4. (word \div 2 ^ (2 * ByteWidth)) % 2 ^ 16 = (word \div 65536) % 65536
    BY <1>2, SMT
  <2> QED
    BY <2>3, <2>4, SMT
<1>10. ISA!Bytes(word, 0, 4) = word
  <2>1. 0 \in 0 .. 3 /\ 0 + 1 = 1 /\ 0 + 2 = 2 /\ 0 + 3 = 3
    OBVIOUS
  <2>2. ISA!Bytes(word, 0, 4) = b0 + b1 * 256 + b2 * 65536 + b3 * 16777216
    BY <1>4, <1>7, <2>1, SMT
  <2> QED
    BY <1>6, <2>2, SMT
<1> QED
  BY <1>5, <1>8, <1>9, <1>10

\* What mem extracts from the word is what the ISA says is loaded.
LEMMA Loading ==
  ASSUME ByteWidth = 8, NEW addr \in Nat, NEW op \in ISA!Loads, NEW word \in Word,
         NEW wdata \in Word, addr % ISA!Size(op) = 0,
         NEW unsigned \in BOOLEAN, unsigned <=> op \in {"LBU", "LHU"},
         NEW width, width = WidthOf(op)
  PROVE  WordAlign(width, unsigned, addr, word, wdata).rdata = ISA!Loaded(op, addr, word)
<1> DEFINE k == addr % 4
           size == ISA!Size(op)
           rdata == WordAlign(width, unsigned, addr, word, wdata).rdata
           m == word \div 2 ^ (k * ByteWidth)
<1>1. /\ op \in {"LB", "LH", "LW", "LBU", "LHU"}
      /\ Byte # WordWide /\ Half # WordWide
  BY DEF ISA!Loads, Byte, Half, WordWide
<1>2. rdata = IF width = WordWide THEN word ELSE Extend(m, size * ByteWidth, unsigned)
  <2>1. op \in {"LB", "LH", "LW", "LBU", "LHU", "SB", "SH", "SW"}
    BY <1>1
  <2>2. WordAlign(width, unsigned, addr, word, wdata).rdata =
          IF width = WordWide THEN word
          ELSE Extend(word \div 2 ^ ((addr % 4) * ByteWidth), ISA!Size(op) * ByteWidth, unsigned)
    BY <2>1, Aligning
  <2> QED
    BY <2>2
<1>3. ISA!Loaded(op, addr, word) =
        IF op \in {"LB", "LH"} THEN ISA!Modulo(ISA!Signed(ISA!Bytes(word, k, size), size * ByteWidth))
        ELSE ISA!Bytes(word, k, size)
  BY DEF ISA!Loaded
<1>4. k \in 0 .. 3 /\ m \in Nat
  <2>1. k \in 0 .. 3
    OBVIOUS
  <2>2. k * ByteWidth \in 0 .. 32
    BY <2>1
  <2>3. 2 ^ (k * ByteWidth) = Power(k * ByteWidth)
    BY DEF Power
  <2>4. word \in Nat
    BY WordsAreNumbers
  <2> HIDE DEF k
  <2> QED
    BY <2>1, <2>2, <2>3, <2>4, Positive, Dividing
<1>5. CASE op \in {"LB", "LBU"}
  <2>1. size = 1 /\ width # WordWide /\ size * ByteWidth = 8
    BY <1>1, <1>5 DEF ISA!Size, WidthOf
  <2>2. ISA!Bytes(word, k, size) = m % 2 ^ 8
    <3>1. \A j \in 0 .. 3 : ISA!Bytes(word, j, 1) = (word \div 2 ^ (j * ByteWidth)) % 2 ^ 8
      BY Slicing
    <3>2. ISA!Bytes(word, k, 1) = m % 2 ^ 8
      BY <1>4, <3>1, Zenon
    <3> QED
      BY <2>1, <3>2
  <2>3. rdata = Extend(m, 8, unsigned)
    BY <1>2, <2>1
  <2> HIDE DEF rdata, m, k, size
  <2>4. /\ Extend(m, 8, TRUE) = m % 2 ^ 8
        /\ Extend(m, 8, FALSE) = ISA!Modulo(ISA!Signed(m % 2 ^ 8, 8))
    BY <1>4, Extending
  <2>5. rdata = ISA!Loaded(op, addr, word)
    <3>1. CASE op = "LB"
      <4>1. unsigned = FALSE /\ op \in {"LB", "LH"}
        BY <3>1
      <4> QED
        BY <1>3, <2>1, <2>2, <2>3, <2>4, <4>1, Zenon
    <3>2. CASE op = "LBU"
      <4>1. unsigned = TRUE /\ op \notin {"LB", "LH"}
        BY <3>2
      <4> QED
        BY <1>3, <2>1, <2>2, <2>3, <2>4, <4>1, Zenon
    <3> QED
      BY <1>5, <3>1, <3>2
  <2> QED
    BY <2>5 DEF rdata
<1>6. CASE op \in {"LH", "LHU"}
  <2>1. size = 2 /\ width # WordWide /\ size * ByteWidth = 16
    BY <1>1, <1>6 DEF ISA!Size, WidthOf
  <2>2. k \in {0, 2}
    BY <2>1
  <2>3. ISA!Bytes(word, k, size) = m % 2 ^ 16
    <3>1. \A j \in {0, 2} : ISA!Bytes(word, j, 2) = (word \div 2 ^ (j * ByteWidth)) % 2 ^ 16
      BY Slicing
    <3>2. ISA!Bytes(word, k, 2) = m % 2 ^ 16
      BY <2>2, <3>1, Zenon
    <3> QED
      BY <2>1, <3>2
  <2>4. rdata = Extend(m, 16, unsigned)
    BY <1>2, <2>1
  <2> HIDE DEF rdata, m, k, size
  <2>5. /\ Extend(m, 16, TRUE) = m % 2 ^ 16
        /\ Extend(m, 16, FALSE) = ISA!Modulo(ISA!Signed(m % 2 ^ 16, 16))
    BY <1>4, Extending
  <2>6. rdata = ISA!Loaded(op, addr, word)
    <3>1. CASE op = "LH"
      <4>1. unsigned = FALSE /\ op \in {"LB", "LH"}
        BY <3>1
      <4> QED
        BY <1>3, <2>1, <2>3, <2>4, <2>5, <4>1, Zenon
    <3>2. CASE op = "LHU"
      <4>1. unsigned = TRUE /\ op \notin {"LB", "LH"}
        BY <3>2
      <4> QED
        BY <1>3, <2>1, <2>3, <2>4, <2>5, <4>1, Zenon
    <3> QED
      BY <1>6, <3>1, <3>2
  <2> QED
    BY <2>6 DEF rdata
<1>7. CASE op = "LW"
  <2>1. size = 4 /\ width = WordWide
    BY <1>7 DEF ISA!Size, WidthOf
  <2>2. k = 0
    BY <2>1
  <2>3. ISA!Bytes(word, k, size) = word
    BY <2>1, <2>2, Slicing
  <2> QED
    BY <1>2, <1>3, <1>7, <2>1, <2>3
<1> QED
  BY <1>1, <1>5, <1>6, <1>7

\* SUB is the difference modulo the width of a word.
LEMMA Subtracting ==
  ASSUME ByteWidth = 8, NEW x \in Word, NEW y \in Word
  PROVE  Adder(TRUE, FALSE, x, y).result = ISA!Modulo(x - y)
<1>1. /\ x \in Nat /\ y \in Nat
      /\ 2 ^ Width = 4294967296 /\ 2 ^ (Width + 1) = 8589934592
  BY SMT, Powers, WordsAreNumbers
<1> DEFINE diff == (x - y) % 4294967296
<1>2. Adder(TRUE, FALSE, x, y).result = diff
  <2> DEFINE cut == ((x - y) % 8589934592) % 4294967296
  <2>1. Adder(TRUE, FALSE, x, y).result = cut
    BY <1>1, SMT DEF Adder, Wrap
  <2>2. cut = diff
    BY <1>1, SMT
  <2> HIDE DEF diff, cut
  <2> QED
    BY <2>1, <2>2
<1>3. ISA!Modulo(x - y) = diff
  <2>1. \A n \in Int : ISA!Modulo(n) = n % 2 ^ Width
    BY Wrapping DEF Wrap
  <2>2. x - y \in Int
    BY <1>1, SMT
  <2>3. ISA!Modulo(x - y) = (x - y) % 2 ^ Width
    BY <2>1, <2>2, Zenon
  <2> QED
    BY <1>1, <2>3, SMT
<1> HIDE DEF diff
<1> QED
  BY <1>2, <1>3

\* The unit that control.py selects computes what the ISA says of the operation.
LEMMA ArithmeticValue ==
  ASSUME ByteWidth = 8, NEW x \in Word, NEW y \in Word, NEW pc,
         NEW insn \in Insns, ISA!Legal(insn), insn.opcode \in Arithmetic
  PROVE  LET c == Control(insn)
         IN ResultMux(c.result_sel, Adder(c.add_sub, c.add_signed_compare, x, y),
                      Logic(c.logic_op, x, y),
                      BarrelShifter(c.shift_right, c.shift_arithmetic, x, y))
              = ISA!Value(ISA!Operation(insn), pc, x, y)
<1> DEFINE c == Control(insn)
           f3 == insn.funct3
           f7 == insn.funct7
           opcode == insn.opcode
           add == Adder(c.add_sub, c.add_signed_compare, x, y)
           logic == Logic(c.logic_op, x, y)
           shift == BarrelShifter(c.shift_right, c.shift_arithmetic, x, y)
           op == ISA!Operation(insn)
<1> SUFFICES ResultMux(c.result_sel, add, logic, shift) = ISA!Value(op, pc, x, y)
  OBVIOUS
<1>1. op = Mnemonic(opcode, f3, f7)
  BY OperationOfWord
<1>2. /\ c.result_sel = ResultSel(insn)
      /\ c.add_sub = AddSub(insn) /\ c.add_signed_compare = AddSignedCompare(insn)
      /\ c.logic_op = f3 % 4
      /\ c.shift_right = (Bit(f3, 2) = 1) /\ c.shift_arithmetic = (Bit(f7, 5) = 1)
  BY DEF Control
<1>3. /\ opcode \in {"OP_IMM", "OP"} /\ f3 \in 0 .. 7
      /\ opcode = "OP" /\ f3 = 0 => f7 \in {0, 32}
      /\ f3 = 1 => f7 = 0
      /\ f3 = 5 => f7 \in {0, 32}
  BY LegalByOpcode DEF Arithmetic, Insns
<1>4. Bit(0, 5) = 0 /\ Bit(32, 5) = 1 /\ Bit(1, 2) = 0 /\ Bit(5, 2) = 1
  BY DEF Bit
<1>5. CASE f3 = 0
  <2>1. c.result_sel = "ADDER" /\ c.add_signed_compare = FALSE
    BY <1>2, <1>3, <1>5 DEF ResultSel, AddSignedCompare, Arithmetic, F3
  <2>2. ResultMux(c.result_sel, add, logic, shift) = add.result
    BY <2>1 DEF ResultMux
  <2>3. CASE opcode = "OP" /\ f7 = 32
    <3>1. c.add_sub = TRUE
      BY <1>2, <1>4, <1>5, <2>3 DEF AddSub, F3
    <3>2. op = "SUB"
      BY <1>1, <1>5, <2>3 DEF Mnemonic, Arithmetic
    <3>3. add.result = ISA!Modulo(x - y)
      BY <2>1, <3>1, Subtracting
    <3> QED
      BY <2>2, <3>2, <3>3, Values
  <2>4. CASE ~(opcode = "OP" /\ f7 = 32)
    <3>1. c.add_sub = FALSE
      BY <1>2, <1>3, <1>4, <1>5, <2>4 DEF AddSub, F3, Arithmetic
    <3>2. op = "ADD"
      BY <1>1, <1>3, <1>5, <2>4 DEF Mnemonic, Arithmetic
    <3>3. add.result = Wrap(x + y)
      BY <2>1, <3>1, Adding
    <3>4. x + y \in Int
      BY WordsAreNumbers
    <3>5. ISA!Modulo(x + y) = Wrap(x + y)
      BY <3>4, Wrapping
    <3> QED
      BY <2>2, <3>2, <3>3, <3>5, Values
  <2> QED
    BY <2>3, <2>4
<1>6. CASE f3 \in {2, 3}
  <2>1. c.result_sel = "SLT" /\ c.add_sub = TRUE
    BY <1>2, <1>3, <1>6 DEF ResultSel, AddSub, Arithmetic, F3
  <2>2. ResultMux(c.result_sel, add, logic, shift) = IF add.carry THEN 1 ELSE 0
    BY <2>1 DEF ResultMux
  <2>3. CASE f3 = 2
    <3>1. op = "SLT"
      BY <1>1, <1>3, <2>3 DEF Mnemonic, Arithmetic
    <3>2. c.add_signed_compare = TRUE
      BY <1>2, <1>3, <2>3 DEF AddSignedCompare, Arithmetic, F3
    <3> HIDE DEF c
    <3>3. add.carry <=> ISA!Signed(x, 32) < ISA!Signed(y, 32)
      BY <2>1, <3>2, ComparingSigned
    <3>4. 4 * ByteWidth = 32
      OBVIOUS
    <3> QED
      BY <2>2, <3>1, <3>3, <3>4, Values
  <2>4. CASE f3 = 3
    <3>1. op = "SLTU"
      BY <1>1, <1>3, <2>4 DEF Mnemonic, Arithmetic
    <3>2. c.add_signed_compare = FALSE
      BY <1>2, <1>3, <2>4 DEF AddSignedCompare, Arithmetic, F3
    <3> HIDE DEF c
    <3>3. add.carry <=> x < y
      BY <2>1, <3>2, ComparingUnsigned
    <3> QED
      BY <2>2, <3>1, <3>3, Values
  <2> QED
    BY <1>6, <2>3, <2>4
<1>7. CASE f3 \in {4, 6, 7}
  <2>1. c.result_sel = "LOGIC"
    BY <1>2, <1>3, <1>7 DEF ResultSel, Arithmetic, F3
  <2>2. ResultMux(c.result_sel, add, logic, shift) = logic
    BY <2>1 DEF ResultMux
  <2>3. \/ logic = Logic(0, x, y) /\ op = "XOR"
        \/ logic = Logic(2, x, y) /\ op = "OR"
        \/ logic = Logic(3, x, y) /\ op = "AND"
    <3>1. f3 = 4 => c.logic_op = 0 /\ op = "XOR"
      BY <1>1, <1>2, <1>3 DEF Mnemonic, Arithmetic
    <3>2. f3 = 6 => c.logic_op = 2 /\ op = "OR"
      BY <1>1, <1>2, <1>3 DEF Mnemonic, Arithmetic
    <3>3. f3 = 7 => c.logic_op = 3 /\ op = "AND"
      BY <1>1, <1>2, <1>3 DEF Mnemonic, Arithmetic
    <3> QED
      BY <1>7, <3>1, <3>2, <3>3
  <2> QED
    BY <2>2, <2>3, Gates
<1>8. CASE f3 \in {1, 5}
  <2>1. c.result_sel = "SHIFT"
    BY <1>2, <1>3, <1>8 DEF ResultSel, Arithmetic, F3
  <2>2. ResultMux(c.result_sel, add, logic, shift) = shift
    BY <2>1 DEF ResultMux
  <2>3. \/ c.shift_right = FALSE /\ c.shift_arithmetic = FALSE /\ op = "SLL"
        \/ c.shift_right = TRUE /\ c.shift_arithmetic = FALSE /\ op = "SRL"
        \/ c.shift_right = TRUE /\ c.shift_arithmetic = TRUE /\ op = "SRA"
    <3>1. CASE f3 = 1
      <4>1. f7 = 0 /\ op = "SLL"
        BY <1>1, <1>3, <3>1 DEF Mnemonic, Arithmetic
      <4>2. Bit(f3, 2) # 1 /\ Bit(f7, 5) # 1
        BY <1>4, <3>1, <4>1
      <4> QED
        BY <1>2, <4>1, <4>2, Zenon
    <3>2. CASE f3 = 5
      <4>1. f7 \in {0, 32} /\ op = IF f7 = 32 THEN "SRA" ELSE "SRL"
        BY <1>1, <1>3, <3>2 DEF Mnemonic, Arithmetic
      <4>2. Bit(f3, 2) = 1 /\ (f7 = 32 <=> Bit(f7, 5) = 1)
        BY <1>4, <3>2, <4>1
      <4> QED
        BY <1>2, <4>1, <4>2, Zenon
    <3> QED
      BY <1>8, <3>1, <3>2
  <2> QED
    BY <2>2, <2>3, Shifts
<1> QED
  BY <1>3, <1>5, <1>6, <1>7, <1>8

\* What execute and mem compute for an instruction that has a result and does
\* not load it.
LEMMA Computed ==
  ASSUME ByteWidth = 8, DInv, dx # Empty, ISA!Legal(fd.insn),
         fd.insn.opcode \in {"LUI", "AUIPC", "JAL", "JALR", "OP_IMM", "OP"}
  PROVE  LET c == Control(fd.insn)
             o == OperandMux(c.a_sel, c.b_sel, fd.pc_rdata, dx.rs1_rdata, dx.rs2_rdata, dx.imm)
         IN ResultMux(c.result_sel, Adder(c.add_sub, c.add_signed_compare, o.a, o.b),
                      Logic(c.logic_op, dx.rs1_rdata, o.b),
                      BarrelShifter(c.shift_right, c.shift_arithmetic, dx.rs1_rdata, o.b))
              = ISA!Value(Op, fd.pc_rdata, regs.rs1, Second)
<1> DEFINE c == Control(fd.insn)
           o == OperandMux(c.a_sel, c.b_sel, fd.pc_rdata, dx.rs1_rdata, dx.rs2_rdata, dx.imm)
           opcode == fd.insn.opcode
           pc == fd.pc_rdata
           result == ResultMux(c.result_sel, Adder(c.add_sub, c.add_signed_compare, o.a, o.b),
                               Logic(c.logic_op, dx.rs1_rdata, o.b),
                               BarrelShifter(c.shift_right, c.shift_arithmetic, dx.rs1_rdata, o.b))
<1> SUFFICES result = ISA!Value(Op, pc, regs.rs1, Second)
  OBVIOUS
<1>1. fd.insn \in Insns
  BY InsnType DEF DInv
<1>2. /\ dx.imm \in Word /\ regs.rs1 \in Word /\ regs.rs2 \in Word /\ pc \in Word
      /\ opcode \in {"JALR", "OP_IMM", "OP"} => dx.rs1_rdata = regs.rs1
      /\ opcode = "OP" => dx.rs2_rdata = regs.rs2
  BY OperandsOfPorts
<1>3. Op = Mnemonic(opcode, fd.insn.funct3, fd.insn.funct7)
  BY <1>1, OperationOfWord DEF Op
<1>4. c.a_sel = ASel(opcode) /\ c.b_sel = BSel(opcode)
  BY DEF Control
<1>5. CASE opcode \in Arithmetic
  <2>1. c.a_sel = "RS1" /\ c.b_sel = IF opcode = "OP" THEN "RS2" ELSE "IMM"
    BY <1>4, <1>5 DEF ASel, BSel, Arithmetic
  <2>2. Second = IF opcode = "OP" THEN regs.rs2 ELSE dx.imm
    BY <1>5 DEF Second, Arithmetic
  <2>3. dx.rs1_rdata = regs.rs1 /\ o.a = regs.rs1 /\ o.b = Second /\ Second \in Word
    BY <1>2, <1>5, <2>1, <2>2 DEF OperandMux, Arithmetic
  <2>4. result = ResultMux(c.result_sel,
                           Adder(c.add_sub, c.add_signed_compare, regs.rs1, Second),
                           Logic(c.logic_op, regs.rs1, Second),
                           BarrelShifter(c.shift_right, c.shift_arithmetic, regs.rs1, Second))
    BY <2>3
  <2> QED
    BY <1>1, <1>2, <1>5, <2>3, <2>4, ArithmeticValue DEF Op
<1>6. CASE opcode \in {"LUI", "AUIPC", "JAL", "JALR"}
  <2>1. /\ c.result_sel = "ADDER" /\ c.add_sub = FALSE /\ c.add_signed_compare = FALSE
        /\ c.a_sel = IF opcode = "LUI" THEN "ZERO" ELSE "PC"
        /\ c.b_sel = IF opcode \in {"JAL", "JALR"} THEN "FOUR" ELSE "IMM"
    BY <1>4, <1>6 DEF Control, ResultSel, AddSub, AddSignedCompare, ASel, BSel, Arithmetic
  <2>2. Second = dx.imm /\ Op = opcode
    BY <1>3, <1>6 DEF Second, Mnemonic, Arithmetic
  <2>3. /\ o.a = IF opcode = "LUI" THEN 0 ELSE pc
        /\ o.b = IF opcode \in {"JAL", "JALR"} THEN 4 ELSE dx.imm
    BY <2>1 DEF OperandMux
  <2>4. 0 \in Word /\ 4 \in Word
    BY SMT, Powers DEF Word
  <2>5. o.a \in Word /\ o.b \in Word
    BY <1>2, <2>3, <2>4
  <2>6. result = Wrap(o.a + o.b)
    <3>1. result = Adder(FALSE, FALSE, o.a, o.b).result
      BY <2>1 DEF ResultMux
    <3> HIDE DEF result, o
    <3> QED
      BY <2>5, <3>1, Adding
  <2>7. \A m, n \in Word : ISA!Modulo(m + n) = Wrap(m + n)
    <3> SUFFICES ASSUME NEW m \in Word, NEW n \in Word PROVE ISA!Modulo(m + n) = Wrap(m + n)
      OBVIOUS
    <3>1. m + n \in Int
      BY WordsAreNumbers
    <3> QED
      BY <3>1, Wrapping
  <2>8. Wrap(0 + dx.imm) = dx.imm
    BY <1>2, SMT, Powers DEF Wrap, Word
  <2> HIDE DEF result, o, opcode, pc
  <2>9. CASE opcode = "LUI"
    BY <2>2, <2>3, <2>6, <2>8, <2>9, Values
  <2>10. CASE opcode = "AUIPC"
    <3>1. result = ISA!Modulo(pc + dx.imm)
      BY <1>2, <2>3, <2>6, <2>7, <2>10
    <3> QED
      BY <2>2, <2>10, <3>1, Values
  <2>11. CASE opcode \in {"JAL", "JALR"}
    <3>1. result = ISA!Modulo(pc + 4)
      BY <1>2, <2>3, <2>4, <2>6, <2>7, <2>11
    <3> QED
      BY <2>2, <2>11, <3>1, Values
  <2> QED
    BY <1>6, <2>9, <2>10, <2>11
<1> QED
  BY <1>5, <1>6 DEF Arithmetic

\* The decoder lets those instructions write a register that have a result.
LEMMA Writes ==
  ASSUME NEW insn \in Insns, ISA!Legal(insn)
  PROVE  /\ Control(insn).rd_wen <=> insn.rd # 0 /\ ISA!Operation(insn) \notin ISA!Silent
         /\ ISA!Operation(insn) \in ISA!Silent <=> insn.opcode \in {"STORE", "BRANCH", "MISC_MEM"}
<1> DEFINE opcode == insn.opcode
           f3 == insn.funct3
           f7 == insn.funct7
           op == Mnemonic(opcode, f3, f7)
<1>1. ISA!Operation(insn) = op
  BY OperationOfWord
<1>2. /\ opcode \in {"LUI", "AUIPC", "JAL", "JALR", "BRANCH", "LOAD", "STORE", "OP_IMM", "OP",
                     "MISC_MEM"}
      /\ opcode = "BRANCH" => f3 \in {0, 1, 4, 5, 6, 7}
      /\ opcode = "LOAD" => f3 \in {0, 1, 2, 4, 5}
      /\ opcode = "STORE" => f3 \in {0, 1, 2}
      /\ opcode = "MISC_MEM" => f3 \in {0, 1}
      /\ f3 \in 0 .. 7
  BY LegalByOpcode DEF Insns
<1>3. Control(insn).rd_wen <=> insn.rd # 0 /\ opcode \notin {"STORE", "BRANCH", "MISC_MEM"}
  BY <1>2, Formats DEF Control, RegisterUse
<1>4. op \in ISA!Silent <=> opcode \in {"STORE", "BRANCH", "MISC_MEM"}
  <2> HIDE DEF opcode, f3, f7
  <2>1. ISA!Silent = {"SB", "SH", "SW", "BEQ", "BNE", "BLT", "BGE", "BLTU", "BGEU",
                      "FENCE", "FENCE_I"}
    BY DEF ISA!Silent, ISA!Stores, ISA!Branches
  <2>2. opcode = "BRANCH" => op \in {"BEQ", "BNE", "BLT", "BGE", "BLTU", "BGEU"}
    BY <1>2 DEF Mnemonic, Arithmetic
  <2>3. opcode = "STORE" => op \in {"SB", "SH", "SW"}
    BY <1>2 DEF Mnemonic, Arithmetic
  <2>4. opcode = "MISC_MEM" => op \in {"FENCE", "FENCE_I"}
    BY <1>2 DEF Mnemonic, Arithmetic
  <2>5. opcode \in {"LUI", "AUIPC", "JAL", "JALR"} => op \in {"LUI", "AUIPC", "JAL", "JALR"}
    BY DEF Mnemonic, Arithmetic
  <2>6. opcode = "LOAD" => op \in {"LB", "LH", "LW", "LBU", "LHU"}
    BY <1>2 DEF Mnemonic, Arithmetic
  <2>7. opcode \in {"OP_IMM", "OP"} =>
          op \in {"ADD", "SUB", "SLL", "SLT", "SLTU", "XOR", "SRL", "SRA", "OR", "AND"}
    BY <1>2 DEF Mnemonic, Arithmetic
  <2> HIDE DEF op
  <2> QED
    BY <1>2, <2>1, <2>2, <2>3, <2>4, <2>5, <2>6, <2>7
<1> QED
  BY <1>1, <1>3, <1>4

(* ResultOfOperation of module Datapath, for the words of 32 bits of the   *)
(* code: what completes writes a register exactly when its operation has a *)
(* result and names a register but x0, and writes what the ISA says of the *)
(* operands; for all operands, addresses, words of memory and fields.      *)
THEOREM Results == ASSUME ByteWidth = 8 PROVE Spec => []ResultOfOperation
<1>1. DInv => ResultOfOperation
  <2> SUFFICES ASSUME DInv, mw.state = "VALID"
               PROVE  /\ mw.control.rd_wen <=> fd.insn.rd # 0 /\ Op \notin ISA!Silent
                      /\ mw.control.rd_wen =>
                           WDataMux(mw.control.wdata_sel, mw.result, mw.align.rdata) =
                             IF Op \in ISA!Loads THEN ISA!Loaded(Op, DataAddress, mw.word)
                             ELSE ISA!Value(Op, fd.pc_rdata, regs.rs1, Second)
    BY DEF ResultOfOperation
  <2> DEFINE c == Control(fd.insn)
             o == OperandMux(c.a_sel, c.b_sel, fd.pc_rdata, dx.rs1_rdata, dx.rs2_rdata, dx.imm)
             add    == Adder(c.add_sub, c.add_signed_compare, o.a, o.b)
             branch == BranchTargetMux(c.branch_target_sel, fd.pc_rdata, dx.rs1_rdata, dx.imm)
             align  == WordAlign(c.mem_width, c.mem_unsigned, add.result, mw.word, dx.rs2_rdata)
             result == ResultMux(c.result_sel, add, Logic(c.logic_op, dx.rs1_rdata, o.b),
                         BarrelShifter(c.shift_right, c.shift_arithmetic, dx.rs1_rdata, o.b))
             written == WDataMux(c.wdata_sel, mw.result, mw.align.rdata)
  <2>1. mw # Empty /\ dx # Empty /\ fd.insn \in Insns /\ fd.insn.opcode \in Opcodes
    BY SlotStates, InsnType DEF DInv, Insns
  <2>2. /\ mw.state = IF \/ c.illegal
                         \/ (~c.illegal /\ Branch(c.branch_op, add)) /\ branch.misaligned
                         \/ (c.mem_load \/ c.mem_store) /\ align.misaligned
                      THEN "TRAP" ELSE "VALID"
        /\ mw.control = c /\ mw.align = align /\ mw.result = result
        /\ mw.word \in Operands \cup {0}
    BY <2>1, AtMem
  <2>3. ISA!Legal(fd.insn) /\ ~((c.mem_load \/ c.mem_store) /\ align.misaligned)
    BY <2>1, <2>2, LegalDecoded
  <2>4. /\ c.rd_wen <=> fd.insn.rd # 0 /\ Op \notin ISA!Silent
        /\ Op \in ISA!Silent <=> fd.insn.opcode \in {"STORE", "BRANCH", "MISC_MEM"}
    BY <2>1, <2>3, Writes DEF Op
  <2>5. c.wdata_sel = IF fd.insn.opcode = "LOAD" THEN "MEM_RDATA" ELSE "ALU_RESULT"
    BY DEF Control
  <2>6. CASE fd.insn.opcode \in {"LUI", "AUIPC", "JAL", "JALR", "OP_IMM", "OP"}
    <3>1. result = ISA!Value(Op, fd.pc_rdata, regs.rs1, Second)
      BY <2>1, <2>3, <2>6, Computed
    <3>2. Op \notin ISA!Loads
      BY <2>1, <2>3, <2>6, OperationOfOpcode DEF Op, ISA!Loads
    <3>3. written = mw.result
      BY <2>5, <2>6 DEF WDataMux
    <3> HIDE DEF c, result, written
    <3>4. written = IF Op \in ISA!Loads THEN ISA!Loaded(Op, DataAddress, mw.word)
                    ELSE ISA!Value(Op, fd.pc_rdata, regs.rs1, Second)
      BY <2>2, <3>1, <3>2, <3>3
    <3> QED
      BY <2>2, <2>4, <3>4 DEF written
  <2>7. CASE fd.insn.opcode = "LOAD"
    <3>1. /\ add.result = DataAddress /\ DataAddress \in Nat
          /\ c.mem_width = WidthOf(Op)
          /\ Op \in ISA!Loads
      BY <2>1, <2>3, <2>7, Addressed
    <3>2. Op \in {"LB", "LH", "LW", "LBU", "LHU", "SB", "SH", "SW"}
      BY <3>1 DEF ISA!Loads
    <3>3. dx.rs2_rdata \in Word /\ mw.word \in Word
      <4>1. 0 \in Word
        BY SMT, Powers DEF Word
      <4> QED
        BY <2>1, <2>2, <4>1, OperandsOfPorts, DatapathAssumption
    <3>4. align = WordAlign(c.mem_width, c.mem_unsigned, DataAddress, mw.word, dx.rs2_rdata)
      BY <3>1
    <3>5. c.mem_load = TRUE
      BY <2>7 DEF Control
    <3>6. DataAddress % ISA!Size(Op) = 0
      <4>1. align.misaligned <=> DataAddress % ISA!Size(Op) # 0
        BY <3>1, <3>2, Misaligning
      <4> HIDE DEF c, align
      <4> QED
        BY <2>3, <3>5, <4>1
    <3>7. c.mem_unsigned \in BOOLEAN /\ (c.mem_unsigned <=> Op \in {"LBU", "LHU"})
      <4> DEFINE f3 == fd.insn.funct3
      <4>1. c.mem_unsigned = (Bit(f3, 2) = 1)
        BY DEF Control
      <4>2. /\ f3 \in {0, 1, 2, 4, 5}
            /\ Op = CASE f3 = 0 -> "LB" [] f3 = 1 -> "LH" [] f3 = 2 -> "LW"
                      [] f3 = 4 -> "LBU" [] f3 = 5 -> "LHU"
        BY <2>1, <2>3, <2>7, OperationOfOpcode DEF Op
      <4>3. Bit(0, 2) # 1 /\ Bit(1, 2) # 1 /\ Bit(2, 2) # 1 /\ Bit(4, 2) = 1 /\ Bit(5, 2) = 1
        BY DEF Bit
      <4> HIDE DEF c, f3
      <4>4. Bit(f3, 2) = 1 <=> Op \in {"LBU", "LHU"}
        BY <4>2, <4>3
      <4> QED
        BY <4>1, <4>4, Zenon
    <3> HIDE DEF c
    <3>8. align.rdata = ISA!Loaded(Op, DataAddress, mw.word)
      <4>1. WordAlign(c.mem_width, c.mem_unsigned, DataAddress, mw.word, dx.rs2_rdata).rdata =
              ISA!Loaded(Op, DataAddress, mw.word)
        BY <3>1, <3>3, <3>6, <3>7, Loading
      <4> HIDE DEF align
      <4> QED
        BY <3>4, <4>1
    <3>9. written = mw.align.rdata
      BY <2>5, <2>7 DEF WDataMux
    <3> HIDE DEF align, written
    <3>10. written = IF Op \in ISA!Loads THEN ISA!Loaded(Op, DataAddress, mw.word)
                     ELSE ISA!Value(Op, fd.pc_rdata, regs.rs1, Second)
      BY <2>2, <3>1, <3>8, <3>9
    <3> QED
      BY <2>2, <2>4, <3>10 DEF written
  <2>8. CASE fd.insn.opcode \in {"STORE", "BRANCH", "MISC_MEM"}
    <3> HIDE DEF c
    <3> QED
      BY <2>2, <2>4, <2>8
  <2>9. fd.insn.opcode \notin {"SYSTEM", "UNKNOWN"}
    BY <2>1, <2>3, LegalByOpcode
  <2> QED
    BY <2>1, <2>6, <2>7, <2>8, <2>9, Formats
<1> QED
  BY <1>1, DInvariant, PTL

=============================================================================
