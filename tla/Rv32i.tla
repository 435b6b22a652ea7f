-------------------------------- MODULE Rv32i -------------------------------
(***************************************************************************)
(* The instructions Icicle has, by what they compute: those of RV32I, which*)
(* README.md names, but for ECALL and EBREAK, which control.py treats as   *)
(* any other illegal word, and FENCE.I.  This is the reference that module *)
(* Datapath is held against.  It is written over values and bytes, with    *)
(* none of the sharing of adder, shifter and aligner that the code has.    *)
(* A word has four bytes of ByteWidth bits.                                *)
(***************************************************************************)
EXTENDS Integers

CONSTANT ByteWidth

Bits == 0 .. 4 * ByteWidth - 1

Modulo(n) == n % 2 ^ (4 * ByteWidth)

IsSet(n, i) == (n \div 2 ^ i) % 2 = 1

Signed(n, bits) == IF IsSet(n, bits - 1) THEN n - 2 ^ bits ELSE n

\* The number whose bits are set in the given places.
FromBits ==
  [ones \in SUBSET Bits |->
     CHOOSE n \in 0 .. 2 ^ (4 * ByteWidth) - 1 : \A i \in Bits : IsSet(n, i) <=> i \in ones]

Funct3 == 0 .. 7

Funct7 == 0 .. 127

\* The opcode, funct3 and funct7 of every instruction, and its operation.
Instructions == {
  <<"LUI", Funct3, Funct7, "LUI">>, <<"AUIPC", Funct3, Funct7, "AUIPC">>,
  <<"JAL", Funct3, Funct7, "JAL">>, <<"JALR", {0}, Funct7, "JALR">>,
  <<"BRANCH", {0}, Funct7, "BEQ">>, <<"BRANCH", {1}, Funct7, "BNE">>,
  <<"BRANCH", {4}, Funct7, "BLT">>, <<"BRANCH", {5}, Funct7, "BGE">>,
  <<"BRANCH", {6}, Funct7, "BLTU">>, <<"BRANCH", {7}, Funct7, "BGEU">>,
  <<"LOAD", {0}, Funct7, "LB">>, <<"LOAD", {1}, Funct7, "LH">>, <<"LOAD", {2}, Funct7, "LW">>,
  <<"LOAD", {4}, Funct7, "LBU">>, <<"LOAD", {5}, Funct7, "LHU">>,
  <<"STORE", {0}, Funct7, "SB">>, <<"STORE", {1}, Funct7, "SH">>, <<"STORE", {2}, Funct7, "SW">>,
  <<"OP_IMM", {0}, Funct7, "ADD">>, <<"OP", {0}, {0}, "ADD">>, <<"OP", {0}, {32}, "SUB">>,
  <<"OP_IMM", {2}, Funct7, "SLT">>, <<"OP", {2}, {0}, "SLT">>,
  <<"OP_IMM", {3}, Funct7, "SLTU">>, <<"OP", {3}, {0}, "SLTU">>,
  <<"OP_IMM", {4}, Funct7, "XOR">>, <<"OP", {4}, {0}, "XOR">>,
  <<"OP_IMM", {6}, Funct7, "OR">>, <<"OP", {6}, {0}, "OR">>,
  <<"OP_IMM", {7}, Funct7, "AND">>, <<"OP", {7}, {0}, "AND">>,
  <<"OP_IMM", {1}, {0}, "SLL">>, <<"OP", {1}, {0}, "SLL">>,
  <<"OP_IMM", {5}, {0}, "SRL">>, <<"OP", {5}, {0}, "SRL">>,
  <<"OP_IMM", {5}, {32}, "SRA">>, <<"OP", {5}, {32}, "SRA">>,
  <<"MISC_MEM", {0}, Funct7, "FENCE">>, <<"MISC_MEM", {1}, Funct7, "FENCE_I">> }

Encodes(i, insn) == insn.opcode = i[1] /\ insn.funct3 \in i[2] /\ insn.funct7 \in i[3]

Legal(insn) == \E i \in Instructions : Encodes(i, insn)

Operation(insn) == (CHOOSE i \in Instructions : Encodes(i, insn))[4]

Loads == {"LB", "LH", "LW", "LBU", "LHU"}

Stores == {"SB", "SH", "SW"}

Branches == {"BEQ", "BNE", "BLT", "BGE", "BLTU", "BGEU"}

\* The operations that have no result.
Silent == Stores \cup Branches \cup {"FENCE", "FENCE_I"}

Size(op) == CASE op \in {"LB", "LBU", "SB"} -> 1 [] op \in {"LH", "LHU", "SH"} -> 2 [] OTHER -> 4

ByteAt(word, k) == (word \div 2 ^ (k * ByteWidth)) % 2 ^ ByteWidth

\* The number with the given bytes, from the lowest.
FromBytes(b) ==
  b[0] + b[1] * 2 ^ ByteWidth + b[2] * 2 ^ (2 * ByteWidth) + b[3] * 2 ^ (3 * ByteWidth)

\* The number that the size bytes of word from byte k on make.
Bytes(word, k, size) ==
  FromBytes([i \in 0 .. 3 |-> IF i < size THEN ByteAt(word, k + i) ELSE 0])

Loaded(op, addr, word) ==
  LET n == Bytes(word, addr % 4, Size(op))
  IN IF op \in {"LB", "LH"} THEN Modulo(Signed(n, Size(op) * ByteWidth)) ELSE n

\* The word after a store: each byte of value in its place, the others as before.
Stored(op, addr, word, value) ==
  LET k == addr % 4
  IN FromBytes([i \in 0 .. 3 |-> IF i \in k .. k + Size(op) - 1 THEN ByteAt(value, i - k)
                                 ELSE ByteAt(word, i)])

\* The result of an operation on x = rs1 and y = rs2 or the immediate.
Value(op, pc, x, y) ==
  LET bits == 4 * ByteWidth
      shamt == y % bits
  IN CASE op = "LUI"   -> y
       [] op = "AUIPC" -> Modulo(pc + y)
       [] op \in {"JAL", "JALR"} -> Modulo(pc + 4)
       [] op = "ADD"   -> Modulo(x + y)
       [] op = "SUB"   -> Modulo(x - y)
       [] op = "SLT"   -> IF Signed(x, bits) < Signed(y, bits) THEN 1 ELSE 0
       [] op = "SLTU"  -> IF x < y THEN 1 ELSE 0
       [] op = "XOR"   -> FromBits[{ i \in Bits : IsSet(x, i) # IsSet(y, i) }]
       [] op = "OR"    -> FromBits[{ i \in Bits : IsSet(x, i) \/ IsSet(y, i) }]
       [] op = "AND"   -> FromBits[{ i \in Bits : IsSet(x, i) /\ IsSet(y, i) }]
       [] op = "SLL"   -> Modulo(x * 2 ^ shamt)
       [] op = "SRL"   -> x \div 2 ^ shamt
       [] op = "SRA"   -> Modulo(Signed(x, bits) \div 2 ^ shamt)

Jumps(op, x, y) ==
  LET bits == 4 * ByteWidth
  IN CASE op \in {"JAL", "JALR"} -> TRUE
       [] op = "BEQ"  -> x = y
       [] op = "BNE"  -> x # y
       [] op = "BLT"  -> Signed(x, bits) < Signed(y, bits)
       [] op = "BGE"  -> Signed(x, bits) >= Signed(y, bits)
       [] op = "BLTU" -> x < y
       [] op = "BGEU" -> x >= y
       [] OTHER       -> FALSE

\* The target of a jump or branch.  JALR clears its last bit.
Destination(op, pc, x, imm) ==
  IF op = "JALR" THEN 2 * (Modulo(x + imm) \div 2) ELSE Modulo(pc + imm)

\* The bits of the instruction in which a format keeps bit i of its immediate:
\* imm[11:0] for format I, imm[4:0] and imm[11:5] for S and so on.
ImmediateBits(fmt) ==
  CASE fmt = "R" -> {}
    [] fmt = "I" -> { <<b, b - 20>> : b \in 20 .. 31 }
    [] fmt = "S" -> { <<b, b - 7>> : b \in 7 .. 11 } \cup { <<b, b - 20>> : b \in 25 .. 31 }
    [] fmt = "B" -> { <<7, 11>>, <<31, 12>> } \cup { <<b, b - 7>> : b \in 8 .. 11 }
                      \cup { <<b, b - 20>> : b \in 25 .. 30 }
    [] fmt = "U" -> { <<b, b>> : b \in 12 .. 31 }
    [] fmt = "J" -> { <<20, 11>>, <<31, 20>> } \cup { <<b, b - 20>> : b \in 21 .. 30 }
                      \cup { <<b, b>> : b \in 12 .. 19 }

=============================================================================
