-------------------------------- MODULE Units -------------------------------
(***************************************************************************)
(* The combinational units of the execute and memory stages (alu.py,       *)
(* adder.py, logic.py, shift.py, branch.py, loadstore.py, wdata.py).  A    *)
(* word has four bytes, as in the code, of ByteWidth bits instead of       *)
(* eight; it is a number below 2^Width.                                    *)
(***************************************************************************)
EXTENDS Decoder

CONSTANT ByteWidth

Width == 4 * ByteWidth

Word == 0 .. 2 ^ Width - 1

Wrap(n) == n % 2 ^ Width

Places == 0 .. Width - 1

\* The word whose bits are 1 in the given places.
Number ==
  [ones \in SUBSET Places |-> CHOOSE n \in Word : \A i \in Places : Bit(n, i) = 1 <=> i \in ones]

ASSUME ByteWidthAssumption == ByteWidth \in Nat \ {0}

OperandMux(a_sel, b_sel, pc, rs1, rs2, imm) ==
  [a |-> CASE a_sel = "RS1" -> rs1 [] a_sel = "PC" -> pc [] a_sel = "ZERO" -> 0,
   b |-> CASE b_sel = "RS2" -> rs2 [] b_sel = "IMM" -> imm [] b_sel = "FOUR" -> 4]

FlipSign(n) == Wrap(n + 2 ^ (Width - 1))

\* The sum or difference, with the carry or borrow above it.  A signed
\* comparison is an unsigned one of the operands with their signs inverted.
Adder(sub, signed_compare, a, b) ==
  LET x   == IF signed_compare THEN FlipSign(a) ELSE a
      y   == IF signed_compare THEN FlipSign(b) ELSE b
      sum == (IF sub THEN x - y ELSE x + y) % 2 ^ (Width + 1)
  IN [result |-> Wrap(sum), carry |-> sum \div 2 ^ Width = 1]

\* The operations have the code of the last two bits of funct3, and no unit has 1.
Gate(op, p, q) == CASE op = 0 -> p # q [] op = 2 -> p \/ q [] op = 3 -> p /\ q [] OTHER -> FALSE

Logic(op, a, b) ==
  Number[{ i \in Places : Gate(op, Bit(a, i) = 1, Bit(b, i) = 1) }]

Reverse(n) == Number[{ i \in Places : Bit(n, Width - 1 - i) = 1 }]

\* A left shift is the right shift of the reversed word, reversed.  The shift
\* amount is cut to the bits that count below Width.
BarrelShifter(right, arithmetic, a, shamt) ==
  LET x       == IF right THEN a ELSE Reverse(a)
      signed  == IF arithmetic /\ Bit(x, Width - 1) = 1 THEN x - 2 ^ Width ELSE x
      shifted == Wrap(signed \div 2 ^ (shamt % Width))
  IN IF right THEN shifted ELSE Reverse(shifted)

ResultMux(sel, add, logic_result, shift_result) ==
  CASE sel = "ADDER" -> add.result
    [] sel = "SLT"   -> IF add.carry THEN 1 ELSE 0
    [] sel = "LOGIC" -> logic_result
    [] sel = "SHIFT" -> shift_result

BranchTargetMuxAnyLowBit(sel, pc, rs1, imm) ==
  LET target == Wrap((IF sel = "PC" THEN pc ELSE rs1) + imm)
  IN [target |-> 4 * (target \div 4), misaligned |-> target % 4 # 0]

BranchTargetMux(sel, pc, rs1, imm) ==
  LET target == Wrap((IF sel = "PC" THEN pc ELSE rs1) + imm)
  IN [target |-> 4 * (target \div 4), misaligned |-> Bit(target, 1) = 1]

Branch(op, add) ==
  CASE op = "NEVER" -> FALSE
    [] op = "ALWAYS" -> TRUE
    [] op = "EQ" -> add.result = 0
    [] op = "NE" -> add.result # 0
    [] op = "LT" -> add.carry
    [] op = "GE" -> ~add.carry

\* The low bits of a word, with the top one of them repeated above.
Extend(n, bits, unsigned) ==
  LET low == n % 2 ^ bits
  IN IF ~unsigned /\ Bit(low, bits - 1) = 1 THEN low + 2 ^ Width - 2 ^ bits ELSE low

Byte == 0

Half == 1

WordWide == 2

WordAlignHalfMask(width, unsigned, addr, rdata_aligned, wdata) ==
  LET offset == addr % 4
      shift  == IF width = Byte THEN offset * ByteWidth
                ELSE IF width = Half THEN Bit(offset, 1) * 2 * ByteWidth ELSE 0
  IN [addr_aligned |-> addr - offset,
      misaligned |-> (width = Half /\ offset % 2 # 0) \/ (width = WordWide /\ offset # 0),
      mask |-> IF width = WordWide THEN 0 .. 3 ELSE {offset},
      wdata_aligned |-> Wrap(wdata * 2 ^ shift),
      rdata |-> IF width = WordWide THEN rdata_aligned
                ELSE Extend(rdata_aligned \div 2 ^ shift, ByteWidth * (1 + width), unsigned)]

\* The lanes of the aligned word that an access of the given width selects, the
\* word to store in them, and the value that a load extracts from them.
WordAlign(width, unsigned, addr, rdata_aligned, wdata) ==
  LET offset == addr % 4
      shift  == CASE width = Byte -> offset * ByteWidth
                  [] width = Half -> Bit(offset, 1) * 2 * ByteWidth
                  [] OTHER        -> 0
  IN [addr_aligned |-> addr - offset,
      misaligned |-> (width = Half /\ offset % 2 # 0) \/ (width = WordWide /\ offset # 0),
      mask |-> CASE width = Byte -> {offset}
                 [] width = Half -> (offset .. offset + 1) \cap (0 .. 3)
                 [] width = WordWide -> 0 .. 3
                 [] OTHER -> {},
      wdata_aligned |-> IF width > WordWide THEN 0 ELSE Wrap(wdata * 2 ^ shift),
      rdata |-> CASE width = Byte -> Extend(rdata_aligned \div 2 ^ shift, ByteWidth, unsigned)
                  [] width = Half -> Extend(rdata_aligned \div 2 ^ shift, 2 * ByteWidth, unsigned)
                  [] width = WordWide -> rdata_aligned
                  [] OTHER -> 0]

WDataMux(sel, result, mem_rdata) == IF sel = "MEM_RDATA" THEN mem_rdata ELSE result

=============================================================================
