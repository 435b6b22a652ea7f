---------------------------- MODULE Instructions ----------------------------
(***************************************************************************)
(* What one instruction means, as parameters.  The operators below are the *)
(* contract of the decoder and of the execution units (control.py, alu.py, *)
(* branch.py, loadstore.py), which are combinational: each is a function   *)
(* of the instruction word, its address and its operands.  Module Isa, the *)
(* promise to the program, and module Core, the pipeline, take the same    *)
(* parameters, so that the two differ in the order in which things happen  *)
(* and in nothing else.                                                    *)
(***************************************************************************)
EXTENDS Integers

CONSTANTS
  Word,        \* the 32-bit words: register values, memory contents, instructions
  Zero,        \* the word 0
  Reg,         \* the registers
  X0,          \* register x0
  NPC,         \* the number of instruction addresses
  Addr,        \* the word addresses of memory
  ResetVector, \* where the program starts
  TrapVector,  \* where it continues after a trap
  Answers      \* how a bus may end a request: "ack" and, if it can fail, "err"

CONSTANTS
  Control(_),              \* the control signals the decoder derives from an instruction
  Result(_, _, _, _),      \* the ALU result, of instruction, pc, rs1 and rs2
  Taken(_, _, _, _),       \* does it branch or jump? of instruction, pc, rs1 and rs2
  Target(_, _, _),         \* where to, of instruction, pc and rs1, rounded down to a word
  TargetMisaligned(_, _, _), \* was the target not on a word boundary?
  DataAddr(_, _),          \* the word a load or store accesses, of instruction and rs1
  DataMisaligned(_, _),    \* is the access across its natural boundary?
  LoadData(_, _, _),       \* the value a load extracts, of instruction, rs1 and word
  StoreData(_, _, _, _)    \* the word a store leaves, of instruction, rs1, old word and rs2

\* Instruction addresses, counted in words.
PC == 0 .. NPC - 1

Plus4NoWrap(p) == p + 1

\* The address after p.  Addresses wrap around at the end of the address space.
Plus4(p) == IF p = NPC - 1 THEN 0 ELSE p + 1

ControlSignals ==
  [rd : Reg, rd_wen : BOOLEAN, rs1 : Reg, rs1_ren : BOOLEAN, rs2 : Reg, rs2_ren : BOOLEAN,
   mem_load : BOOLEAN, mem_store : BOOLEAN, fence_i : BOOLEAN, illegal : BOOLEAN]

IsMemory(w) == Control(w).mem_load \/ Control(w).mem_store

ASSUME AddressAssumption ==
  /\ NPC \in Nat \ {0}
  /\ PC \subseteq Addr
  /\ ResetVector \in PC /\ TrapVector \in PC
  /\ Zero \in Word /\ X0 \in Reg
  /\ "ack" \in Answers /\ Answers \subseteq {"ack", "err"}

ASSUME UnitsAssumption ==
  \A w \in Word, p \in PC, a, b, d \in Word :
    /\ Control(w) \in ControlSignals
    /\ Result(w, p, a, b) \in Word
    /\ Taken(w, p, a, b) \in BOOLEAN
    /\ Target(w, p, a) \in PC
    /\ TargetMisaligned(w, p, a) \in BOOLEAN
    /\ DataAddr(w, a) \in Addr
    /\ DataMisaligned(w, a) \in BOOLEAN
    /\ LoadData(w, a, d) \in Word
    /\ StoreData(w, a, d, b) \in Word

(* What the decoder guarantees of any word (control.py): it never enables  *)
(* a write of x0 nor a read of it, a load, a store and FENCE.I are         *)
(* different instructions that do not branch, and only a load among them   *)
(* writes a register.  The word 0, which stands in for a fetch that        *)
(* failed, is not an instruction and names no register but x0.             *)
ASSUME DecoderAssumption ==
  /\ Control(Zero).illegal /\ ~Control(Zero).rs1_ren /\ ~Control(Zero).rs2_ren
  /\ \A w \in Word :
       LET c == Control(w) IN
       /\ c.rd_wen => c.rd # X0
       /\ c.rs1_ren => c.rs1 # X0
       /\ c.rs2_ren => c.rs2 # X0
       /\ ~(c.mem_load /\ c.mem_store)
       /\ c.mem_store \/ c.fence_i => ~c.rd_wen
       /\ c.fence_i => ~IsMemory(w)
       /\ IsMemory(w) \/ c.fence_i =>
            \A p \in PC, a, b \in Word : ~Taken(w, p, a, b)

(* An operand whose read the decoder does not enable is either x0 or not   *)
(* used: the units ignore what its register port happens to hold.          *)
ASSUME OperandAssumption ==
  \A w \in Word :
    LET c == Control(w) IN
    ~c.illegal =>
      /\ ~c.rs1_ren /\ c.rs1 # X0 =>
           \A p \in PC, a, a2, b, d \in Word :
             /\ Result(w, p, a, b) = Result(w, p, a2, b)
             /\ Taken(w, p, a, b) = Taken(w, p, a2, b)
             /\ Target(w, p, a) = Target(w, p, a2)
             /\ TargetMisaligned(w, p, a) = TargetMisaligned(w, p, a2)
             /\ DataAddr(w, a) = DataAddr(w, a2)
             /\ DataMisaligned(w, a) = DataMisaligned(w, a2)
             /\ LoadData(w, a, d) = LoadData(w, a2, d)
             /\ StoreData(w, a, d, b) = StoreData(w, a2, d, b)
      /\ ~c.rs2_ren /\ c.rs2 # X0 =>
           \A p \in PC, a, b, b2, d \in Word :
             /\ Result(w, p, a, b) = Result(w, p, a, b2)
             /\ Taken(w, p, a, b) = Taken(w, p, a, b2)
             /\ StoreData(w, a, d, b) = StoreData(w, a, d, b2)

=============================================================================
