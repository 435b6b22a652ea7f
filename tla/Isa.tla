-------------------------------- MODULE Isa --------------------------------
(***************************************************************************)
(* What the core promises a program: one instruction at a time, each       *)
(* reading the registers and the memory that the ones before it left.      *)
(* There is no pipeline here, no stall, no flush and no bus cycle.         *)
(*                                                                         *)
(* Memory is shared by instructions and data.  A fetch may return any word *)
(* its address has held since the last FENCE.I, so visible[p] is the set   *)
(* of words that a fetch from p may still see.                             *)
(***************************************************************************)
EXTENDS Instructions

VARIABLES
  pc,       \* the address of the next instruction
  regs,     \* the registers
  memory,   \* the memory
  visible   \* for each instruction address, the words a fetch may return

isaVars == <<pc, regs, memory, visible>>

Init ==
  /\ pc = ResetVector
  /\ regs = [r \in Reg |-> Zero]
  /\ memory \in [Addr -> Word]
  /\ visible = [p \in PC |-> {memory[p]}]

WriteReg(c, v) == regs' = IF c.rd_wen THEN [regs EXCEPT ![c.rd] = v] ELSE regs

Rs1(w) == regs[Control(w).rs1]
Rs2(w) == regs[Control(w).rs2]

Legal(w) == w \in visible[pc] /\ ~Control(w).illegal

\* Every address keeps what it showed, and shows what memory holds now.
SeeStores == visible' = [p \in PC |-> visible[p] \union {memory'[p]}]

\* The instruction bus answers with an error.
FetchTrap ==
  /\ "err" \in Answers
  /\ pc' = TrapVector
  /\ UNCHANGED <<regs, memory, visible>>

IllegalTrap(w) ==
  /\ w \in visible[pc]
  /\ Control(w).illegal
  /\ pc' = TrapVector
  /\ UNCHANGED <<regs, memory, visible>>

Compute(w) ==
  /\ Legal(w) /\ ~IsMemory(w) /\ ~Control(w).fence_i
  /\ ~Taken(w, pc, Rs1(w), Rs2(w))
  /\ WriteReg(Control(w), Result(w, pc, Rs1(w), Rs2(w)))
  /\ pc' = Plus4(pc)
  /\ UNCHANGED <<memory, visible>>

\* A branch or jump to a misaligned address is a trap: it links no register.
\* The core continues at the target rounded down, not at TrapVector.
Jump(w) ==
  /\ Legal(w) /\ ~IsMemory(w) /\ ~Control(w).fence_i
  /\ Taken(w, pc, Rs1(w), Rs2(w))
  /\ IF TargetMisaligned(w, pc, Rs1(w))
       THEN UNCHANGED regs
       ELSE WriteReg(Control(w), Result(w, pc, Rs1(w), Rs2(w)))
  /\ pc' = Target(w, pc, Rs1(w))
  /\ UNCHANGED <<memory, visible>>

Load(w) ==
  /\ Legal(w) /\ Control(w).mem_load
  /\ ~DataMisaligned(w, Rs1(w))
  /\ WriteReg(Control(w), LoadData(w, Rs1(w), memory[DataAddr(w, Rs1(w))]))
  /\ pc' = Plus4(pc)
  /\ UNCHANGED <<memory, visible>>

Store(w) ==
  /\ Legal(w) /\ Control(w).mem_store
  /\ ~DataMisaligned(w, Rs1(w))
  /\ LET x == DataAddr(w, Rs1(w)) IN
       memory' = [memory EXCEPT ![x] = StoreData(w, Rs1(w), memory[x], Rs2(w))]
  /\ SeeStores
  /\ pc' = Plus4(pc)
  /\ UNCHANGED regs

\* A load or store is misaligned, or the data bus answers with an error.
DataTrap(w) ==
  /\ Legal(w) /\ IsMemory(w)
  /\ DataMisaligned(w, Rs1(w)) \/ "err" \in Answers
  /\ pc' = TrapVector
  /\ UNCHANGED <<regs, memory, visible>>

FenceI(w) ==
  /\ Legal(w) /\ Control(w).fence_i
  /\ visible' = [p \in PC |-> {memory[p]}]
  /\ pc' = Plus4(pc)
  /\ UNCHANGED <<regs, memory>>

Next ==
  \/ FetchTrap
  \/ \E w \in Word :
       IllegalTrap(w) \/ Compute(w) \/ Jump(w) \/ Load(w) \/ Store(w) \/ DataTrap(w) \/ FenceI(w)

Spec == Init /\ [][Next]_isaVars

=============================================================================
