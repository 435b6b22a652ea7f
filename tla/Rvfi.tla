-------------------------------- MODULE Rvfi --------------------------------
(***************************************************************************)
(* The RISC-V Formal Interface of the core (icicle/writeback.py, rvfi.py): *)
(* a port on which writeback reports each instruction as it leaves the     *)
(* pipeline.  Whoever watches the port must be able to follow the program  *)
(* from the reports alone; this module adds such an observer and compares  *)
(* what it has seen with module Isa.                                       *)
(*                                                                         *)
(* Of a memory access the report gives the address, whether the word was   *)
(* read or written, what a read found and what a write left: the masks and *)
(* lanes of a narrow access are the units' affair.  The serial number of a *)
(* report and its constant fields are left out.                            *)
(***************************************************************************)
EXTENDS CoreIsa

VARIABLES
  mw_rvfi,  \* what the register before writeback holds for the report only
  rvfi,     \* the report
  seen      \* the observer: the program as the reports tell it

rvfiVars == <<ivars, mw_rvfi, rvfi, seen>>

NextPCTrapFirst ==
  IF MemTrap THEN TrapVector
  ELSE IF xm.state = "VALID" /\ BranchTrue THEN Target(xm.insn, xm.pc, xm.rs1_rdata)
  ELSE Plus4(xm.pc)

NextPCFaultIgnored ==
  IF xm.state = "VALID" /\ BranchTrue THEN Target(xm.insn, xm.pc, xm.rs1_rdata)
  ELSE IF xm.state = "TRAP" THEN TrapVector
  ELSE Plus4(xm.pc)

NextPC ==
  IF xm.state = "VALID" /\ BranchTrue THEN Target(xm.insn, xm.pc, xm.rs1_rdata)
  ELSE IF MemTrap THEN TrapVector
  ELSE Plus4(xm.pc)

MemEdgeRvfi ==
  mw_rvfi' =
    IF MemStall THEN mw_rvfi
    ELSE [pc |-> xm.pc, pc_wdata |-> NextPC,
          rs1_rdata |-> xm.rs1_rdata, rs2_rdata |-> xm.rs2_rdata,
          mem_addr |-> DataAddr(xm.insn, xm.rs1_rdata),
          mem_rdata |-> DbusWord,
          mem_wdata |-> StoreData(xm.insn, xm.rs1_rdata, DbusWord, xm.rs2_rdata),
          mem_fault |-> xm.mem_fault \/ DbusTrap]

\* An operand is reported as x0, which is zero, if the instruction reads none.
Operand(ren, addr, data) == [addr |-> IF ren THEN addr ELSE X0,
                             data |-> IF ren THEN data ELSE Zero]

WritesRdTrapsToo == Control(mw.insn).rd_wen

WritesRd == mw.state = "VALID" /\ Control(mw.insn).rd_wen

Loads == mw.state = "VALID" /\ Control(mw.insn).mem_load

Stores == mw.state = "VALID" /\ Control(mw.insn).mem_store

\* What did not happen is reported as zero.
Report ==
  LET c == Control(mw.insn) IN
  [valid |-> TRUE, insn |-> mw.insn, trap |-> mw.state = "TRAP",
   rs1 |-> Operand(c.rs1_ren, c.rs1, mw_rvfi.rs1_rdata),
   rs2 |-> Operand(c.rs2_ren, c.rs2, mw_rvfi.rs2_rdata),
   rd |-> Operand(WritesRd, c.rd, mw.wdata),
   pc_rdata |-> mw_rvfi.pc, pc_wdata |-> mw_rvfi.pc_wdata,
   mem_read |-> Loads, mem_write |-> Stores,
   mem_addr |-> IF Loads \/ Stores THEN mw_rvfi.mem_addr ELSE 0,
   mem_rdata |-> IF Loads THEN mw_rvfi.mem_rdata ELSE Zero,
   mem_wdata |-> IF Stores THEN mw_rvfi.mem_wdata ELSE Zero,
   mem_fault |-> mw_rvfi.mem_fault]

NextReportValidOnly == IF mw.state = "VALID" THEN Report ELSE [rvfi EXCEPT !.valid = FALSE]

NextReport == IF mw.state # "BUBBLE" THEN Report ELSE [rvfi EXCEPT !.valid = FALSE]

WritebackEdgeRvfi == rvfi' = NextReport

\* What the observer knows after report r, which tells it what the instruction
\* did, and nothing else.
Observed(r) ==
  LET memory1 == IF r.mem_write THEN [seen.memory EXCEPT ![r.mem_addr] = r.mem_wdata]
                 ELSE seen.memory
      fence == ~r.trap /\ Control(r.insn).fence_i
  IN
  IF ~r.valid THEN seen
  ELSE [pc |-> r.pc_wdata,
        regs |-> IF r.rd.addr = X0 THEN seen.regs
                 ELSE [seen.regs EXCEPT ![r.rd.addr] = r.rd.data],
        memory |-> memory1,
        visible |-> [p \in PC |-> IF fence THEN {memory1[p]}
                                  ELSE seen.visible[p] \union {memory1[p]}]]

Observe == seen' = Observed(rvfi')

RInit ==
  /\ IInit
  /\ mw_rvfi = [pc |-> 0, pc_wdata |-> 0, rs1_rdata |-> Zero, rs2_rdata |-> Zero,
                mem_addr |-> 0, mem_rdata |-> Zero, mem_wdata |-> Zero, mem_fault |-> FALSE]
  /\ rvfi = [valid |-> FALSE, insn |-> Zero, trap |-> FALSE,
             rs1 |-> Operand(FALSE, X0, Zero), rs2 |-> Operand(FALSE, X0, Zero),
             rd |-> Operand(FALSE, X0, Zero), pc_rdata |-> 0, pc_wdata |-> 0,
             mem_read |-> FALSE, mem_write |-> FALSE, mem_addr |-> 0,
             mem_rdata |-> Zero, mem_wdata |-> Zero, mem_fault |-> FALSE]
  /\ seen = [pc |-> ResetVector, regs |-> regs, memory |-> memory,
             visible |-> [p \in PC |-> {memory[p]}]]

RNext == INext /\ MemEdgeRvfi /\ WritebackEdgeRvfi /\ Observe

RSpec == RInit /\ [][RNext]_rvfiVars

Seen == INSTANCE Isa WITH pc <- seen.pc, regs <- seen.regs,
                          memory <- seen.memory, visible <- seen.visible

(***************************************************************************)
(* The inductive invariant, part by part, over that of module CoreIsa.     *)
(***************************************************************************)

View == [pc |-> OldestPC, regs |-> WrittenRegs, memory |-> memory, visible |-> visible]

Views == [pc : PC, regs : [Reg -> Word], memory : [Addr -> Word], visible : [PC -> SUBSET Word]]

Operands == [addr : Reg, data : Word]

RTypeOK ==
  /\ mw_rvfi \in [pc : PC, pc_wdata : PC, rs1_rdata : Word, rs2_rdata : Word, mem_addr : Addr,
                  mem_rdata : Word, mem_wdata : Word, mem_fault : BOOLEAN]
  /\ rvfi \in [valid : BOOLEAN, insn : Word, trap : BOOLEAN,
               rs1 : Operands, rs2 : Operands, rd : Operands, pc_rdata : PC, pc_wdata : PC,
               mem_read : BOOLEAN, mem_write : BOOLEAN, mem_addr : Addr,
               mem_rdata : Word, mem_wdata : Word, mem_fault : BOOLEAN]
  /\ seen \in Views

\* The observer is one report behind what the program sees.
OneBehind == Observed(NextReport) = View

\* What slot s has read is what the registers hold, if it is going to trap too.
HasRead(s) ==
  LET c == Control(s.insn) IN
  Full(s) =>
    /\ c.rs1_ren => s.rs1_rdata = WrittenRegs[c.rs1]
    /\ c.rs2_ren => s.rs2_rdata = WrittenRegs[c.rs2]

(* A trap is reported with the operands that it has read, so that it must  *)
(* have waited for them in decode as an instruction does.                  *)
TrapsReadToo ==
  /\ fd.state = "TRAP" => fd.insn = Zero
  /\ HasRead(dx) /\ HasRead(xm)
  /\ Full(dx) /\ xm.state = "VALID" /\ Control(xm.insn).rd_wen =>
       ~Reads(dx.insn, Control(xm.insn).rd)
  /\ WrittenRegs[X0] = Zero /\ seen.regs[X0] = Zero

\* Before mem, a trap is a fault or no instruction.
TrapsHaveCauses ==
  /\ fd.state = "VALID" => ~fd.mem_fault
  /\ fd.state = "TRAP" => fd.mem_fault
  /\ \A s \in {dx, xm} :
       /\ s.state = "VALID" => ~s.mem_fault
       /\ s.state = "TRAP" => s.mem_fault \/ Control(s.insn).illegal

\* w branches or jumps to an address off a word boundary.
Misses(w, p, a, b) == Taken(w, p, a, b) /\ TargetMisaligned(w, p, a)

\* The instruction in writeback is the next that the observer hears of.
AboutToReport ==
  LET c == Control(mw.insn) IN
  Full(mw) =>
    /\ mw_rvfi.pc = seen.pc
    /\ c.rs1_ren => mw_rvfi.rs1_rdata = seen.regs[c.rs1]
    /\ c.rs2_ren => mw_rvfi.rs2_rdata = seen.regs[c.rs2]
    /\ mw.state = "VALID" /\ c.mem_load => mw_rvfi.mem_rdata = seen.memory[mw_rvfi.mem_addr]
    /\ mw.state = "TRAP" <=>
         \/ mw_rvfi.mem_fault \/ c.illegal
         \/ Misses(mw.insn, mw_rvfi.pc, IF c.rs1_ren THEN mw_rvfi.rs1_rdata ELSE Zero,
                                        IF c.rs2_ren THEN mw_rvfi.rs2_rdata ELSE Zero)

RInv == RTypeOK /\ OneBehind /\ TrapsReadToo /\ TrapsHaveCauses /\ AboutToReport

(***************************************************************************)
(* Properties.                                                             *)
(***************************************************************************)

(* What the reports say, one after the other, is a run of module Isa: none *)
(* is missing, repeated or out of order, none describes an instruction     *)
(* that was flushed, and none claims an effect of an instruction that      *)
(* trapped (writeback.py 30-56; the insn, unique and causal checks of      *)
(* checks.cfg).                                                            *)
ReportsAreARun == Seen!Spec

(* Each report starts where the one before it said that the program would  *)
(* go, and read the registers and memory that the reports before it left   *)
(* (the pc_fwd, pc_bwd, reg and bus_dmem checks of checks.cfg).            *)
ReportsAgree ==
  [][rvfi'.valid =>
       LET r == rvfi' IN
       /\ r.pc_rdata = seen.pc
       /\ r.rs1.data = seen.regs[r.rs1.addr]
       /\ r.rs2.data = seen.regs[r.rs2.addr]
       /\ r.mem_read => r.mem_rdata = seen.memory[r.mem_addr]]_rvfiVars

(* The report of a trap claims no effect, and a trap is reported exactly   *)
(* when the report itself shows why: a fault, no instruction, or a branch  *)
(* or jump, as the operands reported take it, to an address off a word     *)
(* boundary (fetch.py 28-29, mem.py 38, 69).                               *)
FaultsAreReported ==
  rvfi.valid =>
    /\ rvfi.trap => rvfi.rd.addr = X0 /\ ~rvfi.mem_read /\ ~rvfi.mem_write
    /\ rvfi.trap <=>
         \/ rvfi.mem_fault \/ Control(rvfi.insn).illegal
         \/ Misses(rvfi.insn, rvfi.pc_rdata, rvfi.rs1.data, rvfi.rs2.data)

=============================================================================
