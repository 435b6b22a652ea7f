-------------------------------- MODULE Core --------------------------------
(***************************************************************************)
(* The Icicle core (icicle/cpu.py): six pipeline stages between two        *)
(* Wishbone buses and a register file.  One step of the specification is   *)
(* one clock cycle.  Everything combinational is a state function, named   *)
(* for the signal it stands for and its stage; everything clocked is a     *)
(* variable, and what one stage does to its register at the clock edge is  *)
(* one ...Edge action.                                                     *)
(*                                                                         *)
(*   pcgen -pf-> fetch -fd-> decode -dx-> execute -xm-> mem -mw-> writeback*)
(*                                                                         *)
(* The control signals that travel down the pipeline are a function of the *)
(* instruction word latched beside them, so the word stands for them; the  *)
(* results latched by execute are a function of the word, its address and  *)
(* its operands, which travel along, so these stand for the results.       *)
(*                                                                         *)
(* Here and in the other modules, a definition no other one uses and whose *)
(* name extends that of the one after it is a mistake one could make in    *)
(* the latter; the README names the property that would catch it.          *)
(***************************************************************************)
EXTENDS Pipeline, Instructions

VARIABLES
  pf,        \* the registers between the stages, each
  fd,        \*   a record of the state of the slot and its payload
  dx,
  xm,
  mw,
  regs,      \* the register file
  memory,    \* what the devices on the two buses hold, word by word
  ibus_rsp,  \* what each bus shows in this cycle: "ack", "err", or "none"
  dbus_rsp   \*   while there is no request or no answer yet

vars == <<pf, fd, dx, xm, mw, regs, memory, ibus_rsp, dbus_rsp>>

Rsp == Answers \union {"none"}

PFSlot == [state : State, pc : PC]
FDSlot == [state : State, pc : PC, insn : Word, mem_fault : BOOLEAN]
DXSlot == [state : State, pc : PC, insn : Word, mem_fault : BOOLEAN,
           rs1_rdata : Word, rs2_rdata : Word]
XMSlot == DXSlot
MWSlot == [state : State, insn : Word, wdata : Word]

(***************************************************************************)
(* The memory access stage: mem.py, loadstore.py.                          *)
(***************************************************************************)

DbusCyc ==
  /\ xm.state = "VALID" /\ IsMemory(xm.insn)
  /\ ~DataMisaligned(xm.insn, xm.rs1_rdata)

DbusBusy == DbusCyc /\ dbus_rsp = "none"

DbusTrap ==
  /\ IsMemory(xm.insn)
  /\ \/ DataMisaligned(xm.insn, xm.rs1_rdata)
     \/ DbusCyc /\ dbus_rsp = "err"

DbusWord == memory[DataAddr(xm.insn, xm.rs1_rdata)]

BranchTrue == Taken(xm.insn, xm.pc, xm.rs1_rdata, xm.rs2_rdata)

BranchTrapUntaken == TargetMisaligned(xm.insn, xm.pc, xm.rs1_rdata)

BranchTrap == BranchTrue /\ TargetMisaligned(xm.insn, xm.pc, xm.rs1_rdata)

MemStall == StageStall(xm.state, DbusBusy, FALSE, FALSE)

MemTrap == StageTrap(xm.state, BranchTrap \/ DbusTrap)

BranchTaken == ~MemStall /\ xm.state = "VALID" /\ BranchTrue

TrapRaised == ~MemStall /\ MemTrap

\* The instruction in the memory access stage retires.
Commit == ~MemStall /\ xm.state # "BUBBLE"

\* What a redirect does to the fetch, decode and execute stages.
Flush == BranchTaken \/ TrapRaised

(***************************************************************************)
(* The execute and decode stages, and the hazards cpu.py watches for.      *)
(***************************************************************************)

ExecuteStall == StageStall(dx.state, FALSE, MemStall, Flush)

Reads(w, r) ==
  LET c == Control(w) IN (c.rs1_ren /\ c.rs1 = r) \/ (c.rs2_ren /\ c.rs2 = r)

\* The instruction in slot s has yet to write a register that decode reads.
DataHazard(s) ==
  s.state = "VALID" /\ Control(s.insn).rd_wen /\ Reads(fd.insn, Control(s.insn).rd)

DecodeHazardNoWriteback == DataHazard(dx) \/ DataHazard(xm)

DecodeHazard == DataHazard(dx) \/ DataHazard(xm) \/ DataHazard(mw)

DecodeStall == StageStall(fd.state, DecodeHazard, ExecuteStall, Flush)

DecodeTrap == StageTrap(fd.state, Control(fd.insn).illegal)

FenceStallUngated == Control(fd.insn).fence_i \/ Control(dx.insn).fence_i

FenceStallDecodeOnly == fd.state = "VALID" /\ Control(fd.insn).fence_i

FenceStall ==
  \/ fd.state = "VALID" /\ Control(fd.insn).fence_i
  \/ dx.state = "VALID" /\ Control(dx.insn).fence_i

(***************************************************************************)
(* The fetch and PC generation stages.                                     *)
(***************************************************************************)

IbusCycKept == pf.state = "VALID" /\ ~Flush

IbusCycNoFlush == pf.state = "VALID" /\ ~DecodeStall

\* A fetch is withdrawn when its word could not be taken or is not wanted.
IbusCyc == pf.state = "VALID" /\ ~(DecodeStall \/ Flush)

IbusBusy == IbusCyc /\ ibus_rsp = "none"

IbusTrap == IbusCyc /\ ibus_rsp = "err"

FetchStall == StageStall(pf.state, IbusBusy \/ FenceStall, DecodeStall, Flush)

FetchTrap == StageTrap(pf.state, IbusTrap)

PcgenStall == StageStall("VALID", FALSE, FetchStall, FALSE)

(***************************************************************************)
(* The clock edge, stage by stage.                                         *)
(***************************************************************************)

\* A branch comes before a trap: a taken branch to a misaligned target is both.
PcgenEdge ==
  pf' = [state |-> StageState(pf.state, "VALID", PcgenStall, FetchStall, FALSE, FALSE),
         pc |-> IF BranchTaken THEN Target(xm.insn, xm.pc, xm.rs1_rdata)
                ELSE IF TrapRaised THEN TrapVector
                ELSE IF ~PcgenStall THEN Plus4(pf.pc)
                ELSE pf.pc]

\* Without a request the data lines show anything; the slot is then a bubble,
\* so that the word latched does not matter.
FetchEdge ==
  fd' = [state |-> StageState(fd.state, pf.state, FetchStall, DecodeStall, Flush, FetchTrap),
         pc |-> IF FetchStall THEN fd.pc ELSE pf.pc,
         insn |-> IF FetchStall THEN fd.insn ELSE IF IbusTrap THEN Zero ELSE memory[pf.pc],
         mem_fault |-> IF FetchStall THEN fd.mem_fault ELSE IbusTrap]

\* The read ports return what the registers hold before this edge.
DecodeEdge ==
  dx' = [state |-> StageState(dx.state, fd.state, DecodeStall, ExecuteStall, Flush, DecodeTrap),
         pc |-> IF DecodeStall THEN dx.pc ELSE fd.pc,
         insn |-> IF DecodeStall THEN dx.insn ELSE fd.insn,
         mem_fault |-> IF DecodeStall THEN dx.mem_fault ELSE fd.mem_fault,
         rs1_rdata |-> IF DecodeStall THEN dx.rs1_rdata ELSE regs[Control(fd.insn).rs1],
         rs2_rdata |-> IF DecodeStall THEN dx.rs2_rdata ELSE regs[Control(fd.insn).rs2]]

ExecuteEdge ==
  LET state == StageState(xm.state, dx.state, ExecuteStall, MemStall, Flush, dx.state = "TRAP")
  IN  xm' = IF ExecuteStall THEN [xm EXCEPT !.state = state] ELSE [dx EXCEPT !.state = state]

MemEdge ==
  mw' = [state |-> StageState(mw.state, xm.state, MemStall, FALSE, FALSE, MemTrap),
         insn |-> IF MemStall THEN mw.insn ELSE xm.insn,
         wdata |-> IF MemStall THEN mw.wdata
                   ELSE IF Control(xm.insn).mem_load
                     THEN LoadData(xm.insn, xm.rs1_rdata, DbusWord)
                     ELSE Result(xm.insn, xm.pc, xm.rs1_rdata, xm.rs2_rdata)]

\* Writeback never stalls.
WritebackEdge ==
  regs' = IF mw.state = "VALID" /\ Control(mw.insn).rd_wen
            THEN [regs EXCEPT ![Control(mw.insn).rd] = mw.wdata]
            ELSE regs

DbusStoreAnyAnswer ==
  memory' = IF DbusCyc /\ Control(xm.insn).mem_store /\ dbus_rsp # "none"
              THEN [memory EXCEPT ![DataAddr(xm.insn, xm.rs1_rdata)] =
                      StoreData(xm.insn, xm.rs1_rdata, DbusWord, xm.rs2_rdata)]
              ELSE memory

\* A device performs a store in the cycle in which it acknowledges it.
DbusStore ==
  memory' = IF DbusCyc /\ Control(xm.insn).mem_store /\ dbus_rsp = "ack"
              THEN [memory EXCEPT ![DataAddr(xm.insn, xm.rs1_rdata)] =
                      StoreData(xm.insn, xm.rs1_rdata, DbusWord, xm.rs2_rdata)]
              ELSE memory

Edge ==
  /\ PcgenEdge /\ FetchEdge /\ DecodeEdge /\ ExecuteEdge /\ MemEdge
  /\ WritebackEdge
  /\ DbusStore

(***************************************************************************)
(* The bus environment: a request is answered in any cycle or not yet, and *)
(* a request that is withdrawn is forgotten.                               *)
(***************************************************************************)

Respond(cyc) == IF cyc THEN Rsp ELSE {"none"}

Init ==
  /\ pf = [state |-> "BUBBLE", pc |-> IF ResetVector = 0 THEN NPC - 1 ELSE ResetVector - 1]
  /\ fd = [state |-> "BUBBLE", pc |-> 0, insn |-> Zero, mem_fault |-> FALSE]
  /\ dx = [state |-> "BUBBLE", pc |-> 0, insn |-> Zero, mem_fault |-> FALSE,
           rs1_rdata |-> Zero, rs2_rdata |-> Zero]
  /\ xm = dx
  /\ mw = [state |-> "BUBBLE", insn |-> Zero, wdata |-> Zero]
  /\ regs = [r \in Reg |-> Zero]
  /\ memory \in [Addr -> Word]
  /\ dbus_rsp = "none" /\ ibus_rsp = "none"

Next ==
  /\ Edge
  /\ dbus_rsp' \in Respond(DbusCyc')
  /\ ibus_rsp' \in Respond(IbusCyc')

Spec == Init /\ [][Next]_vars

\* Neither bus leaves a request waiting for ever.
BusesAnswer == []<>~DbusBusy /\ []<>~IbusBusy

\* The clock runs, and the buses answer.
Fairness == WF_vars(Next) /\ BusesAnswer

FairSpec == Spec /\ Fairness

(***************************************************************************)
(* Properties.                                                             *)
(***************************************************************************)

(* Every slot holds a state and a payload of its layout (pipeline_regs.py).*)
(* A bus shows an answer only while it is asked (loadstore.py 119-123).    *)
TypeOK ==
  /\ pf \in PFSlot /\ fd \in FDSlot /\ dx \in DXSlot /\ xm \in XMSlot /\ mw \in MWSlot
  /\ regs \in [Reg -> Word]
  /\ memory \in [Addr -> Word]
  /\ dbus_rsp \in Respond(DbusCyc) /\ ibus_rsp \in Respond(IbusCyc)

(* What pcgen.py 17-26 argues in a comment: a redirect never meets a       *)
(* stalled PC generation stage, so that it may write the pc at once.  Nor  *)
(* does it meet a stage that it flushes and that would stay as it is.      *)
RedirectNeverStalled ==
  Flush => ~(PcgenStall \/ FetchStall \/ DecodeStall \/ ExecuteStall)

(* A bus request does not change under the bus that works on it: as long   *)
(* as it is not answered the data bus sees it again, and the instruction   *)
(* bus sees it again or sees none, for a fetch that a redirect withdraws   *)
(* leaves the bus for a cycle before the next one (fetch.py 18, pcgen.py   *)
(* 27-32, mem.py 47-57).                                                   *)
BusRequestsHeld ==
  [][/\ DbusBusy => DbusCyc' /\ UNCHANGED xm
     /\ IbusBusy => UNCHANGED pf]_vars

(* The --trap-vector option: "set program counter to ADDRESS on trap"      *)
(* (cli.py 24).                                                            *)
TrapGoesToVector == [][TrapRaised => pf'.pc = TrapVector]_vars

(* As long as the buses answer, instructions retire: no stall waits for    *)
(* itself (pipeline.py 89-93, cpu.py 55-68).                               *)
Retires == []<>Commit

=============================================================================
