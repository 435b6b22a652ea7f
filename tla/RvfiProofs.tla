------------------------------ MODULE RvfiProofs ------------------------------
(***************************************************************************)
(* Proofs about module Rvfi: that the reports tell a run of module Isa.    *)
(* They rest on those of CoreProofs: the pipeline takes a step of Isa when *)
(* an instruction leaves mem, and the observer hears of it one edge later. *)
(***************************************************************************)
EXTENDS Rvfi, CoreProofs

(***************************************************************************)
(* What writeback reports.                                                 *)
(***************************************************************************)

LEMMA Reporting ==
  ASSUME RTypeOK
  PROVE  /\ NextReport.valid <=> Full(mw)
         /\ Full(mw) => NextReport = Report
BY DEF RTypeOK, NextReport, Report, Full

\* The edge of mem, for the port and for the register file.
LEMMA ToWriteback ==
  ASSUME Next
  PROVE  /\ mw'.state = (IF MemStall THEN "BUBBLE" ELSE IF MemTrap THEN "TRAP" ELSE xm.state)
         /\ ~MemStall => mw'.insn = xm.insn
         /\ ~MemStall /\ ~Control(xm.insn).mem_load =>
              mw'.wdata = Result(xm.insn, xm.pc, xm.rs1_rdata, xm.rs2_rdata)
  BY DEF Next, Edge, MemEdge, StageState

\* An instruction comes to writeback when it retires.
LEMMA CommitFills ==
  ASSUME TypeOK, Next
  PROVE  Full(mw)' <=> Commit
<1>1. xm.state \in State
  BY DEF TypeOK, XMSlot, DXSlot
<1> QED
  BY <1>1, ToWriteback DEF Full, Commit, MemTrap, StageTrap, State

LEMMA ObserverHears ==
  ASSUME OneBehind, RNext
  PROVE  seen' = View
  BY DEF OneBehind, RNext, WritebackEdgeRvfi, Observe

(***************************************************************************)
(* Types.                                                                  *)
(***************************************************************************)

LEMMA ViewType ==
  ASSUME IInv
  PROVE  View \in Views
<1>1. OldestPC \in PC
  BY Plus4Type DEF IInv, ITypeOK, TypeOK, PFSlot, FDSlot, DXSlot, XMSlot, OldestPC
<1>2. WrittenRegs \in [Reg -> Word]
  BY DEF IInv, ITypeOK, TypeOK, WrittenRegs, MWSlot
<1> QED
  BY <1>1, <1>2 DEF View, Views, IInv, ITypeOK, TypeOK

LEMMA ReportType ==
  ASSUME IInv, RTypeOK
  PROVE  NextReport \in [valid : BOOLEAN, insn : Word, trap : BOOLEAN,
                         rs1 : Operands, rs2 : Operands, rd : Operands, pc_rdata : PC, pc_wdata : PC,
                         mem_read : BOOLEAN, mem_write : BOOLEAN, mem_addr : Addr,
                         mem_rdata : Word, mem_wdata : Word, mem_fault : BOOLEAN]
<1>1. mw.insn \in Word /\ mw.wdata \in Word /\ mw.state \in State
  BY DEF IInv, ITypeOK, TypeOK, MWSlot
<1>2. Control(mw.insn) \in ControlSignals
  BY <1>1, UnitsAssumption, AddressAssumption
<1>3. \A ren \in BOOLEAN, r \in Reg, d \in Word : Operand(ren, r, d) \in Operands
  BY AddressAssumption DEF Operand, Operands
<1>4. mw_rvfi.rs1_rdata \in Word /\ mw_rvfi.rs2_rdata \in Word
  BY DEF RTypeOK
<1> DEFINE c == Control(mw.insn)
<1>5. /\ Operand(c.rs1_ren, c.rs1, mw_rvfi.rs1_rdata) \in Operands
      /\ Operand(c.rs2_ren, c.rs2, mw_rvfi.rs2_rdata) \in Operands
      /\ Operand(mw.state = "VALID" /\ c.rd_wen, c.rd, mw.wdata) \in Operands
  BY <1>1, <1>2, <1>3, <1>4 DEF ControlSignals
<1>6. Loads \in BOOLEAN /\ Stores \in BOOLEAN /\ (mw.state = "TRAP") \in BOOLEAN
  BY DEF Loads, Stores
<1>7. /\ (IF Loads \/ Stores THEN mw_rvfi.mem_addr ELSE 0) \in Addr
      /\ (IF Loads THEN mw_rvfi.mem_rdata ELSE Zero) \in Word
      /\ (IF Stores THEN mw_rvfi.mem_wdata ELSE Zero) \in Word
  BY AddressAssumption DEF RTypeOK, PC
<1> QED
  BY <1>1, <1>5, <1>6, <1>7 DEF NextReport, Report, WritesRd, RTypeOK

LEMMA RTypeNext == IInv /\ RTypeOK /\ OneBehind /\ RNext => RTypeOK'
<1> SUFFICES ASSUME IInv, RTypeOK, OneBehind, RNext PROVE RTypeOK'
  OBVIOUS
<1>1. seen' \in Views
  BY ObserverHears, ViewType
<1>2. rvfi' = NextReport
  BY DEF RNext, WritebackEdgeRvfi
<1>3. /\ xm.insn \in Word /\ xm.pc \in PC /\ xm.rs1_rdata \in Word /\ xm.rs2_rdata \in Word
      /\ xm.mem_fault \in BOOLEAN /\ memory \in [Addr -> Word]
  BY DEF IInv, ITypeOK, TypeOK, XMSlot, DXSlot
<1>4. DbusWord \in Word /\ DataAddr(xm.insn, xm.rs1_rdata) \in Addr
  BY <1>3, UnitsAssumption, AddressAssumption DEF DbusWord
<1>5. StoreData(xm.insn, xm.rs1_rdata, DbusWord, xm.rs2_rdata) \in Word
  BY <1>3, <1>4, UnitsAssumption, AddressAssumption
<1>6. NextPC \in PC
  BY <1>3, Plus4Type, UnitsAssumption, AddressAssumption DEF NextPC
<1>7. DbusTrap \in BOOLEAN
  BY DEF DbusTrap
<1>8. mw_rvfi' \in [pc : PC, pc_wdata : PC, rs1_rdata : Word, rs2_rdata : Word, mem_addr : Addr,
                    mem_rdata : Word, mem_wdata : Word, mem_fault : BOOLEAN]
  BY <1>3, <1>4, <1>5, <1>6, <1>7 DEF RTypeOK, RNext, MemEdgeRvfi
<1> QED
  BY <1>1, <1>2, <1>8, ReportType DEF RTypeOK

(***************************************************************************)
(* The observer is one report behind.                                      *)
(***************************************************************************)

LEMMA NextPCIsOldest ==
  ASSUME IInv, INext, Commit
  PROVE  OldestPC' = NextPC
<1>1. ~MemStall /\ Full(xm)
  BY DEF Commit, Full
<1>2. CASE Flush
  BY <1>1, <1>2, RedirectTo DEF NextPC, Flush, BranchTaken, TrapRaised
<1>3. CASE ~Flush
  BY <1>1, <1>3, MoveOn DEF NextPC, Flush, BranchTaken, TrapRaised
<1> QED
  BY <1>2, <1>3

\* A store is in memory when it retires without a trap.
LEMMA StoreRetires ==
  ASSUME TypeOK, Next, Commit
  PROVE  memory' = IF ~MemTrap /\ xm.state = "VALID" /\ Control(xm.insn).mem_store
                     THEN [memory EXCEPT ![DataAddr(xm.insn, xm.rs1_rdata)] =
                             StoreData(xm.insn, xm.rs1_rdata, DbusWord, xm.rs2_rdata)]
                     ELSE memory
<1>1. CASE DbusCyc /\ Control(xm.insn).mem_store /\ dbus_rsp = "ack"
  <2>1. ~DbusTrap /\ ~BranchTrap
    <3>1. xm.insn \in Word /\ xm.pc \in PC /\ xm.rs1_rdata \in Word /\ xm.rs2_rdata \in Word
      BY DEF TypeOK, XMSlot, DXSlot
    <3>2. ~BranchTrue
      BY <1>1, <3>1, DecoderAssumption DEF DbusCyc, BranchTrue
    <3> QED
      BY <1>1, <3>2 DEF DbusTrap, DbusCyc, BranchTrap
  <2> QED
    BY <1>1, <2>1 DEF Next, Edge, DbusStore, MemTrap, StageTrap, DbusCyc
<1>2. CASE ~(DbusCyc /\ Control(xm.insn).mem_store /\ dbus_rsp = "ack")
  <2>1. memory' = memory
    BY <1>2 DEF Next, Edge, DbusStore
  <2>2. ASSUME xm.state = "VALID", Control(xm.insn).mem_store PROVE MemTrap
    <3>1. CASE DataMisaligned(xm.insn, xm.rs1_rdata)
      BY <2>2, <3>1 DEF MemTrap, StageTrap, DbusTrap, IsMemory
    <3>2. CASE ~DataMisaligned(xm.insn, xm.rs1_rdata)
      <4>1. DbusCyc
        BY <2>2, <3>2 DEF DbusCyc, IsMemory
      <4>2. dbus_rsp # "none"
        BY <2>2, <4>1 DEF Commit, MemStall, StageStall, DbusBusy
      <4>3. dbus_rsp = "err"
        BY <1>2, <2>2, <4>1, <4>2, AddressAssumption DEF TypeOK, Respond, Rsp
      <4> QED
        BY <2>2, <4>1, <4>3 DEF MemTrap, StageTrap, DbusTrap, IsMemory
    <3> QED
      BY <3>1, <3>2
  <2> QED
    BY <2>1, <2>2
<1> QED
  BY <1>1, <1>2

LEMMA FenceRetires ==
  ASSUME TypeOK, Next, SawFence
  PROVE  ~MemTrap /\ memory' = memory
<1>1. xm.insn \in Word /\ xm.pc \in PC /\ xm.rs1_rdata \in Word /\ xm.rs2_rdata \in Word
  BY DEF TypeOK, XMSlot, DXSlot
<1>2. ~IsMemory(xm.insn) /\ ~BranchTrue
  BY <1>1, DecoderAssumption DEF SawFence, BranchTrue
<1> QED
  BY <1>2 DEF SawFence, MemTrap, StageTrap, BranchTrap, DbusTrap, Next, Edge, DbusStore, DbusCyc

LEMMA OneBehindNext == IInv /\ RTypeOK /\ RTypeOK' /\ OneBehind /\ RNext => OneBehind'
<1> SUFFICES ASSUME IInv, RTypeOK, RTypeOK', OneBehind, RNext PROVE Observed(NextReport)' = View'
  BY DEF OneBehind
<1>0. TypeOK /\ Next /\ INext
  BY DEF IInv, ITypeOK, RNext, INext
<1>1. /\ seen'.pc = OldestPC /\ seen'.regs = WrittenRegs
      /\ seen'.memory = memory /\ seen'.visible = visible /\ seen' = View
  BY ObserverHears DEF View
<1>2. /\ NextReport'.valid <=> Commit
      /\ Commit => NextReport' = Report'
  <2>1. (RTypeOK => /\ NextReport.valid <=> Full(mw)
                    /\ Full(mw) => NextReport = Report)'
    BY Reporting, PTL
  <2> QED
    BY <1>0, <2>1, CommitFills
<1>3. CASE ~Commit
  <2>1. View' = View
    BY <1>0, <1>3, StutterStep DEF View, ISA!isaVars
  <2>2. Observed(NextReport)' = seen'
    BY <1>2, <1>3 DEF Observed
  <2> QED
    BY <1>1, <2>1, <2>2
<1>4. CASE Commit
  <2> DEFINE r == NextReport'
             valid == ~MemTrap /\ xm.state = "VALID"
             c == Control(xm.insn)
             memory1 == IF r.mem_write THEN [memory EXCEPT ![r.mem_addr] = r.mem_wdata] ELSE memory
  <2>1. /\ mw'.insn = xm.insn
        /\ mw'.state = "VALID" <=> valid
        /\ mw'.state = "TRAP" <=> MemTrap
    <3>1. xm.state \in State
      BY <1>0 DEF TypeOK, XMSlot, DXSlot
    <3> QED
      BY <1>0, <1>4, <3>1, ToWriteback DEF Commit, State, MemTrap, StageTrap
  <2>2. mw_rvfi' = [pc |-> xm.pc, pc_wdata |-> NextPC,
                    rs1_rdata |-> xm.rs1_rdata, rs2_rdata |-> xm.rs2_rdata,
                    mem_addr |-> DataAddr(xm.insn, xm.rs1_rdata),
                    mem_rdata |-> DbusWord,
                    mem_wdata |-> StoreData(xm.insn, xm.rs1_rdata, DbusWord, xm.rs2_rdata),
                    mem_fault |-> xm.mem_fault \/ DbusTrap]
    BY <1>4 DEF RNext, MemEdgeRvfi, Commit
  <2>3. /\ r.valid /\ r.insn = xm.insn /\ (r.trap <=> MemTrap) /\ r.pc_wdata = NextPC
        /\ r.rd = Operand(valid /\ c.rd_wen, c.rd, mw'.wdata)
        /\ r.mem_write <=> valid /\ c.mem_store
        /\ r.mem_write =>
             /\ r.mem_addr = DataAddr(xm.insn, xm.rs1_rdata)
             /\ r.mem_wdata = StoreData(xm.insn, xm.rs1_rdata, DbusWord, xm.rs2_rdata)
    <3>1. r = Report'
      BY <1>2, <1>4
    <3>2. /\ r.valid /\ r.insn = mw'.insn /\ (r.trap <=> mw'.state = "TRAP")
          /\ r.rd = Operand(mw'.state = "VALID" /\ Control(mw'.insn).rd_wen,
                            Control(mw'.insn).rd, mw'.wdata)
          /\ r.pc_wdata = mw_rvfi'.pc_wdata
          /\ r.mem_write <=> mw'.state = "VALID" /\ Control(mw'.insn).mem_store
          /\ r.mem_write => r.mem_addr = mw_rvfi'.mem_addr /\ r.mem_wdata = mw_rvfi'.mem_wdata
      BY <3>1 DEF Report, WritesRd, Loads, Stores
    <3> HIDE DEF r, valid, c
    <3>3. r.rd = Operand(valid /\ c.rd_wen, c.rd, mw'.wdata)
      BY <2>1, <3>2 DEF c, Operand
    <3> QED
      BY <2>1, <2>2, <3>2, <3>3 DEF c
  <2>4. Observed(NextReport)' =
          [pc |-> r.pc_wdata,
           regs |-> IF r.rd.addr = X0 THEN WrittenRegs ELSE [WrittenRegs EXCEPT ![r.rd.addr] = r.rd.data],
           memory |-> memory1,
           visible |-> [p \in PC |-> IF ~r.trap /\ Control(r.insn).fence_i THEN {memory1[p]}
                                     ELSE visible[p] \union {memory1[p]}]]
    <3>1. r.valid
      BY <2>3
    <3>2. Observed(NextReport)' =
            [pc |-> r.pc_wdata,
             regs |-> IF r.rd.addr = X0 THEN seen'.regs
                      ELSE [seen'.regs EXCEPT ![r.rd.addr] = r.rd.data],
             memory |-> IF r.mem_write THEN [seen'.memory EXCEPT ![r.mem_addr] = r.mem_wdata]
                        ELSE seen'.memory,
             visible |-> [p \in PC |->
               IF ~r.trap /\ Control(r.insn).fence_i
                 THEN {(IF r.mem_write THEN [seen'.memory EXCEPT ![r.mem_addr] = r.mem_wdata]
                        ELSE seen'.memory)[p]}
                 ELSE seen'.visible[p] \union
                      {(IF r.mem_write THEN [seen'.memory EXCEPT ![r.mem_addr] = r.mem_wdata]
                        ELSE seen'.memory)[p]}]]
      BY <3>1, Zenon DEF Observed
    <3> HIDE DEF r
    <3> QED
      BY <1>1, <3>2, Zenon
  <2>5. OldestPC' = r.pc_wdata
    BY <1>0, <1>4, <2>3, NextPCIsOldest
  <2>6. WrittenRegs' = IF r.rd.addr = X0 THEN WrittenRegs ELSE [WrittenRegs EXCEPT ![r.rd.addr] = r.rd.data]
    <3>1. regs' = WrittenRegs
      BY <1>0 DEF Next, Edge, WritebackEdge, WrittenRegs
    <3>2. WrittenRegs' = IF valid /\ c.rd_wen THEN [WrittenRegs EXCEPT ![c.rd] = mw'.wdata] ELSE WrittenRegs
      BY <2>1, <3>1 DEF WrittenRegs
    <3>3. c.rd_wen => c.rd # X0
      BY <1>0, DecoderAssumption DEF TypeOK, XMSlot, DXSlot
    <3> HIDE DEF r, valid, c
    <3>4. CASE valid /\ c.rd_wen
      <4>1. r.rd = [addr |-> c.rd, data |-> mw'.wdata]
        BY <2>3, <3>4 DEF Operand
      <4> QED
        BY <3>2, <3>3, <3>4, <4>1
    <3>5. CASE ~(valid /\ c.rd_wen)
      <4>1. r.rd = [addr |-> X0, data |-> Zero]
        BY <2>3, <3>5 DEF Operand
      <4> QED
        BY <3>2, <3>5, <4>1
    <3> QED
      BY <3>4, <3>5
  <2>7. memory' = memory1
    BY <1>0, <1>4, <2>3, StoreRetires
  <2>8. visible' = [p \in PC |-> IF ~r.trap /\ Control(r.insn).fence_i THEN {memory1[p]}
                                 ELSE visible[p] \union {memory1[p]}]
    <3>1. SawFence <=> ~r.trap /\ Control(r.insn).fence_i
      <4>1. SawFence => ~MemTrap
        BY <1>0, FenceRetires
      <4>2. ~MemTrap => xm.state = "VALID"
        BY <1>0, <1>4 DEF MemTrap, StageTrap, Commit, TypeOK, XMSlot, DXSlot, State
      <4> QED
        BY <1>4, <2>3, <4>1, <4>2 DEF SawFence
    <3>2. SawFence => memory' = memory
      BY <1>0, FenceRetires
    <3> HIDE DEF memory1, r
    <3> QED
      BY <1>0, <2>7, <3>1, <3>2 DEF INext, RecordVisible
  <2> HIDE DEF memory1, r
  <2> QED
    BY <2>4, <2>5, <2>6, <2>7, <2>8 DEF View
<1> QED
  BY <1>3, <1>4

(***************************************************************************)
(* What is going to trap has waited for its operands too.                  *)
(***************************************************************************)

\* What decode passes on has read the registers with nothing ahead to write them.
LEMMA DecodeReads ==
  ASSUME IInv, INext, TrapsReadToo, ~Flush, ~DecodeStall
  PROVE  HasRead(dx)'
<1> SUFFICES ASSUME dx'.state # "BUBBLE" PROVE HasRead(dx)'
  BY DEF HasRead, Full
<1> DEFINE c == Control(fd.insn)
<1>0. TypeOK /\ Next
  BY DEF IInv, ITypeOK, INext
<1>1. /\ fd.insn \in Word /\ dx.insn \in Word /\ xm.insn \in Word /\ mw.insn \in Word
      /\ fd.state \in State /\ regs \in [Reg -> Word]
  BY <1>0 DEF TypeOK, FDSlot, DXSlot, XMSlot, MWSlot
<1>2. /\ dx'.state = (IF DecodeTrap THEN "TRAP" ELSE fd.state) /\ dx'.insn = fd.insn
      /\ dx'.rs1_rdata = regs[c.rs1] /\ dx'.rs2_rdata = regs[c.rs2]
  BY <1>0, EdgeDecoded
<1>3. fd.state = "VALID" \/ fd.state = "TRAP"
  BY <1>1, <1>2 DEF DecodeTrap, StageTrap, State
<1>4. CASE fd.state = "TRAP"
  <2>1. ~c.rs1_ren /\ ~c.rs2_ren
    BY <1>4, DecoderAssumption DEF TrapsReadToo
  <2> QED
    BY <1>2, <2>1 DEF HasRead
<1>5. CASE fd.state = "VALID"
  <2>1. ~DataHazard(dx) /\ ~DataHazard(xm) /\ ~DataHazard(mw)
    BY <1>5 DEF DecodeStall, StageStall, DecodeHazard
  <2>2. ASSUME NEW r \in Reg, Reads(fd.insn, r)
        PROVE  WrittenRegs'[r] = regs[r]
    <3>1. ~(mw.state = "VALID" /\ Control(mw.insn).rd_wen /\ Control(mw.insn).rd = r)
      BY <2>1, <2>2 DEF DataHazard
    <3>2. WrittenRegs[r] = regs[r]
      BY <1>1, <3>1 DEF WrittenRegs
    <3>3. ~(xm.state = "VALID" /\ Control(xm.insn).rd_wen /\ Control(xm.insn).rd = r)
      BY <2>1, <2>2 DEF DataHazard
    <3> QED
      BY <1>0, <3>2, <3>3, WrittenNext
  <2>3. c.rs1 \in Reg /\ c.rs2 \in Reg
    BY <1>1, UnitsAssumption, AddressAssumption DEF ControlSignals
  <2>4. /\ c.rs1_ren => dx'.rs1_rdata = WrittenRegs'[c.rs1]
        /\ c.rs2_ren => dx'.rs2_rdata = WrittenRegs'[c.rs2]
    BY <1>2, <2>2, <2>3 DEF Reads
  <2> QED
    BY <1>2, <2>4 DEF HasRead
<1> QED
  BY <1>3, <1>4, <1>5

\* What leaves execute is not written by what leaves mem.
LEMMA ExecuteKeeps ==
  ASSUME IInv, INext, TrapsReadToo, xm' = dx
  PROVE  HasRead(xm)'
<1> SUFFICES ASSUME dx.state # "BUBBLE" PROVE HasRead(xm)'
  BY DEF HasRead, Full
<1> DEFINE c == Control(dx.insn)
<1>0. TypeOK /\ Next
  BY DEF IInv, ITypeOK, INext
<1>1. c.rs1 \in Reg /\ c.rs2 \in Reg
  BY <1>0, UnitsAssumption, AddressAssumption DEF TypeOK, DXSlot, ControlSignals
<1>2. ASSUME NEW r \in Reg, Reads(dx.insn, r)
      PROVE  WrittenRegs'[r] = WrittenRegs[r]
  <2>1. ~(xm.state = "VALID" /\ Control(xm.insn).rd_wen /\ Control(xm.insn).rd = r)
    BY <1>2 DEF TrapsReadToo, Full
  <2> QED
    BY <1>0, <2>1, WrittenNext
<1>3. /\ c.rs1_ren => dx.rs1_rdata = WrittenRegs'[c.rs1]
      /\ c.rs2_ren => dx.rs2_rdata = WrittenRegs'[c.rs2]
  BY <1>1, <1>2 DEF Reads, TrapsReadToo, HasRead, Full
<1> QED
  BY <1>3 DEF HasRead

LEMMA TrapsReadNext ==
  ASSUME IInv, OneBehind, TrapsReadToo, RNext
  PROVE  TrapsReadToo'
<1>0. TypeOK /\ Next /\ INext
  BY DEF IInv, ITypeOK, RNext, INext
<1>1. /\ dx.insn \in Word /\ xm.insn \in Word /\ dx.state \in State /\ fd.state \in State
  BY <1>0 DEF TypeOK, FDSlot, DXSlot, XMSlot
<1>2. WrittenRegs'[X0] = Zero /\ seen'.regs[X0] = Zero
  <2>1. Control(xm.insn).rd_wen => Control(xm.insn).rd # X0
    BY <1>1, DecoderAssumption
  <2>2. WrittenRegs'[X0] = WrittenRegs[X0]
    BY <1>0, <2>1, WrittenNext, AddressAssumption
  <2> QED
    BY <2>2, ObserverHears DEF TrapsReadToo, View
<1>3. ASSUME xm' = dx, ~Flush, ~DecodeStall
      PROVE  Full(dx)' /\ xm'.state = "VALID" /\ Control(xm'.insn).rd_wen =>
               ~Reads(dx'.insn, Control(xm'.insn).rd)
  <2> SUFFICES ASSUME dx'.state # "BUBBLE", dx.state = "VALID", Control(dx.insn).rd_wen
               PROVE  ~Reads(dx'.insn, Control(dx.insn).rd)
    BY <1>3 DEF Full
  <2>1. dx'.insn = fd.insn /\ (fd.state = "VALID" \/ fd.state = "TRAP")
    BY <1>0, <1>1, <1>3, EdgeDecoded DEF DecodeTrap, StageTrap, State
  <2>2. CASE fd.state = "VALID"
    BY <1>3, <2>1, <2>2 DEF DecodeStall, StageStall, DecodeHazard, DataHazard
  <2>3. CASE fd.state = "TRAP"
    BY <2>1, <2>3, DecoderAssumption DEF TrapsReadToo, Reads
  <2> QED
    BY <2>1, <2>2, <2>3
<1>4. CASE Waiting
  <2>1. fd' = fd /\ dx' = dx /\ xm' = xm /\ MemStall
    BY <1>0, <1>4, EdgeWaiting DEF Waiting
  <2>2. \A r \in Reg : WrittenRegs'[r] = WrittenRegs[r]
    BY <1>0, <2>1, WrittenNext
  <2>3. /\ Control(dx.insn).rs1 \in Reg /\ Control(dx.insn).rs2 \in Reg
        /\ Control(xm.insn).rs1 \in Reg /\ Control(xm.insn).rs2 \in Reg
    BY <1>1, UnitsAssumption, AddressAssumption DEF ControlSignals
  <2>4. HasRead(dx)' /\ HasRead(xm)'
    BY <2>1, <2>2, <2>3 DEF TrapsReadToo, HasRead, Full
  <2> QED
    BY <1>2, <2>1, <2>4 DEF TrapsReadToo, Full
<1>5. CASE Redirected
  BY <1>0, <1>2, <1>5, EdgeRedirected DEF TrapsReadToo, HasRead, Full
<1>6. CASE Hazarded
  <2>1. fd' = fd /\ dx'.state = "BUBBLE" /\ xm' = dx
    BY <1>0, <1>6, EdgeHazarded
  <2>2. HasRead(dx)' /\ HasRead(xm)'
    BY <1>0, <2>1, ExecuteKeeps DEF HasRead, Full
  <2> QED
    BY <1>2, <2>1, <2>2 DEF TrapsReadToo, Full
<1>7. CASE Starved
  <2>1. fd'.state = "BUBBLE" /\ xm' = dx /\ ~Flush /\ ~DecodeStall
    BY <1>0, <1>7, EdgeStarved DEF Starved
  <2> QED
    BY <1>0, <1>2, <1>3, <2>1, DecodeReads, ExecuteKeeps DEF TrapsReadToo
<1>8. CASE Flowing
  <2>1. xm' = dx /\ ~Flush /\ ~DecodeStall /\ ~FetchStall
    BY <1>0, <1>8, EdgeFlowing DEF Flowing
  <2>2. fd'.state = "TRAP" => IbusTrap
    BY <1>0, <1>8, EdgeFlowing DEF FetchTrap, StageTrap, IInv, Consecutive
  <2>3. fd'.state = "TRAP" => fd'.insn = Zero
    BY <1>0, <2>1, <2>2 DEF Next, Edge, FetchEdge
  <2> QED
    BY <1>0, <1>2, <1>3, <2>1, <2>3, DecodeReads, ExecuteKeeps DEF TrapsReadToo
<1> QED
  BY <1>4, <1>5, <1>6, <1>7, <1>8, FiveEdges

(***************************************************************************)
(* The causes of traps.                                                    *)
(***************************************************************************)

LEMMA CausesNext ==
  ASSUME IInv, INext, TrapsHaveCauses
  PROVE  TrapsHaveCauses'
<1>0. TypeOK /\ Next
  BY DEF IInv, ITypeOK, INext
<1>1. fd.state \in State
  BY <1>0 DEF TypeOK, FDSlot
<1>2. ASSUME ~Flush, ~DecodeStall
      PROVE  /\ dx'.state = "VALID" => ~dx'.mem_fault
             /\ dx'.state = "TRAP" => dx'.mem_fault \/ Control(dx'.insn).illegal
  <2>1. dx'.state = (IF DecodeTrap THEN "TRAP" ELSE fd.state) /\ dx'.insn = fd.insn
    BY <1>0, <1>2, EdgeDecoded
  <2>2. dx'.mem_fault = fd.mem_fault
    BY <1>0, <1>2 DEF Next, Edge, DecodeEdge
  <2> QED
    BY <1>1, <2>1, <2>2 DEF DecodeTrap, StageTrap, TrapsHaveCauses
<1>3. CASE Waiting
  BY <1>0, <1>3, EdgeWaiting DEF TrapsHaveCauses
<1>4. CASE Redirected
  BY <1>0, <1>4, EdgeRedirected DEF TrapsHaveCauses
<1>5. CASE Hazarded
  BY <1>0, <1>5, EdgeHazarded DEF TrapsHaveCauses
<1>6. CASE Starved
  BY <1>0, <1>2, <1>6, EdgeStarved DEF Starved, TrapsHaveCauses
<1>7. CASE Flowing
  <2>1. xm' = dx /\ ~Flush /\ ~DecodeStall /\ ~FetchStall
    BY <1>0, <1>7, EdgeFlowing DEF Flowing
  <2>2. /\ fd'.state = "TRAP" => IbusTrap
        /\ fd'.state = "VALID" => ~IbusTrap
    BY <1>0, <1>7, EdgeFlowing DEF FetchTrap, StageTrap, IInv, Consecutive
  <2>3. fd'.mem_fault = IbusTrap
    BY <1>0, <2>1 DEF Next, Edge, FetchEdge
  <2> QED
    BY <1>2, <2>1, <2>2, <2>3 DEF TrapsHaveCauses
<1> QED
  BY <1>3, <1>4, <1>5, <1>6, <1>7, FiveEdges

(***************************************************************************)
(* The report of the next edge is about what the observer knows.           *)
(***************************************************************************)

LEMMA AboutNext ==
  ASSUME IInv, OneBehind, TrapsReadToo, TrapsHaveCauses, RNext
  PROVE  AboutToReport'
<1>0. TypeOK /\ Next /\ INext
  BY DEF IInv, ITypeOK, RNext, INext
<1> SUFFICES ASSUME Commit PROVE AboutToReport'
  BY <1>0, CommitFills DEF AboutToReport
<1> DEFINE c == Control(xm.insn)
<1>1. /\ xm.insn \in Word /\ xm.pc \in PC /\ xm.rs1_rdata \in Word /\ xm.rs2_rdata \in Word
      /\ xm.state \in State
  BY <1>0 DEF TypeOK, XMSlot, DXSlot
<1>2. ~MemStall /\ Full(xm) /\ (xm.state = "VALID" \/ xm.state = "TRAP")
  BY <1>1 DEF Commit, Full, State
<1>3. /\ mw'.insn = xm.insn
      /\ mw'.state = "VALID" => xm.state = "VALID" /\ ~MemTrap
      /\ mw'.state = "TRAP" <=> MemTrap
  BY <1>0, <1>2, ToWriteback DEF MemTrap, StageTrap
<1>4. /\ mw_rvfi'.pc = xm.pc
      /\ mw_rvfi'.rs1_rdata = xm.rs1_rdata /\ mw_rvfi'.rs2_rdata = xm.rs2_rdata
      /\ mw_rvfi'.mem_addr = DataAddr(xm.insn, xm.rs1_rdata)
      /\ mw_rvfi'.mem_rdata = DbusWord
      /\ mw_rvfi'.mem_fault = (xm.mem_fault \/ DbusTrap)
  BY <1>2 DEF RNext, MemEdgeRvfi
<1>5. seen'.pc = xm.pc /\ seen'.regs = WrittenRegs /\ seen'.memory = memory
  BY <1>2, ObserverHears DEF View, OldestPC
<1>6. /\ c.rs1_ren => mw_rvfi'.rs1_rdata = seen'.regs[c.rs1]
      /\ c.rs2_ren => mw_rvfi'.rs2_rdata = seen'.regs[c.rs2]
  BY <1>2, <1>4, <1>5 DEF TrapsReadToo, HasRead
<1>8. mw_rvfi'.mem_rdata = seen'.memory[mw_rvfi'.mem_addr]
  BY <1>4, <1>5 DEF DbusWord
<1> DEFINE a == IF c.rs1_ren THEN xm.rs1_rdata ELSE Zero
           b == IF c.rs2_ren THEN xm.rs2_rdata ELSE Zero
           cause == xm.mem_fault \/ DbusTrap \/ c.illegal \/ Misses(xm.insn, xm.pc, a, b)
<1>9. ASSUME xm.state = "VALID"
      PROVE  ~c.illegal /\ (BranchTrap <=> Misses(xm.insn, xm.pc, a, b))
  <2>1. ~c.illegal
    BY <1>9 DEF IInv, Fetched, SawLegal
  <2>2. a \in Word /\ b \in Word
    BY <1>1, AddressAssumption
  <2>3. /\ c.rs1 = X0 => xm.rs1_rdata = Zero
        /\ c.rs2 = X0 => xm.rs2_rdata = Zero
    BY <1>9 DEF IInv, OperandsRead, UpToDate, TrapsReadToo
  <2>4. /\ Taken(xm.insn, xm.pc, xm.rs1_rdata, xm.rs2_rdata) = Taken(xm.insn, xm.pc, a, xm.rs2_rdata)
        /\ TargetMisaligned(xm.insn, xm.pc, xm.rs1_rdata) = TargetMisaligned(xm.insn, xm.pc, a)
    <3>1. CASE c.rs1_ren \/ c.rs1 = X0
      <4>1. a = xm.rs1_rdata
        BY <2>3, <3>1
      <4> QED
        BY <4>1
    <3>2. CASE ~c.rs1_ren /\ c.rs1 # X0
      BY <1>1, <2>1, <2>2, <3>2, OperandAssumption
    <3> QED
      BY <3>1, <3>2
  <2>5. Taken(xm.insn, xm.pc, a, xm.rs2_rdata) = Taken(xm.insn, xm.pc, a, b)
    <3>1. CASE c.rs2_ren \/ c.rs2 = X0
      <4>1. b = xm.rs2_rdata
        BY <2>3, <3>1
      <4> QED
        BY <4>1
    <3>2. CASE ~c.rs2_ren /\ c.rs2 # X0
      BY <1>1, <2>1, <2>2, <3>2, OperandAssumption
    <3> QED
      BY <3>1, <3>2
  <2> HIDE DEF a, b
  <2> QED
    BY <2>1, <2>4, <2>5 DEF BranchTrap, BranchTrue, Misses
<1>10. MemTrap <=> cause
  <2>1. CASE xm.state = "TRAP"
    BY <2>1 DEF TrapsHaveCauses, MemTrap, StageTrap
  <2>2. CASE xm.state = "VALID"
    <3> HIDE DEF a, b
    <3> QED
      BY <1>9, <2>2 DEF TrapsHaveCauses, MemTrap, StageTrap
  <2> QED
    BY <1>2, <2>1, <2>2
<1>11. mw'.state = "TRAP" <=>
         \/ mw_rvfi'.mem_fault \/ Control(mw'.insn).illegal
         \/ Misses(mw'.insn, mw_rvfi'.pc,
                    IF Control(mw'.insn).rs1_ren THEN mw_rvfi'.rs1_rdata ELSE Zero,
                    IF Control(mw'.insn).rs2_ren THEN mw_rvfi'.rs2_rdata ELSE Zero)
  BY <1>3, <1>4, <1>10
<1> QED
  BY <1>3, <1>4, <1>5, <1>6, <1>8, <1>11 DEF AboutToReport, Misses

(***************************************************************************)
(* The inductive invariant of module Rvfi.                                 *)
(***************************************************************************)

LEMMA RInvInit == RInit => RInv
<1> SUFFICES ASSUME RInit PROVE RInv
  OBVIOUS
<1>1. IInv /\ ISA!Init
  BY IInvInit, RefinementInit DEF RInit
<1>2. View = seen
  BY <1>1 DEF RInit, IInit, Init, ISA!Init, View, WrittenRegs
<1>3. mw.state = "BUBBLE" /\ ~Full(mw)
  BY DEF RInit, IInit, Init, Full
<1>4. RTypeOK
  <2>1. Operand(FALSE, X0, Zero) \in Operands
    BY AddressAssumption DEF Operand, Operands
  <2>2. 0 \in PC /\ 0 \in Addr
    BY AddressAssumption DEF PC
  <2>3. seen \in Views
    BY <1>1, <1>2, ViewType
  <2> QED
    BY <2>1, <2>2, <2>3, AddressAssumption DEF RTypeOK, RInit
<1>5. OneBehind
  BY <1>2, <1>3, <1>4, Reporting DEF OneBehind, Observed
<1>6. TrapsReadToo
  <2>1. WrittenRegs[X0] = Zero
    BY <1>1, AddressAssumption DEF ISA!Init
  <2>2. seen.regs[X0] = Zero
    BY <1>2, <2>1 DEF View
  <2> QED
    BY <2>1, <2>2 DEF RInit, IInit, Init, TrapsReadToo, HasRead, Full
<1>7. TrapsHaveCauses /\ AboutToReport
  BY <1>3 DEF RInit, IInit, Init, TrapsHaveCauses, AboutToReport
<1> QED
  BY <1>4, <1>5, <1>6, <1>7 DEF RInv

LEMMA RInvNext == IInv /\ RInv /\ RNext => RInv'
  BY RTypeNext, OneBehindNext, TrapsReadNext, CausesNext, AboutNext DEF RInv, RNext

LEMMA RInvStutter == RInv /\ UNCHANGED rvfiVars => RInv'
<1> SUFFICES ASSUME RInv, UNCHANGED rvfiVars PROVE RInv'
  OBVIOUS
<1>1. /\ fd' = fd /\ dx' = dx /\ xm' = xm /\ mw' = mw /\ mw_rvfi' = mw_rvfi
      /\ rvfi' = rvfi /\ seen' = seen
  BY DEF rvfiVars, ivars, vars
<1>2. WrittenRegs' = WrittenRegs /\ View' = View
  BY DEF rvfiVars, ivars, vars, WrittenRegs, View, OldestPC, Full
<1>3. NextReport' = NextReport
  BY <1>1 DEF NextReport, Report, WritesRd, Loads, Stores
<1>4. OneBehind'
  BY <1>1, <1>2, <1>3 DEF RInv, OneBehind, Observed
<1>5. RTypeOK'
  BY <1>1 DEF RInv, RTypeOK
<1>6. TrapsReadToo'
  BY <1>1, <1>2 DEF RInv, TrapsReadToo, HasRead, Full
<1>7. TrapsHaveCauses' /\ AboutToReport'
  BY <1>1 DEF RInv, TrapsHaveCauses, AboutToReport, Full
<1> QED
  BY <1>4, <1>5, <1>6, <1>7 DEF RInv

LEMMA PortWatchesCore == RSpec => ISpec
<1>1. RInit => IInit
  BY DEF RInit
<1>2. [RNext]_rvfiVars => [INext]_ivars
  BY DEF RNext, rvfiVars
<1> QED
  BY <1>1, <1>2, PTL DEF RSpec, ISpec

(* The inductive invariant of module Rvfi: the observer is one report      *)
(* behind the program, and what writeback holds continues what it knows.   *)
THEOREM RInvariant == RSpec => []RInv
<1>1. IInv /\ RInv /\ [RNext]_rvfiVars => RInv'
  BY RInvNext, RInvStutter
<1> QED
  BY <1>1, RInvInit, Invariant, PortWatchesCore, PTL DEF RSpec

(***************************************************************************)
(* What a report says of its instruction.                                  *)
(***************************************************************************)

LEMMA FaultsNext ==
  ASSUME IInv, RInv, RNext
  PROVE  FaultsAreReported'
<1> SUFFICES ASSUME rvfi'.valid PROVE FaultsAreReported'
  BY DEF FaultsAreReported
<1> DEFINE c == Control(mw.insn)
<1>1. Full(mw) /\ rvfi' = Report
  BY Reporting DEF RInv, RNext, WritebackEdgeRvfi
<1>2. mw.state \in State
  BY DEF IInv, ITypeOK, TypeOK, MWSlot
<1>3. /\ rvfi'.insn = mw.insn /\ (rvfi'.trap <=> mw.state = "TRAP")
      /\ rvfi'.pc_rdata = mw_rvfi.pc /\ rvfi'.mem_fault = mw_rvfi.mem_fault
      /\ rvfi'.rs1 = Operand(c.rs1_ren, c.rs1, mw_rvfi.rs1_rdata)
      /\ rvfi'.rs2 = Operand(c.rs2_ren, c.rs2, mw_rvfi.rs2_rdata)
      /\ rvfi'.rd = Operand(mw.state = "VALID" /\ c.rd_wen, c.rd, mw.wdata)
      /\ rvfi'.mem_read <=> mw.state = "VALID" /\ c.mem_load
      /\ rvfi'.mem_write <=> mw.state = "VALID" /\ c.mem_store
  BY <1>1 DEF Report, WritesRd, Loads, Stores
<1>4. /\ rvfi'.rs1.data = IF c.rs1_ren THEN mw_rvfi.rs1_rdata ELSE Zero
      /\ rvfi'.rs2.data = IF c.rs2_ren THEN mw_rvfi.rs2_rdata ELSE Zero
  BY <1>3 DEF Operand
<1>5. rvfi'.trap => rvfi'.rd.addr = X0 /\ ~rvfi'.mem_read /\ ~rvfi'.mem_write
  BY <1>3 DEF Operand
<1>6. rvfi'.trap <=>
        \/ rvfi'.mem_fault \/ Control(rvfi'.insn).illegal
        \/ Misses(rvfi'.insn, rvfi'.pc_rdata, rvfi'.rs1.data, rvfi'.rs2.data)
  BY <1>1, <1>3, <1>4 DEF RInv, AboutToReport
<1> QED
  BY <1>5, <1>6 DEF FaultsAreReported, Misses

(* FaultsAreReported of module Rvfi: the report of a trap claims no        *)
(* effect, and traps are reported exactly when the report shows a cause.   *)
THEOREM Faults == RSpec => []FaultsAreReported
<1>1. RInit => FaultsAreReported
  BY DEF RInit, FaultsAreReported
<1>2. IInv /\ RInv /\ FaultsAreReported /\ [RNext]_rvfiVars => FaultsAreReported'
  <2>1. FaultsAreReported /\ UNCHANGED rvfiVars => FaultsAreReported'
    BY DEF FaultsAreReported, rvfiVars
  <2> QED
    BY <2>1, FaultsNext
<1> QED
  BY <1>1, <1>2, RInvariant, Invariant, PortWatchesCore, PTL DEF RSpec

(* ReportsAgree of module Rvfi: each report begins where the one before it *)
(* ended, and has read what the ones before it left.                       *)
THEOREM Agree == RSpec => ReportsAgree
<1>1. ASSUME IInv, RInv, RNext, rvfi'.valid
      PROVE  /\ rvfi'.pc_rdata = seen.pc
             /\ rvfi'.rs1.data = seen.regs[rvfi'.rs1.addr]
             /\ rvfi'.rs2.data = seen.regs[rvfi'.rs2.addr]
             /\ rvfi'.mem_read => rvfi'.mem_rdata = seen.memory[rvfi'.mem_addr]
  <2> DEFINE c == Control(mw.insn)
  <2>1. Full(mw) /\ rvfi' = Report
    BY <1>1, Reporting DEF RInv, RNext, WritebackEdgeRvfi
  <2>2. /\ rvfi'.pc_rdata = mw_rvfi.pc
        /\ rvfi'.rs1 = Operand(c.rs1_ren, c.rs1, mw_rvfi.rs1_rdata)
        /\ rvfi'.rs2 = Operand(c.rs2_ren, c.rs2, mw_rvfi.rs2_rdata)
        /\ rvfi'.mem_read <=> mw.state = "VALID" /\ c.mem_load
        /\ rvfi'.mem_read =>
             rvfi'.mem_addr = mw_rvfi.mem_addr /\ rvfi'.mem_rdata = mw_rvfi.mem_rdata
    BY <2>1 DEF Report, Loads, Stores
  <2>3. /\ mw_rvfi.pc = seen.pc
        /\ c.rs1_ren => mw_rvfi.rs1_rdata = seen.regs[c.rs1]
        /\ c.rs2_ren => mw_rvfi.rs2_rdata = seen.regs[c.rs2]
        /\ mw.state = "VALID" /\ c.mem_load => mw_rvfi.mem_rdata = seen.memory[mw_rvfi.mem_addr]
        /\ seen.regs[X0] = Zero
    BY <1>1, <2>1 DEF RInv, AboutToReport, TrapsReadToo
  <2> QED
    BY <2>2, <2>3 DEF Operand
<1>2. IInv /\ RInv /\ [RNext]_rvfiVars =>
        [rvfi'.valid =>
           LET r == rvfi' IN
           /\ r.pc_rdata = seen.pc
           /\ r.rs1.data = seen.regs[r.rs1.addr]
           /\ r.rs2.data = seen.regs[r.rs2.addr]
           /\ r.mem_read => r.mem_rdata = seen.memory[r.mem_addr]]_rvfiVars
  BY <1>1
<1> QED
  BY <1>2, RInvariant, Invariant, PortWatchesCore, PTL DEF RSpec, ReportsAgree

(***************************************************************************)
(* The reports are a run of module Isa.                                    *)
(*                                                                         *)
(* The observer hears of a step after it has happened, when the program    *)
(* may already be past it.  So the step has to be remembered: ProgramStep  *)
(* states the next-state relation of Isa as a relation of two states, and  *)
(* Told, that what the observer knows is related to what the program sees. *)
(***************************************************************************)

Goes(s, t, pc) == t.pc = pc /\ t.memory = s.memory /\ t.visible = s.visible

Writes(s, t, c, v) == t.regs = IF c.rd_wen THEN [s.regs EXCEPT ![c.rd] = v] ELSE s.regs

\* The word w, which a fetch may find, takes the program from state s to state t.
StepOf(s, t, w) ==
  LET c == Control(w)
      a == s.regs[c.rs1]
      b == s.regs[c.rs2]
      x == DataAddr(w, a)
  IN
  \/ c.illegal /\ Goes(s, t, TrapVector) /\ t.regs = s.regs
  \/ /\ ~c.illegal /\ ~IsMemory(w) /\ ~c.fence_i /\ ~Taken(w, s.pc, a, b)
     /\ Goes(s, t, Plus4(s.pc)) /\ Writes(s, t, c, Result(w, s.pc, a, b))
  \/ /\ ~c.illegal /\ ~IsMemory(w) /\ ~c.fence_i /\ Taken(w, s.pc, a, b)
     /\ Goes(s, t, Target(w, s.pc, a))
     /\ IF TargetMisaligned(w, s.pc, a) THEN t.regs = s.regs
        ELSE Writes(s, t, c, Result(w, s.pc, a, b))
  \/ /\ ~c.illegal /\ c.mem_load /\ ~DataMisaligned(w, a)
     /\ Goes(s, t, Plus4(s.pc)) /\ Writes(s, t, c, LoadData(w, a, s.memory[x]))
  \/ /\ ~c.illegal /\ c.mem_store /\ ~DataMisaligned(w, a)
     /\ t.memory = [s.memory EXCEPT ![x] = StoreData(w, a, s.memory[x], b)]
     /\ t.visible = [p \in PC |-> s.visible[p] \union {t.memory[p]}]
     /\ t.pc = Plus4(s.pc) /\ t.regs = s.regs
  \/ /\ ~c.illegal /\ IsMemory(w) /\ (DataMisaligned(w, a) \/ "err" \in Answers)
     /\ Goes(s, t, TrapVector) /\ t.regs = s.regs
  \/ /\ ~c.illegal /\ c.fence_i
     /\ t.visible = [p \in PC |-> {s.memory[p]}]
     /\ t.pc = Plus4(s.pc) /\ t.regs = s.regs /\ t.memory = s.memory

ProgramStep(s, t) ==
  \/ "err" \in Answers /\ Goes(s, t, TrapVector) /\ t.regs = s.regs
  \/ \E w \in Word : w \in s.visible[s.pc] /\ StepOf(s, t, w)

Told == seen = View \/ ProgramStep(seen, View)

LEMMA ProgramSteps ==
  ASSUME ISA!Next
  PROVE  ProgramStep(View, View')
<1>1. /\ View.pc = OldestPC /\ View.regs = WrittenRegs
      /\ View.memory = memory /\ View.visible = visible
      /\ View'.pc = OldestPC' /\ View'.regs = WrittenRegs'
      /\ View'.memory = memory' /\ View'.visible = visible'
  BY DEF View
<1>2. CASE ISA!FetchTrap
  BY <1>1, <1>2 DEF ISA!FetchTrap, ProgramStep, Goes
<1>3. ASSUME NEW w \in Word,
             \/ ISA!IllegalTrap(w) \/ ISA!Compute(w) \/ ISA!Jump(w) \/ ISA!Load(w)
             \/ ISA!Store(w) \/ ISA!DataTrap(w) \/ ISA!FenceI(w)
      PROVE  ProgramStep(View, View')
  <2> SUFFICES w \in View.visible[View.pc] /\ StepOf(View, View', w)
    BY DEF ProgramStep
  <2>0. w \in View.visible[View.pc]
    BY <1>1, <1>3
    DEF ISA!IllegalTrap, ISA!Compute, ISA!Jump, ISA!Load, ISA!Store, ISA!DataTrap, ISA!FenceI,
        ISA!Legal
  <2> USE DEF StepOf, Goes, Writes, ISA!Legal, ISA!WriteReg, ISA!Rs1, ISA!Rs2, ISA!IsMemory,
              IsMemory, ISA!Plus4, Plus4, ISA!PC, PC, ISA!SeeStores
  <2>1. CASE ISA!IllegalTrap(w)
    BY <1>1, <2>0, <2>1 DEF ISA!IllegalTrap
  <2>2. CASE ISA!Compute(w)
    BY <1>1, <2>0, <2>2 DEF ISA!Compute
  <2>3. CASE ISA!Jump(w)
    BY <1>1, <2>0, <2>3 DEF ISA!Jump
  <2>4. CASE ISA!Load(w)
    BY <1>1, <2>0, <2>4 DEF ISA!Load
  <2>5. CASE ISA!Store(w)
    BY <1>1, <2>0, <2>5 DEF ISA!Store
  <2>6. CASE ISA!DataTrap(w)
    BY <1>1, <2>0, <2>6 DEF ISA!DataTrap
  <2>7. CASE ISA!FenceI(w)
    BY <1>1, <2>0, <2>7 DEF ISA!FenceI
  <2> QED
    BY <1>3, <2>1, <2>2, <2>3, <2>4, <2>5, <2>6, <2>7
<1> QED
  BY <1>2, <1>3 DEF ISA!Next

LEMMA StepsProgram ==
  ASSUME ProgramStep(seen, seen')
  PROVE  Seen!Next
<1>1. CASE "err" \in Answers /\ Goes(seen, seen', TrapVector) /\ seen'.regs = seen.regs
  <2>1. Seen!FetchTrap
    BY <1>1 DEF Seen!FetchTrap, Goes
  <2> QED
    BY <2>1 DEF Seen!Next
<1>2. ASSUME NEW w \in Word, w \in seen.visible[seen.pc], StepOf(seen, seen', w)
      PROVE  Seen!Next
  <2> SUFFICES \/ Seen!IllegalTrap(w) \/ Seen!Compute(w) \/ Seen!Jump(w) \/ Seen!Load(w)
               \/ Seen!Store(w) \/ Seen!DataTrap(w) \/ Seen!FenceI(w)
    BY DEF Seen!Next
  <2> QED
    BY <1>2
    DEF StepOf, Goes, Writes, Seen!Legal, Seen!WriteReg, Seen!Rs1, Seen!Rs2, Seen!IsMemory,
        IsMemory, Seen!Plus4, Plus4, Seen!PC, PC, Seen!SeeStores, Seen!IllegalTrap,
        Seen!Compute, Seen!Jump, Seen!Load, Seen!Store, Seen!DataTrap, Seen!FenceI
<1> QED
  BY <1>1, <1>2 DEF ProgramStep

LEMMA ToldNext ==
  ASSUME IInv, OneBehind, RNext
  PROVE  Told'
<1>1. seen' = View /\ INext
  BY ObserverHears DEF RNext
<1>2. CASE ~Commit
  BY <1>1, <1>2, StutterStep DEF Told, View, ISA!isaVars
<1>3. CASE Commit
  <2>1. xm.state = "VALID" \/ xm.state = "TRAP"
    BY <1>3 DEF Commit, State, IInv, ITypeOK, TypeOK, XMSlot, DXSlot
  <2>2. ISA!Next
    BY <1>1, <1>3, <2>1, TrapStep, ValidStep
  <2>3. ProgramStep(View, View')
    BY <2>2, ProgramSteps
  <2> QED
    BY <1>1, <2>3 DEF Told
<1> QED
  BY <1>2, <1>3

(* ReportsAreARun of module Rvfi: what the reports tell, one after the     *)
(* other, is a run of the program on Isa.                                  *)
THEOREM Run == RSpec => ReportsAreARun
<1>1. RInit => Seen!Init /\ Told
  <2> SUFFICES ASSUME RInit PROVE Seen!Init /\ Told
    OBVIOUS
  <2>1. ISA!Init
    BY RefinementInit DEF RInit
  <2>2. seen = View
    BY <2>1 DEF RInit, IInit, Init, ISA!Init, View, WrittenRegs
  <2>3. Seen!Init
    BY DEF RInit, IInit, Init, Seen!Init, Seen!PC, PC
  <2> QED
    BY <2>2, <2>3 DEF Told
<1>2. IInv /\ RInv /\ Told /\ [RNext]_rvfiVars => Told' /\ [Seen!Next]_Seen!isaVars
  <2> SUFFICES ASSUME IInv, RInv, Told, [RNext]_rvfiVars
               PROVE  Told' /\ [Seen!Next]_Seen!isaVars
    OBVIOUS
  <2>1. CASE UNCHANGED rvfiVars
    <3>1. seen' = seen /\ View' = View
      BY <2>1 DEF rvfiVars, ivars, vars, View, WrittenRegs, OldestPC, Full
    <3> QED
      BY <3>1 DEF Told, Seen!isaVars
  <2>2. CASE RNext
    <3>1. seen' = View
      BY <2>2, ObserverHears DEF RInv
    <3>2. seen' = seen \/ ProgramStep(seen, seen')
      BY <3>1 DEF Told
    <3> QED
      BY <2>2, <3>2, StepsProgram, ToldNext DEF RInv, Seen!isaVars
  <2> QED
    BY <2>1, <2>2
<1> QED
  BY <1>1, <1>2, RInvariant, Invariant, PortWatchesCore, PTL DEF RSpec, ReportsAreARun, Seen!Spec

=============================================================================
