----------------------------- MODULE CoreProofs -----------------------------
(***************************************************************************)
(* Proofs about modules Core and CoreIsa, for every instruction set that   *)
(* meets the assumptions of module Instructions, and memory, register file *)
(* and address space of any size.                                          *)
(***************************************************************************)
EXTENDS CoreIsa, TLAPS

(***************************************************************************)
(* Type correctness.                                                       *)
(***************************************************************************)

\* The next address is an address (pcgen.py 31-32).
LEMMA Plus4Type == \A p \in PC : Plus4(p) \in PC
  BY AddressAssumption DEF PC, Plus4

\* The stall and flush signals are Boolean.
LEMMA SignalTypes ==
  ASSUME TypeOK
  PROVE  /\ MemStall \in BOOLEAN /\ MemTrap \in BOOLEAN /\ Flush \in BOOLEAN
         /\ ExecuteStall \in BOOLEAN
         /\ DecodeStall \in BOOLEAN /\ DecodeTrap \in BOOLEAN
         /\ FetchStall \in BOOLEAN /\ FetchTrap \in BOOLEAN
         /\ PcgenStall \in BOOLEAN /\ IbusTrap \in BOOLEAN
  BY DEF MemStall, MemTrap, Flush, BranchTaken, TrapRaised, ExecuteStall, DecodeStall,
         DecodeTrap, FetchStall, FetchTrap, PcgenStall, StageStall, StageTrap, IbusTrap

LEMMA TypeInit == Init => TypeOK
<1> SUFFICES ASSUME Init PROVE TypeOK
  OBVIOUS
<1> USE AddressAssumption
<1>1. /\ 0 \in PC
      /\ (IF ResetVector = 0 THEN NPC - 1 ELSE ResetVector - 1) \in PC
  BY DEF PC
<1>2. pf \in PFSlot /\ fd \in FDSlot /\ dx \in DXSlot /\ xm \in XMSlot /\ mw \in MWSlot
  BY <1>1 DEF Init, PFSlot, FDSlot, DXSlot, XMSlot, MWSlot, State
<1>3. ~DbusCyc /\ ~IbusCyc
  BY DEF Init, DbusCyc, IbusCyc
<1> QED
  BY <1>2, <1>3 DEF Init, TypeOK, Respond

LEMMA TypeNext == TypeOK /\ Next => TypeOK'
<1> SUFFICES ASSUME TypeOK, Next PROVE TypeOK'
  OBVIOUS
<1> USE UnitsAssumption DEF State
<1>0. /\ pf \in PFSlot /\ fd \in FDSlot /\ dx \in DXSlot /\ xm \in XMSlot /\ mw \in MWSlot
      /\ regs \in [Reg -> Word] /\ memory \in [Addr -> Word]
  BY DEF TypeOK
<1>1. pf' \in PFSlot
  <2>1. pf.state \in State /\ pf.pc \in PC /\ Plus4(pf.pc) \in PC
    BY <1>0, Plus4Type DEF PFSlot
  <2>2. Target(xm.insn, xm.pc, xm.rs1_rdata) \in PC /\ TrapVector \in PC
    BY <1>0, AddressAssumption DEF XMSlot, DXSlot
  <2>3. StageState(pf.state, "VALID", PcgenStall, FetchStall, FALSE, FALSE) \in State
    BY <2>1, SignalTypes DEF StageState
  <2> QED
    BY <2>1, <2>2, <2>3 DEF Next, Edge, PcgenEdge, PFSlot
<1>2. fd' \in FDSlot
  <2>1. StageState(fd.state, pf.state, FetchStall, DecodeStall, Flush, FetchTrap) \in State
    BY <1>0, SignalTypes DEF StageState, PFSlot, FDSlot
  <2>2. memory[pf.pc] \in Word /\ Zero \in Word /\ pf.pc \in PC
    BY <1>0, AddressAssumption DEF PFSlot
  <2> QED
    BY <1>0, <2>1, <2>2, SignalTypes DEF Next, Edge, FetchEdge, FDSlot
<1>3. dx' \in DXSlot
  <2>1. StageState(dx.state, fd.state, DecodeStall, ExecuteStall, Flush, DecodeTrap) \in State
    BY <1>0, SignalTypes DEF StageState, DXSlot, FDSlot
  <2>2. regs[Control(fd.insn).rs1] \in Word /\ regs[Control(fd.insn).rs2] \in Word
    BY <1>0, AddressAssumption DEF FDSlot, ControlSignals
  <2> QED
    BY <1>0, <2>1, <2>2 DEF Next, Edge, DecodeEdge, DXSlot, FDSlot
<1>4. xm' \in XMSlot
  <2>1. StageState(xm.state, dx.state, ExecuteStall, MemStall, Flush, dx.state = "TRAP") \in State
    BY <1>0, SignalTypes DEF StageState, DXSlot, XMSlot
  <2> QED
    BY <1>0, <2>1 DEF Next, Edge, ExecuteEdge, DXSlot, XMSlot
<1>5. DbusWord \in Word
  BY <1>0, AddressAssumption DEF DbusWord, XMSlot, DXSlot
<1>6. mw' \in MWSlot
  <2>1. StageState(mw.state, xm.state, MemStall, FALSE, FALSE, MemTrap) \in State
    BY <1>0, SignalTypes DEF StageState, MWSlot, XMSlot, DXSlot
  <2>2. /\ LoadData(xm.insn, xm.rs1_rdata, DbusWord) \in Word
        /\ Result(xm.insn, xm.pc, xm.rs1_rdata, xm.rs2_rdata) \in Word
    BY <1>0, <1>5, AddressAssumption DEF XMSlot, DXSlot
  <2> QED
    BY <1>0, <2>1, <2>2 DEF Next, Edge, MemEdge, MWSlot, XMSlot, DXSlot
<1>7. regs' \in [Reg -> Word]
  BY <1>0 DEF Next, Edge, WritebackEdge, MWSlot
<1>8. memory' \in [Addr -> Word]
  <2>1. StoreData(xm.insn, xm.rs1_rdata, DbusWord, xm.rs2_rdata) \in Word
    BY <1>0, <1>5, AddressAssumption DEF XMSlot, DXSlot
  <2> QED
    BY <1>0, <2>1 DEF Next, Edge, DbusStore
<1> QED
  BY <1>1, <1>2, <1>3, <1>4, <1>6, <1>7, <1>8 DEF Next, TypeOK

LEMMA TypeStutter == TypeOK /\ UNCHANGED vars => TypeOK'
  BY DEF TypeOK, vars, DbusCyc, IbusCyc, Respond, Rsp, IsMemory, DecodeStall, Flush,
         StageStall, DecodeHazard, DataHazard, Reads, ExecuteStall, MemStall, DbusBusy,
         BranchTaken, TrapRaised, MemTrap, StageTrap, BranchTrap, BranchTrue, DbusTrap

(* TypeOK of module Core: every slot of the pipeline, the registers and    *)
(* memory keep their layouts, and a bus answers only what it is asked.     *)
THEOREM TypeCorrect == Spec => []TypeOK
<1>1. TypeOK /\ [Next]_vars => TypeOK'
  BY TypeNext, TypeStutter
<1> QED
  BY <1>1, TypeInit, PTL DEF Spec

(***************************************************************************)
(* The five things a clock edge can do to the pipeline.                    *)
(***************************************************************************)

\* mem waits for the data bus: so does everything before it.
Waiting == MemStall

Redirected == Flush

\* An operand is not there yet: decode and what is before it wait.
Hazarded == ~MemStall /\ ~Flush /\ DecodeStall

\* The next word is not there yet: fetch waits.
Starved == ~MemStall /\ ~Flush /\ ~DecodeStall /\ FetchStall

Flowing == ~MemStall /\ ~Flush /\ ~DecodeStall /\ ~FetchStall

LEMMA FiveEdges == Waiting \/ Redirected \/ Hazarded \/ Starved \/ Flowing
  BY DEF Waiting, Redirected, Hazarded, Starved, Flowing

\* A stage that waits makes those before it wait; only a flush frees them.
LEMMA StallOrder ==
  /\ Flush => ~MemStall
  /\ ExecuteStall <=> MemStall
  /\ MemStall => DecodeStall
  /\ DecodeStall => FetchStall
  /\ FetchStall <=> PcgenStall
  /\ Flush => ~DecodeStall /\ ~FetchStall
  BY DEF Flush, BranchTaken, TrapRaised, ExecuteStall, DecodeStall, FetchStall, PcgenStall,
         StageStall

LEMMA EdgeWaiting ==
  ASSUME TypeOK, Next, Waiting
  PROVE  /\ pf' = pf /\ fd' = fd /\ dx' = dx /\ xm' = xm
         /\ memory' = memory /\ mw'.state = "BUBBLE"
<1>1. /\ MemStall /\ ExecuteStall /\ DecodeStall /\ FetchStall /\ PcgenStall
      /\ ~BranchTaken /\ ~TrapRaised
  BY StallOrder DEF Waiting, BranchTaken, TrapRaised
<1>2. pf \in PFSlot /\ fd \in FDSlot /\ dx \in DXSlot /\ xm \in XMSlot
  BY DEF TypeOK
<1>3. pf' = pf
  BY <1>1, <1>2 DEF Next, Edge, PcgenEdge, StageState, PFSlot
<1>4. fd' = fd
  BY <1>1, <1>2 DEF Next, Edge, FetchEdge, StageState, FDSlot
<1>5. dx' = dx
  BY <1>1, <1>2 DEF Next, Edge, DecodeEdge, StageState, DXSlot
<1>6. xm' = xm
  BY <1>1, <1>2 DEF Next, Edge, ExecuteEdge, StageState, XMSlot, DXSlot
<1>7. mw'.state = "BUBBLE"
  BY <1>1 DEF Next, Edge, MemEdge, StageState
<1>8. dbus_rsp = "none"
  BY <1>1 DEF MemStall, StageStall, DbusBusy
<1>9. memory' = memory
  BY <1>8 DEF Next, Edge, DbusStore
<1> QED
  BY <1>3, <1>4, <1>5, <1>6, <1>7, <1>9

LEMMA EdgeRedirected ==
  ASSUME TypeOK, Next, Redirected
  PROVE  /\ fd'.state = "BUBBLE" /\ dx'.state = "BUBBLE" /\ xm'.state = "BUBBLE"
         /\ pf' = [state |-> "VALID",
                   pc |-> IF BranchTaken THEN Target(xm.insn, xm.pc, xm.rs1_rdata)
                          ELSE TrapVector]
<1>1. /\ ~MemStall /\ ~ExecuteStall /\ ~DecodeStall /\ ~FetchStall /\ ~PcgenStall
      /\ Flush /\ (BranchTaken \/ TrapRaised)
  BY StallOrder DEF Redirected, Flush
<1>2. dx \in DXSlot
  BY DEF TypeOK
<1>3. fd'.state = "BUBBLE" /\ dx'.state = "BUBBLE"
  BY <1>1 DEF Next, Edge, FetchEdge, DecodeEdge, StageState
<1>4. xm'.state = "BUBBLE"
  BY <1>1, <1>2 DEF Next, Edge, ExecuteEdge, StageState, DXSlot
<1>5. pf' = [state |-> "VALID",
             pc |-> IF BranchTaken THEN Target(xm.insn, xm.pc, xm.rs1_rdata) ELSE TrapVector]
  BY <1>1 DEF Next, Edge, PcgenEdge, StageState
<1> QED
  BY <1>3, <1>4, <1>5

\* Decode passes on what it holds, with the operands as the registers are.
LEMMA EdgeDecoded ==
  ASSUME TypeOK, Next, ~Flush, ~DecodeStall
  PROVE  /\ dx'.state = (IF DecodeTrap THEN "TRAP" ELSE fd.state)
         /\ dx'.pc = fd.pc /\ dx'.insn = fd.insn
         /\ dx'.rs1_rdata = regs[Control(fd.insn).rs1]
         /\ dx'.rs2_rdata = regs[Control(fd.insn).rs2]
  BY DEF Next, Edge, DecodeEdge, StageState

LEMMA EdgeExecuted ==
  ASSUME TypeOK, Next, ~Flush, ~MemStall
  PROVE  xm' = dx
<1>1. ~ExecuteStall
  BY StallOrder
<1>2. dx \in DXSlot
  BY DEF TypeOK
<1> QED
  BY <1>1, <1>2 DEF Next, Edge, ExecuteEdge, StageState, DXSlot

LEMMA EdgeHazarded ==
  ASSUME TypeOK, Next, Hazarded
  PROVE  pf' = pf /\ fd' = fd /\ dx'.state = "BUBBLE" /\ xm' = dx
<1>1. /\ ~MemStall /\ ~ExecuteStall /\ DecodeStall /\ FetchStall /\ PcgenStall
      /\ ~Flush /\ ~BranchTaken /\ ~TrapRaised
  BY StallOrder DEF Hazarded, Flush
<1>2. pf \in PFSlot /\ fd \in FDSlot
  BY DEF TypeOK
<1>3. pf' = pf
  BY <1>1, <1>2 DEF Next, Edge, PcgenEdge, StageState, PFSlot
<1>4. fd' = fd
  BY <1>1, <1>2 DEF Next, Edge, FetchEdge, StageState, FDSlot
<1>5. dx'.state = "BUBBLE"
  BY <1>1 DEF Next, Edge, DecodeEdge, StageState
<1> QED
  BY <1>1, <1>3, <1>4, <1>5, EdgeExecuted

LEMMA EdgeStarved ==
  ASSUME TypeOK, Next, Starved
  PROVE  /\ pf' = pf /\ fd'.state = "BUBBLE" /\ xm' = dx
         /\ pf.state = "VALID"
<1>1. /\ ~MemStall /\ ~ExecuteStall /\ ~DecodeStall /\ FetchStall /\ PcgenStall
      /\ ~Flush /\ ~BranchTaken /\ ~TrapRaised
  BY StallOrder DEF Starved, Flush
<1>2. pf \in PFSlot
  BY DEF TypeOK
<1>3. pf' = pf
  BY <1>1, <1>2 DEF Next, Edge, PcgenEdge, StageState, PFSlot
<1>4. fd'.state = "BUBBLE"
  BY <1>1 DEF Next, Edge, FetchEdge, StageState
<1>5. pf.state = "VALID"
  BY <1>1 DEF FetchStall, StageStall
<1> QED
  BY <1>1, <1>3, <1>4, <1>5, EdgeExecuted

LEMMA EdgeFlowing ==
  ASSUME TypeOK, Next, Flowing
  PROVE  /\ pf' = [state |-> "VALID", pc |-> Plus4(pf.pc)]
         /\ fd'.pc = pf.pc
         /\ fd'.state = (IF FetchTrap THEN "TRAP" ELSE pf.state)
         /\ ~IbusTrap => fd'.insn = memory[pf.pc]
         /\ xm' = dx
         /\ pf.state = "VALID" => ~FenceStall
<1>1. /\ ~MemStall /\ ~ExecuteStall /\ ~DecodeStall /\ ~FetchStall /\ ~PcgenStall
      /\ ~Flush /\ ~BranchTaken /\ ~TrapRaised
  BY StallOrder DEF Flowing, Flush
<1>2. pf' = [state |-> "VALID", pc |-> Plus4(pf.pc)]
  BY <1>1 DEF Next, Edge, PcgenEdge, StageState
<1>3. /\ fd'.pc = pf.pc
      /\ fd'.state = (IF FetchTrap THEN "TRAP" ELSE pf.state)
      /\ ~IbusTrap => fd'.insn = memory[pf.pc]
  BY <1>1 DEF Next, Edge, FetchEdge, StageState
<1>4. pf.state = "VALID" => ~FenceStall
  BY <1>1 DEF FetchStall, StageStall
<1> QED
  BY <1>1, <1>2, <1>3, <1>4, EdgeExecuted

(***************************************************************************)
(* The inductive invariant of module CoreIsa.                              *)
(***************************************************************************)

LEMMA IInvInit == IInit => IInv
<1> SUFFICES ASSUME IInit PROVE IInv
  OBVIOUS
<1>1. TypeOK
  BY TypeInit DEF IInit
<1>2. ITypeOK
  BY <1>1, AddressAssumption DEF ITypeOK, TypeOK, IInit
<1>3. Consecutive
  BY DEF Consecutive, IInit, Init, Full
<1>4. Fetched
  BY DEF Fetched, IInit, Init
<1>5. Fenced /\ OperandsRead
  BY DEF Fenced, OperandsRead, UpToDate, IInit, Init
<1> QED
  BY <1>2, <1>3, <1>4, <1>5 DEF IInv

LEMMA ITypeNext == ITypeOK /\ INext => ITypeOK'
<1> SUFFICES ASSUME ITypeOK, INext PROVE ITypeOK'
  OBVIOUS
<1>1. TypeOK'
  BY TypeNext DEF ITypeOK, INext
<1>2. memory \in [Addr -> Word] /\ memory' \in [Addr -> Word]
  BY <1>1 DEF ITypeOK, TypeOK
<1>3. visible' \in [PC -> SUBSET Word]
  BY <1>2, AddressAssumption DEF ITypeOK, INext, RecordVisible
<1> QED
  BY <1>1, <1>3 DEF ITypeOK

\* Every edge stores what writeback holds, so that the registers lag by one edge only.
LEMMA WrittenNext ==
  ASSUME TypeOK, Next, NEW r \in Reg,
         ~(~MemStall /\ ~MemTrap /\ xm.state = "VALID"
             /\ Control(xm.insn).rd_wen /\ Control(xm.insn).rd = r)
  PROVE  WrittenRegs'[r] = WrittenRegs[r]
<1>1. regs' = WrittenRegs
  BY DEF Next, Edge, WritebackEdge, WrittenRegs
<1>2. regs' \in [Reg -> Word]
  BY TypeNext DEF TypeOK
<1>3. mw'.state = (IF MemStall THEN "BUBBLE" ELSE IF MemTrap THEN "TRAP" ELSE xm.state)
  BY DEF Next, Edge, MemEdge, StageState
<1>4. ~MemStall => mw'.insn = xm.insn
  BY DEF Next, Edge, MemEdge
<1>5. CASE mw'.state = "VALID" /\ Control(mw'.insn).rd_wen
  <2>1. Control(mw'.insn).rd # r
    BY <1>3, <1>4, <1>5
  <2>2. WrittenRegs' = [regs' EXCEPT ![Control(mw'.insn).rd] = mw'.wdata]
    BY <1>5 DEF WrittenRegs
  <2> QED
    BY <1>1, <1>2, <2>1, <2>2
<1>6. CASE ~(mw'.state = "VALID" /\ Control(mw'.insn).rd_wen)
  <2>1. WrittenRegs' = regs'
    BY <1>6 DEF WrittenRegs
  <2> QED
    BY <1>1, <2>1
<1> QED
  BY <1>5, <1>6

LEMMA ConsecutiveNext == IInv /\ INext => Consecutive'
<1> SUFFICES ASSUME IInv, INext PROVE Consecutive'
  OBVIOUS
<1>0. TypeOK /\ Next /\ Consecutive
  BY DEF IInv, ITypeOK, INext
<1>1. CASE Waiting
  BY <1>0, <1>1, EdgeWaiting DEF Consecutive, Full, PCAfterDecode, PCAfterExecute
<1>2. CASE Redirected
  BY <1>0, <1>2, EdgeRedirected DEF Consecutive, Full
<1>3. CASE Hazarded
  BY <1>0, <1>3, EdgeHazarded DEF Consecutive, Full, PCAfterDecode, PCAfterExecute
<1>4. CASE Starved
  <2>1. dx'.state # "BUBBLE" <=> fd.state # "BUBBLE"
    BY <1>0, <1>4, EdgeDecoded DEF Starved, DecodeTrap, StageTrap
  <2>2. dx'.pc = fd.pc
    BY <1>0, <1>4, EdgeDecoded DEF Starved
  <2> QED
    BY <1>0, <1>4, <2>1, <2>2, EdgeStarved
    DEF Consecutive, Full, PCAfterDecode, PCAfterExecute
<1>5. CASE Flowing
  <2>1. dx'.state # "BUBBLE" <=> fd.state # "BUBBLE"
    BY <1>0, <1>5, EdgeDecoded DEF Flowing, DecodeTrap, StageTrap
  <2>2. dx'.pc = fd.pc
    BY <1>0, <1>5, EdgeDecoded DEF Flowing
  <2>3. fd'.state # "BUBBLE" <=> pf.state # "BUBBLE"
    BY <1>0, <1>5, EdgeFlowing DEF FetchTrap, StageTrap
  <2> QED
    BY <1>0, <1>5, <2>1, <2>2, <2>3, EdgeFlowing
    DEF Consecutive, Full, PCAfterDecode, PCAfterExecute
<1> QED
  BY <1>1, <1>2, <1>3, <1>4, <1>5, FiveEdges

\* What a fetch may see only grows, until a FENCE.I retires.
LEMMA VisibleNext ==
  ASSUME IInv, INext, NEW p \in PC
  PROVE  /\ memory[p] \in visible'[p] /\ memory'[p] \in visible'[p]
         /\ ~SawFence => visible[p] \subseteq visible'[p]
<1>1. visible'[p] = IF SawFence THEN {memory[p]} ELSE visible[p] \union {memory'[p]}
  BY DEF INext, RecordVisible
<1>2. memory[p] \in visible[p]
  BY DEF IInv, Fetched
<1>3. SawFence => memory' = memory
  <2> SUFFICES ASSUME SawFence PROVE memory' = memory
    OBVIOUS
  <2>1. xm.insn \in Word
    BY DEF IInv, ITypeOK, TypeOK, XMSlot, DXSlot
  <2>2. ~IsMemory(xm.insn)
    BY <2>1, DecoderAssumption DEF SawFence
  <2> QED
    BY <2>2 DEF INext, Next, Edge, DbusStore, DbusCyc
<1> QED
  BY <1>1, <1>2, <1>3

LEMMA FetchedNext == IInv /\ INext => Fetched'
<1> SUFFICES ASSUME IInv, INext PROVE Fetched'
  OBVIOUS
<1>0. TypeOK /\ Next /\ Consecutive /\ Fetched /\ Fenced
  BY DEF IInv, ITypeOK, INext
<1>1. fd.pc \in PC /\ dx.pc \in PC /\ xm.pc \in PC /\ pf.pc \in PC
  BY <1>0 DEF TypeOK, PFSlot, FDSlot, DXSlot, XMSlot
<1>2. SawFence => ~MemStall /\ dx.state = "BUBBLE" /\ fd.state = "BUBBLE"
  BY <1>0 DEF SawFence, Commit, Fenced, Full
<1>3. \A p \in PC : memory'[p] \in visible'[p]
  BY VisibleNext
\* What decode passes on, it has checked.
<1>4. ASSUME ~Flush, ~DecodeStall
      PROVE  /\ dx'.state = "VALID" => SawLegal(dx)'
             /\ dx'.state = "TRAP" => SawIllegal(dx)' \/ "err" \in Answers
  <2>1. /\ dx'.state = (IF DecodeTrap THEN "TRAP" ELSE fd.state)
        /\ dx'.pc = fd.pc /\ dx'.insn = fd.insn
    BY <1>0, <1>4, EdgeDecoded
  <2>2. fd.state = "VALID" => fd.insn \in visible'[fd.pc]
    BY <1>0, <1>1, <1>2, VisibleNext DEF Fetched
  <2>3. CASE DecodeTrap
    BY <1>0, <2>1, <2>2, <2>3 DEF DecodeTrap, StageTrap, Fetched, SawIllegal
  <2>4. CASE ~DecodeTrap
    BY <1>0, <2>1, <2>2, <2>4 DEF DecodeTrap, StageTrap, SawLegal
  <2> QED
    BY <2>3, <2>4
<1>5. ASSUME xm' = dx
      PROVE  /\ xm'.state = "VALID" => SawLegal(xm)'
             /\ xm'.state = "TRAP" => SawIllegal(xm)' \/ "err" \in Answers
  <2>1. dx.state # "BUBBLE" => visible[dx.pc] \subseteq visible'[dx.pc]
    BY <1>1, <1>2, VisibleNext
  <2> QED
    BY <1>0, <1>5, <2>1 DEF Fetched, SawLegal, SawIllegal
<1>6. ASSUME fd' = fd
      PROVE  /\ fd'.state = "VALID" => fd'.insn \in visible'[fd'.pc]
             /\ fd'.state = "TRAP" => "err" \in Answers
  BY <1>0, <1>1, <1>2, <1>6, VisibleNext DEF Fetched
<1>7. CASE Waiting
  <2>1. ~SawFence
    BY <1>2, <1>7 DEF Waiting
  <2>2. fd' = fd /\ dx' = dx /\ xm' = xm
    BY <1>0, <1>7, EdgeWaiting
  <2>3. /\ dx.state = "VALID" => SawLegal(dx)'
        /\ dx.state = "TRAP" => SawIllegal(dx)' \/ "err" \in Answers
    BY <1>0, <1>1, <2>1, <2>2, VisibleNext DEF Fetched, SawLegal, SawIllegal
  <2>4. /\ xm.state = "VALID" => SawLegal(xm)'
        /\ xm.state = "TRAP" => SawIllegal(xm)' \/ "err" \in Answers
    BY <1>0, <1>1, <2>1, <2>2, VisibleNext DEF Fetched, SawLegal, SawIllegal
  <2> QED
    BY <1>3, <1>6, <2>2, <2>3, <2>4 DEF Fetched
<1>8. CASE Redirected
  BY <1>0, <1>3, <1>8, EdgeRedirected DEF Fetched
<1>9. CASE Hazarded
  BY <1>0, <1>3, <1>5, <1>6, <1>9, EdgeHazarded DEF Fetched
<1>10. CASE Starved
  BY <1>0, <1>3, <1>4, <1>5, <1>10, EdgeStarved DEF Starved, Fetched
<1>11. CASE Flowing
  <2>1. fd'.pc = pf.pc /\ fd'.state = (IF FetchTrap THEN "TRAP" ELSE pf.state)
    BY <1>0, <1>11, EdgeFlowing
  <2>2. ASSUME fd'.state = "VALID" PROVE fd'.insn \in visible'[fd'.pc]
    <3>1. ~IbusTrap
      BY <2>1, <2>2 DEF FetchTrap, StageTrap
    <3> QED
      BY <1>0, <1>1, <1>11, <2>1, <3>1, EdgeFlowing, VisibleNext
  <2>3. ASSUME fd'.state = "TRAP" PROVE "err" \in Answers
    <3>1. ibus_rsp = "err"
      BY <1>0, <2>1, <2>3 DEF FetchTrap, StageTrap, IbusTrap, Consecutive
    <3> QED
      BY <1>0, <3>1 DEF TypeOK, Respond, Rsp
  <2>4. ~Flush /\ ~DecodeStall /\ xm' = dx
    BY <1>0, <1>11, EdgeFlowing DEF Flowing
  <2> QED
    BY <1>3, <1>4, <1>5, <2>2, <2>3, <2>4 DEF Fetched
<1> QED
  BY <1>7, <1>8, <1>9, <1>10, <1>11, FiveEdges

LEMMA FencedNext == IInv /\ INext => Fenced'
<1> SUFFICES ASSUME IInv, INext PROVE Fenced'
  OBVIOUS
<1>0. TypeOK /\ Next /\ Consecutive /\ Fenced
  BY DEF IInv, ITypeOK, INext
<1>1. CASE Waiting
  BY <1>0, <1>1, EdgeWaiting DEF Fenced, Full
<1>2. CASE Redirected
  BY <1>0, <1>2, EdgeRedirected DEF Fenced
<1>3. CASE Hazarded
  BY <1>0, <1>3, EdgeHazarded DEF Fenced, Full
\* Decode passes on a bubble, or an instruction that fetch has seen there.
<1>4. ASSUME ~Flush, ~DecodeStall
      PROVE  /\ dx'.insn = fd.insn
             /\ dx'.state = "VALID" => fd.state = "VALID"
             /\ fd.state = "BUBBLE" => dx'.state = "BUBBLE"
  BY <1>0, <1>4, EdgeDecoded DEF DecodeTrap, StageTrap
<1>5. CASE Starved
  BY <1>0, <1>4, <1>5, EdgeStarved DEF Starved, Fenced, Full
<1>6. CASE Flowing
  <2>1. pf.state = "VALID" => ~FenceStall
    BY <1>0, <1>6, EdgeFlowing
  <2>2. pf.state \in State /\ xm' = dx
    BY <1>0, <1>6, EdgeFlowing DEF TypeOK, PFSlot
  <2>3. dx'.state = "VALID" => ~Control(dx'.insn).fence_i
    BY <1>0, <1>4, <1>6, <2>1, <2>2 DEF Flowing, FenceStall, Consecutive, Full, State
  <2>4. xm'.state = "VALID" => ~Control(xm'.insn).fence_i
    BY <1>0, <2>1, <2>2 DEF FenceStall, Consecutive, Full, State
  <2> QED
    BY <2>3, <2>4 DEF Fenced
<1> QED
  BY <1>1, <1>2, <1>3, <1>5, <1>6, FiveEdges

LEMMA OperandsNext == IInv /\ INext => OperandsRead'
<1> SUFFICES ASSUME IInv, INext PROVE OperandsRead'
  OBVIOUS
<1>0. TypeOK /\ Next /\ OperandsRead
  BY DEF IInv, ITypeOK, INext
<1>1. /\ fd.insn \in Word /\ dx.insn \in Word /\ xm.insn \in Word /\ mw.insn \in Word
      /\ regs \in [Reg -> Word]
  BY <1>0 DEF TypeOK, FDSlot, DXSlot, XMSlot, MWSlot
<1>2. \A w \in Word : /\ Control(w) \in ControlSignals
                      /\ Control(w).rd_wen => Control(w).rd # X0
  BY UnitsAssumption, DecoderAssumption, AddressAssumption
\* Decode lets an instruction pass only if nothing ahead is to write its operands.
<1>3. ASSUME ~Flush, ~DecodeStall
      PROVE  UpToDate(dx)'
  <2> SUFFICES ASSUME dx'.state = "VALID" PROVE UpToDate(dx)'
    BY DEF UpToDate
  <2> DEFINE c == Control(fd.insn)
  <2>1. /\ fd.state = "VALID" /\ dx'.insn = fd.insn
        /\ dx'.rs1_rdata = regs[c.rs1] /\ dx'.rs2_rdata = regs[c.rs2]
    BY <1>0, <1>3, EdgeDecoded DEF DecodeTrap, StageTrap
  <2>2. ~DataHazard(dx) /\ ~DataHazard(xm) /\ ~DataHazard(mw)
    BY <1>3, <2>1 DEF DecodeStall, StageStall, DecodeHazard
  <2>3. ASSUME NEW r \in Reg, Reads(fd.insn, r) \/ r = X0
        PROVE  WrittenRegs'[r] = regs[r]
    <3>1. ~(mw.state = "VALID" /\ Control(mw.insn).rd_wen /\ Control(mw.insn).rd = r)
      BY <1>1, <1>2, <2>2, <2>3 DEF DataHazard
    <3>2. WrittenRegs[r] = regs[r]
      BY <1>1, <3>1 DEF WrittenRegs
    <3>3. ~(xm.state = "VALID" /\ Control(xm.insn).rd_wen /\ Control(xm.insn).rd = r)
      BY <1>1, <1>2, <2>2, <2>3 DEF DataHazard
    <3> QED
      BY <1>0, <3>2, <3>3, WrittenNext
  <2>4. c.rs1 \in Reg /\ c.rs2 \in Reg
    BY <1>1, <1>2 DEF ControlSignals
  <2>5. c.rs1_ren \/ c.rs1 = X0 => dx'.rs1_rdata = WrittenRegs'[c.rs1]
    BY <2>1, <2>3, <2>4 DEF Reads
  <2>6. c.rs2_ren \/ c.rs2 = X0 => dx'.rs2_rdata = WrittenRegs'[c.rs2]
    BY <2>1, <2>3, <2>4 DEF Reads
  <2> QED
    BY <2>1, <2>5, <2>6 DEF UpToDate
\* What leaves execute is not written by what leaves mem.
<1>4. ASSUME xm' = dx
      PROVE  UpToDate(xm)'
  <2> SUFFICES ASSUME dx.state = "VALID" PROVE UpToDate(xm)'
    BY <1>4 DEF UpToDate
  <2> DEFINE c == Control(dx.insn)
  <2>1. ASSUME NEW r \in Reg, Reads(dx.insn, r) \/ r = X0
        PROVE  WrittenRegs'[r] = WrittenRegs[r]
    <3>1. ~(xm.state = "VALID" /\ Control(xm.insn).rd_wen /\ Control(xm.insn).rd = r)
      BY <1>0, <1>1, <1>2, <2>1 DEF OperandsRead
    <3> QED
      BY <1>0, <3>1, WrittenNext
  <2>2. c.rs1 \in Reg /\ c.rs2 \in Reg
    BY <1>1, <1>2 DEF ControlSignals
  <2>3. c.rs1_ren \/ c.rs1 = X0 => dx.rs1_rdata = WrittenRegs'[c.rs1]
    BY <1>0, <2>1, <2>2 DEF Reads, OperandsRead, UpToDate
  <2>4. c.rs2_ren \/ c.rs2 = X0 => dx.rs2_rdata = WrittenRegs'[c.rs2]
    BY <1>0, <2>1, <2>2 DEF Reads, OperandsRead, UpToDate
  <2> QED
    BY <1>4, <2>3, <2>4 DEF UpToDate
<1>5. ASSUME xm' = dx, ~Flush, ~DecodeStall
      PROVE  dx'.state = "VALID" /\ xm'.state = "VALID" /\ Control(xm'.insn).rd_wen =>
               ~Reads(dx'.insn, Control(xm'.insn).rd)
  <2>1. dx'.state = "VALID" => fd.state = "VALID" /\ dx'.insn = fd.insn
    BY <1>0, <1>5, EdgeDecoded DEF DecodeTrap, StageTrap
  <2>2. fd.state = "VALID" => ~DataHazard(dx)
    BY <1>5 DEF DecodeStall, StageStall, DecodeHazard
  <2> QED
    BY <1>5, <2>1, <2>2 DEF DataHazard
<1>6. CASE Waiting
  <2>1. dx' = dx /\ xm' = xm /\ MemStall
    BY <1>0, <1>6, EdgeWaiting DEF Waiting
  <2>2. \A r \in Reg : WrittenRegs'[r] = WrittenRegs[r]
    BY <1>0, <2>1, WrittenNext
  <2>3. /\ Control(dx.insn).rs1 \in Reg /\ Control(dx.insn).rs2 \in Reg
        /\ Control(xm.insn).rs1 \in Reg /\ Control(xm.insn).rs2 \in Reg
    BY <1>1, <1>2 DEF ControlSignals
  <2>4. UpToDate(dx)' /\ UpToDate(xm)'
    BY <1>0, <2>1, <2>2, <2>3 DEF OperandsRead, UpToDate
  <2> QED
    BY <1>0, <2>1, <2>4 DEF OperandsRead
<1>7. CASE Redirected
  BY <1>0, <1>7, EdgeRedirected DEF OperandsRead, UpToDate
<1>8. CASE Hazarded
  <2>1. dx'.state = "BUBBLE" /\ xm' = dx
    BY <1>0, <1>8, EdgeHazarded
  <2> QED
    BY <1>4, <2>1 DEF OperandsRead, UpToDate
<1>9. CASE Starved
  <2>1. xm' = dx /\ ~Flush /\ ~DecodeStall
    BY <1>0, <1>9, EdgeStarved DEF Starved
  <2> QED
    BY <1>3, <1>4, <1>5, <2>1 DEF OperandsRead
<1>10. CASE Flowing
  <2>1. xm' = dx /\ ~Flush /\ ~DecodeStall
    BY <1>0, <1>10, EdgeFlowing DEF Flowing
  <2> QED
    BY <1>3, <1>4, <1>5, <2>1 DEF OperandsRead
<1> QED
  BY <1>6, <1>7, <1>8, <1>9, <1>10, FiveEdges

LEMMA IInvNext == IInv /\ INext => IInv'
  BY ITypeNext, ConsecutiveNext, FetchedNext, FencedNext, OperandsNext DEF IInv

LEMMA IInvStutter == IInv /\ UNCHANGED ivars => IInv'
<1> SUFFICES ASSUME IInv, UNCHANGED ivars PROVE IInv'
  OBVIOUS
<1>1. /\ pf' = pf /\ fd' = fd /\ dx' = dx /\ xm' = xm /\ mw' = mw /\ regs' = regs
      /\ memory' = memory /\ ibus_rsp' = ibus_rsp /\ dbus_rsp' = dbus_rsp /\ visible' = visible
  BY DEF ivars, vars
<1>2. TypeOK'
  BY <1>1, TypeStutter DEF IInv, ITypeOK, vars
<1>3. ITypeOK'
  BY <1>1, <1>2 DEF IInv, ITypeOK
<1>4. WrittenRegs' = WrittenRegs
  BY <1>1 DEF WrittenRegs
<1>5. Consecutive' /\ Fetched' /\ Fenced'
  BY <1>1 DEF IInv, Consecutive, Fetched, Fenced, Full, PCAfterDecode, PCAfterExecute,
              SawLegal, SawIllegal
<1>6. OperandsRead'
  BY <1>1, <1>4 DEF IInv, OperandsRead, UpToDate
<1> QED
  BY <1>3, <1>5, <1>6 DEF IInv

(* The inductive invariant of module CoreIsa: instructions in flight are   *)
(* consecutive, were fetched from words that may be seen, wait behind a    *)
(* FENCE.I, and hold operands that no instruction ahead will change.       *)
THEOREM Invariant == ISpec => []IInv
<1>1. IInv /\ [INext]_ivars => IInv'
  BY IInvNext, IInvStutter
<1> QED
  BY <1>1, IInvInit, PTL DEF ISpec

(* RedirectNeverStalled of module Core: the argument of pcgen.py 17-26.    *)
THEOREM Redirects == Spec => []RedirectNeverStalled
<1>1. RedirectNeverStalled
  BY StallOrder DEF RedirectNeverStalled
<1> QED
  BY <1>1, PTL

(* BusRequestsHeld of module Core: a request a bus has not answered yet    *)
(* does not change under it.                                               *)
THEOREM BusesHeld == Spec => BusRequestsHeld
<1>1. ASSUME TypeOK, Next, DbusBusy
      PROVE  DbusCyc' /\ UNCHANGED xm
  <2>1. MemStall
    BY <1>1 DEF DbusBusy, DbusCyc, MemStall, StageStall
  <2>2. xm' = xm
    BY <1>1, <2>1, EdgeWaiting DEF Waiting
  <2> QED
    BY <1>1, <2>2 DEF DbusBusy, DbusCyc
<1>2. ASSUME TypeOK, Next, IbusBusy
      PROVE  UNCHANGED pf
  <2>1. ~Flush /\ ~DecodeStall /\ FetchStall
    BY <1>2 DEF IbusBusy, IbusCyc, FetchStall, StageStall
  <2>2. ~MemStall
    BY <2>1, StallOrder
  <2> QED
    BY <1>2, <2>1, <2>2, EdgeStarved DEF Starved
<1>3. TypeOK /\ [Next]_vars =>
        [/\ DbusBusy => DbusCyc' /\ UNCHANGED xm
         /\ IbusBusy => UNCHANGED pf]_vars
  BY <1>1, <1>2
<1> QED
  BY <1>3, TypeCorrect, PTL DEF Spec, BusRequestsHeld

(***************************************************************************)
(* The pipeline implements module Isa.                                     *)
(***************************************************************************)

\* Without a redirect, the program goes on with what is behind mem.
LEMMA MoveOn ==
  ASSUME IInv, INext, ~MemStall, ~Flush
  PROVE  /\ Full(xm) => OldestPC' = Plus4(xm.pc)
         /\ ~Full(xm) => OldestPC' = OldestPC
<1>0. TypeOK /\ Next /\ Consecutive
  BY DEF IInv, ITypeOK, INext
<1>1. OldestPC' = IF Full(dx) THEN dx.pc ELSE IF Full(fd) THEN fd.pc
                  ELSE IF Full(pf) THEN pf.pc ELSE Plus4(pf.pc)
  <2>1. CASE Hazarded
    BY <1>0, <2>1, EdgeHazarded DEF OldestPC, Full
  <2>2. ASSUME ~DecodeStall
        PROVE  (Full(dx)' <=> Full(fd)) /\ dx'.pc = fd.pc
    BY <1>0, <2>2, EdgeDecoded DEF DecodeTrap, StageTrap, Full
  <2>3. CASE Starved
    BY <1>0, <2>2, <2>3, EdgeStarved DEF Starved, OldestPC, Full
  <2>4. CASE Flowing
    <3>1. fd'.state # "BUBBLE" <=> pf.state # "BUBBLE"
      BY <1>0, <2>4, EdgeFlowing DEF FetchTrap, StageTrap
    <3> QED
      BY <1>0, <2>2, <2>4, <3>1, EdgeFlowing DEF Flowing, OldestPC, Full
  <2> QED
    BY <2>1, <2>3, <2>4, FiveEdges DEF Waiting, Redirected
<1>2. Full(xm) => OldestPC' = Plus4(xm.pc)
  BY <1>0, <1>1 DEF Consecutive, PCAfterDecode, PCAfterExecute, Full
<1>3. ~Full(xm) => OldestPC' = OldestPC
  BY <1>1 DEF OldestPC
<1> QED
  BY <1>2, <1>3

LEMMA RedirectTo ==
  ASSUME IInv, INext, Flush
  PROVE  OldestPC' = IF BranchTaken THEN Target(xm.insn, xm.pc, xm.rs1_rdata) ELSE TrapVector
  BY EdgeRedirected DEF IInv, ITypeOK, INext, Redirected, OldestPC, Full

\* The registers the program sees change when an instruction with a result retires.
LEMMA RegsUnwritten ==
  ASSUME TypeOK, Next,
         ~(~MemStall /\ ~MemTrap /\ xm.state = "VALID" /\ Control(xm.insn).rd_wen)
  PROVE  WrittenRegs' = WrittenRegs
<1>1. regs' = WrittenRegs
  BY DEF Next, Edge, WritebackEdge, WrittenRegs
<1>2. mw'.state = (IF MemStall THEN "BUBBLE" ELSE IF MemTrap THEN "TRAP" ELSE xm.state)
  BY DEF Next, Edge, MemEdge, StageState
<1>3. ~MemStall => mw'.insn = xm.insn
  BY DEF Next, Edge, MemEdge
<1>4. ~(mw'.state = "VALID" /\ Control(mw'.insn).rd_wen)
  BY <1>2, <1>3
<1> QED
  BY <1>1, <1>4 DEF WrittenRegs

LEMMA RegsWritten ==
  ASSUME TypeOK, Next, ~MemStall, ~MemTrap, xm.state = "VALID"
  PROVE  WrittenRegs' =
           IF Control(xm.insn).rd_wen
             THEN [WrittenRegs EXCEPT ![Control(xm.insn).rd] =
                     IF Control(xm.insn).mem_load
                       THEN LoadData(xm.insn, xm.rs1_rdata, DbusWord)
                       ELSE Result(xm.insn, xm.pc, xm.rs1_rdata, xm.rs2_rdata)]
             ELSE WrittenRegs
<1>1. regs' = WrittenRegs
  BY DEF Next, Edge, WritebackEdge, WrittenRegs
<1>2. mw'.state = "VALID" /\ mw'.insn = xm.insn
  BY DEF Next, Edge, MemEdge, StageState
<1>3. mw'.wdata = IF Control(xm.insn).mem_load
                    THEN LoadData(xm.insn, xm.rs1_rdata, DbusWord)
                    ELSE Result(xm.insn, xm.pc, xm.rs1_rdata, xm.rs2_rdata)
  BY DEF Next, Edge, MemEdge
<1> QED
  BY <1>1, <1>2, <1>3 DEF WrittenRegs

LEMMA VisibleUnchanged ==
  ASSUME IInv, INext, ~SawFence, memory' = memory
  PROVE  visible' = visible
<1>1. \A p \in PC : memory[p] \in visible[p]
  BY DEF IInv, Fetched
<1>2. visible \in [PC -> SUBSET Word]
  BY DEF IInv, ITypeOK
<1>3. visible' = [p \in PC |-> visible[p] \union {memory[p]}]
  BY DEF INext, RecordVisible
<1> QED
  BY <1>1, <1>2, <1>3

\* The units compute from the operands in the pipeline what they would from the registers.
LEMMA OperandsAgree ==
  ASSUME IInv, xm.state = "VALID",
         NEW a, a = WrittenRegs[Control(xm.insn).rs1],
         NEW b, b = WrittenRegs[Control(xm.insn).rs2]
  PROVE  /\ Result(xm.insn, xm.pc, xm.rs1_rdata, xm.rs2_rdata) = Result(xm.insn, xm.pc, a, b)
         /\ Taken(xm.insn, xm.pc, xm.rs1_rdata, xm.rs2_rdata) = Taken(xm.insn, xm.pc, a, b)
         /\ Target(xm.insn, xm.pc, xm.rs1_rdata) = Target(xm.insn, xm.pc, a)
         /\ TargetMisaligned(xm.insn, xm.pc, xm.rs1_rdata) = TargetMisaligned(xm.insn, xm.pc, a)
         /\ DataAddr(xm.insn, xm.rs1_rdata) = DataAddr(xm.insn, a)
         /\ DataMisaligned(xm.insn, xm.rs1_rdata) = DataMisaligned(xm.insn, a)
         /\ \A d \in Word :
              /\ LoadData(xm.insn, xm.rs1_rdata, d) = LoadData(xm.insn, a, d)
              /\ StoreData(xm.insn, xm.rs1_rdata, d, xm.rs2_rdata) = StoreData(xm.insn, a, d, b)
<1> DEFINE w == xm.insn
           c == Control(w)
           x == xm.rs1_rdata
           y == xm.rs2_rdata
<1>1. w \in Word /\ xm.pc \in PC /\ x \in Word /\ y \in Word
  BY DEF IInv, ITypeOK, TypeOK, XMSlot, DXSlot
<1>2. c \in ControlSignals /\ ~c.illegal
  BY <1>1, UnitsAssumption, AddressAssumption DEF IInv, Fetched, SawLegal
<1>3. WrittenRegs \in [Reg -> Word]
  BY DEF IInv, ITypeOK, TypeOK, WrittenRegs, MWSlot
<1>4. a \in Word /\ b \in Word
  BY <1>2, <1>3 DEF ControlSignals
<1>5. a = x \/ (~c.rs1_ren /\ c.rs1 # X0)
  BY DEF IInv, OperandsRead, UpToDate
<1>6. b = y \/ (~c.rs2_ren /\ c.rs2 # X0)
  BY DEF IInv, OperandsRead, UpToDate
<1>7. \A d \in Word :
        /\ Result(w, xm.pc, x, y) = Result(w, xm.pc, a, y)
        /\ Taken(w, xm.pc, x, y) = Taken(w, xm.pc, a, y)
        /\ Target(w, xm.pc, x) = Target(w, xm.pc, a)
        /\ TargetMisaligned(w, xm.pc, x) = TargetMisaligned(w, xm.pc, a)
        /\ DataAddr(w, x) = DataAddr(w, a)
        /\ DataMisaligned(w, x) = DataMisaligned(w, a)
        /\ LoadData(w, x, d) = LoadData(w, a, d)
        /\ StoreData(w, x, d, y) = StoreData(w, a, d, y)
  BY <1>1, <1>2, <1>4, <1>5, OperandAssumption
<1>8. \A d \in Word :
        /\ Result(w, xm.pc, a, y) = Result(w, xm.pc, a, b)
        /\ Taken(w, xm.pc, a, y) = Taken(w, xm.pc, a, b)
        /\ StoreData(w, a, d, y) = StoreData(w, a, d, b)
  BY <1>1, <1>2, <1>4, <1>6, OperandAssumption
<1>9. Zero \in Word
  BY AddressAssumption
<1> QED
  BY <1>7, <1>8, <1>9

\* Between two instructions the program sees nothing happen.
LEMMA StutterStep ==
  ASSUME IInv, INext, ~Commit
  PROVE  UNCHANGED ISA!isaVars
<1>0. TypeOK /\ Next
  BY DEF IInv, ITypeOK, INext
<1>1. ~SawFence
  BY DEF SawFence
<1>2. WrittenRegs' = WrittenRegs
  BY <1>0, RegsUnwritten DEF Commit
<1>3. OldestPC' = OldestPC /\ memory' = memory
  <2>1. CASE MemStall
    BY <1>0, <2>1, EdgeWaiting DEF Waiting, OldestPC, Full
  <2>2. CASE ~MemStall
    <3>1. xm.state = "BUBBLE"
      BY <2>2 DEF Commit
    <3>2. ~Flush /\ ~DbusCyc
      BY <3>1 DEF Flush, BranchTaken, TrapRaised, MemTrap, StageTrap, DbusCyc
    <3>3. memory' = memory
      BY <1>0, <3>2 DEF Next, Edge, DbusStore
    <3> QED
      BY <2>2, <3>1, <3>2, <3>3, MoveOn DEF Full
  <2> QED
    BY <2>1, <2>2
<1>4. visible' = visible
  BY <1>1, <1>3, VisibleUnchanged
<1> QED
  BY <1>2, <1>3, <1>4 DEF ISA!isaVars

\* An instruction that was marked to trap before it reached mem.
LEMMA TrapStep ==
  ASSUME IInv, INext, Commit, xm.state = "TRAP"
  PROVE  ISA!Next
<1>0. TypeOK /\ Next
  BY DEF IInv, ITypeOK, INext
<1>1. TrapRaised /\ ~BranchTaken /\ Flush /\ MemTrap
  BY DEF Commit, TrapRaised, MemTrap, StageTrap, BranchTaken, Flush
<1>2. OldestPC' = TrapVector
  BY <1>1, RedirectTo
<1>3. WrittenRegs' = WrittenRegs
  BY <1>0, RegsUnwritten
<1>4. memory' = memory /\ ~SawFence
  BY <1>0 DEF Next, Edge, DbusStore, DbusCyc, SawFence
<1>5. visible' = visible
  BY <1>4, VisibleUnchanged
<1>6. OldestPC = xm.pc /\ xm.insn \in Word
  BY <1>0 DEF OldestPC, Full, TypeOK, XMSlot, DXSlot
<1>7. SawIllegal(xm) \/ "err" \in Answers
  BY DEF IInv, Fetched
<1>8. CASE "err" \in Answers
  <2>1. ISA!FetchTrap
    BY <1>2, <1>3, <1>4, <1>5, <1>8 DEF ISA!FetchTrap
  <2> QED
    BY <2>1 DEF ISA!Next
<1>9. CASE SawIllegal(xm)
  <2>1. ISA!IllegalTrap(xm.insn)
    BY <1>2, <1>3, <1>4, <1>5, <1>6, <1>9 DEF ISA!IllegalTrap, SawIllegal
  <2> QED
    BY <1>6, <2>1 DEF ISA!Next
<1> QED
  BY <1>7, <1>8, <1>9

LEMMA ValidStep ==
  ASSUME IInv, INext, Commit, xm.state = "VALID"
  PROVE  ISA!Next
<1> DEFINE w == xm.insn
           c == Control(w)
           a == ISA!Rs1(w)
           b == ISA!Rs2(w)
<1>0. TypeOK /\ Next
  BY DEF IInv, ITypeOK, INext
<1>1. /\ w \in Word /\ xm.pc \in PC /\ xm.rs1_rdata \in Word /\ xm.rs2_rdata \in Word
      /\ memory \in [Addr -> Word]
  BY <1>0 DEF TypeOK, XMSlot, DXSlot
<1>2. ~MemStall /\ OldestPC = xm.pc
  BY DEF Commit, OldestPC, Full
<1>3. ISA!Legal(w)
  BY <1>2 DEF ISA!Legal, IInv, Fetched, SawLegal
<1>4. /\ c.mem_store \/ c.fence_i => ~c.rd_wen
      /\ ~(c.mem_load /\ c.mem_store)
      /\ c.fence_i => ~IsMemory(w)
      /\ IsMemory(w) \/ c.fence_i => ~BranchTrue
  BY <1>1, DecoderAssumption DEF BranchTrue
<1>5. /\ Result(w, xm.pc, xm.rs1_rdata, xm.rs2_rdata) = Result(w, xm.pc, a, b)
      /\ Taken(w, xm.pc, xm.rs1_rdata, xm.rs2_rdata) = Taken(w, xm.pc, a, b)
      /\ Target(w, xm.pc, xm.rs1_rdata) = Target(w, xm.pc, a)
      /\ TargetMisaligned(w, xm.pc, xm.rs1_rdata) = TargetMisaligned(w, xm.pc, a)
      /\ DataAddr(w, xm.rs1_rdata) = DataAddr(w, a)
      /\ DataMisaligned(w, xm.rs1_rdata) = DataMisaligned(w, a)
      /\ \A d \in Word :
           /\ LoadData(w, xm.rs1_rdata, d) = LoadData(w, a, d)
           /\ StoreData(w, xm.rs1_rdata, d, xm.rs2_rdata) = StoreData(w, a, d, b)
  BY OperandsAgree DEF ISA!Rs1, ISA!Rs2
<1>6. DbusWord = memory[DataAddr(w, a)] /\ DbusWord \in Word
  BY <1>1, <1>5, UnitsAssumption, AddressAssumption DEF DbusWord
<1>7. ~Flush => OldestPC' = Plus4(xm.pc)
  BY <1>2, MoveOn DEF Full
<1>8. MemTrap <=> BranchTrap \/ DbusTrap
  BY DEF MemTrap, StageTrap
<1>9. CASE IsMemory(w)
  <2>1. ~BranchTrue /\ ~BranchTrap /\ ~BranchTaken
    BY <1>4, <1>9 DEF BranchTrap, BranchTaken
  <2>2. ~SawFence
    BY <1>4, <1>9 DEF SawFence
  <2>3. CASE DbusTrap
    <3>1. OldestPC' = TrapVector
      BY <1>2, <1>8, <2>1, <2>3, RedirectTo DEF Flush, TrapRaised
    <3>2. WrittenRegs' = WrittenRegs
      BY <1>0, <1>8, <2>3, RegsUnwritten
    <3>3. memory' = memory
      BY <1>0, <2>3 DEF Next, Edge, DbusStore, DbusTrap, DbusCyc
    <3>4. visible' = visible
      BY <2>2, <3>3, VisibleUnchanged
    <3>5. DataMisaligned(w, a) \/ "err" \in Answers
      BY <1>0, <1>5, <2>3 DEF DbusTrap, TypeOK, Respond, Rsp
    <3>6. ISA!DataTrap(w)
      BY <1>3, <1>9, <3>1, <3>2, <3>3, <3>4, <3>5 DEF ISA!DataTrap, ISA!IsMemory, IsMemory
    <3> QED
      BY <1>1, <3>6 DEF ISA!Next
  <2>4. CASE ~DbusTrap
    <3>1. ~MemTrap /\ ~Flush /\ OldestPC' = Plus4(xm.pc)
      BY <1>7, <1>8, <2>1, <2>4 DEF Flush, TrapRaised
    <3>2. DbusCyc /\ ~DataMisaligned(w, a)
      BY <1>5, <1>9, <2>4 DEF DbusTrap, DbusCyc
    <3>3. dbus_rsp = "ack"
      <4>1. dbus_rsp # "none"
        BY <1>2, <3>2 DEF MemStall, StageStall, DbusBusy
      <4>2. dbus_rsp # "err"
        BY <1>9, <2>4, <3>2 DEF DbusTrap
      <4> QED
        BY <1>0, <4>1, <4>2, AddressAssumption DEF TypeOK, Respond, Rsp
    <3>4. CASE c.mem_load
      <4>1. memory' = memory
        BY <1>0, <1>4, <3>4 DEF Next, Edge, DbusStore
      <4>2. visible' = visible
        BY <2>2, <4>1, VisibleUnchanged
      <4>3. WrittenRegs' = IF c.rd_wen
                             THEN [WrittenRegs EXCEPT ![c.rd] =
                                     LoadData(w, a, memory[DataAddr(w, a)])]
                             ELSE WrittenRegs
        BY <1>0, <1>2, <1>5, <1>6, <3>1, <3>4, RegsWritten
      <4>4. ISA!Load(w)
        BY <1>2, <1>3, <3>1, <3>2, <3>4, <4>1, <4>2, <4>3
        DEF ISA!Load, ISA!WriteReg, ISA!Plus4, Plus4
      <4> QED
        BY <1>1, <4>4 DEF ISA!Next
    <3>5. CASE c.mem_store
      <4>1. WrittenRegs' = WrittenRegs
        BY <1>0, <1>4, <3>5, RegsUnwritten
      <4>2. memory' = [memory EXCEPT ![DataAddr(w, a)] =
                         StoreData(w, a, memory[DataAddr(w, a)], b)]
        BY <1>0, <1>5, <1>6, <3>2, <3>3, <3>5 DEF Next, Edge, DbusStore
      <4>3. visible' = [p \in PC |-> visible[p] \union {memory'[p]}]
        BY <2>2 DEF INext, RecordVisible
      <4>4. ISA!Store(w)
        BY <1>2, <1>3, <3>1, <3>2, <3>5, <4>1, <4>2, <4>3
        DEF ISA!Store, ISA!SeeStores, ISA!Plus4, Plus4, ISA!PC, PC
      <4> QED
        BY <1>1, <4>4 DEF ISA!Next
    <3> QED
      BY <1>9, <3>4, <3>5 DEF IsMemory
  <2> QED
    BY <2>3, <2>4
<1>10. CASE ~IsMemory(w)
  <2>1. memory' = memory /\ ~DbusTrap
    BY <1>0, <1>10 DEF Next, Edge, DbusStore, DbusCyc, DbusTrap
  <2>2. ~c.mem_load /\ ~c.mem_store
    BY <1>10 DEF IsMemory
  <2>3. CASE c.fence_i
    <3>1. ~MemTrap /\ ~Flush /\ OldestPC' = Plus4(xm.pc)
      BY <1>4, <1>7, <1>8, <2>1, <2>3 DEF Flush, TrapRaised, BranchTaken, BranchTrap
    <3>2. WrittenRegs' = WrittenRegs
      BY <1>0, <1>4, <2>3, RegsUnwritten
    <3>3. visible' = [p \in PC |-> {memory[p]}]
      BY <2>3 DEF INext, RecordVisible, SawFence
    <3>4. ISA!FenceI(w)
      BY <1>2, <1>3, <2>1, <2>3, <3>1, <3>2, <3>3
      DEF ISA!FenceI, ISA!Plus4, Plus4, ISA!PC, PC
    <3> QED
      BY <1>1, <3>4 DEF ISA!Next
  <2>4. CASE ~c.fence_i
    <3>1. visible' = visible
      BY <2>1, <2>4, VisibleUnchanged DEF SawFence
    <3>2. CASE BranchTrue
      <4>1. OldestPC' = Target(w, xm.pc, a)
        BY <1>2, <1>5, <3>2, RedirectTo DEF Flush, BranchTaken
      <4>2. MemTrap <=> TargetMisaligned(w, xm.pc, a)
        BY <1>5, <1>8, <2>1, <3>2 DEF BranchTrap
      <4>3. CASE TargetMisaligned(w, xm.pc, a)
        <5>1. WrittenRegs' = WrittenRegs
          BY <1>0, <4>2, <4>3, RegsUnwritten
        <5>2. ISA!Jump(w)
          BY <1>2, <1>3, <1>5, <1>10, <2>1, <2>4, <3>1, <3>2, <4>1, <4>3, <5>1
          DEF ISA!Jump, BranchTrue, ISA!IsMemory, IsMemory
        <5> QED
          BY <1>1, <5>2 DEF ISA!Next
      <4>4. CASE ~TargetMisaligned(w, xm.pc, a)
        <5>1. WrittenRegs' = IF c.rd_wen
                               THEN [WrittenRegs EXCEPT ![c.rd] = Result(w, xm.pc, a, b)]
                               ELSE WrittenRegs
          BY <1>0, <1>2, <1>5, <2>2, <4>2, <4>4, RegsWritten
        <5>2. ISA!Jump(w)
          BY <1>2, <1>3, <1>5, <1>10, <2>1, <2>4, <3>1, <3>2, <4>1, <4>4, <5>1
          DEF ISA!Jump, ISA!WriteReg, BranchTrue, ISA!IsMemory, IsMemory
        <5> QED
          BY <1>1, <5>2 DEF ISA!Next
      <4> QED
        BY <4>3, <4>4
    <3>3. CASE ~BranchTrue
      <4>1. ~MemTrap /\ ~Flush /\ OldestPC' = Plus4(xm.pc)
        BY <1>7, <1>8, <2>1, <3>3 DEF Flush, TrapRaised, BranchTaken, BranchTrap
      <4>2. WrittenRegs' = IF c.rd_wen
                             THEN [WrittenRegs EXCEPT ![c.rd] = Result(w, xm.pc, a, b)]
                             ELSE WrittenRegs
        BY <1>0, <1>2, <1>5, <2>2, <4>1, RegsWritten
      <4>3. ISA!Compute(w)
        BY <1>2, <1>3, <1>5, <1>10, <2>1, <2>4, <3>1, <3>3, <4>1, <4>2
        DEF ISA!Compute, ISA!WriteReg, BranchTrue, ISA!Plus4, Plus4, ISA!IsMemory, IsMemory
      <4> QED
        BY <1>1, <4>3 DEF ISA!Next
    <3> QED
      BY <3>2, <3>3
  <2> QED
    BY <2>3, <2>4
<1> QED
  BY <1>9, <1>10

LEMMA RefinementInit == IInit => ISA!Init
<1> SUFFICES ASSUME IInit PROVE ISA!Init
  OBVIOUS
<1>1. OldestPC = ResetVector
  <2>1. OldestPC = Plus4(pf.pc)
    BY DEF IInit, Init, OldestPC, Full
  <2>2. pf.pc = IF ResetVector = 0 THEN NPC - 1 ELSE ResetVector - 1
    BY DEF IInit, Init
  <2> QED
    BY <2>1, <2>2, AddressAssumption DEF Plus4, PC
<1>2. WrittenRegs = [r \in Reg |-> Zero]
  BY DEF IInit, Init, WrittenRegs
<1> QED
  BY <1>1, <1>2 DEF ISA!Init, IInit, Init, ISA!PC, PC

(* The pipeline is an implementation of Isa: however it interleaves the    *)
(* work of up to five instructions, and whatever the buses do, a program   *)
(* sees one instruction at a time (cpu.py 50-68).                          *)
THEOREM Refinement == ISpec => IsaSpec
<1>1. IInv /\ [INext]_ivars => [ISA!Next]_ISA!isaVars
  <2> SUFFICES ASSUME IInv, [INext]_ivars PROVE [ISA!Next]_ISA!isaVars
    OBVIOUS
  <2>1. CASE UNCHANGED ivars
    BY <2>1 DEF ivars, vars, ISA!isaVars, OldestPC, WrittenRegs, Full
  <2>2. CASE INext /\ ~Commit
    BY <2>2, StutterStep
  <2>3. CASE INext /\ Commit
    <3>1. xm.state \in State
      BY DEF IInv, ITypeOK, TypeOK, XMSlot, DXSlot
    <3>2. xm.state = "VALID" \/ xm.state = "TRAP"
      BY <2>3, <3>1 DEF Commit, State
    <3> QED
      BY <2>3, <3>2, TrapStep, ValidStep
  <2> QED
    BY <2>1, <2>2, <2>3
<1> QED
  BY <1>1, RefinementInit, Invariant, PTL DEF ISpec, IsaSpec, ISA!Spec

=============================================================================
