------------------------------ MODULE SocProofs -----------------------------
(***************************************************************************)
(* Proofs about module Soc, for every program, address map and time that   *)
(* the devices take.                                                       *)
(***************************************************************************)
EXTENDS Soc, CoreProofs

(* The inductive invariant: the buses of the core show what the shared bus *)
(* shows to the one that has the grant, and that is right.                 *)
SInv ==
  /\ TypeOK
  /\ grant \in {"ibus", "dbus"} /\ flash_rsp \in Rsp3 /\ ram_rsp \in Rsp3
  /\ dbus_rsp = DbusAnswer /\ ibus_rsp = IbusAnswer
  /\ AnswersBelong /\ StoresOnce

LEMMA SInvInit == SInit => SInv
<1> SUFFICES ASSUME SInit PROVE SInv
  OBVIOUS
<1>1. TypeOK /\ ~DbusCyc /\ ~IbusCyc /\ dbus_rsp = "none" /\ ibus_rsp = "none"
  BY TypeInit DEF SInit, Init, DbusCyc, IbusCyc
<1>2. dbus_rsp = DbusAnswer /\ ibus_rsp = IbusAnswer
  BY <1>1 DEF DbusAnswer, IbusAnswer
<1> QED
  BY <1>1, <1>2 DEF SInit, SInv, Rsp3, AnswersBelong, StoresOnce

LEMMA SInvStutter == SInv /\ UNCHANGED socVars => SInv'
<1> SUFFICES ASSUME SInv, UNCHANGED socVars PROVE SInv'
  OBVIOUS
<1>1. UNCHANGED vars /\ UNCHANGED grant /\ UNCHANGED devices
  BY DEF socVars
<1>2. TypeOK'
  BY <1>1, TypeStutter DEF SInv
<1>3. /\ DbusCyc' = DbusCyc /\ IbusCyc' = IbusCyc /\ Adr' = Adr /\ Selected' = Selected
      /\ SharedRsp' = SharedRsp /\ SharedDatR' = SharedDatR
  BY <1>1
  DEF vars, devices, DbusCyc, IbusCyc, Adr, Selected, SharedRsp, SharedDatR, DecodeStall, Flush,
      StageStall, DecodeHazard, DataHazard, Reads, ExecuteStall, MemStall, DbusBusy,
      BranchTaken, TrapRaised, MemTrap, StageTrap, BranchTrap, BranchTrue, DbusTrap, IsMemory
<1>4. (dbus_rsp = DbusAnswer)' /\ (ibus_rsp = IbusAnswer)'
  BY <1>1, <1>3 DEF SInv, DbusAnswer, IbusAnswer, vars
<1>5. AnswersBelong'
  BY <1>1, <1>3 DEF SInv, AnswersBelong, DbusWord, vars
<1>6. StoresOnce'
  BY <1>1, <1>3 DEF SInv, StoresOnce, Merge, vars, devices
<1> QED
  BY <1>1, <1>2, <1>4, <1>5, <1>6 DEF SInv, devices

\* What a device may answer.
LEMMA DeviceAnswers ==
  ASSUME SInv, SNext
  PROVE  /\ flash_rsp' \in Rsp3 /\ ram_rsp' \in Rsp3 /\ grant' \in {"ibus", "dbus"}
         /\ flash' = flash
         /\ flash_rsp' # "none" =>
              /\ Cyc /\ Selected = "flash" /\ flash_rsp = "none"
              /\ flash_rsp' = "ack" =>
                   ~We /\ (Cyc' /\ Selected' = "flash" => flash_dat_r' = flash[Adr])
         /\ ram_rsp' # "none" =>
              /\ Cyc /\ Selected = "ram" /\ ram_rsp = "none" /\ ram_rsp' = "ack"
              /\ ~We => ram' = ram /\ (Cyc' /\ Selected' = "ram" => ram_dat_r' = ram[Adr])
              /\ We => ram' = [ram EXCEPT ![Adr] = Merge(ram[Adr], xm)]
         /\ ram_rsp' = "none" => ram' = ram
<1>1. FlashBus!Device /\ RamBus!Device /\ ArbiterEdge
  BY DEF SNext
<1>2. Requests \subseteq {"ibus", "dbus"}
  BY DEF Requests
<1>3. grant' \in {"ibus", "dbus"}
  BY <1>1, <1>2 DEF ArbiterEdge, SInv
<1> QED
  BY <1>1, <1>3
  DEF Rsp3, FlashBus!Device, FlashBus!Wait, FlashBus!Read, FlashBus!Write, FlashBus!Refuse,
      FlashBus!Busy, RamBus!Device, RamBus!Wait, RamBus!Read, RamBus!Write, RamBus!Refuse,
      RamBus!Busy

\* The shared bus does nothing that Core does not allow its environment.
LEMMA CoreNext == SInv /\ SNext => Next
<1> SUFFICES ASSUME SInv, SNext PROVE Next
  OBVIOUS
<1>1. "ack" \in Answers /\ "err" \in Answers
  BY AddressAssumption, MapAssumption
<1>2. SharedRsp' \in Rsp
  BY <1>1, DeviceAnswers DEF SharedRsp, Rsp, Rsp3
<1>3. dbus_rsp' \in Respond(DbusCyc') /\ ibus_rsp' \in Respond(IbusCyc')
  BY <1>2 DEF SNext, DbusAnswer, IbusAnswer, Respond, Rsp
<1> QED
  BY <1>3 DEF SNext, Next

\* A request that the shared bus has not answered stays, or leaves it.
LEMMA Held ==
  ASSUME SInv, SNext, Cyc, SharedRsp = "none", Cyc'
  PROVE  /\ grant' = grant /\ Adr' = Adr /\ We' = We /\ Selected' = Selected
         /\ grant = "dbus" => xm' = xm /\ memory' = memory /\ DbusCyc /\ DbusCyc'
         /\ grant = "ibus" => IbusCyc /\ IbusCyc'
<1>0. TypeOK /\ Next
  BY CoreNext DEF SInv
<1>1. grant' = grant
  BY DEF SNext, ArbiterEdge
<1>2. CASE grant = "dbus"
  <2>1. DbusCyc /\ DbusCyc'
    BY <1>1, <1>2 DEF Cyc, Requests
  <2>2. dbus_rsp = "none"
    BY <1>2 DEF SInv, DbusAnswer
  <2>3. Waiting
    BY <2>1, <2>2 DEF Waiting, MemStall, StageStall, DbusBusy, DbusCyc
  <2>4. xm' = xm /\ memory' = memory
    BY <1>0, <2>3, EdgeWaiting
  <2> QED
    BY <1>1, <1>2, <2>1, <2>4 DEF Adr, We, Selected
<1>3. CASE grant = "ibus"
  <2>1. IbusCyc /\ IbusCyc'
    BY <1>1, <1>3 DEF Cyc, Requests
  <2>2. ibus_rsp = "none"
    BY <1>3 DEF SInv, IbusAnswer
  <2>3. Starved
    BY <2>1, <2>2, StallOrder DEF Starved, IbusCyc, FetchStall, StageStall, IbusBusy
  <2>4. pf' = pf
    BY <1>0, <2>3, EdgeStarved
  <2> QED
    BY <1>1, <1>3, <2>1, <2>4 DEF Adr, We, Selected
<1> QED
  BY <1>2, <1>3 DEF SInv

\* An answer comes to a request that was on the bus a cycle before.
LEMMA Answered ==
  ASSUME SInv, SNext, Cyc', SharedRsp' # "none"
  PROVE  /\ Cyc /\ SharedRsp = "none" /\ Cyc' /\ memory' = memory
         /\ ram = [a \in RamAddr |-> memory[a]] /\ flash = [a \in FlashAddr |-> memory[a]]
         /\ Selected = "flash" => SharedRsp' = flash_rsp' /\ SharedDatR' = flash_dat_r'
         /\ Selected = "ram" => SharedRsp' = ram_rsp' /\ SharedDatR' = ram_dat_r'
         /\ Selected \in {"flash", "ram"}
<1>1. Cyc /\ SharedRsp = "none"
  BY DeviceAnswers DEF SharedRsp
<1>2. dbus_rsp = "none"
  BY <1>1 DEF SInv, DbusAnswer
<1>3. memory' = memory
  BY <1>2 DEF SNext, Edge, DbusStore
<1>4. Selected' = Selected
  BY <1>1, Held
<1> QED
  BY <1>1, <1>2, <1>3, <1>4 DEF SInv, StoresOnce, SharedRsp, SharedDatR, Selected

LEMMA AddressOfBus ==
  ASSUME TypeOK, grant \in {"ibus", "dbus"}
  PROVE  Adr \in Addr
BY AddressAssumption, UnitsAssumption DEF TypeOK, Adr, PFSlot, XMSlot, DXSlot

LEMMA BelongNext == SInv /\ SNext => AnswersBelong'
<1> SUFFICES ASSUME SInv, SNext PROVE AnswersBelong'
  OBVIOUS
<1>1. ASSUME Cyc', SharedRsp' = "ack", ~We
      PROVE  SharedDatR' = memory'[Adr']
  <2>1. Adr' = Adr /\ Selected' = Selected /\ Adr \in Addr
    BY <1>1, Answered, Held, AddressOfBus DEF SInv
  <2>2. CASE Selected = "flash"
    <3>1. Adr \in FlashAddr /\ flash_rsp' = "ack" /\ SharedDatR' = flash_dat_r'
      BY <1>1, <2>2, Answered DEF Selected
    <3> QED
      BY <1>1, <2>1, <3>1, Answered, DeviceAnswers
  <2>3. CASE Selected = "ram"
    <3>1. Adr \in RamAddr /\ ram_rsp' = "ack" /\ SharedDatR' = ram_dat_r'
      BY <1>1, <2>3, Answered DEF Selected
    <3> QED
      BY <1>1, <2>1, <3>1, Answered, DeviceAnswers
  <2> QED
    BY <1>1, <2>2, <2>3, Answered
<1>2. ASSUME ibus_rsp' = "ack" PROVE SharedDatR' = memory'[pf'.pc]
  <2>1. grant' = "ibus" /\ IbusCyc' /\ SharedRsp' = "ack"
    BY <1>2 DEF SNext, IbusAnswer
  <2>2. Cyc'
    BY <2>1 DEF Cyc, Requests
  <2>3. ~We
    BY <2>1, <2>2, Answered, Held DEF We
  <2> QED
    BY <1>1, <2>1, <2>2, <2>3 DEF Adr
<1>3. ASSUME dbus_rsp' = "ack", Control(xm'.insn).mem_load PROVE SharedDatR' = DbusWord'
  <2>1. grant' = "dbus" /\ DbusCyc' /\ SharedRsp' = "ack"
    BY <1>3 DEF SNext, DbusAnswer
  <2>2. Cyc'
    BY <2>1 DEF Cyc, Requests
  <2>3. xm' = xm
    BY <2>1, <2>2, Answered, Held
  <2>4. xm.insn \in Word
    BY DEF SInv, TypeOK, XMSlot, DXSlot
  <2>5. ~We
    BY <1>3, <2>3, <2>4, DecoderAssumption DEF We
  <2> QED
    BY <1>1, <2>1, <2>2, <2>5 DEF Adr, DbusWord
<1> QED
  BY <1>2, <1>3 DEF AnswersBelong

LEMMA OnceNext == SInv /\ SNext => StoresOnce'
<1> SUFFICES ASSUME SInv, SNext PROVE StoresOnce'
  OBVIOUS
<1> DEFINE acknowledged == dbus_rsp = "ack" /\ Control(xm.insn).mem_store
<1>0. flash' = flash
  BY DeviceAnswers
<1>1. CASE acknowledged'
  <2>1. grant' = "dbus" /\ DbusCyc' /\ SharedRsp' = "ack"
    BY <1>1 DEF SNext, DbusAnswer
  <2>2. Cyc'
    BY <2>1 DEF Cyc, Requests
  <2>3. grant = "dbus" /\ xm' = xm /\ Adr' = Adr
    BY <2>1, <2>2, Answered, Held
  <2>4. We
    BY <1>1, <2>3 DEF We
  <2>5. Selected = "ram" /\ Adr \in RamAddr
    BY <2>1, <2>2, <2>4, Answered, DeviceAnswers DEF Selected
  <2>6. ram_rsp' = "ack"
    BY <2>1, <2>2, <2>5, Answered
  <2>7. ram' = [ram EXCEPT ![Adr] = Merge(ram[Adr], xm)]
    BY <2>4, <2>6, DeviceAnswers
  <2>8. memory' = memory /\ memory \in [Addr -> Word]
    BY <2>1, <2>2, Answered DEF SInv, TypeOK
  <2>9. /\ ram = [a \in RamAddr |-> memory[a]] /\ flash = [a \in FlashAddr |-> memory[a]]
    BY <2>1, <2>2, Answered
  <2>10. Adr \in Addr /\ Adr \notin FlashAddr /\ RamAddr \subseteq Addr /\ FlashAddr \subseteq Addr
    BY <2>5, MapAssumption DEF RamAddr
  <2> DEFINE after == [memory EXCEPT ![Adr] = Merge(memory[Adr], xm)]
  <2>11. ram' = [a \in RamAddr |-> after[a]] /\ flash' = [a \in FlashAddr |-> after[a]]
    BY <1>0, <2>5, <2>7, <2>8, <2>9, <2>10
  <2>12. Merge(memory[Adr], xm)' = Merge(memory[Adr], xm)
    BY <2>3, <2>8 DEF Merge
  <2> QED
    BY <1>1, <2>3, <2>8, <2>11, <2>12 DEF StoresOnce
<1>2. CASE ~acknowledged'
  <2>1. ram = [a \in RamAddr |-> memory'[a]] /\ flash = [a \in FlashAddr |-> memory'[a]]
    <3>1. CASE acknowledged
      <4>1. DbusCyc /\ grant = "dbus"
        BY <3>1 DEF SInv, DbusAnswer
      <4>2. memory' = [memory EXCEPT ![Adr] = Merge(memory[Adr], xm)]
        BY <3>1, <4>1 DEF SNext, Edge, DbusStore, Adr, DbusWord, Merge
      <4> QED
        BY <3>1, <4>2 DEF SInv, StoresOnce
    <3>2. CASE ~acknowledged
      <4>1. memory' = memory
        BY <3>2 DEF SNext, Edge, DbusStore
      <4> QED
        BY <3>2, <4>1 DEF SInv, StoresOnce
    <3> QED
      BY <3>1, <3>2
  <2>2. ram' = ram
    <3> SUFFICES ASSUME ram_rsp' # "none", We PROVE FALSE
      BY DeviceAnswers
    <3>1. /\ Cyc /\ Selected = "ram" /\ ram_rsp = "none" /\ ram_rsp' = "ack"
          /\ SharedRsp = "none"
      BY DeviceAnswers DEF SharedRsp
    <3>2. grant = "dbus" /\ DbusCyc /\ dbus_rsp = "none" /\ Control(xm.insn).mem_store
      BY <3>1 DEF We, Cyc, Requests, SInv, DbusAnswer
    <3>3. Waiting
      BY <3>2 DEF Waiting, MemStall, StageStall, DbusBusy, DbusCyc
    <3>4. xm' = xm
      BY <3>3, EdgeWaiting, CoreNext DEF SInv
    <3>5. grant' = grant
      BY <3>1 DEF SNext, ArbiterEdge
    <3>6. DbusCyc'
      BY <3>2, <3>4 DEF DbusCyc
    <3>7. Cyc'
      BY <3>2, <3>5, <3>6 DEF Cyc, Requests
    <3>8. Selected' = Selected
      BY <3>1, <3>7, Held
    <3>9. dbus_rsp' = "ack"
      BY <3>1, <3>2, <3>5, <3>6, <3>8 DEF SNext, DbusAnswer, SharedRsp
    <3> QED
      BY <1>2, <3>2, <3>4, <3>9
  <2> QED
    BY <1>0, <1>2, <2>1, <2>2 DEF StoresOnce
<1> QED
  BY <1>1, <1>2

LEMMA SInvNext == SInv /\ [SNext]_socVars => SInv'
<1> SUFFICES ASSUME SInv, SNext PROVE SInv'
  BY SInvStutter
<1>1. TypeOK'
  BY CoreNext, TypeNext DEF SInv
<1>2. (dbus_rsp = DbusAnswer)' /\ (ibus_rsp = IbusAnswer)'
  BY DEF SNext
<1> QED
  BY <1>1, <1>2, DeviceAnswers, BelongNext, OnceNext DEF SInv

LEMMA SocInvariant == SSpec => []SInv
BY SInvInit, SInvNext, PTL DEF SSpec

(* The shared bus and its devices are an environment as module Core        *)
(* describes it, so that what is proved of Spec there is true of the       *)
(* system on chip: StoresOnce and AnswersBelong are in terms of it.        *)
THEOREM SocIsCore == SSpec => Spec
<1>1. SInit => Init
  BY DEF SInit
<1>2. SInv /\ [SNext]_socVars => [Next]_vars
  BY CoreNext DEF socVars
<1> QED
  BY <1>1, <1>2, SocInvariant, PTL DEF SSpec, Spec

(* AnswersBelong of module Soc: the core takes the word that the device    *)
(* holds at the address it asks for now.                                   *)
THEOREM Belong == SSpec => []AnswersBelong
<1>1. SInv => AnswersBelong
  BY DEF SInv
<1> QED
  BY <1>1, SocInvariant, PTL

(* StoresOnce of module Soc: the devices hold what the core has stored.    *)
THEOREM Once == SSpec => []StoresOnce
<1>1. SInv => StoresOnce
  BY DEF SInv
<1> QED
  BY <1>1, SocInvariant, PTL

LEMMA FlashStep == SInv /\ [SNext]_socVars => [FlashBus!Next]_(FlashBus!vars)
<1> SUFFICES ASSUME SInv, [SNext]_socVars
             PROVE  FlashBus!Next \/ UNCHANGED FlashBus!vars
  OBVIOUS
<1>1. CASE SNext
  <2>1. FlashBus!Device
    BY <1>1 DEF SNext
  <2>2. FlashBus!Master
    <3> SUFFICES ASSUME Cyc', Selected' = "flash", Cyc, Selected = "flash", flash_rsp = "none"
                 PROVE  UNCHANGED <<Adr, We>> /\ (We => xm' = xm)
      BY DEF FlashBus!Master, FlashBus!Withdraw, FlashBus!Hold, FlashBus!Request, FlashBus!Busy
    <3>1. SharedRsp = "none"
      BY DEF SharedRsp
    <3> QED
      BY <1>1, <3>1, Held DEF We
  <2> QED
    BY <2>1, <2>2 DEF FlashBus!Next
<1>2. CASE UNCHANGED socVars
  BY <1>2
  DEF socVars, vars, devices, FlashBus!vars, Cyc, Requests, Adr, We, Selected, IbusCyc, DbusCyc,
      DecodeStall, Flush, StageStall, DecodeHazard, DataHazard, Reads, ExecuteStall, MemStall,
      DbusBusy, BranchTaken, TrapRaised, MemTrap, StageTrap, BranchTrap, BranchTrue, DbusTrap,
      IsMemory
<1> QED
  BY <1>1, <1>2

LEMMA RamStep == SInv /\ [SNext]_socVars => [RamBus!Next]_(RamBus!vars)
<1> SUFFICES ASSUME SInv, [SNext]_socVars
             PROVE  RamBus!Next \/ UNCHANGED RamBus!vars
  OBVIOUS
<1>1. CASE SNext
  <2>1. RamBus!Device
    BY <1>1 DEF SNext
  <2>2. RamBus!Master
    <3> SUFFICES ASSUME Cyc', Selected' = "ram", Cyc, Selected = "ram", ram_rsp = "none"
                 PROVE  UNCHANGED <<Adr, We>> /\ (We => xm' = xm)
      BY DEF RamBus!Master, RamBus!Withdraw, RamBus!Hold, RamBus!Request, RamBus!Busy
    <3>1. SharedRsp = "none"
      BY DEF SharedRsp
    <3> QED
      BY <1>1, <3>1, Held DEF We
  <2> QED
    BY <2>1, <2>2 DEF RamBus!Next
<1>2. CASE UNCHANGED socVars
  BY <1>2
  DEF socVars, vars, devices, RamBus!vars, Cyc, Requests, Adr, We, Selected, IbusCyc, DbusCyc,
      DecodeStall, Flush, StageStall, DecodeHazard, DataHazard, Reads, ExecuteStall, MemStall,
      DbusBusy, BranchTaken, TrapRaised, MemTrap, StageTrap, BranchTrap, BranchTrue, DbusTrap,
      IsMemory
<1> QED
  BY <1>1, <1>2

(* DevicesSeeOneMaster of module Soc: on its side of the shared bus each   *)
(* device finds the master that module Memory describes.                   *)
THEOREM OneMaster == SSpec => DevicesSeeOneMaster
<1>1. SInit => FlashBus!Init /\ RamBus!Init
  BY DEF SInit, FlashBus!Init, RamBus!Init
<1> QED
  BY <1>1, SocInvariant, FlashStep, RamStep, PTL
  DEF SSpec, DevicesSeeOneMaster, FlashBus!Safety, RamBus!Safety

(***************************************************************************)
(* Two stages next to each other among fd, dx and xm never both hold an    *)
(* instruction: the word for fd comes a cycle after it was asked for, and  *)
(* meanwhile the one before has left.                                      *)
(***************************************************************************)

Spaced ==
  /\ pf.state # "TRAP"
  /\ Empty(fd) \/ Empty(dx)
  /\ Empty(dx) \/ Empty(xm)
  /\ ibus_rsp # "none" => Empty(fd)

\* An answered fetch was on the bus, unanswered, the cycle before.
LEMMA FetchAnswered ==
  ASSUME SInv, SNext, ibus_rsp' # "none"
  PROVE  Starved
<1>1. grant' = "ibus" /\ Cyc' /\ SharedRsp' # "none"
  BY DEF SNext, IbusAnswer, Cyc, Requests
<1>2. Cyc /\ SharedRsp = "none"
  BY <1>1, Answered
<1>3. grant' = grant
  BY <1>1, <1>2, Held
<1>4. IbusCyc /\ ibus_rsp = "none"
  BY <1>1, <1>2, <1>3 DEF Cyc, Requests, SInv, IbusAnswer
<1> QED
  BY <1>4, StallOrder DEF Starved, IbusCyc, FetchStall, StageStall, IbusBusy

LEMMA SpacedNext == SInv /\ Spaced /\ SNext => Spaced'
<1> SUFFICES ASSUME SInv, Spaced, SNext PROVE Spaced'
  OBVIOUS
<1> USE DEF Empty
<1>0. TypeOK /\ Next
  BY CoreNext DEF SInv
<1>1. pf'.state # "TRAP"
  BY DEF SNext, Edge, PcgenEdge, StageState, Spaced
<1>2. ibus_rsp' # "none" => Empty(fd')
  BY <1>0, FetchAnswered, EdgeStarved
<1>3. DecodeTrap => ~Empty(fd)
  BY DEF DecodeTrap, StageTrap
<1>4. CASE Waiting
  BY <1>0, <1>1, <1>2, <1>4, EdgeWaiting DEF Spaced
<1>5. CASE Redirected
  BY <1>0, <1>1, <1>2, <1>5, EdgeRedirected DEF Spaced
<1>6. CASE Hazarded
  BY <1>0, <1>1, <1>2, <1>6, EdgeHazarded DEF Spaced
<1>7. ASSUME ~MemStall, ~Flush, ~DecodeStall
      PROVE  Empty(dx') \/ Empty(xm')
  BY <1>0, <1>3, <1>7, EdgeDecoded, EdgeExecuted DEF Spaced
<1>8. CASE Starved
  BY <1>0, <1>1, <1>7, <1>8, EdgeStarved DEF Spaced, Starved
<1>9. CASE Flowing
  <2>1. ~MemStall /\ ~Flush /\ ~DecodeStall /\ ~FetchStall
    BY <1>9 DEF Flowing
  <2>2. pf.state = "VALID" => Empty(fd)
    BY <2>1 DEF FetchStall, StageStall, IbusBusy, IbusCyc, Spaced
  <2>3. pf.state = "BUBBLE" \/ pf.state = "VALID"
    BY <1>0 DEF Spaced, TypeOK, PFSlot, State
  <2>4. ~Empty(fd') => pf.state = "VALID"
    BY <1>0, <1>9, <2>3, EdgeFlowing DEF FetchTrap, StageTrap
  <2>5. ~Empty(dx') => ~Empty(fd)
    BY <1>0, <1>3, <2>1, EdgeDecoded
  <2> QED
    BY <1>1, <1>2, <1>7, <2>1, <2>2, <2>4, <2>5 DEF Spaced
<1> QED
  BY <1>4, <1>5, <1>6, <1>8, <1>9, FiveEdges

LEMMA SpacedInvariant == SSpec => []Spaced
<1>1. SInit => Spaced
  BY DEF SInit, Init, Spaced, Empty
<1>2. SInv /\ Spaced /\ [SNext]_socVars => Spaced'
  <2>1. Spaced /\ UNCHANGED socVars => Spaced'
    BY DEF socVars, vars, Spaced, Empty
  <2> QED
    BY <2>1, SpacedNext
<1> QED
  BY <1>1, <1>2, SocInvariant, PTL DEF SSpec

(* DataBusRests of module Soc: behind an instruction that the data bus     *)
(* answers there is none that could ask it at once.                        *)
THEOREM Rests == SSpec => DataBusRests
<1>1. SInv /\ Spaced /\ [SNext]_socVars => [dbus_rsp # "none" => ~DbusCyc']_socVars
  <2> SUFFICES ASSUME SInv, Spaced, SNext, dbus_rsp # "none"
               PROVE  ~DbusCyc'
    OBVIOUS
  <2>1. TypeOK /\ Next /\ xm.state = "VALID" /\ ~MemStall
    BY CoreNext DEF SInv, DbusAnswer, DbusCyc, DbusBusy, MemStall, StageStall
  <2>2. CASE Flush
    BY <2>1, <2>2, EdgeRedirected DEF Redirected, DbusCyc
  <2>3. CASE ~Flush
    <3>1. xm' = dx /\ dx.state = "BUBBLE"
      BY <2>1, <2>3, EdgeExecuted DEF Spaced, Empty
    <3> QED
      BY <3>1 DEF DbusCyc
  <2> QED
    BY <2>2, <2>3
<1> QED
  BY <1>1, SocInvariant, SpacedInvariant, PTL DEF SSpec, DataBusRests
=============================================================================
