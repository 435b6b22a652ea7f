--------------------------------- MODULE Soc --------------------------------
(***************************************************************************)
(* The core with its two buses on one (icicle/soc/soc.py): an arbiter that *)
(* passes one of them on, and a decoder that selects a device by the       *)
(* address.  The devices are the flash and the RAM, each any that module   *)
(* Memory allows, however long it takes; at the addresses of Hole there is *)
(* no device.  When an answer comes the core may no longer want the word,  *)
(* or may want another one.                                                *)
(*                                                                         *)
(* Core goes on in its own terms: variable memory is what its buses should *)
(* show, flash, ram and the data lines are what the devices do show, and   *)
(* the properties say that there is no difference.                         *)
(***************************************************************************)
EXTENDS Core

CONSTANTS
  FlashAddr, \* the addresses of the flash
  Hole       \* the addresses of no device

ASSUME MapAssumption ==
  /\ FlashAddr \subseteq Addr /\ Hole \subseteq Addr /\ FlashAddr \intersect Hole = {}
  /\ "err" \in Answers

RamAddr == Addr \ (FlashAddr \union Hole)

VARIABLES
  grant,                           \* the bus that the arbiter passes on
  flash, flash_rsp, flash_dat_r,   \* the words of each device, its answer
  ram, ram_rsp, ram_dat_r          \*   and the data lines with it

devices == <<flash, flash_rsp, flash_dat_r, ram, ram_rsp, ram_dat_r>>
socVars == <<vars, grant, devices>>

Rsp3 == {"ack", "err", "none"}

(***************************************************************************)
(* The shared bus, driven by the bus that has the grant.                   *)
(***************************************************************************)

Requests == (IF IbusCyc THEN {"ibus"} ELSE {}) \union (IF DbusCyc THEN {"dbus"} ELSE {})

Cyc == grant \in Requests

Adr == IF grant = "ibus" THEN pf.pc ELSE DataAddr(xm.insn, xm.rs1_rdata)

We == grant = "dbus" /\ Control(xm.insn).mem_store

\* The word that a store leaves, of the word that is there and of what the
\* memory access stage puts on the data and select lines.
Merge(old, x) == StoreData(x.insn, x.rs1_rdata, old, x.rs2_rdata)

Selected ==
  IF Adr \in FlashAddr THEN "flash" ELSE IF Adr \in RamAddr THEN "ram" ELSE "hole"

\* What the selected device shows; nothing answers from a hole.
SharedRsp ==
  IF Selected = "flash" THEN flash_rsp ELSE IF Selected = "ram" THEN ram_rsp ELSE "none"

SharedDatR == IF Selected = "flash" THEN flash_dat_r ELSE ram_dat_r

DbusAnswerUngranted == IF DbusCyc THEN SharedRsp ELSE "none"

IbusAnswerUngranted == IF IbusCyc THEN SharedRsp ELSE "none"

\* A bus sees the answer as long as it has the grant and asks.
DbusAnswer == IF DbusCyc /\ grant = "dbus" THEN SharedRsp ELSE "none"

IbusAnswer == IF IbusCyc /\ grant = "ibus" THEN SharedRsp ELSE "none"

ArbiterEdgeOneWay ==
  grant' = IF ~Cyc /\ "ibus" \in Requests THEN "ibus" ELSE grant

\* The grant passes on when the bus that has it makes no request.
ArbiterEdge ==
  grant' = IF ~Cyc /\ Requests # {} THEN CHOOSE bus \in Requests : TRUE ELSE grant

(***************************************************************************)
(* The devices.                                                            *)
(***************************************************************************)

FlashBus == INSTANCE Memory WITH
  cyc <- Cyc /\ Selected = "flash", adr <- Adr, we <- We, dat_w <- xm,
  rsp <- flash_rsp, dat_r <- flash_dat_r, contents <- flash, read_only <- TRUE

RamBus == INSTANCE Memory WITH
  cyc <- Cyc /\ Selected = "ram", adr <- Adr, we <- We, dat_w <- xm,
  rsp <- ram_rsp, dat_r <- ram_dat_r, contents <- ram, read_only <- FALSE

\* Which answers and words may come, Memory says; data lines are looked at with
\* an acknowledge only, and show nothing otherwise.
DataLinesEdge ==
  /\ flash_rsp' \in (IF FlashBus!Busy THEN Rsp3 ELSE {"none"})
  /\ flash_dat_r' \in (IF flash_rsp' = "ack" THEN Word ELSE {Zero})
  /\ ram_rsp' \in (IF RamBus!Busy THEN Rsp3 ELSE {"none"})
  /\ ram_dat_r' \in (IF ram_rsp' = "ack" THEN Word ELSE {Zero})

SInit ==
  /\ Init
  /\ \A a \in Hole : memory[a] = Zero
  /\ grant = "ibus"
  /\ flash = [a \in FlashAddr |-> memory[a]] /\ ram = [a \in RamAddr |-> memory[a]]
  /\ flash_rsp = "none" /\ ram_rsp = "none"
  /\ flash_dat_r = Zero /\ ram_dat_r = Zero

SNext ==
  /\ Edge
  /\ ArbiterEdge /\ DataLinesEdge
  /\ dbus_rsp' = DbusAnswer'
  /\ ibus_rsp' = IbusAnswer'
  /\ FlashBus!Device /\ RamBus!Device

\* The clock runs, and each device answers a request that is kept.
SFairness == WF_socVars(SNext) /\ FlashBus!Served /\ RamBus!Served

SSpec == SInit /\ [][SNext]_socVars /\ SFairness

(***************************************************************************)
(* Properties.                                                             *)
(***************************************************************************)

(* The word that comes with an answer is the one at the address requested  *)
(* now, though the device read it a cycle ago, before a fetch could be     *)
(* withdrawn and another one take its place (bram.py 24-32, fetch.py 18).  *)
AnswersBelong ==
  /\ ibus_rsp = "ack" => SharedDatR = memory[pf.pc]
  /\ dbus_rsp = "ack" /\ Control(xm.insn).mem_load => SharedDatR = DbusWord

(* A store that a device acknowledges is in its memory, once, and no other *)
(* store is: none was refused, withdrawn or not asked for (bram.py 40-47,  *)
(* ice40_spram.py 29-40).                                                  *)
StoresOnce ==
  LET acknowledged == dbus_rsp = "ack" /\ Control(xm.insn).mem_store
      after == IF acknowledged THEN [memory EXCEPT ![Adr] = Merge(memory[Adr], xm)] ELSE memory
  IN  /\ ram = [a \in RamAddr |-> after[a]]
      /\ flash = [a \in FlashAddr |-> after[a]]

(* Each device sees the bus that module Memory describes, and an arbiter   *)
(* that never takes a request from one master for another's: a request     *)
(* stays as it is until it is answered or leaves the bus (soc.py 35-38,    *)
(* fetch.py 18).                                                           *)
DevicesSeeOneMaster == FlashBus!Safety /\ RamBus!Safety

(* The data bus rests for a cycle after each access, though an instruction *)
(* that waits for it may be followed at once by another: devices answer    *)
(* fetches a cycle late, so that the pipeline is never full.  The bridge   *)
(* in module Csr is asked in this way (soc.py 35-38, pipeline.py 67-76).   *)
DataBusRests == [][dbus_rsp # "none" => ~DbusCyc']_socVars

(* What Core assumes of its buses, BusesAnswer, holds of the shared bus    *)
(* but for requests of an address that has no device: neither bus starves, *)
(* because the fetch leaves the bus as long as the memory stage waits for  *)
(* it (soc.py 35-38, fetch.py 18).                                         *)
SharedBusAnswers ==
  /\ []<>(DbusBusy => DataAddr(xm.insn, xm.rs1_rdata) \in Hole)
  /\ []<>(IbusBusy => pf.pc \in Hole)

Empty(s) == s.state = "BUBBLE"

(* An address without a device stops the processor only if the program     *)
(* itself goes there, by a load or store or with its next instruction; to  *)
(* fetch ahead from there never does, though nothing will answer (soc.py   *)
(* 30-33, fetch.py 18).                                                    *)
StopsOnlyInHoles ==
  \/ Retires
  \/ <>[](DbusCyc /\ DataAddr(xm.insn, xm.rs1_rdata) \in Hole)
  \/ <>[](IbusCyc /\ pf.pc \in Hole /\ Empty(fd) /\ Empty(dx) /\ Empty(xm) /\ Empty(mw))

=============================================================================
