# Icicle in TLA+

A specification of [Icicle](../src/README.md), a six-stage RV32I core in Amaranth
and the system on chip around it: TLA+ modules, TLC runs on small instances, and
TLAPS proofs for every instance. Paths below are relative to `src/icicle/`.

## The system

| part | source | state it keeps | operations |
|---|---|---|---|
| pipeline rules | `pipeline.py` | the `state` of each slot: BUBBLE, VALID, TRAP | stall, flush and trap a stage; pass a slot on |
| core | `cpu.py`, `pcgen.py`, `fetch.py`, `decode.py`, `execute.py`, `mem.py`, `writeback.py`, `loadstore.py`, `regs.py`, `pipeline_regs.py` | five pipeline registers, the register file | generate the pc, fetch, decode, execute, access memory, write back; redirect on branch and trap; interlock on hazards and fences |
| decoder | `control.py`, `imm.py`, `riscv.py` | none | control signals and immediate of a word |
| units | `alu.py`, `adder.py`, `logic.py`, `shift.py`, `branch.py`, `loadstore.py` (WordAlign), `wdata.py` | none | compute, compare, shift, align |
| RVFI | `writeback.py`, `mem.py`, `rvfi.py` | the report and the fields latched for it | report an instruction as it retires |
| memories | `soc/bram.py`, `soc/ice40_spram.py` | the words, a registered `ack` | read, write, refuse a write |
| flash | `soc/flash.py` | a state machine, bit counter, shift register, power-up timer | power up, read a word over SPI, abort |
| system on chip | `soc/soc.py` | the arbiter's grant; the bridge's counter, a shadow of the bytes of a register (library) | share one bus, decode addresses, take words apart into bytes |
| GPIO | `soc/gpio.py` | two registers | load, store |
| UART | `soc/uart.py` | two FIFOs, divisor | load and store through the CSR bus, receive, transmit |
| programs | `../examples/echo.c` | a character | poll, load, store |
| boards, cli, disasm, formal scripts | `boards/`, `cli.py`, `../disasm.py`, ... | none | build, generate, show |

Everything inside the core talks in one clock cycle: the stages read each other's
registers, `next_stall` runs backwards from stage to stage, and the memory stage
broadcasts `branch_taken` and `trap_raised` to the program counter and the flush
inputs of fetch, decode and execute. `cpu.py` compares the registers that decode
reads with those that execute, memory and writeback will write, and holds the
fetch behind a FENCE.I. Two Wishbone buses connect the core to memory: a request
(`cyc`) stands until `ack` or `err`, and the fetch may take its request back. An
arbiter makes one bus of the two; behind the decoder are the flash, the RAM and the
bridge to a bus of bytes, on which GPIO and UART have their registers. The UART
passes characters between its registers and the line through two FIFOs, and a
program learns from the status register when it may read or write.

What is hard: the order in which stalls, flushes and traps of five stages win in
one cycle; a bus that answers in any cycle, or fails, while the rest of the
pipeline moves; a fetch withdrawn and repeated; instructions in memory that a
store changes; a trap and a branch at once; a report put together from fields
that were latched in four different cycles; an answer that comes a cycle late to a
bus that has changed since; reads with side effects through a bridge that takes
six cycles; FIFOs that lose what does not fit. `PROJECT.json` lists these hazards
line by line, with the properties that watch them.

What makes each part correct:

* core: the program sees one instruction at a time, each once, in order, with
  up-to-date operands; traps are precise; stores behind a flush never happen; a
  FENCE.I makes stores visible to fetches; bus requests hold still; the core
  never stops while the buses answer;
* decoder and units: exactly the instructions of the ISA are accepted, and each
  computes, jumps, traps and touches the bytes of memory the ISA says;
* RVFI: the reports alone let an observer follow the program;
* memories: an answer belongs to the request that is on the bus, comes once, and
  does what it says to the bytes selected; every request that is kept is answered;
* system on chip: the core cannot tell the shared bus and slow devices from the
  buses its own correctness assumes; what it fetches ahead never stops it;
* peripherals: loads show the registers and stores set them, whole; characters keep
  their order, come once, and are lost at a full FIFO only; a program that polls
  loses none of its own.

## Modules

| module | what it is | code |
|---|---|---|
| `Pipeline` | the stall, trap and state equations of a stage | `pipeline.py` 64-92 |
| `Instructions` | what an instruction means, as constants, with the assumptions on decoder and units | contract of the decoder and the units |
| `Isa` | abstract: one instruction per step, no pipeline | what the core promises |
| `Core` | the pipeline, one clock cycle per step | `cpu.py` and the stages |
| `CoreIsa` | the refinement mapping from `Core` to `Isa`, and the inductive invariant | |
| `CoreProofs` | TLAPS proofs about `Core` and `CoreIsa` | |
| `Rvfi` | the reports, an observer that follows `Isa` from them alone, and the invariant that ties it to `CoreIsa` | `mem.py` 61-77, `writeback.py` 29-56 |
| `RvfiProofs` | TLAPS proofs about `Rvfi` | |
| `Decoder` | control signals and immediate wires | `control.py`, `imm.py`, `riscv.py` |
| `Units` | the combinational units on words of four bytes | `alu.py` ... `wdata.py` |
| `Rv32i` | reference: what RV32I and FENCE.I compute, written over values and bytes | |
| `Datapath` | one instruction through decoder and units, compared with `Rv32i` | the same stages' data |
| `UnitsProofs` | TLAPS lemmas: bits of words of 32 bits, and the barrel shifter | |
| `DatapathProofs` | TLAPS proofs: the decoder's contract, and that decoder and units do what `Rv32i` says | |
| `Memory` | abstract: a device that holds words, and the bus it is on | what `flash.py`, `bram.py`, `ice40_spram.py` promise, and `soc.py` to them |
| `Soc` | `Core` with its buses on one, an arbiter, two devices as `Memory` describes them | `soc.py` 17-38 |
| `SocProofs` | TLAPS proofs: `Soc` is an environment of `Core`, and one of `Memory` | |
| `Flash` | the flash controller, any master that `Memory` allows, a chip | `flash.py` |
| `FlashProofs` | TLAPS proofs: the invariant, and that `Flash` implements `Memory` | |
| `Rams` | the block RAM and the SPRAM side by side | `bram.py`, `ice40_spram.py` |
| `RamsProofs` | TLAPS proofs that both implement `Memory` | |
| `Queue` | abstract: a queue that loses an item only when enough wait | what the FIFOs promise |
| `Fifo` | the library's buffered FIFO: a memory, and a register behind it | external |
| `Csr` | the bridge, the multiplexers, and the data bus before them | `soc.py` 25-28, external |
| `Uart` | registers, FIFOs, and the serial port as the FIFOs see it | `uart.py` |
| `Gpio` | two registers and the pins | `gpio.py` |
| `Peripherals` | `Uart` and `Gpio` on the bus of bytes, with any master | `soc.py` 22-28 |
| `Echo` | the program on the UART | `../examples/echo.c` |
| `PeripheralsProofs` | TLAPS proofs: what a clock edge does to the FIFOs, and the theorems about `Peripherals` and `Echo` | |
| `ToyInstructions`, `MC...` | the instances for TLC | |

### Core

A variable of `Core` is a clocked register (`pf`, `fd`, `dx`, `xm`, `mw`, `regs`)
or belongs to the world outside (`memory`, `ibus_rsp`, `dbus_rsp`). Combinational
signals are state functions with the names of the code: `DbusBusy`, `MemStall`,
`BranchTaken`, `DecodeHazard`. Each stage has one edge action, which gives its
output register the next value; `Next` is the conjunction of all of them, because
that is what a clock edge is, with a choice of what the buses show in the
following cycle. The answer may come in the cycle of the request or in any later
one, and may be an error if `Answers` has one.

The control signals and ALU results that travel down the pipeline are functions
of the instruction, its address and its operands, which travel beside them, so the
latter stand for the former. `Control`, `Result`, `Taken` and so on are constants:
the theorems hold for any instruction set that meets the assumptions of
`Instructions`. `Decoder` and `Units` show that the one in the code does:
`ContractKept` and `ZeroIsIllegal` give `DecoderAssumption`, and `ResultOfOperation` and
`NextOfOperation`, with stale values on every port that was not waited for, give
`OperandAssumption`.

### Reports

`Rvfi` adds to `Core` what `mem` latches for the report, the report, and an observer
that knows the initial state and of every cycle nothing but the report. `ReportsAreARun` says
that what the observer knows changes as `Isa` allows; the other two properties are about
single reports: `ReportsAgree` compares one with those before it, `FaultsAreReported` says that
a trap is reported exactly when the report shows the reason, an illegal word, a fault, or a
branch or jump that misses (`Misses`) with the operands the report gives. A report comes a cycle after its instruction has left writeback,
so the observer is one report behind: what it will know after the next report
(`NextReport`) is the view of the program in `CoreIsa` now (`OneBehind`). The rest of `RInv`
is what a report needs and the pipeline does not: that instructions which trap have
waited for their operands too (`TrapsReadToo`), where a trap comes from
(`TrapsHaveCauses`), and that what writeback holds fits what the observer knows
(`AboutToReport`).

### Decoder and units

`Datapath` sends one instruction through decode, execute and mem: the fields of the word,
the registers and the port values are chosen, and the slots are then functions of them
(`Decoded`, `Executed`, `Accessed`). `Units` has the units as the code builds them: one adder
for sums, differences and comparisons, one right shift for all shifts, one alignment for
loads and stores. `Rv32i` says what each instruction computes, with none of that
sharing. A word is a number; a word that is given bit by bit (`Logic`, `Reverse`) is
the number with these bits (`Number`).

### Memory that changes

`Isa` describes memory that instructions and data share. A fetch may return any
word its address has held since the last FENCE.I (`visible`), which is as much as
the pipeline can promise to code that changes itself.

### Two buses, one memory

In `Core` a store reaches memory in the cycle of its `ack`, a fetch sees memory in
the cycle of its answer, and the buses are independent. The system on chip is not
like that: its devices read and write at the clock edge before they answer, and
there is one bus. `Soc` extends `Core` by the arbiter, which passes the grant on
when the bus that has it makes no request, the choice of a device by the address,
and two devices, of which all that is known is what `Memory` says: they answer
after any delay, once, and the flash refuses writes. At the addresses of `Hole`
there is no device, and no answer. `Core`'s variable `memory` becomes a history of
what the core has been told; `flash`, `ram` and the data lines are what is in the
devices. A step of `Soc` is a step of `Core` by its form, so what remains to be shown
is that the devices agree with the history: each answer comes with the word of
`memory` at the address (`AnswersBelong`), and the devices hold `memory`, except for the
one cycle in which a store is performed and the core has yet to move on
(`StoresOnce`). Two accesses of data never follow each other at once (`DataBusRests`):
the pipeline could send them so, but the shared bus takes two cycles for each fetch.
That is how `Csr` models the requests that its bridge gets. `SharedBusAnswers` discharges what `Core` assumes of its buses in
`Fairness`, but for the holes; `StopsOnlyInHoles` says what becomes of these.

### A device and its bus

`Memory` is both halves of a contract. `Device`: wait, read, write or refuse, an answer
only to a request that is on the bus, right as long as the request has not left (a word that
comes for a request which has left may be any, in `Soc` too).
`Master`: a request stays as it is until the answer or leaves for at least a cycle.
`Soc` shows that the arbiter keeps the second half (`DevicesSeeOneMaster`) and relies
on the first; `Flash` and `Rams` take any master that keeps the second and are shown to
keep the first (`FlashIsAMemory`, `BramIsAMemory`, `SpramIsAMemory`) and to answer
(`FlashAnswers`, `RamsAnswer`), so that the modules meet at `Memory` and none has to
contain the others.

### Flash

`Flash` has one action per state of the state machine; `Abort` stands for the
three branches in which the request has gone. Pins are registered on both sides,
which is where the counts of 31 and the early release of the chip select come
from, so the model keeps these registers: `cs` and `copi` as the chip sees them,
`i1` as the controller sees what the chip drove a cycle ago. The chip is external:
it may be found asleep or awake, obeys only the release command while asleep, is
deaf while it wakes up, and answers a read bit by bit. Its contents are a
constant operator, and an address is a function from 22 bits; the instance makes
every bit of the chip a value of its own, so that one misplaced bit of the 32 shows.

### Block RAM and SPRAM

`Rams` gives both the same requests, since one can stand for the other on the bus. The
block RAM is a read port that shows what was there before the edge, a write port, and
the registered answer. The SPRAM is four blocks, two rows of two columns: each takes
two bytes of the word, and the row is selected by the top bit of the address, once
for the access and once more, a cycle later, for the word on the bus. The two mask bits
that a block has for each byte are one here: the code gives both the same select.

### Peripherals

The CSR bus is library code, modelled from how `soc.py`, `uart.py` and `gpio.py` put it
together. The bridge holds a request for six cycles: one for each byte, in which a
byte that is selected is read or written, one for the last byte to come back, and the
answer. A register of several bytes is read whole with its first byte and written
whole a cycle after its last; in between the bytes are in a shadow, which loads and
stores share. The addresses are those of the code: GPIO at 0 to 2, the divisor at 4
and 5, status at 6, data at 7.

`Uart` keeps both FIFOs as they are built, a memory and a register behind it that is
filled a cycle later, and of the serial port what the FIFOs see: a character that
ends is passed on if the FIFO has room then and lost otherwise, and a character that
is sent takes any number of cycles. `Queue` has neither memory nor register: an item is
offered, an item is given, and one may be lost only when `Enough` wait. The refinement
takes the items of the register, the memory and the receiver in this order.

`Echo` is `echo.c`, one load or store of a byte after the other. Its queue reaches from line
to line: the transmitter's FIFO, the character that the program carries, wherever it
is between the two (`Carried`), and the receiver's FIFO. It extends `Peripherals` by the
program's variables: a step of the program chooses what the master does.

### Forms with a mistake

A definition that nothing uses and whose name extends that of the definition
after it (`DecodeHazardNoWriteback`, `WordAlignHalfMask`) is a mistake one could
make there. `PROJECT.json`, under `mutants`, names for each property one that
it catches.

| property | caught mistake |
|---|---|
| `IsaSpec` | the hazard with writeback left out; a store performed although the bus failed |
| `IInv` | the fence watched in decode but not in execute |
| `RedirectNeverStalled` | a flush that does not override a stall |
| `BusRequestsHeld` | a fetch that is not withdrawn on a flush |
| `Retires` | a fence that stalls the fetch from a slot that is not valid |
| `TypeOK` | an address that does not wrap around |
| `ReportsAreARun` | a trapped instruction's result reported; a trap not reported |
| `ReportsAgree` | the trap before the branch, or a bus fault forgotten, in the next pc |
| `FaultsAreReported` | a failed load reported as performed; a branch that is not taken counted as misaligned |
| `RInv` | the hazard with writeback left out |
| `LegalExactly` | the upper bits of shift amounts not checked |
| `ImmediateOfFormat` | a branch offset without its bit 11 |
| `ResultOfOperation` | bit 30 of an immediate taken for SUB |
| `NextOfOperation` | branches that do not wait for rs2 |
| `MemoryOfOperation` | a halfword store that selects one byte |
| `TrapsExactly` | bit 0 of a jump target counted as misaligned |
| `DecoderContract` | a fence that writes rd |
| `AnswersBelong` | an instruction bus that sees answers without the grant |
| `StoresOnce` | a data bus that sees answers without the grant |
| `DevicesSeeOneMaster` | a fetch that is not withdrawn on a flush |
| `DataBusRests` | an instruction bus that sees answers without the grant |
| `SharedBusAnswers` | an arbiter that never passes the grant to the data bus |
| `StopsOnlyInHoles` | a fetch that is not withdrawn while decode stalls |
| `FInv` | a power-up timer that is not set |
| `AcknowledgesItsWord` | the bytes of a word in the order they arrive |
| `ChipHearsReadsOnly` | the chip left selected when a transfer is aborted |
| `FlashIsAMemory` | the request that is being answered taken for a new one |
| `FlashAnswers` | a write that is not refused with an error |
| `BramIsAMemory` | the same of a write that is being refused |
| `SpramIsAMemory` | byte selects spread over the wrong lanes |
| `RamsAnswer` | an acknowledge for reads alone |
| `AnswersTellTheRegisters` | the strobe of another register |
| `RegistersChangeWhole` | a divisor that follows the shadow |
| `ReceiverIsAQueue` | a character taken by a read of the status; the newest taken before the oldest |
| `TransmitterIsAQueue` | the newest character taken before the oldest; one taken while the transmitter is busy |
| `PollingSuffices` | the status read but not awaited |
| `EchoIsAQueue` | the two bits of the status swapped |
| `EchoMoves` | a program that waits for the next character before it sends one |

## Runs

| run | question | instance |
|---|---|---|
| `core_isa` | does the pipeline implement the ISA? is the invariant true? | seven instructions, 3 words of memory, registers x0, x1, x2, any bus delay |
| `core_err` | the same with bus errors | five instructions (load, store, FENCE.I, branch, illegal) |
| `core_live` | does the core ever stop? | the same without errors, and fairness |
| `core_trap_vector` | does every trap go to the trap vector? | branches and jumps; TLC finds that not |
| `rvfi` | can an observer follow the program from the reports? is the invariant true? | the seven, an illegal word that reads registers, bus errors, over 2 words; the target of the branch is misaligned |
| `datapath` | do decoder and units compute RV32I? | all opcodes, all funct3, three kinds of funct7 (`Upper`: zero, SUB/SRA, other), every pattern of x0, five boundary values, 2-bit bytes |
| `soc` | do a shared bus and slow devices keep what `Core` promises and assumes? | seven instructions over 4 addresses: one of the flash, two of RAM, one without a device; loads and stores at offsets 2 and 1, stores that add |
| `flash` | is it a memory, after any aborts? | two addresses that differ in every bit, full width, a wait of 4 cycles |
| `rams` | are they memories? | two rows of two words of bytes 0 and 1, stores of a word and of a byte |
| `peripherals` | do loads and stores of registers mean what they say? | FIFOs of depth 3, one character, loads of a word and a byte, stores of all, some and one |
| `fifos` | do the FIFOs keep order, and what do they lose? | FIFOs of depth 3, two characters in any order from the line and from stores, loads of status, data and both |
| `echo` | does what comes in go out? | FIFOs of depth 3, two characters that come in turn |

Memory starts with every possible contents, so a run covers all programs over its
menu. Three words of memory are enough for the distances that matter: instruction
sequences run around them without end, so that each of the five slots meets each
of the others, and every word is code and data at once. Two registers beside x0
give dependences at distances one to three, with and without a write between
them. Delays are unbounded: a bus may leave a request waiting in any cycle.
`core_err` and `core_live` use fewer instructions, and `rvfi` two words of memory, since
errors, fairness and the observer multiply the states. With two words an instruction
has the other one, or itself, one to four slots behind it; longer programs are those of `core_isa`.

In `datapath` the word has four bytes, as in the code, but of two bits: offsets,
masks and halves are as they are, and sign, carry and wrap-around happen on words
of eight bits. Operands are 0, 2, 5, 131 and 255: zero, the extremes of both
signs, all four offsets in a word when added to each other. The proofs are about the
words of 32 bits of the code and need none of these choices. Immediates are taken
from the same values, as far as their format allows; how a 32-bit word is wired
to a 32-bit immediate is checked bit by bit. The run ends when the instruction
has left the memory stage, so it does not check for deadlock.

`FairSpec` of `Core` says that the clock runs and that each bus is, again and
again, not waiting. The second is what a bus promises and what `rvfi_wrapper.sv`
74-89 assumes for its liveness check; without it a bus could simply never answer.
It is stated on the wait and not on a request, because a fetch can be withdrawn.
`SSpec` of `Soc` assumes that the clock runs and that each device answers a request
that is kept, which `FlashAnswers` and `RamsAnswer` show of those of the code. `Spec` of
`Flash` assumes that the clock runs while a request is held, and nothing that would
make the master give it up, so that a controller that waits for ever is seen; `Rams`
has the same. `Fairness` of `Echo` says that the clock runs while an access is on the bus or
the program wants one, and that the transmitter ends what it sends, which a serial
port does that counts bit times; nothing says that a character ever comes in.

In `soc` every address is a place where the program can go, jump, load and store. With
registers of zero loads and stores go to RAM; other values take them to the flash, where
stores are refused, and to the hole, which is behind the last word of RAM so that fetching
ahead runs into it too. A store adds to the word that is there, so that one performed twice
is seen. Devices take any time. In `flash` nothing is scaled but the power-up wait (36
cycles at 12 MHz); four cycles is the tight case, a power of two, in which the timer
counts one cycle less than the wait. In `rams` the address, the write and the
select lines change at every step in which the contract lets them. FIFOs have 513
places in the code and 3 in the runs: two in the memory and one in the register, the
least in which the memory is neither always full nor always empty. Both fill up and
lose characters in `fifos`, and the receiver's does in `echo`, as soon as three wait
(with `Enough` one larger the properties fail). `fifos` has two characters that come and are
stored in any order, so that one that is lost, doubled, overtaken or exchanged is seen; `echo` has
them in turn, which is enough to tell a repetition from the next one. What `echo` allows
to be lost is less exact: any character, once `fifo_depth` of them wait between line and
line; by `EchoRuns` and `ReceiverImplements` these all wait in the receiver. The bytes 0 to 3 are the values
of the status register, the characters among them.

## What the runs found

A branch or jump taken to an address off a word boundary traps, but the program
continues at the target rounded down, not at the trap vector: `branch_taken` has
priority over `trap_raised` in `pcgen.py` 27-30. The `--trap-vector` option of
`cli.py` 24 promises the opposite. RVFI reports the address the core does go to
(`mem.py` 72-77 has the same priority), so the reports stay consistent, which
`ReportsAgree` checks. `Isa` describes the behaviour of the code.

Smaller observations, which no run is about: `complete.sv` 64 connects
`dbus__err` to `ibus_err`; `mem_fault` is reported for misaligned accesses as
well as failed ones. A load of a word at 0x80000004 reads status and data at once and so
takes a character that the status in the same word may not announce. A divisor that
is stored one byte at a time, with a load of it in between, takes the byte that the
load left in the shadow; `WholeAssumption` of `Peripherals` says that both bytes are
accessed together, as with a halfword. A `BlockRAM` that can be written has no `err`
(`bram.py` 12-14), but line 32 reads it, so that it cannot be elaborated as it stands; nothing
in the repository uses one. `Rams` gives it an `err` that stays low, which is what the line
seems to intend.

## Proofs

`CoreProofs` proves, for every instruction set and size that meet the assumptions
of `Instructions`:

* `TypeCorrect`: `Spec => []TypeOK`.
* `Redirects`: `Spec => []RedirectNeverStalled`, the argument of the comment in
  `pcgen.py` 17-26.
* `BusesHeld`: `Spec => BusRequestsHeld`.
* `Invariant`: `ISpec => []IInv`.
* `Refinement`: `ISpec => IsaSpec`.

The mapping of the refinement: the program counter is the address of the oldest
instruction that has not retired, the registers are the register file with the
result that writeback is about to store, and a step of `Isa` is a cycle in which
the memory stage moves on with an instruction in it. That step needs to know that
the next oldest instruction is the one that follows, that it was fetched from
memory no longer ago than a fence allows, and that its operands are those of the
registers now. None of this can be seen in the memory stage alone, so the
invariant says it of every slot:

* `Consecutive`: the slots in use hold consecutive addresses;
* `Fetched`: a word in flight is visible, and a slot marked TRAP has a reason;
* `Fenced`: nothing is in flight behind a FENCE.I in execute or memory;
* `OperandsRead`: operands in execute and memory equal the registers as they will
  be, and none of them is about to be written.

The proof that a cycle keeps the invariant distinguishes five kinds of cycle:
the memory stage waits; it redirects; decode waits for a hazard; the fetch waits;
everything moves. Each kind has a lemma that says what becomes of every slot, and
one lemma per part of the invariant uses them. The refinement then has one lemma
per action of `Isa`, by what is in the memory stage.

`RvfiProofs` rests on the invariant of the pipeline and proves, under the same assumptions:

* `RInvariant`: `RSpec => []RInv`. In most cycles both the observer and the program's view
  stay; the work is the cycle in which `mem` moves on, where a report appears in
  writeback and the view goes one instruction further, and both must come to the same.
  `TrapsReadToo` is stronger than `OperandsRead`, which says nothing of slots that trap: a word
  that is illegal may name registers, and its report gives what it read there.
* `Faults` (`FaultsAreReported`) and `Agree` (`ReportsAgree`), from `AboutToReport`.
* `Run` (`ReportsAreARun`): by `OneBehind` the observer goes to the view of the program of a
  cycle ago, which either has not moved or has made a step of `Isa`. To carry that step
  over one cycle, `ProgramStep` says it of two views as values, and the invariant `Told`
  remembers it from the cycle in which `mem` moved.

`DatapathProofs` proves of the decoder, for every value of every field, `ContractKept` and
`ZeroIsIllegal`, which are what `Instructions` assumes (`DecoderAssumption`), `Accepts`
(`LegalExactly`), `Contracted` (`DecoderContract`) and `Wired` (`ImmediateOfFormat`); and of decoder and
units together, for all words of 32 bits as operands, addresses and memory, where the run
has boundary values of eight bits:

* `Traps` (`TrapsExactly`), `Continues` (`NextOfOperation`), `Accesses` (`MemoryOfOperation`) and `Results`
  (`ResultOfOperation`).

Their hypothesis `ByteWidth = 8` is the width of the code; the modules are written for any,
so that a run can do with two bits. The invariant `DInv` says of each slot that it is what its
stage makes of the ones before; the theorems are then about operators. `Mnemonic` has
one operation for each encoding (`OneOperation`), and each unit has a lemma that takes it
to `Rv32i`: `Borrowing` and `ComparingSigned` for the adder that compares, `Targeted` for targets
of which only bit 1 is looked at, `MovingBytes` and `Slicing` for the lanes of a store and a load,
`Extending`, `Gates`, `Shifts`. `UnitsProofs` has the arithmetic under the last two: a word is
determined by its bits (`SameBits`) and any bits make one (`AnyBits`), by induction over the 33
places, stated on sets of numbers so that no theorem with an operator parameter is
needed (`Induction`); and the left shift by reversal (`ShiftingLeft`) from what each shift does
to a bit.

`FlashProofs`, `SocProofs` and `RamsProofs` prove the devices and the bus between them and the
core, for any addresses, contents, memory map and delays:

* `Invariant` (`FInv`), and from it `AcknowledgesWord` (`AcknowledgesItsWord`), `ReadsOnly`
  (`ChipHearsReadsOnly`) and `Implements` (`FlashIsAMemory`). The property about an
  acknowledged word is not inductive by far: 66 cycles lie between the request and
  the answer. `FInv` says of each of them which bits are still in the shift register,
  which is on the pin and which the chip has heard, and that these are the bits of the
  command, the address and the word (`Transferred`); that their numbers add up
  (`Counting`); and that the chip is awake before the first of them (`Waiting`), for which
  the timer may be one less than the wait (`FlashAssumption`).
* `BramImplements` and `SpramImplements`: the invariant is little more than the types, for
  the devices answer in the next cycle; the work is in the mapping of four blocks to
  one memory.
* `Rests` (`DataBusRests`): of `fd`, `dx` and `xm` no two neighbours both hold an instruction
  (`Spaced`), because an answer to a fetch finds `fd` empty: the cycle before, the fetch waited.
* `Belong`, `Once`, `OneMaster`: both buses see the shared one as the grant tells them, and
  what the devices last read is the word at the address of now. `SocIsCore` then says
  `SSpec => Spec`: what `CoreProofs` proves of the core holds in the system on chip.

`PeripheralsProofs` proves, for FIFOs of any depth from three (`UartAssumption`),
any bytes and, in `Peripherals`, any accesses that take both bytes of the divisor or neither
(`WholeAssumption`): `ReceiverImplements`, `TransmitterImplements`, `Answers`, `ChangeWhole`, and for
the program `EchoRuns`, `Polling` and `Implements` (`EchoIsAQueue`). They rest on one
edge of a FIFO as an operation on sequences, for which the invariant needs that a
FIFO that shows nothing has at most one item in its memory, and is not full
therefore; on where a request is in the bridge, and which strobe follows from that. Upon
this, `Answers` needs to know of each byte of a request how far it has come: written to
the shadow, from there to the register, or back to the bus. `EchoRuns` says that a step of
`Echo` is one of `Peripherals`, so that its invariant holds under the program
(`PeripheralsInvariant`). `Polling` says that what
the program saw in the status stays so until it acts on it, and `Implements` follows a
character along `Carried`.

Only model-checked: liveness (`Retires`, `SharedBusAnswers`, `StopsOnlyInHoles`, `FlashAnswers`,
`RamsAnswer`, `EchoMoves`), which the prover cannot do. Every safety property of a passing
run is proved.

## Not modelled

A composition of the core with the peripherals: the CSR bus is checked with the data
bus, which holds its requests; a fetch that runs into the peripherals and is
withdrawn in the middle of the bridge's four bytes is not. Bit timing of the serial
port, framing and what a change of the divisor does to a character on the line, which are
the library's; the programs `hello.c`, which only sends, `blinky.c` and `start.s`;
boards, command line,
disassembler and formal scripts, which have no behaviour; the black boxes that
riscv-formal substitutes for the ALU and the register file; RVFI's serial number,
constant fields and byte masks; timing within a clock cycle. The registers start at
zero, which is what the memory of `regs.py` is initialised with; a reset that
keeps them is not modelled.

## Order of the modules

Each rests on those before it: `Pipeline`, `Instructions`, `Isa`, `Core`, `CoreIsa`,
`CoreProofs`; `Rvfi`, `RvfiProofs`; `Decoder`, `Units`, `UnitsProofs`, `Rv32i`, `Datapath`,
`DatapathProofs`; `Memory`, `Soc`, `SocProofs`; `Flash`, `FlashProofs`; `Rams`, `RamsProofs`; `Queue`,
`Fifo`, `Csr`, `Uart`, `Gpio`, `Peripherals`, `Echo`, `PeripheralsProofs`.

What could follow: the core with the instruction set of `Datapath` in the place of the
constants of `Instructions`, so that the theorems about the two become one; reports with the
byte masks of narrow accesses; the core, the bridge and withdrawn fetches in one instance.
