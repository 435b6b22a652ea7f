-------------------------------- MODULE Rams --------------------------------
(***************************************************************************)
(* The block RAM (icicle/soc/bram.py), which may be read-only, and the RAM *)
(* made of four blocks of the FPGA, two by two (icicle/soc/ice40_spram.py):*)
(* side by side, with the same requests.  Both read or write at one clock  *)
(* edge and answer in the cycle after.  One step is one clock cycle.       *)
(*                                                                         *)
(* An address is a pair of the bit that selects a row of blocks and of the *)
(* rest; a word is a function from its four bytes.                         *)
(***************************************************************************)
EXTENDS Integers

CONSTANTS
  Offset,  \* the addresses within a block
  Byte,    \* the values of a byte
  Initial, \* what the memories may hold at first
  Writes   \* what the master writes: records of sel, a set of bytes, and data, a word

Row == 0 .. 1
Lane == 0 .. 3
Adr == Row \X Offset
Word == [Lane -> Byte]

ASSUME WordAssumption ==
  Initial \subseteq [Adr -> Word] /\ Writes \subseteq [sel : SUBSET Lane, data : Word]

VARIABLES
  mem, read_data, bram_ack, bram_err, read_only, \* the block RAM
  block, data_out, spram_ack,                    \* the SPRAM: blocks of two bytes each
  cyc, adr, we, dat_w                            \* the request

bram == <<mem, read_data, bram_ack, bram_err, read_only>>
spram == <<block, data_out, spram_ack>>
bus == <<cyc, adr, we, dat_w>>
vars == <<bram, spram, bus>>

Merge(old, w) == [l \in Lane |-> IF l \in w.sel THEN w.data[l] ELSE old[l]]

(***************************************************************************)
(* The block RAM.  One that can be written has no err in bram.py 12-14,    *)
(* though line 32 reads it, and so cannot be elaborated as it stands; here *)
(* it has one, which it never raises.                                      *)
(***************************************************************************)

BramValidDuringError == cyc /\ ~bram_ack

BramValid == cyc /\ ~(bram_ack \/ bram_err)

BramAnswerNoWrites ==
  /\ bram_ack' = (BramValid /\ ~we)
  /\ bram_err' = (BramValid /\ we /\ read_only)

BramAnswer ==
  /\ bram_ack' = (BramValid /\ ~(we /\ read_only))
  /\ bram_err' = (BramValid /\ we /\ read_only)

\* The read port shows what was there before the edge.
BramEdge ==
  /\ read_data' = mem[adr]
  /\ mem' = IF BramValid /\ we /\ ~read_only THEN [mem EXCEPT ![adr] = Merge(@, dat_w)] ELSE mem
  /\ BramAnswer
  /\ UNCHANGED read_only

(***************************************************************************)
(* The SPRAM.                                                              *)
(***************************************************************************)

Wren == cyc /\ ~spram_ack /\ we

Chipselect(row) == adr[1] = row

MaskedByColumn(column, old) ==
  [b \in 0 .. 1 |-> IF column \in dat_w.sel THEN dat_w.data[2 * column + b] ELSE old[b]]

\* What a block keeps of its two bytes, and what it takes.
Masked(column, old) ==
  [b \in 0 .. 1 |-> IF 2 * column + b \in dat_w.sel THEN dat_w.data[2 * column + b] ELSE old[b]]

\* A block reads or writes; its data lines are not read after a write.
SpramEdge ==
  /\ block' = [row \in Row |-> [column \in 0 .. 1 |->
       IF Chipselect(row) /\ Wren
         THEN [block[row][column] EXCEPT ![adr[2]] = Masked(column, @)]
         ELSE block[row][column]]]
  /\ data_out' = [row \in Row |-> [column \in 0 .. 1 |->
       IF Chipselect(row) /\ ~Wren THEN block[row][column][adr[2]] ELSE data_out[row][column]]]
  /\ spram_ack' = (cyc /\ ~spram_ack)

\* The word on the bus comes from the row that the address selects now.
SpramDatR == [l \in Lane |-> data_out[adr[1]][l \div 2][l % 2]]

SpramContents == [a \in Adr |-> [l \in Lane |-> block[a[1]][l \div 2][a[2]][l % 2]]]

(***************************************************************************)
(* Either is on a bus as module Memory describes it.                       *)
(***************************************************************************)

Bram == INSTANCE Memory WITH
  rsp <- IF bram_ack THEN "ack" ELSE IF bram_err THEN "err" ELSE "none",
  dat_r <- read_data, contents <- mem

Spram == INSTANCE Memory WITH
  rsp <- IF spram_ack THEN "ack" ELSE "none",
  dat_r <- SpramDatR, contents <- SpramContents, read_only <- FALSE

Master ==
  /\ Bram!Master /\ Spram!Master
  /\ cyc' \in BOOLEAN /\ adr' \in Adr /\ we' \in BOOLEAN /\ dat_w' \in Writes

Init ==
  /\ mem \in Initial /\ \E a \in Adr : read_data = mem[a]
  /\ bram_ack = FALSE /\ bram_err = FALSE /\ read_only \in BOOLEAN
  /\ block = [row \in Row |-> [column \in 0 .. 1 |->
       [o \in Offset |-> [b \in 0 .. 1 |-> mem[<<row, o>>][2 * column + b]]]]]
  /\ data_out = [row \in Row |-> [column \in 0 .. 1 |-> [b \in 0 .. 1 |-> read_data[2 * column + b]]]]
  /\ spram_ack = FALSE
  /\ cyc \in BOOLEAN /\ adr \in Adr /\ we \in BOOLEAN /\ dat_w \in Writes

Next == BramEdge /\ SpramEdge /\ Master

\* The clock runs while a request is held.
Spec == Init /\ [][Next]_vars /\ WF_vars(Next /\ cyc' = TRUE)

(***************************************************************************)
(* Properties.                                                             *)
(***************************************************************************)

(* The block RAM is a device as module Memory describes it: what it        *)
(* acknowledges it has done, to the bytes selected and once, and written   *)
(* as read-only memory it reports an error and keeps its word (bram.py     *)
(* 31-49).                                                                 *)
BramIsAMemory == Bram!Safety

(* So is the SPRAM: of four blocks that each see a part of the address, of *)
(* the word and of the byte selects, it makes one memory (ice40_spram.py   *)
(* 16-40).                                                                 *)
SpramIsAMemory == Spram!Safety

(* Both answer, so that one can stand for the other (bram.py 31-49,        *)
(* ice40_spram.py 40).                                                     *)
RamsAnswer == Bram!Served /\ Spram!Served

=============================================================================
