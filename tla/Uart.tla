-------------------------------- MODULE Uart --------------------------------
(***************************************************************************)
(* The UART (icicle/soc/uart.py): its registers, its two FIFOs and the     *)
(* serial port between them and the line.  The serial port is a library's: *)
(* of its receiver and its transmitter this module keeps what they say to  *)
(* the FIFOs, and leaves open how long a character takes.                  *)
(***************************************************************************)
EXTENDS Csr, Sequences

CONSTANTS
  Char,    \* the characters
  Follows, \* the characters that may come after each on the line
  Depth    \* fifo_depth

ASSUME UartAssumption ==
  /\ Char \subseteq Byte
  /\ Follows \in [Char -> SUBSET Char]
  /\ Depth \in Nat /\ Depth >= 3

VARIABLES
  line, rx_done,           \* the last character on the line; the one it has just ended
  rx_rdy, rx_data,         \* the receiver
  tx_busy,                 \* the transmitter sends a character
  divisor,
  rx_inner, rx_r_rdy, rx_r_data,
  tx_inner, tx_r_rdy, tx_r_data

receiver == <<line, rx_done, rx_rdy, rx_data>>
rx == <<rx_inner, rx_r_rdy, rx_r_data>>
tx == <<tx_inner, tx_r_rdy, tx_r_data>>
uart == <<receiver, tx_busy, divisor, rx, tx>>

rx_fifo == INSTANCE Fifo WITH inner <- rx_inner, r_rdy <- rx_r_rdy, r_data <- rx_r_data
tx_fifo == INSTANCE Fifo WITH inner <- tx_inner, r_rdy <- tx_r_rdy, r_data <- tx_r_data

StatusSwapped == (IF rx_r_rdy THEN 2 ELSE 0) + (IF tx_fifo!w_rdy THEN 1 ELSE 0)

StatusValue == (IF rx_r_rdy THEN 1 ELSE 0) + (IF tx_fifo!w_rdy THEN 2 ELSE 0)

UartValue == [a \in 4 .. 7 |->
  IF a \in ClkDiv THEN divisor[a] ELSE IF a \in Status THEN StatusValue ELSE rx_r_data]

(***************************************************************************)
(* The receiver passes on a character if the FIFO has room when it ends,   *)
(* and loses it otherwise.  A character ends long after the one before.    *)
(***************************************************************************)

ReceiverEdge ==
  /\ IF rx_fifo!w_rdy
       THEN rx_rdy' = (rx_done # None) /\ rx_data' = IF rx_done # None THEN rx_done ELSE rx_data
       ELSE UNCHANGED <<rx_rdy, rx_data>>
  /\ \/ rx_done' = None /\ UNCHANGED line
     \/ rx_done = None /\ ~rx_rdy /\ line' \in Follows[line] /\ rx_done' = line'

DataRStb == RStb /\ Addr \in Data

RxREnAnyRead == RStb /\ Addr \in Status \union Data

RxREn == DataRStb

RxFifoEdge == rx_fifo!Edge(rx_rdy /\ rx_fifo!w_rdy, rx_data, RxREn)

(***************************************************************************)
(* The transmitter takes a character when it is idle, and is busy for a    *)
(* cycle or more.                                                          *)
(***************************************************************************)

Transmit == ~tx_busy /\ tx_r_rdy

TransmitterEdge ==
  \/ ~tx_busy /\ tx_busy' = Transmit
  \/ tx_busy /\ tx_busy' \in BOOLEAN

TxREnNotReady == tx_r_rdy

TxREn == Transmit

TxFifoEdge == tx_fifo!Edge(Data \in w_stb, shadow[7], TxREn)

DivisorAlways == divisor' = [a \in ClkDiv |-> shadow[a]]

DivisorEdge == divisor' = IF ClkDiv \in w_stb THEN [a \in ClkDiv |-> shadow[a]] ELSE divisor

UartEdge == ReceiverEdge /\ RxFifoEdge /\ TransmitterEdge /\ TxFifoEdge /\ DivisorEdge

UartInit ==
  /\ line \in Char /\ rx_done = None /\ rx_rdy = FALSE /\ rx_data = 0
  /\ tx_busy = FALSE /\ divisor = [a \in ClkDiv |-> 0]
  /\ rx_fifo!Init /\ tx_fifo!Init

(***************************************************************************)
(* Properties.                                                             *)
(***************************************************************************)

Rx == INSTANCE Queue WITH
  Enough <- Depth,
  items <- rx_fifo!Items \o (IF rx_rdy THEN <<rx_data>> ELSE <<>>),
  offer <- rx_done,
  give <- IF DataRStb /\ rx_r_rdy THEN rx_r_data ELSE None

Tx == INSTANCE Queue WITH
  Enough <- Depth,
  items <- tx_fifo!Items,
  offer <- IF Data \in w_stb THEN shadow[7] ELSE None,
  give <- IF Transmit THEN tx_r_data ELSE None

(* From the line to the reads of the data register, characters keep their  *)
(* order, each is given to one read, and none is lost unless fifo_depth of *)
(* them wait (uart.py 36-41, 60-63): the memory and the register behind it *)
(* are never full and empty at the same time.                              *)
ReceiverIsAQueue == Rx!Safety

(* So they do from the writes of the data register to the line, and none   *)
(* is lost unless fifo_depth of them wait (uart.py 43-48, 65-69).          *)
TransmitterIsAQueue == Tx!Safety

=============================================================================
