-------------------------------- MODULE Echo --------------------------------
(***************************************************************************)
(* The program examples/echo.c on the peripherals: it sends back what it   *)
(* receives.  A step of the program is a load or a store of a byte; how    *)
(* long the core takes between two of them is left open.                   *)
(***************************************************************************)
EXTENDS Peripherals

VARIABLES
  pc, \* the access that comes next, or that is on the bus
  c   \* the variable c

program == <<pc, c>>
evars == <<vars, program>>

Lines(x) == [l \in Lane |-> x]

StatusLoad == [adr |-> 1, sel |-> {2}, we |-> FALSE, dat_w |-> Lines(0)]
DataLoad == [adr |-> 1, sel |-> {3}, we |-> FALSE, dat_w |-> Lines(0)]
DataStore(x) == [adr |-> 1, sel |-> {3}, we |-> TRUE, dat_w |-> Lines(x)]

EchoAccess == {StatusLoad, DataLoad} \union {DataStore(x) : x \in Byte}

Ask == CASE pc \in {"rx_rdy", "tx_rdy"} -> StatusLoad
         [] pc = "load" -> DataLoad
         [] pc = "store" -> DataStore(c)

UART_STATUS_RX_RDY == dat_r[2] \in {1, 3}
UART_STATUS_TX_RDY == dat_r[2] \in {2, 3}

Asks == Start /\ req' = Ask /\ UNCHANGED program

Waits == (Held \/ Rest) /\ UNCHANGED program

Goes(from, to) == pc = from /\ Done /\ pc' = to

PollRx ==
  /\ Goes("rx_rdy", IF UART_STATUS_RX_RDY THEN "load" ELSE "rx_rdy")
  /\ UNCHANGED c

LoadC == Goes("load", "tx_rdy") /\ c' = dat_r[3]

PollTxOnce == Goes("tx_rdy", "store") /\ UNCHANGED c

PollTxAwaitsRx ==
  /\ Goes("tx_rdy", IF UART_STATUS_RX_RDY THEN "store" ELSE "tx_rdy")
  /\ UNCHANGED c

PollTx ==
  /\ Goes("tx_rdy", IF UART_STATUS_TX_RDY THEN "store" ELSE "tx_rdy")
  /\ UNCHANGED c

StoreC == Goes("store", "rx_rdy") /\ UNCHANGED c

Program == Asks \/ Waits \/ PollRx \/ LoadC \/ PollTx \/ StoreC

EInit == Init /\ req = StatusLoad /\ pc = "rx_rdy" /\ c = 0

ENext == CsrEdge(Value) /\ UartEdge /\ GpioEdge /\ Program

\* The clock runs, the program does not stop between two accesses, and the
\* transmitter ends what it sends.
Fairness ==
  /\ WF_evars(ENext /\ (cyc \/ cyc'))
  /\ WF_evars(ENext /\ tx_busy /\ ~tx_busy')

ESpec == EInit /\ [][ENext]_evars /\ Fairness

(***************************************************************************)
(* Properties.                                                             *)
(***************************************************************************)

\* The character on its way from the receiver's FIFO to the transmitter's: in
\* the multiplexer, on the bus, in the variable, and in the multiplexer again.
Carried ==
  IF pc = "load" /\ cycle = 4 THEN <<IF ack THEN dat_r[3] ELSE shadow[7]>>
  ELSE IF pc = "tx_rdy" \/ (pc = "store" /\ cycle < 4) THEN <<c>>
  ELSE IF Data \in w_stb THEN <<shadow[7]>> ELSE <<>>

Line == INSTANCE Queue WITH
  Enough <- Depth,
  items <- tx_fifo!Items \o Carried \o rx_fifo!Items \o (IF rx_rdy THEN <<rx_data>> ELSE <<>>),
  offer <- rx_done,
  give <- IF Transmit THEN tx_r_data ELSE None

(* What comes in on the line goes out on it, once and in the same order,   *)
(* and a character is lost only when fifo_depth of them wait on the way:   *)
(* the two status bits are all the program needs (uart.py 57,              *)
(* examples/echo.c 10-15).  ReceiverIsAQueue of module Uart adds that all  *)
(* of these wait in the receiver.                                          *)
EchoIsAQueue == Line!Safety

(* A program that saw room in the transmitter's FIFO finds room when its   *)
(* character comes there, accesses later (uart.py 57, 65-69).              *)
PollingSuffices == Data \in w_stb => tx_fifo!w_rdy

(* Characters that wait are sent: no character stays between the receiver  *)
(* and the transmitter (uart.py 36-48, examples/echo.c 10-15).              *)
EchoMoves == Line!Moves

=============================================================================
