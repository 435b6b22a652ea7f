-------------------------------- MODULE Csr --------------------------------
(***************************************************************************)
(* The way from the shared bus to the registers of the peripherals: the    *)
(* bridge that makes of a word four accesses of a byte, the decoder and    *)
(* the multiplexers (library code, put together by icicle/soc/soc.py,      *)
(* uart.py and gpio.py).  One step is one clock cycle.                     *)
(*                                                                         *)
(* A register of several bytes is read whole when its first byte is read,  *)
(* and written whole when its last byte is written; between these its      *)
(* bytes are in a shadow, which reads and writes share.                    *)
(***************************************************************************)
EXTENDS Integers, FiniteSets

CONSTANTS
  Byte,   \* the values of a byte
  Access  \* what the master asks: records of adr, sel, we and dat_w

Lane == 0 .. 3
CsrAddress == 0 .. 7
None == -1

\* The registers, by the addresses of their bytes: three of the GPIO's,
\* three of the UART's.
Oe == {0}
I == {1}
O == {2}
ClkDiv == {4, 5}
Status == {6}
Data == {7}
Readable == {Oe, I, O, ClkDiv, Status, Data}
Writable == {Oe, O, ClkDiv, Data}

ASSUME AccessAssumption ==
  /\ 0 .. 3 \subseteq Byte /\ Byte \subseteq Nat
  /\ Access \subseteq [adr : 0 .. 1, sel : SUBSET Lane, we : BOOLEAN, dat_w : [Lane -> Byte]]

VARIABLES
  cyc, req,               \* the request on the bus
  cycle, ack, dat_r,      \* the bridge
  shadow, r_addr, w_stb   \* the multiplexers: r_addr was read, w_stb was written

csr == <<cycle, ack, dat_r, shadow, r_addr, w_stb>>
bus == <<cyc, req>>

First(e) == CHOOSE a \in e : \A b \in e : a <= b
Last(e) == CHOOSE a \in e : \A b \in e : b <= a

\* The bus of bytes, which the bridge drives.
Addr == 4 * req.adr + cycle
Strobe == cyc /\ cycle \in req.sel
RStb == Strobe /\ ~req.we
WStb == Strobe /\ req.we
RData == IF r_addr = None THEN 0 ELSE shadow[r_addr]

BridgeEdge ==
  /\ cycle' = IF ack THEN 0 ELSE IF cyc /\ cycle < 4 THEN cycle + 1 ELSE cycle
  /\ ack' = (cyc /\ cycle = 4 /\ ~ack)
  /\ dat_r' = IF cyc /\ cycle > 0 THEN [dat_r EXCEPT ![cycle - 1] = RData] ELSE dat_r

\* value: the byte that each address shows of its register.
MultiplexerEdge(value) ==
  /\ r_addr' = IF RStb THEN Addr ELSE None
  /\ shadow' = [a \in CsrAddress |->
       IF RStb /\ \E e \in Readable : a \in e /\ Addr = First(e) THEN value[a]
       ELSE IF WStb /\ a = Addr /\ a \in UNION Writable THEN req.dat_w[cycle]
       ELSE shadow[a]]
  /\ w_stb' = {e \in Writable : WStb /\ Addr = Last(e)}

CsrEdge(value) == BridgeEdge /\ MultiplexerEdge(value)

(***************************************************************************)
(* The data bus of the core, seen from the bridge: a request is held until *)
(* it is answered, and then leaves the bus for a cycle, because another    *)
(* load or store is not fetched so soon over the bus that they share       *)
(* (DataBusRests of module Soc).                                           *)
(***************************************************************************)

Start == ~cyc /\ cyc' = TRUE /\ req' \in Access

Held == cyc /\ ~ack /\ UNCHANGED bus

Done == cyc /\ ack /\ cyc' = FALSE /\ UNCHANGED req

Rest == ~cyc /\ UNCHANGED bus

Master == Start \/ Held \/ Done \/ Rest

CsrInit ==
  /\ cyc = FALSE /\ req \in Access
  /\ cycle = 0 /\ ack = FALSE /\ dat_r = [l \in Lane |-> 0]
  /\ shadow = [a \in CsrAddress |-> 0] /\ r_addr = None /\ w_stb = {}

=============================================================================
