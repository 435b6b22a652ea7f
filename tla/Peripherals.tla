---------------------------- MODULE Peripherals ----------------------------
(***************************************************************************)
(* The UART and the GPIO on the bus of bytes, as icicle/soc/soc.py puts    *)
(* them there, and a master that asks anything of Access in any order.     *)
(***************************************************************************)
EXTENDS Uart, Gpio

\* The master takes both bytes of the divisor, or neither.
ASSUME WholeAssumption == \A x \in Access : x.adr = 1 => (0 \in x.sel <=> 1 \in x.sel)

vars == <<csr, bus, uart, gpio>>

Value == [a \in CsrAddress |->
  IF a \in 0 .. 2 THEN GpioValue[a] ELSE IF a = 3 THEN 0 ELSE UartValue[a]]

Init == CsrInit /\ UartInit /\ GpioInit

Next == CsrEdge(Value) /\ UartEdge /\ GpioEdge /\ Master

Spec == Init /\ [][Next]_vars

(***************************************************************************)
(* Properties.                                                             *)
(***************************************************************************)

\* The registers that keep what is stored in them, by the addresses of their
\* bytes.
Register == [a \in Oe \union O \union ClkDiv |->
  IF a \in Oe THEN oe ELSE IF a \in O THEN o ELSE divisor[a]]

Selected(a) == cyc /\ a \div 4 = req.adr /\ a % 4 \in req.sel

(* A store that is answered is in the registers, and a load that is        *)
(* answered shows them, whichever bytes the core selects, except one byte  *)
(* of the divisor alone (WholeAssumption): the bridge takes the bytes one  *)
(* by one, the registers change later than their bytes are written, and    *)
(* the bytes read come back later than they are asked for (soc.py 26-29,   *)
(* uart.py 51-54, gpio.py 31-40).                                          *)
AnswersTellTheRegisters ==
  ack => \A a \in DOMAIN Register : Selected(a) =>
    Register[a] = (IF req.we THEN req.dat_w ELSE dat_r)[a % 4]

(* A register changes only while a store of it is on the bus, and all its  *)
(* bytes at once: the serial port never sees half of a divisor that was    *)
(* stored whole (uart.py 53-54), and no other access disturbs a register.  *)
RegistersChangeWhole ==
  [][\A e \in {Oe, O, ClkDiv} :
       \/ \A a \in e : Register'[a] = Register[a]
       \/ req.we /\ \A a \in e : Selected(a) /\ Register'[a] = req.dat_w[a % 4]]_vars

=============================================================================
