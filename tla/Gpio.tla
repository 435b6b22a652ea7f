-------------------------------- MODULE Gpio --------------------------------
(***************************************************************************)
(* The GPIO (icicle/soc/gpio.py): two registers that drive the pins, and   *)
(* the pins as they are read.  A value stands for the bits of all pins.    *)
(***************************************************************************)
EXTENDS Csr

CONSTANT Pins \* what the pins may show

ASSUME GpioAssumption == Pins \subseteq Byte

VARIABLES oe, i, o

gpio == <<oe, i, o>>

GpioValue == [a \in 0 .. 2 |-> IF a \in Oe THEN oe ELSE IF a \in I THEN i ELSE o]

OEdgeOfOe == o' = IF Oe \in w_stb THEN shadow[2] ELSE o

OEdge == o' = IF O \in w_stb THEN shadow[2] ELSE o

GpioEdge ==
  /\ oe' = IF Oe \in w_stb THEN shadow[0] ELSE oe
  /\ OEdge
  /\ i' \in Pins \* from outside

GpioInit == oe = 0 /\ i \in Pins /\ o = 0

=============================================================================
