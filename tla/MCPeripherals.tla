--------------------------- MODULE MCPeripherals ---------------------------
(* The instances of module Peripherals that TLC checks. *)
EXTENDS Peripherals

Zero == [l \in Lane |-> 0]
One == [l \in Lane |-> 1]
Two == [l \in Lane |-> 2]

\* For the registers: a load of all of a word; a store of all of the GPIO's
\* and of one; a store of the divisor; a load and a store of the data register.
RegisterAccess ==
       [adr : {0, 1}, sel : {Lane}, we : {FALSE}, dat_w : {Zero}]
  \union [adr : {1}, sel : {{3}}, we : {FALSE}, dat_w : {Zero}]
  \union [adr : {0}, sel : {Lane}, we : {TRUE}, dat_w : {One}]
  \union [adr : {0}, sel : {{2}}, we : {TRUE}, dat_w : {Zero}]
  \union [adr : {1}, sel : {{0, 1}}, we : {TRUE}, dat_w : {One, Zero}]
  \union [adr : {1}, sel : {{3}}, we : {TRUE}, dat_w : {One}]

\* For the FIFOs: loads of the status, of the data register and of the word that
\* has both; stores of two characters, in any order.
DataAccess ==
       [adr : {1}, sel : {{2}, {3}, Lane}, we : {FALSE}, dat_w : {Zero}]
  \union [adr : {1}, sel : {{3}}, we : {TRUE}, dat_w : {One, Two}]

\* Characters come on the line in any order.
AnyOrder == [x \in Char |-> Char]

=============================================================================
