------------------------------- MODULE MCFlash ------------------------------
(* The instance of module Flash that TLC checks. *)
EXTENDS Flash

Even == [i \in 0 .. 21 |-> 1 - (i % 2)]

Odd == [i \in 0 .. 21 |-> i % 2]

\* Two addresses that differ in every bit.
MCAdr == {Even, Odd}

Number(a) == IF a = Even THEN 0 ELSE IF a = Odd THEN 1 ELSE 2

\* Every bit of the chip is told from every other, and from what is no bit of it.
MCContent(a, byte, i) == 3 + 32 * Number(a) + 8 * byte + i

=============================================================================
