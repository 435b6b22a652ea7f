----------------------------- MODULE UnitsProofs ----------------------------
(***************************************************************************)
(* Lemmas about the numbers of module Units for words of 32 bits, as those *)
(* of the code: their bits, the adder and the left shift, which shift.py   *)
(* makes of a right shift between two reversals.                           *)
(***************************************************************************)
EXTENDS Units, TLAPS, WellFoundedInduction

(***************************************************************************)
(* Induction over the natural numbers, for a set instead of a predicate.   *)
(***************************************************************************)

LEMMA Least ==
  ASSUME NEW S \in SUBSET Nat, S # {}
  PROVE  \E x \in S : \A y \in S : x <= y
<1>1. IsWellFoundedOn(OpToRel(<, Nat), Nat)
  BY NatLessThanWellFounded
<1>2. PICK x \in S : \A y \in S : ~(<<y, x>> \in OpToRel(<, Nat))
  BY <1>1, WFMin
<1>3. ASSUME NEW y \in S
      PROVE  x <= y
  <2>1. <<y, x>> \in OpToRel(<, Nat) <=>
          <<y, x>> \in { ss \in Nat \X Nat : ss[1] < ss[2] }
    BY DEF OpToRel
  <2>2. ~(y < x)
    BY <1>2, <2>1
  <2> QED
    BY <2>2
<1> QED
  BY <1>3

LEMMA Induction ==
  ASSUME NEW P \in SUBSET Nat, NEW n \in Nat, 0 \in P,
         \A k \in 0 .. n - 1 : k \in P => k + 1 \in P
  PROVE  n \in P
<1> SUFFICES ASSUME n \notin P PROVE FALSE
  OBVIOUS
<1> DEFINE S == { k \in 0 .. n : k \notin P }
<1>1. S \in SUBSET Nat /\ n \in S
  OBVIOUS
<1>2. PICK x \in S : \A y \in S : x <= y
  <2> HIDE DEF S
  <2> QED
    BY <1>1, Least
<1>3. x # 0 /\ x - 1 \in 0 .. n - 1 /\ x - 1 \notin S
  BY <1>2
<1> QED
  BY <1>3

(***************************************************************************)
(* Division.                                                               *)
(***************************************************************************)

LEMMA Dividing ==
  ASSUME NEW x \in Nat, NEW y \in Nat \ {0}
  PROVE  /\ x \div y \in Nat /\ x % y \in 0 .. y - 1 /\ x = y * (x \div y) + (x % y)
         /\ x * y \in Nat /\ (x # 0 => x * y # 0)
<1>1. x % y \in 0 .. y - 1
  <2>1. x % y \in Int /\ 0 <= x % y
    BY SMT
  <2>2. x % y < y
    BY SMT
  <2>3. x % y <= y - 1
    BY <2>1, <2>2
  <2> QED
    BY <2>1, <2>3
<1>2. x = y * (x \div y) + (x % y)
  BY SMT
<1>3. x \div y \in Nat
  BY SMT
<1>4. x * y \in Nat
  BY SMT
<1>5. x # 0 => x * y # 0
  BY SMT
<1> QED
  BY <1>1, <1>2, <1>3, <1>4, <1>5

LEMMA DividingTwice ==
  ASSUME NEW a \in Nat, NEW p \in Nat \ {0}, NEW q \in Nat \ {0}
  PROVE  (a \div p) \div q = a \div (p * q)
  BY SMTT(30)

LEMMA Cancelling ==
  ASSUME NEW a \in Nat, NEW p \in Nat \ {0}, NEW q \in Nat \ {0}
  PROVE  (a * p) \div (p * q) = a \div q
  BY SMTT(30)

\* Cutting a number off at a higher bit leaves a bit alone.
LEMMA CuttingOff ==
  ASSUME NEW a \in Nat, NEW p \in Nat \ {0}, NEW e \in Nat \ {0}
  PROVE  ((a % (p * (2 * e))) \div p) % 2 = (a \div p) % 2
<1> DEFINE b == a \div p
           r == a % p
           m == p * (2 * e)
           c == b % (2 * e)
           d == b \div (2 * e)
<1>1. b \in Nat /\ r \in 0 .. p - 1 /\ a = p * b + r
  BY Dividing
<1>2. 2 * e \in Nat \ {0}
  OBVIOUS
<1>3. m \in Nat \ {0}
  BY <1>2, Dividing
<1> HIDE DEF b, r
<1>4. c \in 0 .. 2 * e - 1 /\ d \in Nat /\ b = (2 * e) * d + c
  BY <1>1, <1>2, Dividing
<1> HIDE DEF m, c, d
<1>5. p * c + r \in 0 .. m - 1
  BY <1>1, <1>3, <1>4, SMTT(30) DEF m
<1>6. a = m * d + (p * c + r)
  BY <1>1, <1>3, <1>4, SMTT(30) DEF m
<1>7. a % m = p * c + r
  <2> DEFINE z == p * c + r
  <2>1. z \in 0 .. m - 1 /\ a = m * d + z
    BY <1>5, <1>6
  <2> HIDE DEF z
  <2>2. a % m = z
    BY <1>3, <1>4, <2>1, SMTT(30)
  <2> QED
    BY <2>2 DEF z
<1>8. (p * c + r) \div p = c
  BY <1>1, <1>4, SMTT(30)
<1>9. c % 2 = b % 2
  <2>1. b = 2 * (e * d) + c /\ e * d \in Nat
    BY <1>4, SMTT(30)
  <2> QED
    BY <1>1, <1>4, <2>1, SMTT(30)
<1> QED
  BY <1>7, <1>8, <1>9, SMTT(30) DEF m, b

(***************************************************************************)
(* Powers of two up to that of the width.                                  *)
(***************************************************************************)

Power(k) == 2 ^ k

LEMMA Table ==
  /\ Power(0) = 1 /\ Power(1) = 2 /\ Power(2) = 4 /\ Power(3) = 8
  /\ Power(4) = 16 /\ Power(5) = 32 /\ Power(6) = 64 /\ Power(7) = 128
  /\ Power(8) = 256 /\ Power(9) = 512 /\ Power(10) = 1024 /\ Power(11) = 2048
  /\ Power(12) = 4096 /\ Power(13) = 8192 /\ Power(14) = 16384 /\ Power(15) = 32768
  /\ Power(16) = 65536 /\ Power(17) = 131072 /\ Power(18) = 262144 /\ Power(19) = 524288
  /\ Power(20) = 1048576 /\ Power(21) = 2097152 /\ Power(22) = 4194304 /\ Power(23) = 8388608
  /\ Power(24) = 16777216 /\ Power(25) = 33554432 /\ Power(26) = 67108864 /\ Power(27) = 134217728
  /\ Power(28) = 268435456 /\ Power(29) = 536870912 /\ Power(30) = 1073741824 /\ Power(31) = 2147483648
  /\ Power(32) = 4294967296
  BY SMT DEF Power

LEMMA Doubling ==
  ASSUME NEW k \in 0 .. 31
  PROVE  Power(k + 1) = 2 * Power(k)
  BY Table, SMT

LEMMA Positive ==
  ASSUME NEW k \in 0 .. 32
  PROVE  Power(k) \in Nat \ {0}
  BY Table, SMT

LEMMA AddingExponents ==
  ASSUME NEW a \in 0 .. 32, NEW b \in 0 .. 32 - a
  PROVE  Power(a + b) = Power(a) * Power(b)
  BY Table, SMTT(30)

LEMMA Widths ==
  ASSUME ByteWidth = 8
  PROVE  /\ Width = 32 /\ Places = 0 .. 31 /\ Word = 0 .. Power(32) - 1 /\ Word \subseteq Nat
         /\ \A n : Wrap(n) = n % Power(32)
<1>1. Width = 32 /\ Places = 0 .. 31
  BY DEF Width, Places
<1>2. Word = 0 .. Power(32) - 1 /\ \A n : Wrap(n) = n % Power(32)
  BY <1>1 DEF Word, Wrap, Power
<1>3. Word \subseteq Nat
  BY <1>2, Positive
<1> QED
  BY <1>1, <1>2, <1>3

(***************************************************************************)
(* Bits.                                                                   *)
(***************************************************************************)

LEMMA BitOfPower == \A n, i : Bit(n, i) = (n \div Power(i)) % 2
  BY DEF Bit, Power

LEMMA Halving ==
  ASSUME NEW x \in Nat, NEW j \in 0 .. 31
  PROVE  /\ Bit(x, j) \in {0, 1}
         /\ x \div Power(j) = 2 * (x \div Power(j + 1)) + Bit(x, j)
<1> DEFINE q == x \div Power(j)
<1>1. Power(j) \in Nat \ {0}
  BY Positive
<1>2. q \in Nat
  BY <1>1, Dividing
<1>3. q \div 2 = x \div (Power(j) * 2)
  BY <1>1, DividingTwice
<1>4. Power(j + 1) = Power(j) * 2
  BY <1>1, Doubling
<1>5. Bit(x, j) = q % 2
  BY BitOfPower
<1> HIDE DEF q
<1>6. q = 2 * (q \div 2) + (q % 2) /\ q % 2 \in {0, 1}
  BY <1>2
<1> QED
  BY <1>3, <1>4, <1>5, <1>6 DEF q

\* A word is known by its bits.
LEMMA SameBits ==
  ASSUME ByteWidth = 8, NEW m \in Word, NEW n \in Word,
         \A i \in Places : Bit(m, i) = 1 <=> Bit(n, i) = 1
  PROVE  m = n
<1> DEFINE P == { k \in 0 .. 32 : m \div Power(32 - k) = n \div Power(32 - k) }
<1>1. m \in Nat /\ n \in Nat /\ m < Power(32) /\ n < Power(32) /\ Power(32) \in Nat \ {0}
  <2>1. Power(32) \in Nat \ {0}
    BY Positive
  <2>2. m \in 0 .. Power(32) - 1 /\ n \in 0 .. Power(32) - 1
    BY Widths
  <2> QED
    BY <2>1, <2>2
<1>2. 0 \in P
  <2>1. m \div Power(32) = 0 /\ n \div Power(32) = 0
    BY <1>1
  <2> QED
    BY <2>1
<1>3. ASSUME NEW k \in 0 .. 31, k \in P
      PROVE  k + 1 \in P
  <2> DEFINE j == 31 - k
  <2>1. j \in 0 .. 31 /\ 32 - k = j + 1 /\ 32 - (k + 1) = j /\ k + 1 \in 0 .. 32
    OBVIOUS
  <2> HIDE DEF j
  <2>2. m \div Power(j + 1) = n \div Power(j + 1)
    BY <1>3, <2>1
  <2>3. Bit(m, j) = Bit(n, j)
    <3>1. Bit(m, j) = 1 <=> Bit(n, j) = 1
      BY <2>1, Widths
    <3>2. Bit(m, j) \in {0, 1} /\ Bit(n, j) \in {0, 1}
      BY <1>1, <2>1, Halving
    <3> QED
      BY <3>1, <3>2
  <2>4. m \div Power(j) = n \div Power(j)
    BY <1>1, <2>1, <2>2, <2>3, Halving
  <2> QED
    BY <2>1, <2>4
<1>4. 32 \in P
  <2>1. P \in SUBSET Nat
    OBVIOUS
  <2> HIDE DEF P
  <2> QED
    BY <1>2, <1>3, <2>1, Induction
<1>5. m \div Power(0) = n \div Power(0)
  BY <1>4
<1>6. Power(0) = 1
  BY Table
<1> QED
  BY <1>1, <1>5, <1>6

\* Any bits are those of a word.
LEMMA AnyBits ==
  ASSUME ByteWidth = 8, NEW ones \in SUBSET Places
  PROVE  \E n \in Word : \A i \in Places : Bit(n, i) = 1 <=> i \in ones
<1> DEFINE Low(k) == \A S \in SUBSET (0 .. k - 1) :
                       \E n \in 0 .. Power(k) - 1 : \A i \in 0 .. k - 1 : Bit(n, i) = 1 <=> i \in S
           P == { k \in 0 .. 32 : Low(k) }
<1>1. Low(0)
  <2>1. 0 \in 0 .. Power(0) - 1
    BY Table
  <2> QED
    BY <2>1
<1>2. ASSUME NEW k \in 0 .. 31, Low(k)
      PROVE  Low(k + 1)
  <2> SUFFICES ASSUME NEW S \in SUBSET (0 .. k)
               PROVE  \E n \in 0 .. Power(k + 1) - 1 : \A i \in 0 .. k : Bit(n, i) = 1 <=> i \in S
    OBVIOUS
  <2> DEFINE T == { i \in 0 .. k - 1 : i + 1 \in S }
  <2>1. PICK h \in 0 .. Power(k) - 1 : \A i \in 0 .. k - 1 : Bit(h, i) = 1 <=> i \in T
    BY <1>2
  <2> DEFINE n == 2 * h + (IF 0 \in S THEN 1 ELSE 0)
  <2>2. Power(k) \in Nat \ {0} /\ Power(k + 1) = 2 * Power(k) /\ h \in Nat
    BY <2>1, Positive, Doubling
  <2>3. n \in 0 .. Power(k + 1) - 1 /\ n \in Nat /\ n \div 2 = h /\ (n % 2 = 1 <=> 0 \in S)
    BY <2>1, <2>2
  <2> HIDE DEF n
  <2>4. ASSUME NEW i \in 0 .. k
        PROVE  Bit(n, i) = 1 <=> i \in S
    <3>1. CASE i = 0
      <4>1. Bit(n, 0) = n % 2
        <5>1. n \div 1 = n
          BY <2>3
        <5> QED
          BY <5>1, BitOfPower, Table
      <4> QED
        BY <2>3, <3>1, <4>1
    <3>2. CASE i # 0
      <4>1. i - 1 \in 0 .. k - 1 /\ i - 1 \in 0 .. 31 /\ (i - 1) + 1 = i
        BY <3>2
      <4>2. Power(i - 1) \in Nat \ {0} /\ Power(i) = 2 * Power(i - 1)
        BY <4>1, Positive, Doubling
      <4>3. n \div Power(i) = (n \div 2) \div Power(i - 1)
        BY <2>3, <4>2, DividingTwice
      <4>4. Bit(n, i) = Bit(h, i - 1)
        BY <2>3, <4>3, BitOfPower
      <4> QED
        BY <2>1, <4>1, <4>4
    <3> QED
      BY <3>1, <3>2
  <2> QED
    BY <2>3, <2>4
<1>3. Low(32)
  <2>1. P \in SUBSET Nat /\ 0 \in P
    BY <1>1
  <2>2. ASSUME NEW k \in 0 .. 31, k \in P
        PROVE  k + 1 \in P
    <3>1. Low(k) /\ k + 1 \in 0 .. 32
      BY <2>2
    <3>2. Low(k + 1)
      BY <1>2, <3>1
    <3> HIDE DEF Low
    <3> QED
      BY <3>1, <3>2
  <2>3. 32 \in P
    <3> HIDE DEF P
    <3> QED
      BY <2>1, <2>2, Induction
  <2> QED
    BY <2>3
<1>4. 0 .. 32 - 1 = Places /\ 0 .. Power(32) - 1 = Word
  BY Widths
<1>5. \A S \in SUBSET Places :
        \E n \in Word : \A i \in Places : Bit(n, i) = 1 <=> i \in S
  BY <1>3, <1>4
<1> QED
  BY <1>5

LEMMA Numbered ==
  ASSUME ByteWidth = 8, NEW ones \in SUBSET Places
  PROVE  Number[ones] \in Word /\ \A i \in Places : Bit(Number[ones], i) = 1 <=> i \in ones
<1>1. Number[ones] = CHOOSE n \in Word : \A i \in Places : Bit(n, i) = 1 <=> i \in ones
  BY DEF Number
<1>2. \E n \in Word : \A i \in Places : Bit(n, i) = 1 <=> i \in ones
  BY AnyBits
<1> QED
  BY <1>1, <1>2, Zenon

LEMMA Reversed ==
  ASSUME ByteWidth = 8, NEW n
  PROVE  Reverse(n) \in Word /\ \A i \in Places : Bit(Reverse(n), i) = 1 <=> Bit(n, 31 - i) = 1
<1>1. { i \in Places : Bit(n, Width - 1 - i) = 1 } \in SUBSET Places
  OBVIOUS
<1>2. \A i \in Places : Width - 1 - i = 31 - i
  BY Widths
<1> QED
  BY <1>1, <1>2, Numbered DEF Reverse

\* The bits of a word that is shifted left, and of one that is shifted right.
LEMMA BitShiftedLeft ==
  ASSUME ByteWidth = 8, NEW x \in Word, NEW s \in 0 .. 31, NEW i \in 0 .. 31
  PROVE  Bit(Wrap(x * Power(s)), i) = IF i >= s THEN Bit(x, i - s) ELSE 0
<1>1. x \in Nat /\ \A n : Wrap(n) = n % Power(32)
  BY Widths
<1>2. Power(s) \in Nat \ {0} /\ Power(i) \in Nat \ {0} /\ Power(31 - i) \in Nat \ {0}
  BY Positive
<1>3. Power(32) = Power(i) * (2 * Power(31 - i))
  <2>1. Power(32) = Power(i) * Power(32 - i)
    <3>1. 32 - i \in 0 .. 32 - i /\ i + (32 - i) = 32
      OBVIOUS
    <3> QED
      BY <3>1, AddingExponents
  <2>2. Power(32 - i) = 2 * Power(31 - i)
    <3>1. 31 - i \in 0 .. 31 /\ (31 - i) + 1 = 32 - i
      OBVIOUS
    <3> QED
      BY <3>1, Doubling
  <2> QED
    BY <2>1, <2>2
<1>4. x * Power(s) \in Nat
  BY <1>1, <1>2, Dividing
<1>5. Bit(Wrap(x * Power(s)), i) = ((x * Power(s)) \div Power(i)) % 2
  <2> DEFINE a == x * Power(s)
             p == Power(i)
             e == Power(31 - i)
  <2>1. a \in Nat /\ p \in Nat \ {0} /\ e \in Nat \ {0}
    BY <1>2, <1>4
  <2>2. Wrap(a) = a % (p * (2 * e))
    BY <1>1, <1>3
  <2>3. Bit(Wrap(a), i) = (Wrap(a) \div p) % 2
    BY BitOfPower
  <2> HIDE DEF a, p, e
  <2>4. ((a % (p * (2 * e))) \div p) % 2 = (a \div p) % 2
    BY <2>1, CuttingOff
  <2> QED
    BY <2>2, <2>3, <2>4 DEF a, p
<1>6. CASE i >= s
  <2>1. Power(i) = Power(s) * Power(i - s) /\ Power(i - s) \in Nat \ {0}
    <3> DEFINE d == i - s
    <3>1. d \in 0 .. 32 - s /\ d \in 0 .. 32 /\ s + d = i /\ s \in 0 .. 32
      BY <1>6
    <3> HIDE DEF d
    <3>2. Power(s + d) = Power(s) * Power(d) /\ Power(d) \in Nat \ {0}
      BY <3>1, AddingExponents, Positive
    <3> QED
      BY <3>1, <3>2 DEF d
  <2>2. (x * Power(s)) \div (Power(s) * Power(i - s)) = x \div Power(i - s)
    BY <1>1, <1>2, <2>1, Cancelling
  <2> QED
    BY <1>5, <1>6, <2>1, <2>2, BitOfPower
<1>7. CASE i < s
  <2>1. Power(s) = Power(i) * (2 * Power(s - i - 1)) /\ Power(s - i - 1) \in Nat \ {0}
    <3>1. s - i \in 0 .. 32 - i /\ i + (s - i) = s /\ s - i - 1 \in 0 .. 31 /\ (s - i - 1) + 1 = s - i
      BY <1>7
    <3>2. Power(s) = Power(i) * Power(s - i)
      BY <3>1, AddingExponents
    <3>3. Power(s - i) = 2 * Power(s - i - 1) /\ Power(s - i - 1) \in Nat \ {0}
      BY <3>1, Doubling, Positive
    <3> QED
      BY <3>2, <3>3
  <2> DEFINE h == x * Power(s - i - 1)
  <2>2. h \in Nat
    BY <1>1, <2>1, Dividing
  <2>3. x * Power(s) = (2 * h) * Power(i)
    BY <1>1, <1>2, <2>1, SMTT(30)
  <2> HIDE DEF h
  <2>4. ((2 * h) * Power(i)) \div (Power(i) * 1) = (2 * h) \div 1
    BY <1>2, <2>2, Cancelling
  <2>5. Power(i) * 1 = Power(i) /\ (2 * h) \div 1 = 2 * h /\ (2 * h) % 2 = 0
    BY <1>2, <2>2
  <2> QED
    BY <1>5, <1>7, <2>3, <2>4, <2>5
<1> QED
  BY <1>6, <1>7

LEMMA BitShiftedRight ==
  ASSUME ByteWidth = 8, NEW x \in Word, NEW s \in 0 .. 31, NEW j \in 0 .. 31
  PROVE  Bit(x \div Power(s), j) = IF s + j <= 31 THEN Bit(x, s + j) ELSE 0
<1>1. x \in Nat
  BY Widths
<1>2. Power(s) \in Nat \ {0} /\ Power(j) \in Nat \ {0}
  BY Positive
<1>3. CASE s + j <= 31
  <2>1. Power(s + j) = Power(s) * Power(j)
    <3>1. j \in 0 .. 32 - s /\ s \in 0 .. 32
      BY <1>3
    <3> QED
      BY <3>1, AddingExponents
  <2>2. (x \div Power(s)) \div Power(j) = x \div (Power(s) * Power(j))
    BY <1>1, <1>2, DividingTwice
  <2> QED
    BY <1>3, <2>1, <2>2, BitOfPower
<1>4. CASE s + j > 31
  <2> DEFINE c == 32 - s
             t == j - c
  <2>1. c \in 0 .. 32 - s /\ c \in 0 .. 32 /\ s + c = 32 /\ t \in 0 .. 32 - c /\ t \in 0 .. 32 /\ c + t = j
    BY <1>4
  <2> HIDE DEF c, t
  <2>2. Power(32) = Power(s) * Power(c) /\ Power(j) = Power(c) * Power(t)
    BY <2>1, AddingExponents
  <2>3. Power(c) \in Nat \ {0} /\ Power(t) \in Nat \ {0} /\ Power(32) \in Nat \ {0}
    BY <2>1, Positive
  <2>4. (x \div Power(s)) \div Power(c) = x \div Power(32)
    BY <1>1, <1>2, <2>2, <2>3, DividingTwice
  <2>5. x \div Power(32) = 0
    <3>1. x \in 0 .. Power(32) - 1
      BY Widths
    <3> QED
      BY <2>3, <3>1
  <2>6. x \div Power(s) \in Nat
    BY <1>1, <1>2, Dividing
  <2>7. (x \div Power(s)) \div Power(j) = ((x \div Power(s)) \div Power(c)) \div Power(t)
    BY <2>2, <2>3, <2>6, DividingTwice
  <2>8. 0 \div Power(t) = 0
    BY <2>3
  <2>9. Bit(x \div Power(s), j) = 0
    BY <2>4, <2>5, <2>7, <2>8, BitOfPower
  <2> QED
    BY <1>4, <2>9
<1> QED
  BY <1>3, <1>4

\* A right shift of a word leaves one.
LEMMA ShiftingRight ==
  ASSUME ByteWidth = 8, NEW x \in Word, NEW s \in 0 .. 31
  PROVE  x \div Power(s) \in Word /\ Wrap(x \div Power(s)) = x \div Power(s)
<1>1. /\ x \in Nat /\ x \in 0 .. Power(32) - 1 /\ Word = 0 .. Power(32) - 1
      /\ \A n : Wrap(n) = n % Power(32)
  BY Widths
<1>2. Power(s) \in Nat \ {0} /\ Power(32) \in Nat \ {0}
  BY Positive
<1> DEFINE p == Power(s)
           q == x \div p
           r == x % p
<1>3. q \in Nat /\ r \in Nat /\ x = p * q + r
  <2>1. p \in Nat \ {0}
    BY <1>2
  <2> HIDE DEF p
  <2>2. /\ x \div p \in Nat /\ x % p \in 0 .. p - 1 /\ x = p * (x \div p) + (x % p)
    BY <1>1, <2>1, Dividing
  <2> QED
    BY <2>2
<1> HIDE DEF p, q, r
<1>4. p \in Nat \ {0} /\ q <= p * q
  BY <1>2, <1>3, SMTT(30) DEF p
<1>5. q <= x
  BY <1>1, <1>2, <1>3, <1>4, SMTT(30)
<1>6. q \in Word /\ q % Power(32) = q
  BY <1>1, <1>2, <1>3, <1>5
<1> QED
  BY <1>1, <1>6 DEF q, p

(* The barrel shifter has a right shift only (shift.py 15-28): the left     *)
(* shift is the reversal of the right shift of the reversal, for every     *)
(* word of 32 bits and every shift amount.                                 *)
THEOREM ShiftingLeft ==
  ASSUME ByteWidth = 8, NEW x \in Word, NEW s \in 0 .. 31
  PROVE  Reverse(Wrap(Reverse(x) \div Power(s))) = Wrap(x * Power(s))
<1> DEFINE z == Reverse(x) \div Power(s)
           y == Wrap(x * Power(s))
<1>1. Reverse(x) \in Word
  BY Reversed
<1>2. z \in Word /\ Wrap(z) = z
  BY <1>1, ShiftingRight
<1>3. y \in Word
  <2>1. x \in Nat
    BY Widths
  <2>2. Power(s) \in Nat \ {0} /\ Power(32) \in Nat \ {0}
    BY Positive
  <2>3. x * Power(s) \in Nat
    BY <2>1, <2>2, Dividing
  <2>4. (x * Power(s)) % Power(32) \in 0 .. Power(32) - 1
    BY <2>2, <2>3, Dividing
  <2> QED
    BY <2>4, Widths
<1>4. ASSUME NEW i \in 0 .. 31
      PROVE  Bit(Reverse(z), i) = 1 <=> Bit(y, i) = 1
  <2>1. 31 - i \in 0 .. 31
    OBVIOUS
  <2>2. Bit(Reverse(z), i) = 1 <=> Bit(z, 31 - i) = 1
    BY Reversed, Widths
  <2>3. Bit(z, 31 - i) = IF s + (31 - i) <= 31 THEN Bit(Reverse(x), s + (31 - i)) ELSE 0
    BY <1>1, <2>1, BitShiftedRight
  <2>4. Bit(y, i) = IF i >= s THEN Bit(x, i - s) ELSE 0
    BY BitShiftedLeft
  <2>5. s + (31 - i) <= 31 <=> i >= s
    OBVIOUS
  <2>6. CASE i >= s
    <3> DEFINE u == s + (31 - i)
    <3>1. u \in 0 .. 31 /\ 31 - u = i - s
      BY <2>6
    <3> HIDE DEF u
    <3>2. u \in Places
      BY <3>1, Widths
    <3>3. Bit(Reverse(x), u) = 1 <=> Bit(x, i - s) = 1
      BY <3>1, <3>2, Reversed
    <3> USE DEF u
    <3> QED
      BY <2>2, <2>3, <2>4, <2>5, <2>6, <3>3
  <2>7. CASE ~(i >= s)
    BY <2>2, <2>3, <2>4, <2>5, <2>7
  <2> QED
    BY <2>6, <2>7
<1>5. Reverse(z) \in Word
  BY Reversed
<1>6. Reverse(z) = y
  <2> HIDE DEF z, y
  <2> QED
    BY <1>3, <1>4, <1>5, SameBits, Widths
<1> QED
  BY <1>2, <1>6

=============================================================================
