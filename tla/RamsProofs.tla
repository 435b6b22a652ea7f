----------------------------- MODULE RamsProofs -----------------------------
(***************************************************************************)
(* Proofs about module Rams, for blocks and bytes of any size.             *)
(***************************************************************************)
EXTENDS Rams, TLAPS

Pair == [0 .. 1 -> Byte]

(* Words and blocks keep their shapes, and the block RAM gives one answer. *)
RInv ==
  /\ mem \in [Adr -> Word]
  /\ block \in [Row -> [0 .. 1 -> [Offset -> Pair]]]
  /\ bram_ack \in BOOLEAN /\ bram_err \in BOOLEAN /\ ~(bram_ack /\ bram_err)
  /\ spram_ack \in BOOLEAN
  /\ cyc \in BOOLEAN /\ adr \in Adr /\ we \in BOOLEAN /\ dat_w \in Writes

LEMMA LaneParts ==
  /\ \A l \in Lane : l \div 2 \in 0 .. 1 /\ l % 2 \in 0 .. 1 /\ l = 2 * (l \div 2) + (l % 2)
  /\ \A column, b \in 0 .. 1 : 2 * column + b \in Lane
BY SMT DEF Lane

\* The parts of an address, and that they are all there is to it.
LEMMA AdrParts ==
  /\ \A a \in Adr : a[1] \in Row /\ a[2] \in Offset /\ a = <<a[1], a[2]>>
  /\ \A a, c \in Adr : a[1] = c[1] /\ a[2] = c[2] => a = c
  /\ \A row \in Row, o \in Offset : <<row, o>> \in Adr
BY DEF Adr

LEMMA MergeType ==
  ASSUME NEW w \in Word, dat_w \in Writes
  PROVE  Merge(w, dat_w) \in Word
BY WordAssumption DEF Merge, Word

LEMMA MaskedType ==
  ASSUME NEW column \in 0 .. 1, NEW p \in Pair, dat_w \in Writes
  PROVE  Masked(column, p) \in Pair
<1>1. dat_w.data \in [Lane -> Byte]
  BY WordAssumption DEF Word
<1> QED
  BY <1>1, LaneParts DEF Masked, Pair

LEMMA RInvInit == Init => RInv
<1> SUFFICES ASSUME Init PROVE RInv
  OBVIOUS
<1>1. mem \in [Adr -> Word]
  BY WordAssumption DEF Init
<1>2. block \in [Row -> [0 .. 1 -> [Offset -> Pair]]]
  <2> SUFFICES ASSUME NEW row \in Row, NEW column \in 0 .. 1, NEW o \in Offset, NEW b \in 0 .. 1
               PROVE  mem[<<row, o>>][2 * column + b] \in Byte
    BY DEF Init, Pair, Row
  <2> QED
    BY <1>1, AdrParts, LaneParts DEF Word
<1> QED
  BY <1>1, <1>2 DEF RInv, Init

LEMMA RInvNext == RInv /\ [Next]_vars => RInv'
<1> SUFFICES ASSUME RInv, Next PROVE RInv'
  BY DEF RInv, vars, bram, spram, bus
<1> USE DEF RInv
<1>1. mem' \in [Adr -> Word]
  BY MergeType DEF Next, BramEdge
<1>2. block' \in [Row -> [0 .. 1 -> [Offset -> Pair]]]
  <2> SUFFICES ASSUME NEW row \in Row, NEW column \in 0 .. 1
               PROVE  [block[row][column] EXCEPT ![adr[2]] = Masked(column, @)] \in [Offset -> Pair]
    BY DEF Next, SpramEdge, Row
  <2>1. block[row][column] \in [Offset -> Pair] /\ adr[2] \in Offset
    BY AdrParts
  <2> QED
    BY <2>1, MaskedType
<1>3. bram_ack' \in BOOLEAN /\ bram_err' \in BOOLEAN /\ ~(bram_ack' /\ bram_err')
  BY DEF Next, BramEdge, BramAnswer
<1>4. spram_ack' \in BOOLEAN
  BY DEF Next, SpramEdge
<1>5. cyc' \in BOOLEAN /\ adr' \in Adr /\ we' \in BOOLEAN /\ dat_w' \in Writes
  BY DEF Next, Master
<1> QED
  BY <1>1, <1>2, <1>3, <1>4, <1>5

LEMMA Invariant == Spec => []RInv
BY RInvInit, RInvNext, PTL DEF Spec

LEMMA BramStep == RInv /\ [Next]_vars => [Bram!Next]_(Bram!vars)
<1> SUFFICES ASSUME RInv, [Next]_vars PROVE Bram!Next \/ UNCHANGED Bram!vars
  OBVIOUS
<1>1. CASE UNCHANGED vars
  BY <1>1 DEF vars, bram, bus, Bram!vars
<1>2. CASE Next
  <2>1. Bram!Master
    BY <1>2 DEF Next, Master
  <2>2. Bram!Device
    BY <1>2
    DEF RInv, Next, BramEdge, BramAnswer, BramValid, Bram!Device, Bram!Wait, Bram!Read,
        Bram!Write, Bram!Refuse, Bram!Busy
  <2> QED
    BY <2>1, <2>2 DEF Bram!Next
<1> QED
  BY <1>1, <1>2

\* The bytes that the blocks keep and take are those of the word.
LEMMA SpramWrites ==
  ASSUME RInv, SpramEdge, Wren
  PROVE  SpramContents' = [SpramContents EXCEPT ![adr] = Merge(SpramContents[adr], dat_w)]
<1> DEFINE merged == Merge(SpramContents[adr], dat_w)
<1>0. adr \in Adr /\ block \in [Row -> [0 .. 1 -> [Offset -> Pair]]]
  BY DEF RInv
<1>1. SUFFICES ASSUME NEW a \in Adr, NEW l \in Lane
               PROVE  SpramContents'[a][l] = (IF a = adr THEN merged[l] ELSE SpramContents[a][l])
  <2>1. SpramContents' = [a \in Adr |-> [l \in Lane |-> SpramContents'[a][l]]]
    BY DEF SpramContents
  <2>2. merged = [l \in Lane |-> merged[l]]
    BY DEF Merge
  <2>3. SpramContents = [a \in Adr |-> [l \in Lane |-> SpramContents[a][l]]]
    BY DEF SpramContents
  <2> QED
    BY <1>1, <2>1, <2>2, <2>3
<1> DEFINE row == a[1]
           column == l \div 2
           b == l % 2
<1>2. /\ row \in Row /\ a[2] \in Offset /\ column \in 0 .. 1 /\ b \in 0 .. 1
      /\ 2 * column + b = l
  BY AdrParts, LaneParts
<1>3. SpramContents'[a][l] = block'[row][column][a[2]][b] /\ SpramContents[a][l] = block[row][column][a[2]][b]
  BY DEF SpramContents
<1>4. block'[row][column] =
        IF row = adr[1] THEN [block[row][column] EXCEPT ![adr[2]] = Masked(column, block[row][column][adr[2]])]
        ELSE block[row][column]
  BY <1>2 DEF SpramEdge, Chipselect, Row
<1>5. block[row][column] \in [Offset -> Pair]
  BY <1>0, <1>2
<1>6. CASE a = adr
  <2>1. block'[row][column][a[2]][b] = Masked(column, block[row][column][a[2]])[b]
    BY <1>2, <1>4, <1>5, <1>6
  <2>2. @ = (IF l \in dat_w.sel THEN dat_w.data[l] ELSE block[row][column][a[2]][b])
    BY <1>2 DEF Masked
  <2>3. @ = merged[l]
    BY <1>3, <1>6 DEF Merge
  <2> QED
    BY <1>3, <1>6, <2>1, <2>2, <2>3
<1>7. CASE a # adr
  <2>1. row # adr[1] \/ a[2] # adr[2]
    BY <1>0, <1>7, AdrParts
  <2>2. block'[row][column][a[2]] = block[row][column][a[2]]
    BY <1>2, <1>4, <1>5, <2>1
  <2> QED
    BY <1>3, <1>7, <2>2
<1> QED
  BY <1>6, <1>7

LEMMA SpramReads ==
  ASSUME RInv, SpramEdge, ~Wren, adr' = adr
  PROVE  SpramDatR' = SpramContents[adr]
<1> SUFFICES ASSUME NEW l \in Lane
             PROVE  data_out'[adr[1]][l \div 2][l % 2] = block[adr[1]][l \div 2][adr[2]][l % 2]
  BY DEF SpramDatR, SpramContents, RInv
<1>1. adr[1] \in Row /\ l \div 2 \in 0 .. 1
  BY AdrParts, LaneParts DEF RInv
<1>2. data_out'[adr[1]][l \div 2] = block[adr[1]][l \div 2][adr[2]]
  BY <1>1 DEF SpramEdge, Chipselect, Row
<1> QED
  BY <1>2

LEMMA SpramStep == RInv /\ [Next]_vars => [Spram!Next]_(Spram!vars)
<1> SUFFICES ASSUME RInv, [Next]_vars PROVE Spram!Next \/ UNCHANGED Spram!vars
  OBVIOUS
<1>1. CASE UNCHANGED vars
  BY <1>1 DEF vars, spram, bus, Spram!vars, SpramDatR, SpramContents
<1>2. CASE Next
  <2>1. Spram!Master /\ SpramEdge /\ spram_ack' = (cyc /\ ~spram_ack)
    BY <1>2 DEF Next, Master, SpramEdge
  <2>2. ~Wren => SpramContents' = SpramContents
    <3> SUFFICES ASSUME ~Wren PROVE SpramContents' = SpramContents
      OBVIOUS
    <3>1. \A row, column \in 0 .. 1 : block'[row][column] = block[row][column]
      BY <2>1 DEF SpramEdge, Row, RInv
    <3> QED
      BY <3>1, AdrParts, LaneParts DEF SpramContents, Row
  <2>3. CASE ~(cyc /\ ~spram_ack)
    BY <2>1, <2>2, <2>3 DEF Wren, Spram!Next, Spram!Device, Spram!Wait
  <2>4. CASE cyc /\ ~spram_ack /\ we
    <3>1. Spram!Write
      BY <2>1, <2>4, SpramWrites DEF Wren, Spram!Write, Spram!Busy
    <3> QED
      BY <2>1, <3>1 DEF Spram!Next, Spram!Device
  <2>5. CASE cyc /\ ~spram_ack /\ ~we
    <3>1. cyc' => adr' = adr
      BY <2>1, <2>5 DEF Spram!Master, Spram!Withdraw, Spram!Hold, Spram!Request, Spram!Busy
    <3>2. SpramDatR' # SpramContents[adr] => ~cyc'
      BY <2>1, <2>5, <3>1, SpramReads DEF Wren
    <3>3. Spram!Read
      BY <2>1, <2>2, <2>5, <3>2 DEF Wren, Spram!Read, Spram!Busy
    <3> QED
      BY <2>1, <3>3 DEF Spram!Next, Spram!Device
  <2> QED
    BY <2>3, <2>4, <2>5 DEF RInv
<1> QED
  BY <1>1, <1>2

(* BramIsAMemory of module Rams: the block RAM, read-only or not, does     *)
(* what module Memory says of a device.                                    *)
THEOREM BramImplements == Spec => BramIsAMemory
<1>1. Init => Bram!Init
  BY DEF Init, Bram!Init
<1> QED
  BY <1>1, Invariant, BramStep, PTL DEF Spec, BramIsAMemory, Bram!Safety

(* SpramIsAMemory of module Rams: so do the four blocks of the SPRAM.      *)
THEOREM SpramImplements == Spec => SpramIsAMemory
<1>1. Init => Spram!Init
  BY DEF Init, Spram!Init
<1> QED
  BY <1>1, Invariant, SpramStep, PTL DEF Spec, SpramIsAMemory, Spram!Safety

=============================================================================
