------------------------- MODULE PeripheralsProofs -------------------------
(***************************************************************************)
(* Proofs about module Peripherals: what every clock edge does to the      *)
(* UART's FIFOs, of any depth and for characters of any kind, to the       *)
(* bridge and to the registers, for any accesses of the master that take   *)
(* the divisor whole; and, at the end, about the program of module Echo on *)
(* them.                                                                   *)
(***************************************************************************)
EXTENDS Echo, SequenceTheorems, TLAPS

\* A FIFO is its register and its memory; as long as it shows nothing, at most
\* one item is in the memory.
FifoInv(inner, r_rdy, r_data) ==
  /\ inner \in Seq(Byte) /\ r_rdy \in BOOLEAN /\ r_data \in Byte
  /\ Len(inner) <= Depth - 1
  /\ ~r_rdy => Len(inner) <= 1

RxInv == FifoInv(rx_inner, rx_r_rdy, rx_r_data)
TxInv == FifoInv(tx_inner, tx_r_rdy, tx_r_data)

\* What the receiver has read is written to the FIFO at the next edge.
ReceiverInv ==
  /\ line \in Char /\ rx_done \in Char \union {None} /\ rx_data \in Byte
  /\ rx_rdy \in BOOLEAN /\ (rx_rdy => rx_done = None /\ rx_fifo!w_rdy)

BridgeInv ==
  /\ cyc \in BOOLEAN /\ req \in Access
  /\ cycle \in 0 .. 4 /\ dat_r \in [Lane -> Byte] /\ shadow \in [CsrAddress -> Byte]
  /\ divisor \in [ClkDiv -> Byte] /\ tx_busy \in BOOLEAN

\* How far a request has come, and what the multiplexers make of it: the byte
\* before the one that is on its way has just been read or written.
TransferInv ==
  /\ ack \in BOOLEAN /\ (ack => cycle = 4) /\ (~cyc => cycle = 0)
  /\ r_addr = IF cyc /\ cycle > 0 /\ ~ack /\ ~req.we /\ cycle - 1 \in req.sel THEN Addr - 1 ELSE None
  /\ \A e \in Writable :
       e \in w_stb <=> cyc /\ cycle > 0 /\ ~ack /\ req.we /\ cycle - 1 \in req.sel /\ Last(e) = Addr - 1

UInv == RxInv /\ TxInv /\ ReceiverInv /\ BridgeInv /\ TransferInv

(***************************************************************************)
(* One edge of a FIFO, in terms of sequences.                              *)
(***************************************************************************)

Content(r_rdy, r_data, inner) == IF r_rdy THEN <<r_data>> \o inner ELSE inner

LEMMA TailOfCons ==
  ASSUME NEW S, NEW s \in Seq(S), NEW x \in S
  PROVE  /\ <<x>> \o s \in Seq(S) /\ <<x>> \o s # <<>>
         /\ Head(<<x>> \o s) = x /\ Tail(<<x>> \o s) = s /\ Len(<<x>> \o s) = Len(s) + 1
<1>1. <<x>> \in Seq(S) /\ Len(<<x>>) = 1 /\ <<x>>[1] = x
  OBVIOUS
<1> DEFINE t == <<x>> \o s
<1>2. t \in Seq(S) /\ Len(t) = Len(s) + 1 /\ t[1] = x /\ \A k \in 1 .. Len(s) : t[k + 1] = s[k]
  <2>1. t \in Seq(S) /\ Len(t) = 1 + Len(s)
        /\ \A k \in 1 .. 1 + Len(s) : t[k] = IF k <= 1 THEN <<x>>[k] ELSE s[k - 1]
    BY <1>1, ConcatProperties
  <2>2. Len(s) \in Nat
    BY LenProperties
  <2> HIDE DEF t
  <2> QED
    BY <1>1, <2>1, <2>2
<1> HIDE DEF t
<1>3. t # <<>>
  BY <1>2, LenProperties, EmptySeq
<1>4. Tail(t) \in Seq(S) /\ Len(Tail(t)) = Len(s) /\ \A k \in 1 .. Len(s) : Tail(t)[k] = s[k]
  BY <1>2, <1>3, HeadTailProperties, LenProperties
<1>5. Tail(t) = s
  BY <1>4, SeqEqual
<1> QED
  BY <1>2, <1>3, <1>5 DEF t

LEMMA ConsOfTail ==
  ASSUME NEW S, NEW s \in Seq(S), s # <<>>
  PROVE  <<Head(s)>> \o Tail(s) = s
<1> DEFINE t == <<Head(s)>> \o Tail(s)
<1>1. Head(s) \in S /\ Tail(s) \in Seq(S) /\ Len(Tail(s)) = Len(s) - 1 /\ Len(s) \in Nat \ {0}
  BY HeadTailProperties, LenProperties, EmptySeq
<1>2. t \in Seq(S) /\ Len(t) = Len(s)
      /\ \A k \in 1 .. Len(s) : t[k] = IF k <= 1 THEN <<Head(s)>>[k] ELSE Tail(s)[k - 1]
  <2>1. <<Head(s)>> \in Seq(S) /\ Len(<<Head(s)>>) = 1
    BY <1>1
  <2> QED
    BY <1>1, <2>1, ConcatProperties
<1> HIDE DEF t
<1>3. \A k \in 1 .. Len(s) : t[k] = s[k]
  BY <1>1, <1>2, HeadTailProperties
<1>4. t = s
  BY <1>2, <1>3, SeqEqual
<1> QED
  BY <1>4 DEF t

\* A load moves the oldest item of the memory to the register.
LEMMA ReadKeepsOrder ==
  ASSUME NEW inner \in Seq(Byte), NEW r_rdy \in BOOLEAN, NEW r_data \in Byte, NEW r_en \in BOOLEAN
  PROVE  LET load == inner # <<>> /\ (r_rdy => r_en)
             before == Content(r_rdy, r_data, inner)
             after == Content(load \/ (r_rdy /\ ~r_en), IF load THEN Head(inner) ELSE r_data,
                              IF load THEN Tail(inner) ELSE inner)
         IN  after = IF r_rdy /\ r_en THEN Tail(before) ELSE before
<1>1. inner # <<>> => <<Head(inner)>> \o Tail(inner) = inner
  BY ConsOfTail
<1>2. Tail(<<r_data>> \o inner) = inner
  BY TailOfCons
<1> QED
  BY <1>1, <1>2 DEF Content

\* A write comes behind what is there.
LEMMA WriteKeepsOrder ==
  ASSUME NEW inner \in Seq(Byte), NEW r_rdy \in BOOLEAN, NEW r_data \in Byte, NEW w \in Byte
  PROVE  Content(r_rdy, r_data, Append(inner, w)) = Append(Content(r_rdy, r_data, inner), w)
<1>1. <<w>> \in Seq(Byte) /\ <<r_data>> \in Seq(Byte)
  OBVIOUS
<1>2. <<r_data>> \o inner \in Seq(Byte)
  BY TailOfCons
<1>3. Append(inner, w) = inner \o <<w>> /\ Append(<<r_data>> \o inner, w) = (<<r_data>> \o inner) \o <<w>>
  BY <1>2, AppendIsConcat
<1>4. <<r_data>> \o (inner \o <<w>>) = (<<r_data>> \o inner) \o <<w>>
  BY <1>1, ConcatAssociative
<1> QED
  BY <1>3, <1>4 DEF Content

LEMMA TailOfConcat ==
  ASSUME NEW s \in Seq(Byte), NEW d \in Byte, NEW t \in Seq(Byte)
  PROVE  LET u == (<<d>> \o s) \o t
         IN  u \in Seq(Byte) /\ u # <<>> /\ Head(u) = d /\ Tail(u) = s \o t
<1>1. <<d>> \in Seq(Byte) /\ s \o t \in Seq(Byte)
  BY ConcatProperties
<1>2. (<<d>> \o s) \o t = <<d>> \o (s \o t)
  BY <1>1, ConcatAssociative
<1> QED
  BY <1>1, <1>2, TailOfCons

\* Fifo!Edge of one FIFO, from these values to those.
FifoEdge(inner, r_rdy, r_data, w_en, w_data, r_en, inner2, r_rdy2, r_data2) ==
  LET load == inner # <<>> /\ (r_rdy => r_en)
      rest == IF load THEN Tail(inner) ELSE inner
  IN  /\ inner2 = IF w_en /\ Len(inner) < Depth - 1 THEN Append(rest, w_data) ELSE rest
      /\ r_rdy2 = (load \/ (r_rdy /\ ~r_en))
      /\ r_data2 = IF load THEN Head(inner) ELSE r_data

LEMMA FifoStep ==
  ASSUME NEW inner, NEW r_rdy, NEW r_data, FifoInv(inner, r_rdy, r_data),
         NEW w_en \in BOOLEAN, NEW w_data \in Byte, NEW r_en \in BOOLEAN,
         NEW inner2, NEW r_rdy2, NEW r_data2,
         FifoEdge(inner, r_rdy, r_data, w_en, w_data, r_en, inner2, r_rdy2, r_data2)
  PROVE  LET before == Content(r_rdy, r_data, inner)
             left == IF r_rdy /\ r_en THEN Tail(before) ELSE before
             room == Len(inner) < Depth - 1
         IN  /\ FifoInv(inner2, r_rdy2, r_data2)
             /\ before \in Seq(Byte) /\ left \in Seq(Byte)
             /\ Content(r_rdy2, r_data2, inner2) = IF w_en /\ room THEN Append(left, w_data) ELSE left
             /\ ~room => Len(before) = Depth
             /\ ~w_en => Len(inner2) <= Len(inner)
<1> DEFINE load == inner # <<>> /\ (r_rdy => r_en)
           rest == IF load THEN Tail(inner) ELSE inner
           before == Content(r_rdy, r_data, inner)
           left == IF r_rdy /\ r_en THEN Tail(before) ELSE before
           room == Len(inner) < Depth - 1
<1>1. inner \in Seq(Byte) /\ r_rdy \in BOOLEAN /\ r_data \in Byte /\ Len(inner) \in Nat
      /\ Len(inner) <= Depth - 1 /\ (~r_rdy => Len(inner) <= 1)
  BY LenProperties DEF FifoInv
<1>2. rest \in Seq(Byte) /\ Len(rest) = (IF load THEN Len(inner) - 1 ELSE Len(inner))
  BY <1>1, HeadTailProperties
<1>3. Append(rest, w_data) \in Seq(Byte) /\ Len(Append(rest, w_data)) = Len(rest) + 1
  BY <1>2, AppendProperties
<1>4. r_rdy2 \in BOOLEAN /\ r_data2 \in Byte
  BY <1>1, HeadTailProperties DEF FifoEdge
<1>5. inner2 = IF w_en /\ room THEN Append(rest, w_data) ELSE rest
  BY DEF FifoEdge
<1>6. before \in Seq(Byte) /\ (r_rdy => before # <<>> /\ Tail(before) = inner /\ Len(before) = Len(inner) + 1)
  BY <1>1, TailOfCons DEF Content
<1>7. left \in Seq(Byte)
  BY <1>1, <1>6
<1>8. FifoInv(inner2, r_rdy2, r_data2)
  <2>1. inner2 \in Seq(Byte) /\ Len(inner2) <= Depth - 1
    BY <1>1, <1>2, <1>3, <1>5, UartAssumption
  <2>2. ~r_rdy2 => Len(inner2) <= 1
    <3>1. ~r_rdy2 => inner = <<>>
      BY <1>1 DEF FifoEdge
    <3>2. inner = <<>> => Len(inner) = 0
      BY <1>1, EmptySeq
    <3> QED
      BY <1>1, <1>2, <1>3, <1>5, <3>1, <3>2
  <2> QED
    BY <1>4, <2>1, <2>2 DEF FifoInv
<1>9. Content(r_rdy2, r_data2, rest) = left
  BY <1>1, ReadKeepsOrder DEF FifoEdge
<1>10. Content(r_rdy2, r_data2, inner2) = IF w_en /\ room THEN Append(left, w_data) ELSE left
  <2>1. CASE w_en /\ room
    <3>1. Content(r_rdy2, r_data2, Append(rest, w_data)) = Append(Content(r_rdy2, r_data2, rest), w_data)
      BY <1>2, <1>4, WriteKeepsOrder
    <3> QED
      BY <1>5, <1>9, <2>1, <3>1
  <2>2. CASE ~(w_en /\ room)
    BY <1>5, <1>9, <2>2
  <2> QED
    BY <2>1, <2>2
<1>11. ~room => Len(before) = Depth
  <2>1. ~room => r_rdy /\ Len(inner) = Depth - 1
    BY <1>1, UartAssumption
  <2> QED
    BY <1>6, <2>1, UartAssumption
<1>12. ~w_en => Len(inner2) <= Len(inner)
  BY <1>1, <1>2, <1>5
<1> QED
  BY <1>6, <1>7, <1>8, <1>10, <1>11, <1>12

(***************************************************************************)
(* The edge of the UART.                                                   *)
(***************************************************************************)

LEMMA NoneIsNoByte == None \notin Byte /\ Char \subseteq Byte
BY AccessAssumption, UartAssumption DEF None

LEMMA RxEdge ==
  ASSUME UInv, UartEdge
  PROVE  FifoEdge(rx_inner, rx_r_rdy, rx_r_data, rx_rdy /\ rx_fifo!w_rdy, rx_data, DataRStb,
                  rx_inner', rx_r_rdy', rx_r_data')
BY DEF UartEdge, RxFifoEdge, RxREn, rx_fifo!Edge, rx_fifo!Load, rx_fifo!w_rdy, FifoEdge

LEMMA TxEdge ==
  ASSUME UInv, UartEdge
  PROVE  FifoEdge(tx_inner, tx_r_rdy, tx_r_data, Data \in w_stb, shadow[7], Transmit,
                  tx_inner', tx_r_rdy', tx_r_data')
BY DEF UartEdge, TxFifoEdge, TxREn, tx_fifo!Edge, tx_fifo!Load, tx_fifo!w_rdy, FifoEdge

LEMMA UartKeeps ==
  ASSUME UInv, UartEdge
  PROVE  RxInv' /\ TxInv' /\ ReceiverInv' /\ divisor' \in [ClkDiv -> Byte] /\ tx_busy' \in BOOLEAN
<1>1. RxInv' /\ (~rx_rdy => Len(rx_inner') <= Len(rx_inner))
  <2>1. rx_data \in Byte /\ (rx_rdy /\ rx_fifo!w_rdy) \in BOOLEAN /\ DataRStb \in BOOLEAN
    BY DEF UInv, ReceiverInv, DataRStb, RStb
  <2> DEFINE w_en == rx_rdy /\ rx_fifo!w_rdy
  <2>2. FifoEdge(rx_inner, rx_r_rdy, rx_r_data, w_en, rx_data, DataRStb, rx_inner', rx_r_rdy', rx_r_data')
    BY RxEdge
  <2>3. w_en \in BOOLEAN /\ (~rx_rdy => ~w_en) /\ FifoInv(rx_inner, rx_r_rdy, rx_r_data)
    BY DEF UInv, RxInv
  <2> HIDE DEF w_en
  <2>4. /\ FifoInv(rx_inner', rx_r_rdy', rx_r_data')
        /\ ~w_en => Len(rx_inner') <= Len(rx_inner)
    BY <2>1, <2>2, <2>3, FifoStep
  <2> QED
    BY <2>3, <2>4 DEF RxInv
<1>2. TxInv'
  <2>1. shadow[7] \in Byte /\ (Data \in w_stb) \in BOOLEAN /\ Transmit \in BOOLEAN
    BY DEF UInv, BridgeInv, CsrAddress, Transmit
  <2> QED
    BY <2>1, TxEdge, FifoStep DEF UInv, TxInv
<1>3. ReceiverInv'
  <2> USE DEF UInv, ReceiverInv
  <2>1. line' \in Char /\ rx_done' \in Char \union {None}
    BY UartAssumption DEF UartEdge, ReceiverEdge
  <2>2. rx_data' \in Byte /\ rx_rdy' \in BOOLEAN
    BY UartAssumption DEF UartEdge, ReceiverEdge
  <2>3. ASSUME rx_rdy' PROVE rx_done' = None /\ rx_fifo!w_rdy'
    <3>1. rx_fifo!w_rdy /\ rx_done # None /\ ~rx_rdy
      BY <2>3 DEF UartEdge, ReceiverEdge
    <3>2. rx_done' = None
      BY <3>1 DEF UartEdge, ReceiverEdge
    <3>3. Len(rx_inner') <= Len(rx_inner) /\ Len(rx_inner) < Depth - 1
      BY <1>1, <3>1 DEF rx_fifo!w_rdy
    <3>4. Len(rx_inner') \in Nat /\ Len(rx_inner) \in Nat
      BY <1>1, LenProperties DEF RxInv, FifoInv
    <3> QED
      BY <3>2, <3>3, <3>4, UartAssumption DEF rx_fifo!w_rdy
  <2> QED
    BY <2>1, <2>2, <2>3
<1>4. divisor' \in [ClkDiv -> Byte]
  BY DEF UInv, BridgeInv, UartEdge, DivisorEdge, ClkDiv, CsrAddress
<1>5. tx_busy' \in BOOLEAN
  BY DEF UartEdge, TransmitterEdge, Transmit, UInv, TxInv, FifoInv
<1> QED
  BY <1>1, <1>2, <1>3, <1>4, <1>5

\* Every edge is a step of the receiver's queue.
LEMMA ReceiverStep ==
  ASSUME UInv, UartEdge
  PROVE  Rx!Next
<1> DEFINE C == Content(rx_r_rdy, rx_r_data, rx_inner)
           C2 == Content(rx_r_rdy', rx_r_data', rx_inner')
           taken == rx_r_rdy /\ DataRStb
           left == IF taken THEN Tail(C) ELSE C
           pending == IF rx_rdy THEN <<rx_data>> ELSE <<>>
           items == C \o pending
           give == IF DataRStb /\ rx_r_rdy THEN rx_r_data ELSE None
<1>1. /\ rx_inner \in Seq(Byte) /\ rx_r_rdy \in BOOLEAN /\ rx_r_data \in Byte
      /\ rx_data \in Byte /\ rx_rdy \in BOOLEAN /\ rx_done \in Byte \union {None}
      /\ pending \in Seq(Byte)
  BY NoneIsNoByte DEF UInv, RxInv, FifoInv, ReceiverInv
<1>2. /\ C \in Seq(Byte) /\ left \in Seq(Byte)
      /\ C2 = IF rx_rdy /\ rx_fifo!w_rdy THEN Append(left, rx_data) ELSE left
      /\ ~rx_fifo!w_rdy => Len(C) = Depth
  <2> DEFINE w_en == rx_rdy /\ rx_fifo!w_rdy
             r_en == DataRStb
             room == Len(rx_inner) < Depth - 1
  <2>1. FifoEdge(rx_inner, rx_r_rdy, rx_r_data, w_en, rx_data, r_en, rx_inner', rx_r_rdy', rx_r_data')
    BY RxEdge
  <2>2. w_en \in BOOLEAN /\ r_en \in BOOLEAN /\ FifoInv(rx_inner, rx_r_rdy, rx_r_data)
        /\ (w_en <=> rx_rdy /\ rx_fifo!w_rdy) /\ (r_en <=> DataRStb) /\ (rx_fifo!w_rdy <=> room)
    BY DEF UInv, RxInv, DataRStb, RStb, rx_fifo!w_rdy
  <2> HIDE DEF w_en, r_en
  <2>3. LET now == IF rx_r_rdy /\ r_en THEN Tail(C) ELSE C
        IN  /\ C \in Seq(Byte) /\ now \in Seq(Byte)
            /\ C2 = IF w_en /\ room THEN Append(now, rx_data) ELSE now
            /\ ~room => Len(C) = Depth
    BY <1>1, <2>1, <2>2, FifoStep
  <2>4. left = IF rx_r_rdy /\ r_en THEN Tail(C) ELSE C
    BY <2>2
  <2> HIDE DEF C, C2, left, room
  <2> QED
    BY <2>2, <2>3, <2>4
<1>3. taken => items # <<>> /\ Head(items) = rx_r_data /\ Tail(items) = Tail(C) \o pending
  BY <1>1, TailOfConcat, TailOfCons DEF Content
<1>4. give = (IF taken THEN rx_r_data ELSE None) /\ rx_r_data # None
  BY <1>1, NoneIsNoByte
<1>5. (IF give = None THEN items ELSE Tail(items)) = left \o pending
  BY <1>3, <1>4
<1>6. give # None => items # <<>> /\ give = Head(items)
  BY <1>3, <1>4
<1> DEFINE items2 == C2 \o (IF rx_rdy' THEN <<rx_data'>> ELSE <<>>)
<1>7. \/ rx_done # None /\ items2 = Append(left \o pending, rx_done)
      \/ (rx_done # None => Len(items) >= Depth) /\ items2 = left \o pending
  <2>1. CASE rx_rdy
    <3>1. rx_done = None /\ rx_fifo!w_rdy /\ ~rx_rdy'
      BY <2>1 DEF UInv, ReceiverInv, UartEdge, ReceiverEdge
    <3>2. C2 = left \o <<rx_data>>
      BY <1>1, <1>2, <2>1, <3>1, AppendIsConcat
    <3>3. C2 \o <<>> = C2
      BY <1>1, <1>2, <3>2, ConcatEmptySeq, ConcatProperties
    <3> QED
      BY <2>1, <3>1, <3>2, <3>3
  <2>2. CASE ~rx_rdy
    <3>1. C2 = left /\ left \o pending = left /\ left \o <<>> = left /\ items = C
      BY <1>1, <1>2, <2>2, ConcatEmptySeq
    <3>2. CASE rx_done = None
      <4>1. ~rx_rdy'
        BY <2>2, <3>2 DEF UartEdge, ReceiverEdge
      <4> QED
        BY <3>1, <3>2, <4>1
    <3>3. CASE rx_done # None /\ rx_fifo!w_rdy
      <4>1. rx_rdy' /\ rx_data' = rx_done
        BY <3>3 DEF UartEdge, ReceiverEdge
      <4>2. left \o <<rx_done>> = Append(left, rx_done)
        BY <1>1, <1>2, <3>3, AppendIsConcat
      <4> QED
        BY <3>1, <3>3, <4>1, <4>2
    <3>4. CASE rx_done # None /\ ~rx_fifo!w_rdy
      <4>1. ~rx_rdy'
        BY <2>2, <3>4 DEF UartEdge, ReceiverEdge
      <4>2. items2 = left \o pending
        BY <3>1, <4>1
      <4>3. Len(items) >= Depth
        BY <1>2, <3>1, <3>4, UartAssumption
      <4> QED
        BY <4>2, <4>3
    <3> QED
      BY <3>2, <3>3, <3>4
  <2> QED
    BY <1>1, <2>1, <2>2
<1> HIDE DEF left
<1>8. Rx!Give
  BY <1>6 DEF Rx!Give, rx_fifo!Items, Content
<1>9. Rx!Left = left \o pending
  BY <1>5 DEF Rx!Left, rx_fifo!Items, Content
<1> QED
  BY <1>7, <1>8, <1>9 DEF Rx!Next, Rx!Take, Rx!Pass, rx_fifo!Items, Content

\* Every edge is a step of the transmitter's queue.
LEMMA TransmitterStep ==
  ASSUME UInv, UartEdge
  PROVE  Tx!Next
<1> DEFINE C == Content(tx_r_rdy, tx_r_data, tx_inner)
           C2 == Content(tx_r_rdy', tx_r_data', tx_inner')
           left == IF tx_r_rdy /\ Transmit THEN Tail(C) ELSE C
<1>1. tx_inner \in Seq(Byte) /\ tx_r_rdy \in BOOLEAN /\ tx_r_data \in Byte /\ shadow[7] \in Byte
  BY DEF UInv, TxInv, FifoInv, BridgeInv, CsrAddress
<1>2. /\ C \in Seq(Byte)
      /\ C2 = IF Data \in w_stb /\ tx_fifo!w_rdy THEN Append(left, shadow[7]) ELSE left
      /\ ~tx_fifo!w_rdy => Len(C) = Depth
  <2> DEFINE w_en == Data \in w_stb
             r_en == Transmit
             room == Len(tx_inner) < Depth - 1
  <2>1. FifoEdge(tx_inner, tx_r_rdy, tx_r_data, w_en, shadow[7], r_en, tx_inner', tx_r_rdy', tx_r_data')
    BY TxEdge
  <2>2. w_en \in BOOLEAN /\ r_en \in BOOLEAN /\ FifoInv(tx_inner, tx_r_rdy, tx_r_data)
        /\ (w_en <=> Data \in w_stb) /\ (r_en <=> Transmit) /\ (tx_fifo!w_rdy <=> room)
    BY DEF UInv, TxInv, Transmit, tx_fifo!w_rdy
  <2> HIDE DEF w_en, r_en
  <2>3. LET now == IF tx_r_rdy /\ r_en THEN Tail(C) ELSE C
        IN  /\ C \in Seq(Byte)
            /\ C2 = IF w_en /\ room THEN Append(now, shadow[7]) ELSE now
            /\ ~room => Len(C) = Depth
    BY <1>1, <2>1, <2>2, FifoStep
  <2>4. left = IF tx_r_rdy /\ r_en THEN Tail(C) ELSE C
    BY <2>2
  <2> HIDE DEF C, C2, left, room
  <2> QED
    BY <2>2, <2>3, <2>4
<1>3. Transmit => tx_r_rdy /\ C # <<>> /\ Head(C) = tx_r_data
  BY <1>1, TailOfCons DEF Transmit, Content
<1>4. tx_r_data # None /\ shadow[7] # None
  BY <1>1, NoneIsNoByte
<1>5. Tx!Give /\ Tx!Left = left
  BY <1>3, <1>4 DEF Tx!Give, Tx!Left, tx_fifo!Items, Content, Transmit
<1>6. \/ Data \in w_stb /\ C2 = Append(left, shadow[7])
      \/ (Data \in w_stb => Len(C) >= Depth) /\ C2 = left
  BY <1>2, UartAssumption
<1> HIDE DEF left
<1> QED
  BY <1>4, <1>5, <1>6 DEF Tx!Next, Tx!Take, Tx!Pass, tx_fifo!Items, Content

(***************************************************************************)
(* The edge of the bridge and the multiplexers.                            *)
(***************************************************************************)

LEMMA Registers ==
  /\ First(Oe) = 0 /\ First(I) = 1 /\ First(O) = 2
  /\ First(ClkDiv) = 4 /\ First(Status) = 6 /\ First(Data) = 7
  /\ Last(Oe) = 0 /\ Last(O) = 2 /\ Last(ClkDiv) = 5 /\ Last(Data) = 7
  /\ Oe # O /\ Oe # ClkDiv /\ Oe # Data /\ O # ClkDiv /\ O # Data /\ ClkDiv # Data
<1>1. \A n \in Int : (CHOOSE a \in {n} : \A b \in {n} : a <= b) = n
                     /\ (CHOOSE a \in {n} : \A b \in {n} : b <= a) = n
  OBVIOUS
<1>2. First(ClkDiv) = 4
  <2>1. \E a \in ClkDiv : \A b \in ClkDiv : a <= b
    BY DEF ClkDiv
  <2>2. First(ClkDiv) \in ClkDiv /\ \A b \in ClkDiv : First(ClkDiv) <= b
    BY <2>1 DEF First
  <2> QED
    BY <2>2 DEF ClkDiv
<1>3. Last(ClkDiv) = 5
  <2>1. \E a \in ClkDiv : \A b \in ClkDiv : b <= a
    BY DEF ClkDiv
  <2>2. Last(ClkDiv) \in ClkDiv /\ \A b \in ClkDiv : b <= Last(ClkDiv)
    BY <2>1 DEF Last
  <2> QED
    BY <2>2 DEF ClkDiv
<1>4. Oe # O /\ Oe # ClkDiv /\ Oe # Data /\ O # ClkDiv /\ O # Data /\ ClkDiv # Data
  BY DEF Oe, O, ClkDiv, Data
<1>5. First(Oe) = 0 /\ Last(Oe) = 0
  BY <1>1 DEF First, Last, Oe
<1>6. First(I) = 1
  BY <1>1 DEF First, I
<1>7. First(O) = 2 /\ Last(O) = 2
  BY <1>1 DEF First, Last, O
<1>8. First(Status) = 6
  BY <1>1 DEF First, Status
<1>9. First(Data) = 7 /\ Last(Data) = 7
  BY <1>1 DEF First, Last, Data
<1> QED
  BY <1>2, <1>3, <1>4, <1>5, <1>6, <1>7, <1>8, <1>9

LEMMA Requests ==
  ASSUME NEW x \in Access
  PROVE  x.adr \in 0 .. 1 /\ x.sel \in SUBSET Lane /\ x.we \in BOOLEAN /\ x.dat_w \in [Lane -> Byte]
BY AccessAssumption

LEMMA BridgeKeeps ==
  ASSUME UInv, NEW value, value \in [CsrAddress -> Byte], CsrEdge(value), Master
  PROVE  /\ cyc' \in BOOLEAN /\ req' \in Access /\ cycle' \in 0 .. 4
         /\ dat_r' \in [Lane -> Byte] /\ shadow' \in [CsrAddress -> Byte]
<1>1. cyc' \in BOOLEAN /\ req' \in Access
  BY DEF UInv, BridgeInv, Master, Start, Held, Done, Rest, bus
<1>2. cycle' \in 0 .. 4
  BY DEF UInv, BridgeInv, CsrEdge, BridgeEdge
<1>3. r_addr # None => r_addr \in CsrAddress
  <2>1. cycle > 0 /\ cycle \in 0 .. 4 => Addr - 1 \in CsrAddress
    BY Requests DEF UInv, BridgeInv, Addr, CsrAddress
  <2> QED
    BY <2>1 DEF UInv, BridgeInv, TransferInv
<1>4. RData \in Byte
  BY <1>3, AccessAssumption DEF RData, UInv, BridgeInv
<1>5. dat_r' \in [Lane -> Byte]
  BY <1>4 DEF UInv, BridgeInv, CsrEdge, BridgeEdge
<1>6. shadow' \in [CsrAddress -> Byte]
  <2>1. \A a \in CsrAddress : value[a] \in Byte /\ shadow[a] \in Byte
    BY DEF UInv, BridgeInv
  <2>2. WStb => req.dat_w[cycle] \in Byte
    <3>1. WStb => cycle \in Lane
      BY Requests DEF WStb, Strobe, UInv, BridgeInv
    <3>2. req.dat_w \in [Lane -> Byte]
      BY Requests DEF UInv, BridgeInv
    <3> QED
      BY <3>1, <3>2
  <2> QED
    BY <2>1, <2>2 DEF CsrEdge, MultiplexerEdge
<1> QED
  BY <1>1, <1>2, <1>5, <1>6

LEMMA TransferKeeps ==
  ASSUME UInv, NEW value, CsrEdge(value), Master
  PROVE  TransferInv'
<1> USE DEF CsrEdge, BridgeEdge, MultiplexerEdge
<1>1. req.sel \subseteq Lane /\ req.we \in BOOLEAN /\ req.adr \in 0 .. 1 /\ cycle \in 0 .. 4 /\ cyc \in BOOLEAN
      /\ ack \in BOOLEAN
  BY Requests DEF UInv, BridgeInv, TransferInv
<1>2. (ack => cycle = 4) /\ (~cyc => cycle = 0)
  BY DEF UInv, TransferInv
<1>3. CASE ~cyc
  <2>1. cycle' = 0 /\ ack' = FALSE /\ r_addr' = None /\ \A e \in Writable : e \notin w_stb'
    BY <1>1, <1>2, <1>3 DEF RStb, WStb, Strobe
  <2> QED
    BY <2>1 DEF TransferInv
<1>4. CASE cyc /\ ack
  <2>1. ~RStb /\ ~WStb
    BY <1>1, <1>2, <1>4 DEF RStb, WStb, Strobe, Lane
  <2>2. r_addr' = None /\ \A e \in Writable : e \notin w_stb'
    BY <2>1
  <2>3. cycle' = 0 /\ ~ack' /\ ack' \in BOOLEAN
    BY <1>1, <1>4
  <2> QED
    BY <2>2, <2>3 DEF TransferInv
<1>5. CASE cyc /\ ~ack /\ cycle = 4
  <2>1. ~RStb /\ ~WStb
    BY <1>1, <1>5 DEF RStb, WStb, Strobe, Lane
  <2>2. r_addr' = None /\ \A e \in Writable : e \notin w_stb'
    BY <2>1
  <2>3. cycle' = 4 /\ ack' /\ ack' \in BOOLEAN
    <3>1. ack' = (cyc /\ cycle = 4 /\ ~ack)
      OBVIOUS
    <3>2. cycle' = 4
      BY <1>1, <1>5
    <3>3. ack'
      BY <1>5, <3>1, Zenon
    <3>4. ack' \in BOOLEAN
      BY <3>1, Zenon
    <3> QED
      BY <3>2, <3>3, <3>4
  <2>4. cyc'
    BY <1>1, <1>5 DEF Master, Start, Held, Done, Rest, bus
  <2> QED
    BY <2>2, <2>3, <2>4 DEF TransferInv
<1>6. CASE cyc /\ ~ack /\ cycle < 4
  <2>0. cycle' = cycle + 1 /\ ~ack' /\ ack' \in BOOLEAN
    BY <1>1, <1>6
  <2>1. cycle' = cycle + 1 /\ ~ack' /\ ack' \in BOOLEAN /\ cyc' /\ req' = req
    BY <1>1, <1>6, <2>0 DEF Master, Start, Held, Done, Rest, bus
  <2>2. Addr' = Addr + 1 /\ cycle' - 1 = cycle /\ cycle' > 0 /\ Addr' - 1 = Addr
    BY <1>1, <2>1 DEF Addr
  <2>3. (RStb <=> ~req.we /\ cycle \in req.sel) /\ (WStb <=> req.we /\ cycle \in req.sel)
    BY <1>6 DEF RStb, WStb, Strobe
  <2>4. r_addr' = IF cyc' /\ cycle' > 0 /\ ~ack' /\ ~req'.we /\ cycle' - 1 \in req'.sel THEN Addr' - 1 ELSE None
    BY <2>1, <2>2, <2>3
  <2>5. \A e \in Writable : e \in w_stb' <=> WStb /\ Addr = Last(e)
    OBVIOUS
  <2>6. \A e \in Writable :
          e \in w_stb' <=> cyc' /\ cycle' > 0 /\ ~ack' /\ req'.we /\ cycle' - 1 \in req'.sel /\ Last(e) = Addr' - 1
    BY <2>1, <2>2, <2>3, <2>5
  <2> QED
    BY <2>1, <2>2, <2>4, <2>6 DEF TransferInv
<1> QED
  BY <1>1, <1>3, <1>4, <1>5, <1>6

LEMMA UartValues ==
  ASSUME UInv
  PROVE  UartValue \in [4 .. 7 -> Byte]
<1>1. StatusValue \in Byte
  BY AccessAssumption DEF StatusValue
<1>2. rx_r_data \in Byte /\ \A a \in ClkDiv : divisor[a] \in Byte
  BY DEF UInv, RxInv, FifoInv, BridgeInv
<1> QED
  BY <1>1, <1>2 DEF UartValue

LEMMA UartStarts ==
  ASSUME CsrInit, UartInit
  PROVE  UInv
<1>1. <<>> \in Seq(Byte) /\ Len(<<>>) = 0 /\ 0 \in Byte
  BY AccessAssumption
<1>2. RxInv /\ TxInv
  <2>1. FifoInv(<<>>, FALSE, 0)
    BY <1>1, UartAssumption DEF FifoInv
  <2> QED
    BY <2>1 DEF UartInit, rx_fifo!Init, tx_fifo!Init, RxInv, TxInv
<1>3. ReceiverInv
  BY <1>1 DEF UartInit, ReceiverInv
<1>4. BridgeInv
  <2>1. cyc \in BOOLEAN /\ req \in Access /\ tx_busy \in BOOLEAN
    BY Zenon DEF CsrInit, UartInit
  <2>4. cycle \in 0 .. 4
    BY DEF CsrInit
  <2>2. dat_r \in [Lane -> Byte] /\ shadow \in [CsrAddress -> Byte]
    BY <1>1 DEF CsrInit
  <2>3. divisor \in [ClkDiv -> Byte]
    BY <1>1 DEF UartInit
  <2> QED
    BY <2>1, <2>2, <2>3, <2>4 DEF BridgeInv
<1>5. TransferInv
  BY DEF CsrInit, TransferInv
<1> QED
  BY <1>2, <1>3, <1>4, <1>5 DEF UInv

\* UInv is inductive, whatever the other registers show and the master asks.
LEMMA UartInductive ==
  ASSUME UInv, NEW value, value \in [CsrAddress -> Byte], CsrEdge(value), UartEdge, Master
  PROVE  UInv'
BY BridgeKeeps, TransferKeeps, UartKeeps DEF UInv, BridgeInv

(***************************************************************************)
(* The invariant of the registers.                                         *)
(***************************************************************************)

Kept == {0, 2, 4, 5}

\* The lanes of the first and the last byte of the register that a is in.
FirstLane(a) == IF a = 2 THEN 2 ELSE 0
LastLane(a) == IF a = 2 THEN 2 ELSE IF a = 0 THEN 0 ELSE 1

GpioInv == oe \in Byte /\ i \in Byte /\ o \in Byte

\* A store on its way: the bytes that came so far are in the shadow, and the
\* registers are written a cycle later.
StoreInv ==
  cyc /\ req.we => \A a \in Kept : Selected(a) =>
    /\ a % 4 < cycle => shadow[a] = req.dat_w[a % 4]
    /\ LastLane(a) + 1 < cycle => Register[a] = req.dat_w[a % 4]

\* A load on its way: the registers asked for so far are in the shadow, and
\* the bytes are on the bus a cycle later.
LoadInv ==
  cyc /\ ~req.we => \A a \in Kept : Selected(a) =>
    /\ FirstLane(a) < cycle => shadow[a] = Register[a]
    /\ (a % 4) + 1 < cycle => dat_r[a % 4] = Register[a]

PInv == UInv /\ GpioInv /\ StoreInv /\ LoadInv

LEMMA RegisterDef ==
  /\ DOMAIN Register = Kept
  /\ Register[0] = oe /\ Register[2] = o /\ Register[4] = divisor[4] /\ Register[5] = divisor[5]
BY DEF Register, Kept, Oe, O, ClkDiv

LEMMA Values ==
  ASSUME UInv, GpioInv
  PROVE  Value \in [CsrAddress -> Byte] /\ \A a \in Kept : Value[a] = Register[a]
<1>1. \A a \in 0 .. 2 : GpioValue[a] \in Byte
  BY DEF GpioInv, GpioValue
<1>2. \A a \in 4 .. 7 : UartValue[a] \in Byte
  BY UartValues
<1>3. Value \in [CsrAddress -> Byte]
  <2>1. \A a \in CsrAddress : a \in 0 .. 2 \/ a = 3 \/ a \in 4 .. 7
    BY DEF CsrAddress
  <2>2. 0 \in Byte
    BY AccessAssumption
  <2> QED
    BY <1>1, <1>2, <2>1, <2>2 DEF Value
<1>4. \A a \in Kept : Value[a] = Register[a]
  BY RegisterDef DEF Kept, Value, GpioValue, UartValue, CsrAddress, Oe, I, O, ClkDiv
<1> QED
  BY <1>3, <1>4

LEMMA SelectedIs ==
  ASSUME UInv, NEW a \in Kept
  PROVE  /\ Selected(a) => cyc /\ a % 4 \in req.sel /\ a = 4 * req.adr + (a % 4)
         /\ a % 4 \in 0 .. 2 /\ FirstLane(a) \in 0 .. 2 /\ LastLane(a) \in 0 .. 2
         /\ Selected(a) => FirstLane(a) \in req.sel /\ LastLane(a) \in req.sel
<1>1. req.adr \in 0 .. 1 /\ req \in Access
  BY Requests DEF UInv, BridgeInv
<1>2. a \in {4, 5} /\ Selected(a) => req.adr = 1 /\ 0 \in req.sel /\ 1 \in req.sel
  BY <1>1, WholeAssumption DEF Selected
<1> QED
  BY <1>1, <1>2 DEF Kept, Selected, FirstLane, LastLane

\* A register takes its shadow at the edge after its last byte is written.
LEMMA RegisterEdge ==
  ASSUME UInv, UartEdge, GpioEdge, NEW a \in Kept
  PROVE  Register'[a] = IF cyc /\ cycle > 0 /\ ~ack /\ req.we /\ cycle - 1 \in req.sel
                             /\ 4 * req.adr + cycle - 1 = (IF a \in {4, 5} THEN 5 ELSE a)
                          THEN shadow[a] ELSE Register[a]
<1>1. \A e \in Writable :
        e \in w_stb <=> cyc /\ cycle > 0 /\ ~ack /\ req.we /\ cycle - 1 \in req.sel
                        /\ Last(e) = 4 * req.adr + cycle - 1
  <2>1. Addr - 1 = 4 * req.adr + cycle - 1
    BY Requests DEF UInv, BridgeInv, Addr
  <2> QED
    BY <2>1 DEF UInv, TransferInv
<1>2. Oe \in Writable /\ O \in Writable /\ ClkDiv \in Writable
  BY DEF Writable
<1>3. /\ oe' = IF Oe \in w_stb THEN shadow[0] ELSE oe
      /\ o' = IF O \in w_stb THEN shadow[2] ELSE o
      /\ divisor'[4] = IF ClkDiv \in w_stb THEN shadow[4] ELSE divisor[4]
      /\ divisor'[5] = IF ClkDiv \in w_stb THEN shadow[5] ELSE divisor[5]
  BY DEF GpioEdge, OEdge, UartEdge, DivisorEdge, ClkDiv
<1>4. Register'[0] = oe' /\ Register'[2] = o' /\ Register'[4] = divisor'[4] /\ Register'[5] = divisor'[5]
  BY RegisterDef DEF Register, Oe, O, ClkDiv
<1> QED
  BY <1>1, <1>2, <1>3, <1>4, RegisterDef, Registers DEF Kept

LEMMA ShadowEdge ==
  ASSUME UInv, GpioInv, CsrEdge(Value), NEW a \in Kept
  PROVE  shadow'[a] = IF RStb /\ Addr = 4 * (a \div 4) + FirstLane(a) THEN Register[a]
                      ELSE IF WStb /\ Addr = a THEN req.dat_w[cycle]
                      ELSE shadow[a]
<1>1. a \in CsrAddress /\ a \in UNION Writable
  BY DEF Kept, CsrAddress, Writable, Oe, O, ClkDiv
<1>2. (\E e \in Readable : a \in e /\ Addr = First(e)) <=> Addr = 4 * (a \div 4) + FirstLane(a)
  BY Registers DEF Kept, Readable, Oe, I, O, ClkDiv, Status, Data, FirstLane
<1>3. Value[a] = Register[a]
  BY Values
<1> QED
  BY <1>1, <1>2, <1>3 DEF CsrEdge, MultiplexerEdge

\* A request moves on by a lane, or has ended, or has just begun.
LEMMA Progress ==
  ASSUME UInv, CsrEdge(Value), Master
  PROVE  \/ ~cyc' \/ cycle' = 0
         \/ cyc /\ ~ack /\ req' = req /\ cycle' = (IF cycle < 4 THEN cycle + 1 ELSE 4)
<1>1. cycle \in 0 .. 4 /\ ack \in BOOLEAN /\ (~cyc => cycle = 0) /\ (ack => cycle = 4)
  BY DEF UInv, BridgeInv, TransferInv
<1> QED
  BY <1>1 DEF CsrEdge, BridgeEdge, Master, Start, Held, Done, Rest, bus

LEMMA StoreKeeps ==
  ASSUME PInv, CsrEdge(Value), UartEdge, GpioEdge, Master
  PROVE  StoreInv'
<1> SUFFICES ASSUME cyc', req'.we, NEW a \in Kept, Selected(a)', cycle' # 0
             PROVE  /\ a % 4 < cycle' => shadow'[a] = req'.dat_w[a % 4]
                    /\ LastLane(a) + 1 < cycle' => Register'[a] = req'.dat_w[a % 4]
  <2>1. UInv' => \A a \in Kept : LastLane(a) \in 0 .. 2 /\ a % 4 \in 0 .. 2
    BY DEF Kept, LastLane
  <2> QED
    BY <2>1, UartInductive, Values DEF StoreInv, PInv, Kept, LastLane
<1>1. cyc /\ ~ack /\ req' = req /\ cycle' = (IF cycle < 4 THEN cycle + 1 ELSE 4)
  BY Progress DEF PInv
<1>2. /\ Selected(a) /\ req.we /\ cycle \in 0 .. 4
      /\ a % 4 \in req.sel /\ a = 4 * req.adr + (a % 4) /\ LastLane(a) \in req.sel
      /\ a % 4 \in 0 .. 2 /\ LastLane(a) \in 0 .. 2 /\ req.adr \in 0 .. 1
  BY <1>1, SelectedIs, Requests DEF Selected, PInv, UInv, BridgeInv
<1>3. /\ a % 4 < cycle => shadow[a] = req.dat_w[a % 4]
      /\ LastLane(a) + 1 < cycle => Register[a] = req.dat_w[a % 4]
  BY <1>1, <1>2 DEF PInv, StoreInv
<1>4. a % 4 < cycle' => shadow'[a] = req.dat_w[a % 4]
  <2>1. ~RStb /\ (WStb <=> cycle \in req.sel)
    BY <1>1, <1>2 DEF RStb, WStb, Strobe
  <2>2. shadow'[a] = IF WStb /\ Addr = a THEN req.dat_w[cycle] ELSE shadow[a]
    BY <2>1, ShadowEdge DEF PInv
  <2>3. Addr = a <=> cycle = a % 4
    BY <1>2 DEF Addr
  <2> QED
    BY <1>1, <1>2, <1>3, <2>1, <2>2, <2>3
<1>5. LastLane(a) + 1 < cycle' => Register'[a] = req.dat_w[a % 4]
  <2>1. (4 * req.adr + cycle - 1 = IF a \in {4, 5} THEN 5 ELSE a) <=> cycle - 1 = LastLane(a)
    <3>1. CASE a = 0
      BY <1>2, <3>1 DEF LastLane
    <3>2. CASE a = 2
      BY <1>2, <3>2 DEF LastLane
    <3>3. CASE a = 4
      BY <1>2, <3>3 DEF LastLane
    <3>4. CASE a = 5
      BY <1>2, <3>4 DEF LastLane
    <3> QED
      BY <3>1, <3>2, <3>3, <3>4 DEF Kept
  <2>2. Register'[a] = IF cycle > 0 /\ cycle - 1 = LastLane(a) THEN shadow[a] ELSE Register[a]
    BY <1>1, <1>2, <2>1, RegisterEdge DEF PInv
  <2>3. a % 4 <= LastLane(a)
    BY DEF Kept, LastLane
  <2> QED
    BY <1>1, <1>2, <1>3, <2>2, <2>3
<1> QED
  BY <1>1, <1>4, <1>5

LEMMA LoadKeeps ==
  ASSUME PInv, CsrEdge(Value), UartEdge, GpioEdge, Master
  PROVE  LoadInv'
<1> SUFFICES ASSUME cyc', ~req'.we, NEW a \in Kept, Selected(a)', cycle' # 0
             PROVE  /\ FirstLane(a) < cycle' => shadow'[a] = Register'[a]
                    /\ (a % 4) + 1 < cycle' => dat_r'[a % 4] = Register'[a]
  BY DEF LoadInv, Kept, FirstLane
<1>1. cyc /\ ~ack /\ req' = req /\ cycle' = (IF cycle < 4 THEN cycle + 1 ELSE 4)
  BY Progress DEF PInv
<1>2. /\ Selected(a) /\ ~req.we /\ cycle \in 0 .. 4
      /\ a % 4 \in req.sel /\ a = 4 * req.adr + (a % 4) /\ FirstLane(a) \in req.sel
      /\ a % 4 \in 0 .. 2 /\ FirstLane(a) \in 0 .. 2 /\ req.adr \in 0 .. 1
  BY <1>1, SelectedIs, Requests DEF Selected, PInv, UInv, BridgeInv
<1>3. /\ FirstLane(a) < cycle => shadow[a] = Register[a]
      /\ (a % 4) + 1 < cycle => dat_r[a % 4] = Register[a]
  BY <1>1, <1>2 DEF PInv, LoadInv
<1>4. Register'[a] = Register[a]
  BY <1>2, RegisterEdge DEF PInv
<1>5. FirstLane(a) < cycle' => shadow'[a] = Register'[a]
  <2>1. ~WStb /\ (RStb <=> cycle \in req.sel)
    BY <1>1, <1>2 DEF RStb, WStb, Strobe
  <2>2. shadow'[a] = IF RStb /\ Addr = 4 * (a \div 4) + FirstLane(a) THEN Register[a] ELSE shadow[a]
    BY <2>1, ShadowEdge DEF PInv
  <2>3. Addr = 4 * (a \div 4) + FirstLane(a) <=> cycle = FirstLane(a)
    <3>1. CASE a = 0
      BY <1>2, <3>1 DEF Addr, FirstLane
    <3>2. CASE a = 2
      BY <1>2, <3>2 DEF Addr, FirstLane
    <3>3. CASE a = 4
      BY <1>2, <3>3 DEF Addr, FirstLane
    <3>4. CASE a = 5
      BY <1>2, <3>4 DEF Addr, FirstLane
    <3> QED
      BY <3>1, <3>2, <3>3, <3>4 DEF Kept
  <2> QED
    BY <1>1, <1>2, <1>3, <1>4, <2>1, <2>2, <2>3
<1>6. (a % 4) + 1 < cycle' => dat_r'[a % 4] = Register'[a]
  <2>1. FirstLane(a) <= a % 4
    BY DEF Kept, FirstLane
  <2>2. cycle > 0 => dat_r' = [dat_r EXCEPT ![cycle - 1] = RData]
    BY <1>1, <1>2 DEF CsrEdge, BridgeEdge
  <2>3. dat_r \in [Lane -> Byte]
    BY DEF PInv, UInv, BridgeInv
  <2>4. CASE a % 4 = cycle - 1
    <3>0. Addr - 1 = a /\ cycle > 0 /\ cycle - 1 \in req.sel
      <4>1. cycle - 1 \in req.sel
        BY <1>2, <2>4
      <4>2. Addr - 1 = 4 * req.adr + (cycle - 1)
        <5>1. req.adr \in Int /\ cycle \in Int
          BY <1>2
        <5> QED
          BY <5>1 DEF Addr
      <4>3. cycle > 0
        BY <1>2, <2>4
      <4> QED
        BY <1>2, <2>4, <4>1, <4>2, <4>3
    <3>1. r_addr = a /\ r_addr # None
      BY <1>1, <1>2, <3>0 DEF PInv, UInv, TransferInv, Kept, None
    <3>2. dat_r'[a % 4] = shadow[a]
      BY <1>2, <2>2, <2>3, <2>4, <3>1 DEF RData, Lane
    <3> QED
      BY <1>2, <1>3, <1>4, <2>1, <2>4, <3>2
  <2>5. CASE a % 4 # cycle - 1
    BY <1>1, <1>2, <1>3, <1>4, <2>2, <2>3, <2>5 DEF Lane
  <2> QED
    BY <2>4, <2>5
<1> QED
  BY <1>5, <1>6

LEMMA GpioKeeps ==
  ASSUME UInv, GpioInv, GpioEdge
  PROVE  GpioInv'
BY GpioAssumption DEF GpioInv, GpioEdge, OEdge, UInv, BridgeInv, CsrAddress

LEMMA PInvInit == Init => PInv
<1> SUFFICES ASSUME Init PROVE PInv
  OBVIOUS
<1>1. UInv
  BY UartStarts DEF Init
<1>2. GpioInv
  BY AccessAssumption, GpioAssumption DEF Init, GpioInit, GpioInv
<1>3. ~cyc
  BY DEF Init, CsrInit
<1> QED
  BY <1>1, <1>2, <1>3 DEF PInv, StoreInv, LoadInv

LEMMA PInvNext == PInv /\ [Next]_vars => PInv'
<1> SUFFICES ASSUME PInv, [Next]_vars PROVE PInv'
  OBVIOUS
<1>1. CASE Next
  <2>1. CsrEdge(Value) /\ UartEdge /\ GpioEdge /\ Master
    BY <1>1 DEF Next
  <2>2. UInv'
    BY <2>1, Values, UartInductive DEF PInv
  <2>3. GpioInv'
    BY <2>1, GpioKeeps DEF PInv
  <2> QED
    BY <2>1, <2>2, <2>3, StoreKeeps, LoadKeeps DEF PInv
<1>2. CASE UNCHANGED vars
  <2>1. /\ UNCHANGED <<cycle, ack, dat_r, shadow, r_addr, w_stb>> /\ UNCHANGED <<cyc, req>>
        /\ UNCHANGED <<line, rx_done, rx_rdy, rx_data>> /\ UNCHANGED <<tx_busy, divisor>>
        /\ UNCHANGED <<rx_inner, rx_r_rdy, rx_r_data>> /\ UNCHANGED <<tx_inner, tx_r_rdy, tx_r_data>>
        /\ UNCHANGED <<oe, i, o>>
    BY <1>2 DEF vars, csr, bus, uart, receiver, rx, tx, gpio
  <2>2. RxInv' /\ TxInv' /\ GpioInv'
    BY <2>1 DEF PInv, UInv, RxInv, TxInv, FifoInv, GpioInv
  <2>3. ReceiverInv'
    BY <2>1 DEF PInv, UInv, ReceiverInv, rx_fifo!w_rdy
  <2>4. BridgeInv'
    BY <2>1 DEF PInv, UInv, BridgeInv
  <2>5. TransferInv'
    BY <2>1 DEF PInv, UInv, TransferInv, Addr
  <2>6. Register' = Register /\ \A a \in Kept : Selected(a)' = Selected(a)
    BY <2>1 DEF Register, Selected
  <2>7. StoreInv' /\ LoadInv'
    BY <2>1, <2>6 DEF PInv, StoreInv, LoadInv
  <2> QED
    BY <2>2, <2>3, <2>4, <2>5, <2>7 DEF PInv, UInv
<1> QED
  BY <1>1, <1>2

LEMMA PeripheralsInvariant == Spec => []PInv
BY PInvInit, PInvNext, PTL DEF Spec

(* ReceiverIsAQueue of module Uart, for FIFOs of any depth of three or     *)
(* more, and whatever the master asks.                                     *)
THEOREM ReceiverImplements == Spec => ReceiverIsAQueue
<1>1. Init => Rx!Init
  BY DEF Init, UartInit, rx_fifo!Init, rx_fifo!Items, Rx!Init
<1>2. PInv /\ [Next]_vars => [Rx!Next]_(Rx!vars)
  <2>1. PInv /\ Next => Rx!Next
    BY ReceiverStep DEF PInv, Next
  <2>2. UNCHANGED vars => UNCHANGED Rx!vars
    BY DEF vars, csr, bus, uart, receiver, rx, Rx!vars, rx_fifo!Items, DataRStb, RStb, Strobe, Addr
  <2> QED
    BY <2>1, <2>2
<1> QED
  BY <1>1, <1>2, PeripheralsInvariant, PTL DEF Spec, ReceiverIsAQueue, Rx!Safety

(* TransmitterIsAQueue of module Uart, likewise.                           *)
THEOREM TransmitterImplements == Spec => TransmitterIsAQueue
<1>1. Init => Tx!Init
  BY DEF Init, UartInit, tx_fifo!Init, tx_fifo!Items, Tx!Init
<1>2. PInv /\ [Next]_vars => [Tx!Next]_(Tx!vars)
  <2>1. PInv /\ Next => Tx!Next
    BY TransmitterStep DEF PInv, Next
  <2>2. UNCHANGED vars => UNCHANGED Tx!vars
    BY DEF vars, csr, uart, tx, Tx!vars, tx_fifo!Items, Transmit
  <2> QED
    BY <2>1, <2>2
<1> QED
  BY <1>1, <1>2, PeripheralsInvariant, PTL DEF Spec, TransmitterIsAQueue, Tx!Safety

(* AnswersTellTheRegisters of module Peripherals, for all accesses that    *)
(* take the divisor whole.                                                 *)
THEOREM Answers == Spec => []AnswersTellTheRegisters
<1>1. PInv => AnswersTellTheRegisters
  <2> SUFFICES ASSUME PInv, ack, NEW a \in Kept, Selected(a)
               PROVE  Register[a] = (IF req.we THEN req.dat_w ELSE dat_r)[a % 4]
    BY RegisterDef DEF AnswersTellTheRegisters
  <2>1. cycle = 4
    BY DEF PInv, UInv, TransferInv
  <2>2. a % 4 \in 0 .. 2 /\ LastLane(a) \in 0 .. 2 /\ cyc
    BY SelectedIs DEF PInv
  <2> QED
    BY <2>1, <2>2 DEF PInv, StoreInv, LoadInv
<1> QED
  BY <1>1, PeripheralsInvariant, PTL

(* RegistersChangeWhole of module Peripherals.                             *)
THEOREM ChangeWhole == Spec => RegistersChangeWhole
<1> DEFINE Whole(e) ==
      \/ \A a \in e : Register'[a] = Register[a]
      \/ req.we /\ \A a \in e : Selected(a) /\ Register'[a] = req.dat_w[a % 4]
<1>1. PInv /\ [Next]_vars => [\A e \in {Oe, O, ClkDiv} : Whole(e)]_vars
  <2> SUFFICES ASSUME PInv, Next, NEW e \in {Oe, O, ClkDiv} PROVE Whole(e)
    OBVIOUS
  <2>1. UartEdge /\ GpioEdge /\ UInv
    BY DEF Next, PInv
  <2>2. cycle \in 0 .. 4 /\ req.adr \in 0 .. 1 /\ req \in Access
    BY Requests DEF PInv, UInv, BridgeInv
  <2> DEFINE last == IF e = Oe THEN 0 ELSE IF e = O THEN 2 ELSE 5
             taken == cyc /\ cycle > 0 /\ ~ack /\ req.we /\ cycle - 1 \in req.sel
                      /\ 4 * req.adr + cycle - 1 = last
  <2>3. \A a \in e : a \in Kept /\ (IF a \in {4, 5} THEN 5 ELSE a) = last
    BY Registers DEF Oe, O, ClkDiv, Kept
  <2>4. \A a \in e : Register'[a] = IF taken THEN shadow[a] ELSE Register[a]
    <3>1. \A a \in Kept : Register'[a] = IF cyc /\ cycle > 0 /\ ~ack /\ req.we /\ cycle - 1 \in req.sel
                                /\ 4 * req.adr + cycle - 1 = (IF a \in {4, 5} THEN 5 ELSE a)
                             THEN shadow[a] ELSE Register[a]
      BY <2>1, RegisterEdge
    <3> QED
      BY <2>3, <3>1
  <2>5. taken => \A a \in e : Selected(a) /\ a % 4 < cycle
    <3>1. CASE e = Oe
      <4>1. last = 0
        BY <3>1
      <4>2. taken => req.adr = 0 /\ cycle = 1 /\ 0 \in req.sel /\ cyc
        BY <2>2, <4>1
      <4> QED
        BY <3>1, <4>2 DEF Selected, Oe
    <3>2. CASE e = O
      BY <2>2, <3>2, Registers DEF Selected, O
    <3>3. CASE e = ClkDiv
      <4>1. taken => req.adr = 1 /\ cycle = 2 /\ 1 \in req.sel /\ cyc
        BY <2>2, <3>3, Registers
      <4>2. taken => 0 \in req.sel
        BY <2>2, <4>1, WholeAssumption
      <4> QED
        BY <2>2, <3>3, <4>1, <4>2 DEF Selected, ClkDiv
    <3> QED
      BY <3>1, <3>2, <3>3
  <2>6. taken => \A a \in e : shadow[a] = req.dat_w[a % 4]
    BY <2>3, <2>5 DEF PInv, StoreInv
  <2> QED
    BY <2>4, <2>5, <2>6
<1> QED
  BY <1>1, PeripheralsInvariant, PTL DEF Spec, RegistersChangeWhole

(***************************************************************************)
(* The example program.                                                    *)
(***************************************************************************)

\* The request on the bus is the one that the program counter tells.
ControlInv ==
  /\ pc \in {"rx_rdy", "load", "tx_rdy", "store"} /\ c \in Byte
  /\ cyc => req = Ask

\* The status word on its way to the program, from the cycle after it is read.
Answer == IF cycle = 3 THEN shadow[6] ELSE dat_r[2]

\* What the program has seen in the status is still so.
PollInv ==
  /\ pc = "rx_rdy" /\ cycle >= 3 /\ Answer \in {1, 3} => rx_r_rdy
  /\ pc = "load" /\ cycle < 4 => rx_r_rdy
  /\ pc = "tx_rdy" /\ cycle >= 3 /\ Answer \in {2, 3} => tx_fifo!w_rdy
  /\ pc = "store" /\ ~ack => tx_fifo!w_rdy

EInv == UInv /\ GpioInv /\ ControlInv /\ PollInv

(***************************************************************************)
(* Where a request is, and what it does there.                             *)
(***************************************************************************)

LEMMA Asked ==
  ASSUME ControlInv, cyc
  PROVE  /\ pc \in {"rx_rdy", "tx_rdy"} => req = StatusLoad
         /\ pc = "load" => req = DataLoad
         /\ pc = "store" => req = DataStore(c)
BY DEF ControlInv, Ask

LEMMA Lanes ==
  ASSUME UInv, ControlInv
  PROVE  /\ cycle \in 0 .. 4 /\ cyc \in BOOLEAN /\ ack \in BOOLEAN /\ (ack => cycle = 4) /\ (~cyc => cycle = 0)
         /\ cyc => req.adr = 1 /\ Addr = 4 + cycle
         /\ RStb <=> \/ pc \in {"rx_rdy", "tx_rdy"} /\ cycle = 2
                     \/ pc = "load" /\ cycle = 3
         /\ WStb <=> pc = "store" /\ cycle = 3
         /\ Data \in w_stb <=> pc = "store" /\ cycle = 4 /\ ~ack
         /\ r_addr = IF pc \in {"rx_rdy", "tx_rdy"} /\ cycle = 3 THEN 6
                     ELSE IF pc = "load" /\ cycle = 4 /\ ~ack THEN 7 ELSE None
<1>1. cycle \in 0 .. 4 /\ cyc \in BOOLEAN /\ ack \in BOOLEAN /\ (ack => cycle = 4) /\ (~cyc => cycle = 0)
  BY DEF UInv, BridgeInv, TransferInv
<1>2. Data \in Writable /\ Last(Data) = 7
  BY Registers DEF Writable
<1>3. /\ r_addr = IF cyc /\ cycle > 0 /\ ~ack /\ ~req.we /\ cycle - 1 \in req.sel THEN Addr - 1 ELSE None
      /\ Data \in w_stb <=> cyc /\ cycle > 0 /\ ~ack /\ req.we /\ cycle - 1 \in req.sel /\ 7 = Addr - 1
  BY <1>2 DEF UInv, TransferInv
<1>4. CASE ~cyc
  BY <1>1, <1>3, <1>4 DEF RStb, WStb, Strobe
<1>5. CASE cyc /\ pc \in {"rx_rdy", "tx_rdy"}
  <2>1. req.adr = 1 /\ req.sel = {2} /\ ~req.we /\ Addr = 4 + cycle
    BY <1>5, Asked DEF StatusLoad, Addr
  <2>2. (RStb <=> cycle = 2) /\ ~WStb
    BY <1>5, <2>1 DEF RStb, WStb, Strobe
  <2>3. Data \notin w_stb
    BY <1>3, <2>1
  <2>4. r_addr = IF cycle = 3 THEN 6 ELSE None
    BY <1>1, <1>3, <1>5, <2>1
  <2> QED
    BY <1>1, <1>5, <2>1, <2>2, <2>3, <2>4
<1>6. CASE cyc /\ pc = "load"
  <2>1. req.adr = 1 /\ req.sel = {3} /\ ~req.we /\ Addr = 4 + cycle
    BY <1>6, Asked DEF DataLoad, Addr
  <2> QED
    BY <1>1, <1>3, <1>6, <2>1 DEF RStb, WStb, Strobe
<1>7. CASE cyc /\ pc = "store"
  <2>1. req.adr = 1 /\ req.sel = {3} /\ req.we /\ Addr = 4 + cycle
    BY <1>7, Asked DEF DataStore, Addr
  <2> QED
    BY <1>1, <1>3, <1>7, <2>1 DEF RStb, WStb, Strobe
<1> QED
  BY <1>1, <1>4, <1>5, <1>6, <1>7 DEF ControlInv

LEMMA EchoValues ==
  ASSUME UInv, GpioInv
  PROVE  Value \in [CsrAddress -> Byte] /\ Value[6] = StatusValue /\ Value[7] = rx_r_data
<1>1. Value[6] = StatusValue /\ Value[7] = rx_r_data
  BY DEF Value, UartValue, CsrAddress, ClkDiv, Status
<1> QED
  BY <1>1, Values

\* A request stays away, moves on, is answered, or ends.
LEMMA Moves ==
  ASSUME EInv, CsrEdge(Value), Program
  PROVE  \/ ~cyc /\ cycle' = 0 /\ ~ack' /\ pc' = pc /\ c' = c
         \/ cyc /\ cyc' /\ ~ack /\ cycle < 4 /\ cycle' = cycle + 1 /\ ~ack' /\ pc' = pc /\ c' = c
         \/ cyc /\ cyc' /\ ~ack /\ cycle = 4 /\ cycle' = 4 /\ ack' /\ pc' = pc /\ c' = c
         \/ cyc /\ ~cyc' /\ ack /\ cycle = 4 /\ cycle' = 0 /\ ~ack' /\ (PollRx \/ LoadC \/ PollTx \/ StoreC)
<1>1. cycle \in 0 .. 4 /\ cyc \in BOOLEAN /\ ack \in BOOLEAN /\ (ack => cycle = 4) /\ (~cyc => cycle = 0)
  BY Lanes DEF EInv
<1>2. /\ cycle' = IF ack THEN 0 ELSE IF cyc /\ cycle < 4 THEN cycle + 1 ELSE cycle
      /\ ack' <=> (cyc /\ cycle = 4 /\ ~ack)
  BY DEF CsrEdge, BridgeEdge
<1>3. CASE ~cyc
  BY <1>1, <1>2, <1>3
  DEF Program, Asks, Waits, PollRx, LoadC, PollTx, StoreC, Goes, Start, Held, Done, Rest, program
<1>4. CASE cyc /\ ~ack
  <2>1. cyc' /\ pc' = pc /\ c' = c
    BY <1>4
    DEF Program, Asks, Waits, PollRx, LoadC, PollTx, StoreC, Goes, Start, Held, Done, Rest, program, bus
  <2>2. CASE cycle = 4
    <3>1. cycle' = 4 /\ ack'
      BY <1>2, <1>4, <2>2
    <3> QED
      BY <1>4, <2>1, <2>2, <3>1
  <2>3. CASE cycle < 4
    <3>1. cycle' = cycle + 1 /\ ~ack'
      BY <1>1, <1>2, <1>4, <2>3
    <3> QED
      BY <1>4, <2>1, <2>3, <3>1
  <2> QED
    BY <1>1, <2>2, <2>3
<1>5. CASE cyc /\ ack
  BY <1>1, <1>2, <1>5
  DEF Program, Asks, Waits, PollRx, LoadC, PollTx, StoreC, Goes, Start, Held, Done, Rest
<1> QED
  BY <1>1, <1>3, <1>4, <1>5

LEMMA ProgramIsMaster == Program => Master
BY DEF Program, Asks, Waits, PollRx, LoadC, PollTx, StoreC, Goes, Master

(***************************************************************************)
(* The invariant.                                                          *)
(***************************************************************************)

LEMMA ControlKeeps ==
  ASSUME EInv, CsrEdge(Value), Program
  PROVE  ControlInv'
<1>1. pc' \in {"rx_rdy", "load", "tx_rdy", "store"}
  BY DEF EInv, ControlInv, Program, Asks, Waits, PollRx, LoadC, PollTx, StoreC, Goes, program
<1>2. c' \in Byte
  <2>1. dat_r[3] \in Byte
    BY DEF EInv, UInv, BridgeInv, Lane
  <2> QED
    BY <2>1 DEF EInv, ControlInv, Program, Asks, Waits, PollRx, LoadC, PollTx, StoreC, program
<1>3. cyc' => req' = Ask'
  <2>1. CASE Asks
    BY <2>1 DEF Asks, program, Ask, DataStore
  <2>2. CASE Waits
    BY <2>2 DEF Waits, program, Held, Rest, bus, Ask, DataStore, EInv, ControlInv
  <2>3. CASE PollRx \/ LoadC \/ PollTx \/ StoreC
    BY <2>3 DEF PollRx, LoadC, PollTx, StoreC, Goes, Done
  <2> QED
    BY <2>1, <2>2, <2>3 DEF Program
<1> QED
  BY <1>1, <1>2, <1>3 DEF ControlInv

LEMMA StatusTells ==
  ASSUME UInv
  PROVE  (StatusValue \in {1, 3} <=> rx_r_rdy) /\ (StatusValue \in {2, 3} <=> tx_fifo!w_rdy)
BY DEF StatusValue, UInv, RxInv, FifoInv, tx_fifo!w_rdy

\* A FIFO that shows an item shows it until it is read; one that has room has
\* room until it is written.
LEMMA FifosWait ==
  ASSUME UInv, UartEdge
  PROVE  /\ rx_r_rdy /\ ~DataRStb => rx_r_rdy'
         /\ tx_fifo!w_rdy /\ Data \notin w_stb => tx_fifo!w_rdy'
<1>1. rx_r_rdy /\ ~DataRStb => rx_r_rdy'
  BY RxEdge DEF FifoEdge
<1>2. ASSUME tx_fifo!w_rdy, Data \notin w_stb PROVE tx_fifo!w_rdy'
  <2>1. tx_inner \in Seq(Byte)
    BY DEF UInv, TxInv, FifoInv
  <2>2. tx_inner' = tx_inner \/ (tx_inner # <<>> /\ tx_inner' = Tail(tx_inner))
    BY <1>2, TxEdge DEF FifoEdge
  <2>3. Len(tx_inner') <= Len(tx_inner) /\ Len(tx_inner') \in Nat /\ Len(tx_inner) \in Nat
    BY <2>1, <2>2, HeadTailProperties, LenProperties
  <2> QED
    BY <1>2, <2>3, UartAssumption DEF tx_fifo!w_rdy
<1> QED
  BY <1>1, <1>2

\* The status on its way: read in lane 2, on the bus a cycle later.
LEMMA AnswerEdge ==
  ASSUME EInv, CsrEdge(Value), Program, pc \in {"rx_rdy", "tx_rdy"}, cyc, cyc', cycle' >= 3
  PROVE  Answer' = IF cycle = 2 THEN StatusValue ELSE Answer
<1>1. /\ cycle \in 2 .. 4 /\ ~ack /\ cycle' = (IF cycle < 4 THEN cycle + 1 ELSE 4)
      /\ Addr = 4 + cycle /\ (RStb <=> cycle = 2) /\ ~WStb
      /\ r_addr = (IF cycle = 3 THEN 6 ELSE None)
  BY Moves, Lanes DEF EInv
<1>2. dat_r \in [Lane -> Byte]
  BY DEF EInv, UInv, BridgeInv
<1>3. CASE cycle = 2
  <2>1. \E e \in Readable : 6 \in e /\ Addr = First(e)
    BY <1>1, <1>3, Registers DEF Readable, Status
  <2>2. shadow'[6] = Value[6]
    BY <1>1, <1>3, <2>1 DEF CsrEdge, MultiplexerEdge, CsrAddress
  <2> QED
    BY <1>1, <1>3, <2>2, EchoValues DEF EInv, Answer
<1>4. CASE cycle = 3
  <2>1. dat_r'[2] = shadow[6]
    BY <1>1, <1>2, <1>4 DEF CsrEdge, BridgeEdge, RData, None, Lane
  <2> QED
    BY <1>1, <1>4, <2>1 DEF Answer
<1>5. CASE cycle = 4
  <2>1. dat_r'[2] = dat_r[2]
    BY <1>1, <1>2, <1>5 DEF CsrEdge, BridgeEdge, Lane
  <2> QED
    BY <1>1, <1>5, <2>1 DEF Answer
<1> QED
  BY <1>1, <1>3, <1>4, <1>5

LEMMA PollKeeps ==
  ASSUME EInv, CsrEdge(Value), UartEdge, Program
  PROVE  PollInv'
<1> DEFINE Reads == pc = "load" /\ cycle = 3
           Writes == pc = "store" /\ cycle = 4 /\ ~ack
<1>0. UInv /\ ControlInv /\ PollInv
  BY DEF EInv
<1>1. /\ rx_r_rdy /\ ~Reads => rx_r_rdy'
      /\ tx_fifo!w_rdy /\ ~Writes => tx_fifo!w_rdy'
  BY <1>0, FifosWait, Lanes DEF DataRStb, Data
<1>2. cycle \in 0 .. 4 /\ cyc \in BOOLEAN /\ ack \in BOOLEAN /\ (ack => cycle = 4) /\ (~cyc => cycle = 0)
  BY <1>0, Lanes
<1>3. ASSUME pc' = "rx_rdy", cycle' >= 3, Answer' \in {1, 3} PROVE rx_r_rdy'
  <2>1. cyc /\ cyc' /\ pc = "rx_rdy"
    BY <1>2, <1>3, Moves
  <2>2. Answer' = IF cycle = 2 THEN StatusValue ELSE Answer
    BY <1>3, <2>1, AnswerEdge
  <2>3. cycle >= 2
    BY <1>2, <1>3, <2>1, Moves
  <2> QED
    BY <1>0, <1>1, <1>2, <1>3, <2>1, <2>2, <2>3, StatusTells DEF PollInv
<1>4. ASSUME pc' = "tx_rdy", cycle' >= 3, Answer' \in {2, 3} PROVE tx_fifo!w_rdy'
  <2>1. cyc /\ cyc' /\ pc = "tx_rdy"
    BY <1>2, <1>4, Moves
  <2>2. Answer' = IF cycle = 2 THEN StatusValue ELSE Answer
    BY <1>4, <2>1, AnswerEdge
  <2>3. cycle >= 2
    BY <1>2, <1>4, <2>1, Moves
  <2> QED
    BY <1>0, <1>1, <1>2, <1>4, <2>1, <2>2, <2>3, StatusTells DEF PollInv
<1>5. ASSUME pc' = "load", cycle' < 4 PROVE rx_r_rdy'
  <2>1. CASE pc = "load"
    <3>1. cycle < 3
      BY <1>2, <1>5, <2>1, Moves DEF PollRx, LoadC, PollTx, StoreC, Goes
    <3> QED
      BY <1>0, <1>1, <1>2, <2>1, <3>1 DEF PollInv
  <2>2. CASE pc # "load"
    <3>1. PollRx /\ cycle = 4
      BY <1>5, <2>2, Moves DEF LoadC, PollTx, StoreC, Goes
    <3>2. pc = "rx_rdy" /\ Answer \in {1, 3}
      BY <1>5, <3>1 DEF PollRx, Goes, UART_STATUS_RX_RDY, Answer
    <3> QED
      BY <1>0, <1>1, <3>1, <3>2 DEF PollInv
  <2> QED
    BY <2>1, <2>2
<1>6. ASSUME pc' = "store", ~ack' PROVE tx_fifo!w_rdy'
  <2>1. CASE pc = "store"
    <3>1. ~ack /\ ~Writes
      BY <1>2, <1>6, <2>1, Moves DEF PollRx, LoadC, PollTx, StoreC, Goes
    <3> QED
      BY <1>0, <1>1, <2>1, <3>1 DEF PollInv
  <2>2. CASE pc # "store"
    <3>1. PollTx /\ cycle = 4
      BY <1>6, <2>2, Moves DEF PollRx, LoadC, StoreC, Goes
    <3>2. pc = "tx_rdy" /\ Answer \in {2, 3}
      BY <1>6, <3>1 DEF PollTx, Goes, UART_STATUS_TX_RDY, Answer
    <3> QED
      BY <1>0, <1>1, <3>1, <3>2 DEF PollInv
  <2> QED
    BY <2>1, <2>2
<1> QED
  BY <1>3, <1>4, <1>5, <1>6 DEF PollInv

\* The program asks of the peripherals what any master may ask.
LEMMA EchoStep == [ENext]_evars => [Next]_vars
BY ProgramIsMaster DEF ENext, Next, evars

(* A run of the program is a run of module Peripherals, so that whatever   *)
(* is proved of these holds of it.                                         *)
THEOREM EchoRuns == ESpec => Spec
<1>1. EInit => Init
  BY DEF EInit
<1> QED
  BY <1>1, EchoStep, PTL DEF ESpec, Spec

LEMMA EInvInit == EInit => EInv
<1> SUFFICES ASSUME EInit PROVE EInv
  OBVIOUS
<1>1. UInv /\ GpioInv
  BY PInvInit DEF EInit, PInv
<1>2. ControlInv
  BY AccessAssumption DEF EInit, Init, CsrInit, ControlInv
<1>3. PollInv
  BY DEF EInit, Init, CsrInit, PollInv
<1> QED
  BY <1>1, <1>2, <1>3 DEF EInv

LEMMA EInvEdge ==
  ASSUME EInv, CsrEdge(Value), UartEdge, GpioEdge, Program
  PROVE  EInv'
<1>1. UInv'
  BY EchoValues, ProgramIsMaster, UartInductive DEF EInv
<1>2. GpioInv'
  BY GpioKeeps DEF EInv
<1> QED
  BY <1>1, <1>2, ControlKeeps, PollKeeps DEF EInv

LEMMA EInvNext == PInv' /\ EInv /\ [ENext]_evars => EInv'
<1> SUFFICES ASSUME PInv', EInv, [ENext]_evars PROVE EInv'
  OBVIOUS
<1>1. CASE ENext
  BY <1>1, EInvEdge DEF ENext
<1>2. CASE UNCHANGED evars
  <2>1. /\ UNCHANGED <<cycle, ack, dat_r, shadow, r_addr, w_stb>> /\ UNCHANGED <<cyc, req>>
        /\ UNCHANGED <<rx_inner, rx_r_rdy, rx_r_data>> /\ UNCHANGED <<tx_inner, tx_r_rdy, tx_r_data>>
        /\ UNCHANGED <<pc, c>>
    BY <1>2 DEF evars, vars, csr, bus, uart, rx, tx, program
  <2>2. ControlInv'
    BY <2>1 DEF EInv, ControlInv, Ask, DataStore
  <2>3. PollInv'
    BY <2>1 DEF EInv, PollInv, Answer, tx_fifo!w_rdy
  <2> QED
    BY <2>2, <2>3 DEF EInv, PInv
<1> QED
  BY <1>1, <1>2

LEMMA EchoInvariant == ESpec => []EInv
<1>1. ESpec => []PInv
  BY EchoRuns, PeripheralsInvariant, PTL
<1> QED
  BY <1>1, EInvInit, EInvNext, PTL DEF ESpec

(* PollingSuffices of module Echo.                                         *)
THEOREM Polling == ESpec => []PollingSuffices
<1>1. EInv => PollingSuffices
  BY Lanes DEF EInv, PollInv, PollingSuffices
<1> QED
  BY <1>1, EchoInvariant, PTL

(***************************************************************************)
(* The program and the two FIFOs are one queue.                            *)
(***************************************************************************)

Pending == IF rx_rdy THEN <<rx_data>> ELSE <<>>

\* What the receiver's queue and the transmitter's hold.
Behind == rx_fifo!Items \o Pending
Before == tx_fifo!Items

LEMMA Contents ==
  ASSUME EInv
  PROVE  /\ rx_fifo!Items \in Seq(Byte) /\ Pending \in Seq(Byte) /\ Behind \in Seq(Byte)
         /\ Before \in Seq(Byte) /\ Carried \in Seq(Byte)
<1>1. rx_fifo!Items \in Seq(Byte)
  BY TailOfCons DEF EInv, UInv, RxInv, FifoInv, rx_fifo!Items
<1>2. Before \in Seq(Byte)
  BY TailOfCons DEF EInv, UInv, TxInv, FifoInv, tx_fifo!Items, Before
<1>3. Pending \in Seq(Byte)
  BY DEF EInv, UInv, ReceiverInv, Pending
<1>4. Behind \in Seq(Byte)
  BY <1>1, <1>3, ConcatProperties DEF Behind
<1>5. Carried \in Seq(Byte)
  <2>1. dat_r[3] \in Byte /\ shadow[7] \in Byte /\ c \in Byte
    BY DEF EInv, UInv, BridgeInv, ControlInv, Lane, CsrAddress
  <2> QED
    BY <2>1 DEF Carried
<1> QED
  BY <1>1, <1>2, <1>3, <1>4, <1>5

\* The multiplexer and the bus carry the character that is loaded or stored.
LEMMA DataOnItsWay ==
  ASSUME EInv, CsrEdge(Value), Program
  PROVE  /\ pc = "load" /\ cycle = 3 => shadow'[7] = rx_r_data
         /\ pc = "load" /\ cycle = 4 /\ ~ack => dat_r'[3] = shadow[7]
         /\ pc = "store" /\ cycle = 3 => shadow'[7] = c
<1>1. dat_r \in [Lane -> Byte]
  BY DEF EInv, UInv, BridgeInv
<1>2. ASSUME pc = "load", cycle = 3 PROVE shadow'[7] = rx_r_data
  <2>1. RStb /\ Addr = 7
    BY <1>2, Lanes DEF EInv, RStb, Strobe
  <2>2. \E e \in Readable : 7 \in e /\ Addr = First(e)
    BY <2>1, Registers DEF Readable, Data
  <2> QED
    BY <2>1, <2>2, EchoValues DEF EInv, CsrEdge, MultiplexerEdge, CsrAddress
<1>3. ASSUME pc = "load", cycle = 4, ~ack PROVE dat_r'[3] = shadow[7]
  <2>1. r_addr = 7 /\ cyc
    BY <1>3, Lanes DEF EInv
  <2> QED
    BY <1>1, <1>3, <2>1 DEF CsrEdge, BridgeEdge, RData, None, Lane
<1>4. ASSUME pc = "store", cycle = 3 PROVE shadow'[7] = c
  <2>1. WStb /\ ~RStb /\ cyc
    BY <1>4, Lanes DEF EInv, WStb, Strobe
  <2>2. Addr = 7 /\ req = DataStore(c)
    BY <1>4, <2>1, Lanes, Asked DEF EInv
  <2>3. req.dat_w[cycle] = c
    BY <1>4, <2>2 DEF DataStore, Lines, Lane
  <2>4. 7 \in UNION Writable
    BY DEF Writable, Data
  <2> QED
    BY <2>1, <2>2, <2>3, <2>4 DEF CsrEdge, MultiplexerEdge, CsrAddress
<1> QED
  BY <1>2, <1>3, <1>4

\* The character carried: taken when it is read, given up when it is written.
LEMMA CarriedEdge ==
  ASSUME EInv, CsrEdge(Value), UartEdge, GpioEdge, Program
  PROVE  /\ DataRStb => Carried = <<>> /\ Carried' = <<rx_r_data>> /\ rx_r_rdy
         /\ Data \in w_stb => Carried = <<shadow[7]>> /\ Carried' = <<>> /\ ~DataRStb
         /\ ~DataRStb /\ Data \notin w_stb => Carried' = Carried
<1>0. UInv /\ ControlInv /\ PollInv /\ EInv'
  BY EInvEdge DEF EInv
<1>1. /\ cycle \in 0 .. 4 /\ (ack => cycle = 4) /\ pc \in {"rx_rdy", "load", "tx_rdy", "store"}
      /\ DataRStb <=> pc = "load" /\ cycle = 3
      /\ Data \in w_stb <=> pc = "store" /\ cycle = 4 /\ ~ack
  BY <1>0, Lanes DEF DataRStb, Data, ControlInv, RStb, Strobe
<1>2. Data \in w_stb' <=> pc' = "store" /\ cycle' = 4 /\ ~ack'
  <2>1. (UInv /\ ControlInv => (Data \in w_stb <=> pc = "store" /\ cycle = 4 /\ ~ack))'
    BY Lanes, PTL
  <2> QED
    BY <1>0, <2>1 DEF EInv, Data
<1>3. Carried =
        IF pc = "load" /\ cycle = 4 THEN <<IF ack THEN dat_r[3] ELSE shadow[7]>>
        ELSE IF pc = "tx_rdy" \/ (pc = "store" /\ cycle < 4) THEN <<c>>
        ELSE IF pc = "store" /\ cycle = 4 /\ ~ack THEN <<shadow[7]>> ELSE <<>>
  BY <1>1 DEF Carried
<1>4. Carried' =
        IF pc' = "load" /\ cycle' = 4 THEN <<IF ack' THEN dat_r'[3] ELSE shadow'[7]>>
        ELSE IF pc' = "tx_rdy" \/ (pc' = "store" /\ cycle' < 4) THEN <<c'>>
        ELSE IF pc' = "store" /\ cycle' = 4 /\ ~ack' THEN <<shadow'[7]>> ELSE <<>>
  BY <1>2 DEF Carried
<1>5. CASE ~cyc
  <2>1. cycle = 0 /\ cycle' = 0 /\ pc' = pc /\ c' = c
    BY <1>0, <1>5, Moves, Lanes
  <2> QED
    BY <1>1, <1>3, <1>4, <2>1
<1>6. CASE cyc /\ ~ack /\ cycle < 4
  <2>1. cycle' = cycle + 1 /\ ~ack' /\ pc' = pc /\ c' = c
    BY <1>1, <1>6, Moves
  <2>2. CASE pc = "load" /\ cycle = 3
    <3>1. Carried = <<>> /\ DataRStb /\ Data \notin w_stb
      BY <1>1, <1>3, <2>2
    <3>2. Carried' = <<shadow'[7]>> /\ rx_r_rdy
      BY <1>0, <1>4, <2>1, <2>2 DEF PollInv
    <3> QED
      BY <2>2, <3>1, <3>2, DataOnItsWay
  <2>3. CASE pc = "store" /\ cycle = 3
    <3>1. Carried = <<c>> /\ ~DataRStb /\ Data \notin w_stb
      BY <1>1, <1>3, <2>3
    <3>2. Carried' = <<shadow'[7]>>
      BY <1>4, <2>1, <2>3
    <3> QED
      BY <2>3, <3>1, <3>2, DataOnItsWay
  <2>4. CASE ~(pc \in {"load", "store"} /\ cycle = 3)
    <3>1. ~DataRStb /\ Data \notin w_stb
      BY <1>1, <1>6, <2>4
    <3>2. cycle' = 4 => pc \in {"rx_rdy", "tx_rdy"}
      BY <1>1, <2>1, <2>4
    <3>3. cycle' \in 0 .. 4
      BY <1>1, <1>6, <2>1
    <3>4. Carried' = Carried
      BY <1>1, <1>3, <1>4, <1>6, <2>1, <3>2, <3>3
    <3> QED
      BY <3>1, <3>4
  <2> QED
    BY <2>2, <2>3, <2>4
<1>7. CASE cyc /\ ~ack /\ cycle = 4
  <2>1. cycle' = 4 /\ ack' /\ pc' = pc /\ c' = c
    BY <1>1, <1>7, Moves
  <2>2. CASE pc = "load"
    <3>1. Carried = <<shadow[7]>> /\ Carried' = <<dat_r'[3]>> /\ ~DataRStb /\ Data \notin w_stb
      BY <1>1, <1>3, <1>4, <1>7, <2>1, <2>2
    <3> QED
      BY <1>7, <2>2, <3>1, DataOnItsWay
  <2>3. CASE pc # "load"
    BY <1>1, <1>3, <1>4, <1>7, <2>1, <2>3
  <2> QED
    BY <2>2, <2>3
<1>8. CASE cyc /\ ack
  <2>1. cycle = 4 /\ cycle' = 0 /\ ~ack' /\ (PollRx \/ LoadC \/ PollTx \/ StoreC)
    BY <1>1, <1>8, Moves
  <2>2. ~DataRStb /\ Data \notin w_stb
    BY <1>1, <1>8, <2>1
  <2>3. Carried' = IF pc' \in {"tx_rdy", "store"} THEN <<c'>> ELSE <<>>
    BY <1>4, <2>1
  <2>4. CASE LoadC
    BY <1>3, <1>8, <2>1, <2>2, <2>3, <2>4 DEF LoadC, Goes
  <2>5. CASE PollRx
    BY <1>3, <2>1, <2>2, <2>3, <2>5 DEF PollRx, Goes
  <2>6. CASE PollTx
    BY <1>3, <2>1, <2>2, <2>3, <2>6 DEF PollTx, Goes
  <2>7. CASE StoreC
    BY <1>3, <1>8, <2>1, <2>2, <2>3, <2>7 DEF StoreC, Goes
  <2> QED
    BY <2>1, <2>4, <2>5, <2>6, <2>7
<1> QED
  BY <1>1, <1>5, <1>6, <1>7, <1>8

\* In sequences: what leaves one part enters the next.
LEMMA PassOn ==
  ASSUME NEW s \in Seq(Byte), NEW w \in Byte, NEW t \in Seq(Byte)
  PROVE  Append(s, w) \o t = s \o (<<w>> \o t) /\ s \o <<>> = s /\ <<>> \o t = t
<1>1. <<w>> \in Seq(Byte)
  OBVIOUS
<1>2. Append(s, w) = s \o <<w>>
  BY AppendIsConcat
<1>3. (s \o <<w>>) \o t = s \o (<<w>> \o t)
  BY <1>1, ConcatAssociative
<1> QED
  BY <1>2, <1>3, ConcatEmptySeq

LEMMA Associative == \A s, t, u \in Seq(Byte) : (s \o t) \o u = s \o (t \o u)
BY ConcatAssociative

LEMMA Together ==
  ASSUME EInv
  PROVE  tx_fifo!Items \o Carried \o rx_fifo!Items \o Pending = Before \o (Carried \o Behind)
<1>1. PICK s \in Seq(Byte) : s = Before
  BY Contents
<1>2. PICK t \in Seq(Byte) : t = Carried
  BY Contents
<1>3. PICK u \in Seq(Byte) : u = rx_fifo!Items
  BY Contents
<1>4. PICK v \in Seq(Byte) : v = Pending
  BY Contents
<1>5. PICK p \in Seq(Byte) : p = s \o t
  BY ConcatProperties
<1>6. PICK q \in Seq(Byte) : q = u \o v
  BY ConcatProperties
<1>7. (p \o u) \o v = p \o (u \o v)
  BY Associative, Zenon
<1>8. (s \o t) \o q = s \o (t \o q)
  BY Associative
<1> QED
  BY <1>1, <1>2, <1>3, <1>4, <1>5, <1>6, <1>7, <1>8 DEF Before, Behind

LEMMA LineStep ==
  ASSUME EInv, CsrEdge(Value), UartEdge, GpioEdge, Program
  PROVE  Line!Next
<1> DEFINE sent == IF Transmit THEN Tail(Before) ELSE Before
           rest == IF DataRStb THEN Tail(Behind) ELSE Behind
           whole == Before \o (Carried \o Behind)
<1>0. UInv /\ PollInv /\ EInv'
  BY EInvEdge DEF EInv
<1>1. /\ Behind \in Seq(Byte) /\ Before \in Seq(Byte) /\ Carried \in Seq(Byte)
      /\ Behind' \in Seq(Byte) /\ Before' \in Seq(Byte) /\ Carried' \in Seq(Byte)
  <2>1. (EInv => Behind \in Seq(Byte) /\ Before \in Seq(Byte) /\ Carried \in Seq(Byte))'
    BY Contents, PTL
  <2> QED
    BY <1>0, <2>1, Contents
\* The receiver's queue.
<1>2. /\ DataRStb => Behind # <<>> /\ rx_r_data = Head(Behind)
      /\ \/ rx_done # None /\ Behind' = Append(rest, rx_done)
         \/ (rx_done # None => Len(Behind) >= Depth) /\ Behind' = rest
  <2>1. Rx!Next
    BY <1>0, ReceiverStep
  <2>2. rx_r_data # None
    BY <1>0, NoneIsNoByte DEF UInv, RxInv, FifoInv
  <2>3. DataRStb => rx_r_rdy
    BY CarriedEdge
  <2> QED
    BY <2>1, <2>2, <2>3 DEF Rx!Next, Rx!Give, Rx!Left, Rx!Take, Rx!Pass, Behind, Pending
\* The transmitter's queue, in which there is room.
<1>3. /\ Transmit => Before # <<>> /\ tx_r_data = Head(Before)
      /\ Before' = IF Data \in w_stb THEN Append(sent, shadow[7]) ELSE sent
  <2>1. Transmit => Before # <<>> /\ tx_r_data = Head(Before)
    BY <1>0, TailOfCons DEF UInv, TxInv, FifoInv, Transmit, tx_fifo!Items, Before
  <2>2. Data \in w_stb => tx_fifo!w_rdy
    BY Lanes DEF EInv, PollInv
  <2> DEFINE w_en == Data \in w_stb
             r_en == Transmit
             room == Len(tx_inner) < Depth - 1
             C == Content(tx_r_rdy, tx_r_data, tx_inner)
             C2 == Content(tx_r_rdy', tx_r_data', tx_inner')
  <2>3. FifoEdge(tx_inner, tx_r_rdy, tx_r_data, w_en, shadow[7], r_en, tx_inner', tx_r_rdy', tx_r_data')
    BY <1>0, TxEdge
  <2>4. w_en \in BOOLEAN /\ r_en \in BOOLEAN /\ FifoInv(tx_inner, tx_r_rdy, tx_r_data) /\ shadow[7] \in Byte
        /\ (w_en <=> Data \in w_stb) /\ (r_en <=> Transmit) /\ (w_en => room) /\ (r_en => tx_r_rdy)
    BY <1>0, <2>2 DEF UInv, TxInv, BridgeInv, CsrAddress, Transmit, tx_fifo!w_rdy
  <2>5. C = Before /\ C2 = Before'
    BY DEF Content, Before, tx_fifo!Items
  <2> HIDE DEF w_en, r_en
  <2>6. LET now == IF tx_r_rdy /\ r_en THEN Tail(C) ELSE C
        IN  C2 = IF w_en /\ room THEN Append(now, shadow[7]) ELSE now
    BY <2>3, <2>4, FifoStep
  <2>7. sent = IF tx_r_rdy /\ r_en THEN Tail(C) ELSE C
    BY <2>4, <2>5
  <2> HIDE DEF C, C2, room, sent
  <2> QED
    BY <2>1, <2>4, <2>5, <2>6, <2>7
\* One takes what the other gives, with the character carried between.
<1>4. sent \in Seq(Byte) /\ rest \in Seq(Byte)
  BY <1>1, <1>2, <1>3, HeadTailProperties
<1>5. /\ rx_r_data \in Byte /\ shadow[7] \in Byte /\ rx_done \in Byte \union {None}
      /\ tx_r_data \in Byte
  BY <1>0, NoneIsNoByte DEF UInv, RxInv, TxInv, FifoInv, BridgeInv, ReceiverInv, CsrAddress
<1>6. Before' \o (Carried' \o rest) = sent \o (Carried \o Behind)
  <2>1. CASE DataRStb
    <3>1. Carried = <<>> /\ Carried' = <<rx_r_data>> /\ Before' = sent
      BY <1>3, <2>1, CarriedEdge
    <3>2. <<rx_r_data>> \o rest = Behind
      BY <1>1, <1>2, <2>1, ConsOfTail
    <3>3. <<>> \o Behind = Behind
      BY <1>1, ConcatEmptySeq
    <3> QED
      BY <3>1, <3>2, <3>3
  <2>2. CASE Data \in w_stb
    <3>1. Carried = <<shadow[7]>> /\ Carried' = <<>> /\ rest = Behind /\ Before' = Append(sent, shadow[7])
      BY <1>3, <2>2, CarriedEdge
    <3>2. Append(sent, shadow[7]) \o Behind = sent \o (<<shadow[7]>> \o Behind)
      <4>1. PICK s \in Seq(Byte) : s = sent
        BY <1>4
      <4>2. PICK w \in Byte : w = shadow[7]
        BY <1>5
      <4>3. PICK t \in Seq(Byte) : t = Behind
        BY <1>1
      <4>4. Append(s, w) \o t = s \o (<<w>> \o t)
        BY PassOn
      <4> HIDE DEF sent
      <4> QED
        BY <4>1, <4>2, <4>3, <4>4
    <3>3. <<>> \o Behind = Behind
      BY <1>1, ConcatEmptySeq
    <3>4. Carried \o Behind = <<shadow[7]>> \o Behind
      BY <3>1
    <3>5. Carried' \o rest = Behind
      BY <3>1, <3>3
    <3> HIDE DEF sent, rest
    <3> QED
      BY <3>1, <3>2, <3>4, <3>5
  <2>3. CASE ~DataRStb /\ Data \notin w_stb
    BY <1>3, <2>3, CarriedEdge
  <2> QED
    BY <2>1, <2>2, <2>3
<1>7. /\ whole \in Seq(Byte) /\ Len(whole) >= Len(Behind)
      /\ sent \o (Carried \o Behind) = IF Transmit THEN Tail(whole) ELSE whole
      /\ Transmit => whole # <<>> /\ Head(whole) = tx_r_data
  <2> DEFINE after == Carried \o Behind
  <2>1. after \in Seq(Byte) /\ Len(after) = Len(Carried) + Len(Behind)
    BY <1>1, ConcatProperties
  <2>2. whole \in Seq(Byte) /\ Len(whole) = Len(Before) + Len(after)
    BY <1>1, <2>1, ConcatProperties
  <2>3. Len(whole) >= Len(Behind)
    <3>1. Len(Carried) \in Nat /\ Len(Behind) \in Nat /\ Len(Before) \in Nat
      BY <1>1, LenProperties
    <3> HIDE DEF whole, after
    <3> QED
      BY <2>1, <2>2, <3>1
  <2>4. ASSUME Transmit
        PROVE  Tail(Before) \o after = Tail(whole) /\ whole # <<>> /\ Head(whole) = tx_r_data
    <3>1. Before = <<tx_r_data>> \o Tail(Before) /\ Tail(Before) \in Seq(Byte)
      BY <1>1, <1>3, <2>4, ConsOfTail, HeadTailProperties
    <3> DEFINE s == Tail(Before)
    <3> HIDE DEF s, after
    <3>2. LET u == (<<tx_r_data>> \o s) \o after
          IN  u # <<>> /\ Head(u) = tx_r_data /\ Tail(u) = s \o after
      BY <1>5, <2>1, <3>1, TailOfConcat DEF s
    <3> QED
      BY <3>1, <3>2 DEF s, after
  <2> QED
    BY <2>2, <2>3, <2>4
<1>8. Before' \o (Carried' \o Append(rest, rx_done)) = Append(Before' \o (Carried' \o rest), rx_done)
      \/ rx_done = None
  <2> SUFFICES ASSUME rx_done \in Byte
               PROVE  Before' \o (Carried' \o Append(rest, rx_done)) = Append(Before' \o (Carried' \o rest), rx_done)
    BY <1>5
  <2> DEFINE B == Before'
             K == Carried'
  <2>1. B \in Seq(Byte) /\ K \in Seq(Byte) /\ rest \in Seq(Byte) /\ <<rx_done>> \in Seq(Byte)
    BY <1>1, <1>4
  <2> HIDE DEF B, K, rest
  <2>2. K \o rest \in Seq(Byte) /\ B \o (K \o rest) \in Seq(Byte)
    BY <2>1, ConcatProperties
  <2>3. Append(rest, rx_done) = rest \o <<rx_done>>
        /\ Append(B \o (K \o rest), rx_done) = (B \o (K \o rest)) \o <<rx_done>>
    BY <2>1, <2>2, AppendIsConcat
  <2>4. K \o (rest \o <<rx_done>>) = (K \o rest) \o <<rx_done>>
    BY <2>1, ConcatAssociative
  <2>5. B \o ((K \o rest) \o <<rx_done>>) = (B \o (K \o rest)) \o <<rx_done>>
    BY <2>1, <2>2, ConcatAssociative
  <2> QED
    BY <2>3, <2>4, <2>5 DEF B, K
<1> DEFINE left == IF Transmit THEN Tail(whole) ELSE whole
<1>9. \/ rx_done # None /\ whole' = Append(left, rx_done)
      \/ (rx_done # None => Len(whole) >= Depth) /\ whole' = left
  <2>1. CASE rx_done # None /\ Behind' = Append(rest, rx_done)
    BY <1>6, <1>7, <1>8, <2>1
  <2>2. CASE (rx_done # None => Len(Behind) >= Depth) /\ Behind' = rest
    <3>1. whole' = left
      BY <1>6, <1>7, <2>2
    <3>2. Len(whole) \in Nat /\ Len(Behind) \in Nat
      BY <1>1, <1>7, LenProperties
    <3>3. rx_done # None => Len(whole) >= Depth
      <4> HIDE DEF whole
      <4> QED
        BY <1>7, <2>2, <3>2, UartAssumption
    <3> QED
      BY <3>1, <3>3
  <2> QED
    BY <1>2, <2>1, <2>2
<1>10. tx_fifo!Items \o Carried \o rx_fifo!Items \o Pending = whole
  BY Together
<1>11. (tx_fifo!Items \o Carried \o rx_fifo!Items \o Pending)' = whole'
  <2>1. (EInv => tx_fifo!Items \o Carried \o rx_fifo!Items \o Pending = Before \o (Carried \o Behind))'
    BY Together, PTL
  <2> QED
    BY <1>0, <2>1
<1>12. tx_r_data # None
  BY <1>5, NoneIsNoByte
<1> HIDE DEF whole
<1>13. Line!Give /\ Line!Left = left
  BY <1>7, <1>10, <1>12 DEF Line!Give, Line!Left, Pending
<1> QED
  BY <1>9, <1>10, <1>11, <1>13 DEF Line!Next, Line!Take, Line!Pass, Pending

(* EchoIsAQueue of module Echo; by EchoRuns and ReceiverImplements what is *)
(* lost there is lost to a full receiver.                                  *)
THEOREM Implements == ESpec => EchoIsAQueue
<1>1. EInit => Line!Init
  BY DEF EInit, Init, UartInit, CsrInit, rx_fifo!Init, tx_fifo!Init, rx_fifo!Items, tx_fifo!Items, Carried,
         Line!Init, Data
<1>2. EInv /\ [ENext]_evars => [Line!Next]_(Line!vars)
  <2>1. EInv /\ ENext => Line!Next
    BY LineStep DEF ENext
  <2>2. UNCHANGED evars => UNCHANGED Line!vars
    BY DEF evars, vars, csr, uart, receiver, rx, tx, program, Line!vars, rx_fifo!Items, tx_fifo!Items, Carried,
           Transmit
  <2> QED
    BY <2>1, <2>2
<1> QED
  BY <1>1, <1>2, EchoInvariant, PTL DEF ESpec, EchoIsAQueue, Line!Safety

=============================================================================
