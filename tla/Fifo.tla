-------------------------------- MODULE Fifo --------------------------------
(***************************************************************************)
(* The buffered FIFO that icicle/soc/uart.py puts on either side of the    *)
(* serial port (SyncFIFOBuffered, a library's): a memory of Depth - 1      *)
(* items and, behind it, a register that holds the item to be read.        *)
(***************************************************************************)
EXTENDS Naturals, Sequences

CONSTANT Depth

VARIABLES
  inner,  \* the items in the memory
  r_rdy,  \* the register holds an item
  r_data  \* the register; it keeps what it held when the item is taken

vars == <<inner, r_rdy, r_data>>

w_rdy == Len(inner) < Depth - 1

Load(r_en) == inner # <<>> /\ (r_rdy => r_en)

EdgeNewestFirst(w_en, w_data, r_en) ==
  LET last == Len(inner)
      rest == IF Load(r_en) THEN SubSeq(inner, 1, last - 1) ELSE inner
  IN  /\ inner' = IF w_en /\ w_rdy THEN Append(rest, w_data) ELSE rest
      /\ r_rdy' = (Load(r_en) \/ (r_rdy /\ ~r_en))
      /\ r_data' = IF Load(r_en) THEN inner[last] ELSE r_data

\* The memory refuses an item when it was full before this clock edge.
Edge(w_en, w_data, r_en) ==
  LET rest == IF Load(r_en) THEN Tail(inner) ELSE inner
  IN  /\ inner' = IF w_en /\ w_rdy THEN Append(rest, w_data) ELSE rest
      /\ r_rdy' = (Load(r_en) \/ (r_rdy /\ ~r_en))
      /\ r_data' = IF Load(r_en) THEN Head(inner) ELSE r_data

Items == IF r_rdy THEN <<r_data>> \o inner ELSE inner

Init == inner = <<>> /\ r_rdy = FALSE /\ r_data = 0

=============================================================================
