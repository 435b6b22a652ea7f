------------------------------- MODULE Memory -------------------------------
(***************************************************************************)
(* What a device that holds words and the Wishbone bus it is on owe each   *)
(* other, whatever the device.  The flash (icicle/soc/flash.py), the block *)
(* RAM (bram.py) and the SPRAM (ice40_spram.py) promise the device's half  *)
(* and need the bus's; the shared bus of icicle/soc/soc.py promises its    *)
(* half and needs the devices'.  How long a device takes is left open.     *)
(***************************************************************************)

CONSTANT Merge(_, _) \* the word that a write leaves, of the old word and of dat_w

VARIABLES
  cyc, adr, we, \* the request
  dat_w,        \* what is to be written, and to which bytes
  rsp,          \* "ack", "err" or "none"
  dat_r,        \* the word that comes with the answer to a read
  contents,     \* the words of the device
  read_only     \* it refuses writes

vars == <<cyc, adr, we, dat_w, rsp, dat_r, contents, read_only>>

Busy == cyc /\ rsp = "none"

(***************************************************************************)
(* The bus holds a request until the answer, or takes it back for at least *)
(* a cycle, in which its other lines show anything.                        *)
(***************************************************************************)

Withdraw == cyc' = FALSE

Hold == Busy /\ cyc' = TRUE /\ UNCHANGED <<adr, we>> /\ (we => UNCHANGED dat_w)

Request == ~Busy /\ cyc' = TRUE

Master == Withdraw \/ Hold \/ Request

(***************************************************************************)
(* The device answers a request that is on the bus, and once.              *)
(***************************************************************************)

Wait == rsp' = "none" /\ UNCHANGED contents

\* The word is right unless the request has left the bus.
Read ==
  /\ Busy /\ ~we /\ rsp' = "ack" /\ (dat_r' # contents[adr] => ~cyc')
  /\ UNCHANGED contents

Write ==
  /\ Busy /\ we /\ ~read_only /\ rsp' = "ack"
  /\ contents' = [contents EXCEPT ![adr] = Merge(contents[adr], dat_w)]

Refuse == Busy /\ we /\ read_only /\ rsp' = "err" /\ UNCHANGED contents

Device == (Wait \/ Read \/ Write \/ Refuse) /\ read_only' = read_only

Init == rsp = "none"

Next == Master /\ Device

Safety == Init /\ [][Next]_vars

\* A request that is kept is answered.
Served == []<>~Busy

=============================================================================
