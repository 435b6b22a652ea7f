-------------------------------- MODULE Flash -------------------------------
(***************************************************************************)
(* The flash controller (icicle/soc/flash.py) between a Wishbone master    *)
(* that may take its request back and a serial flash chip.  One step is    *)
(* one clock cycle: the controller does what its state says, the chip      *)
(* hears and drives its pins, and the master decides what it asks next.    *)
(*                                                                         *)
(* The pins are registered: what the controller drives in one cycle the    *)
(* chip hears in the next, and what the chip drives in one cycle the       *)
(* controller reads in the next.  The bits of the chip's contents are      *)
(* whatever Content gives for them; the controller only moves them.  An    *)
(* address is the function from its bits' numbers to its bits.             *)
(***************************************************************************)
EXTENDS Integers

CONSTANTS
  Adr,              \* the word addresses that the master uses
  PowerUpCycles,    \* the clock cycles that the chip takes to wake up
  PowerUpTimer,     \* all ones, as many as the number of these cycles has bits
  Content(_, _, _), \* a bit of a byte of the word at an address
  Floating          \* the level of a pin that nothing drives

Bit == {0, 1}

ASSUME FlashAssumption ==
  /\ Adr \subseteq [0 .. 21 -> Bit]
  /\ PowerUpCycles \in Nat \ {0}
  /\ PowerUpTimer \in Nat /\ PowerUpTimer >= PowerUpCycles - 1

VARIABLES
  state, buffer, n, power_up_timer, \* the controller
  ack, err, dat_r,                  \* what it shows on the bus
  cs, copi, i1,                     \* the pins, as the other side sees them
  heard, rx,                        \* how many bits the chip has heard since it was
                                    \*   selected, and the first 32 of them
  asleep, wake,                     \* the chip is in power-down, or leaves it in wake cycles
  cyc, adr, we                      \* the request

bus == <<cyc, adr, we>>
vars == <<state, buffer, n, power_up_timer, ack, err, dat_r, cs, copi, i1, heard, rx, asleep, wake, bus>>

(***************************************************************************)
(* The controller.                                                         *)
(***************************************************************************)

\* The last seven bits of the command that wakes the chip up: 2B.
WakeCommand == [i \in 0 .. 30 |-> IF i \in {24, 25, 27, 29} THEN 1 ELSE 0]

\* The command to read, 03, without its first bit, and the address.
ReadCommand ==
  [i \in 0 .. 30 |-> IF i \in 2 .. 23 THEN adr[i - 2] ELSE IF i \in {24, 25} THEN 1 ELSE 0]

Shift(bit) == [i \in 0 .. 30 |-> IF i = 0 THEN bit ELSE buffer[i - 1]]

WordReadBigEndian == [i \in 0 .. 31 |-> IF i = 0 THEN i1 ELSE buffer[i - 1]]

\* The first byte of the chip is the lowest of the word.
WordRead ==
  LET position(i) == 23 - 8 * (i \div 8) + (i % 8)
  IN  [i \in 0 .. 31 |-> IF position(i) < 0 THEN i1 ELSE buffer[position(i)]]

Drive(select, bit) == cs' = select /\ copi' = bit

Goto(s) == state' = s

Answer(a, e) == ack' = a /\ err' = e

Start ==
  /\ state = "START" /\ Goto("POWER_UP_FIRST")
  /\ Drive(FALSE, 0) /\ Answer(FALSE, FALSE)
  /\ UNCHANGED <<buffer, n, power_up_timer, dat_r>>

PowerUpFirst ==
  /\ state = "POWER_UP_FIRST" /\ Goto("POWER_UP")
  /\ Drive(TRUE, 1) /\ Answer(FALSE, FALSE)
  /\ buffer' = WakeCommand /\ n' = 7
  /\ UNCHANGED <<power_up_timer, dat_r>>

PowerUpTimerKept ==
  /\ state = "POWER_UP" /\ Answer(FALSE, FALSE) /\ UNCHANGED dat_r
  /\ \/ /\ n # 0 /\ UNCHANGED <<state, power_up_timer>>
        /\ Drive(TRUE, buffer[30]) /\ buffer' = Shift(0) /\ n' = n - 1
     \/ /\ n = 0 /\ Goto("WAIT_FOR_POWER_UP") /\ UNCHANGED <<buffer, n>>
        /\ Drive(FALSE, 0) /\ UNCHANGED power_up_timer

PowerUp ==
  /\ state = "POWER_UP" /\ Answer(FALSE, FALSE) /\ UNCHANGED dat_r
  /\ \/ /\ n # 0 /\ UNCHANGED <<state, power_up_timer>>
        /\ Drive(TRUE, buffer[30]) /\ buffer' = Shift(0) /\ n' = n - 1
     \/ /\ n = 0 /\ Goto("WAIT_FOR_POWER_UP") /\ UNCHANGED <<buffer, n>>
        /\ Drive(FALSE, 0) /\ power_up_timer' = PowerUpTimer

WaitForPowerUp ==
  /\ state = "WAIT_FOR_POWER_UP" /\ Drive(FALSE, 0) /\ Answer(FALSE, FALSE)
  /\ UNCHANGED <<buffer, n, dat_r>>
  /\ \/ power_up_timer # 0 /\ power_up_timer' = power_up_timer - 1 /\ UNCHANGED state
     \/ power_up_timer = 0 /\ Goto("IDLE") /\ UNCHANGED power_up_timer

IdleNoWrites ==
  /\ state = "IDLE" /\ UNCHANGED <<power_up_timer, dat_r>>
  /\ \/ /\ ~cyc \/ ack \/ err \/ we
        /\ Answer(FALSE, FALSE)
        /\ Drive(FALSE, 0) /\ UNCHANGED <<state, buffer, n>>
     \/ /\ cyc /\ ~ack /\ ~err /\ ~we /\ Goto("COMMAND") /\ Answer(FALSE, FALSE)
        /\ Drive(TRUE, 0) /\ buffer' = ReadCommand /\ n' = 31

IdleIgnoresAnswer ==
  /\ state = "IDLE" /\ UNCHANGED <<power_up_timer, dat_r>>
  /\ \/ /\ ~cyc \/ we
        /\ Answer(FALSE, cyc)
        /\ Drive(FALSE, 0) /\ UNCHANGED <<state, buffer, n>>
     \/ /\ cyc /\ ~we /\ Goto("COMMAND") /\ Answer(FALSE, FALSE)
        /\ Drive(TRUE, 0) /\ buffer' = ReadCommand /\ n' = 31

\* An answer is for one cycle, in which the request is not taken for a new one.
Idle ==
  /\ state = "IDLE" /\ UNCHANGED <<power_up_timer, dat_r>>
  /\ \/ /\ ~cyc \/ ack \/ err \/ we
        /\ Answer(FALSE, cyc /\ ~ack /\ ~err)
        /\ Drive(FALSE, 0) /\ UNCHANGED <<state, buffer, n>>
     \/ /\ cyc /\ ~ack /\ ~err /\ ~we /\ Goto("COMMAND") /\ Answer(FALSE, FALSE)
        /\ Drive(TRUE, 0) /\ buffer' = ReadCommand /\ n' = 31

AbortStillSelected ==
  /\ state \in {"COMMAND", "DATA_FIRST", "DATA"} /\ ~cyc /\ Goto("IDLE")
  /\ Drive(TRUE, 0) /\ Answer(FALSE, FALSE)
  /\ UNCHANGED <<buffer, n, power_up_timer, dat_r>>

\* The request has been withdrawn.
Abort ==
  /\ state \in {"COMMAND", "DATA_FIRST", "DATA"} /\ ~cyc /\ Goto("IDLE")
  /\ Drive(FALSE, 0) /\ Answer(FALSE, FALSE)
  /\ UNCHANGED <<buffer, n, power_up_timer, dat_r>>

Command ==
  /\ state = "COMMAND" /\ cyc /\ Answer(FALSE, FALSE)
  /\ UNCHANGED <<power_up_timer, dat_r>>
  /\ \/ /\ n # 0 /\ UNCHANGED state
        /\ Drive(TRUE, buffer[30]) /\ buffer' = Shift(0) /\ n' = n - 1
     \/ /\ n = 0 /\ Goto("DATA_FIRST")
        /\ Drive(TRUE, 0) /\ n' = 31 /\ UNCHANGED buffer

DataFirst ==
  /\ state = "DATA_FIRST" /\ cyc /\ Goto("DATA")
  /\ Drive(TRUE, 0) /\ Answer(FALSE, FALSE)
  /\ UNCHANGED <<buffer, n, power_up_timer, dat_r>>

Data ==
  /\ state = "DATA" /\ cyc /\ UNCHANGED power_up_timer
  /\ \/ /\ n # 0 /\ Drive(n # 1, 0) /\ Answer(FALSE, FALSE)
        /\ buffer' = Shift(i1) /\ n' = n - 1 /\ UNCHANGED <<state, dat_r>>
     \/ /\ n = 0 /\ Drive(FALSE, 0) /\ Answer(TRUE, FALSE)
        /\ dat_r' = WordRead /\ Goto("IDLE") /\ UNCHANGED <<buffer, n>>

Controller ==
  \/ Start \/ PowerUpFirst \/ PowerUp \/ WaitForPowerUp
  \/ Idle \/ Command \/ DataFirst \/ Data \/ Abort

(***************************************************************************)
(* The chip: release from power-down (AB) and read (03, a 24-bit address). *)
(***************************************************************************)

Heard(command) == \A k \in 0 .. 7 : rx[k] = command[k]

\* The commands that the chip knows, first bit first: AB and 03.
Release == [k \in 0 .. 7 |-> IF k \in {0, 2, 4, 6, 7} THEN 1 ELSE 0]

ReadOp == [k \in 0 .. 7 |-> IF k \in {6, 7} THEN 1 ELSE 0]

\* The bits k of the bytes that follow the one at the address, the highest
\* first.  The controller never reads on into the next word.
OutputBit(k) ==
  LET byte == 2 * rx[30] + rx[31] + k \div 8
  IN  IF byte < 4 THEN Content([i \in 0 .. 21 |-> rx[29 - i]], byte, 7 - (k % 8)) ELSE Floating

Cipo == IF cs /\ heard >= 32 /\ Heard(ReadOp) /\ ~asleep THEN OutputBit(heard - 32) ELSE Floating

Listening == cs /\ (asleep \/ wake = 0)

Chip ==
  /\ i1' = Cipo
  /\ heard' = IF Listening THEN heard + 1 ELSE 0
  /\ rx' = IF ~Listening THEN [k \in 0 .. 31 |-> 0]
           ELSE IF heard < 32 THEN [rx EXCEPT ![heard] = copi] ELSE rx
  /\ asleep' = (asleep /\ ~(~cs /\ heard = 8 /\ Heard(Release)))
  /\ wake' = IF asleep THEN PowerUpCycles ELSE IF wake > 0 THEN wake - 1 ELSE 0

(***************************************************************************)
(* The master is any that module Memory allows.                            *)
(***************************************************************************)

Word(a) == [i \in 0 .. 31 |-> Content(a, i \div 8, i % 8)]

Response == IF ack THEN "ack" ELSE IF err THEN "err" ELSE "none"

\* Of a write the flash sees that it is one.
Merge(old, data) == old

Bus == INSTANCE Memory WITH
  dat_w <- Floating, rsp <- Response, contents <- [a \in Adr |-> Word(a)], read_only <- TRUE

Master == Bus!Master /\ cyc' \in BOOLEAN /\ adr' \in Adr /\ we' \in BOOLEAN

Init ==
  /\ state = "START" /\ buffer = [i \in 0 .. 30 |-> 0] /\ n = 0 /\ power_up_timer = 0
  /\ ack = FALSE /\ err = FALSE /\ dat_r = [i \in 0 .. 31 |-> 0]
  /\ cs = FALSE /\ copi = 0 /\ i1 = Floating
  /\ heard = 0 /\ rx = [k \in 0 .. 31 |-> 0] /\ asleep \in BOOLEAN
  /\ wake = IF asleep THEN PowerUpCycles ELSE 0
  /\ cyc \in BOOLEAN /\ adr \in Adr /\ we \in BOOLEAN

Next == Controller /\ Chip /\ Master

\* The clock runs while a request is held; the master never has to give up.
Spec == Init /\ [][Next]_vars /\ WF_vars(Controller /\ Chip /\ Bus!Hold)

(***************************************************************************)
(* Properties.                                                             *)
(***************************************************************************)

(* An acknowledged word is the one at the address on the bus, its lowest   *)
(* byte the one at the lowest address, all bits of it in place, whatever   *)
(* was asked for and withdrawn before, and however the chip was found      *)
(* (flash.py 86, 119, 125).                                                *)
AcknowledgesItsWord == ack /\ cyc => dat_r = Word(adr)

(* The chip takes no part of a transfer, aborted ones included, for a      *)
(* command other than the two that change nothing in it; and the one to    *)
(* wake up it hears alone (flash.py 57-68, 92-112).                        *)
ChipHearsReadsOnly ==
  heard >= 8 => Heard(ReadOp) \/ (Heard(Release) /\ heard = 8)

(* The flash is a device as module Memory describes it, read-only: it      *)
(* answers the request on the bus, once, and refuses writes (flash.py      *)
(* 77-79).                                                                 *)
FlashIsAMemory == Bus!Safety

(* A master that keeps its request gets an answer (flash.py 77-89, 122).   *)
FlashAnswers == Bus!Served

(***************************************************************************)
(* The inductive invariant.                                                *)
(***************************************************************************)

Transfer == {"COMMAND", "DATA_FIRST", "DATA"}

TypeOK ==
  /\ state \in {"START", "POWER_UP_FIRST", "POWER_UP", "WAIT_FOR_POWER_UP", "IDLE"} \union Transfer
  /\ n \in 0 .. 31 /\ power_up_timer \in Nat /\ heard \in Nat /\ wake \in Nat
  /\ ack \in BOOLEAN /\ err \in BOOLEAN /\ cs \in BOOLEAN /\ asleep \in BOOLEAN
  /\ DOMAIN buffer = 0 .. 30 /\ DOMAIN rx = 0 .. 31
  /\ cyc \in BOOLEAN /\ adr \in Adr /\ we \in BOOLEAN

\* The bits k of the command to read the word at the address on the bus, and
\* of that word, as they go over the pins.
CommandBit(k) == IF k < 8 THEN ReadOp[k] ELSE IF k < 30 THEN adr[29 - k] ELSE 0

DataBit(k) == Content(adr, k \div 8, 7 - (k % 8))

\* An answer is a cycle of IDLE, and the word it comes with is right.
Answered ==
  /\ ack \/ err => state = "IDLE"
  /\ ~(ack /\ err)
  /\ AcknowledgesItsWord

\* The command to wake up is on its way, and the chip can hear it.
WakingUp ==
  /\ state \in {"START", "POWER_UP_FIRST", "POWER_UP"} => wake = IF asleep THEN PowerUpCycles ELSE 0
  /\ state \in {"START", "POWER_UP_FIRST"} => ~cs /\ heard = 0
  /\ state = "POWER_UP" =>
       /\ n <= 7 /\ cs /\ heard = 7 - n /\ copi = Release[heard]
       /\ \A i \in 24 .. 30 : i >= 31 - n => buffer[i] = Release[31 - i + 7 - n]
       /\ \A k \in 0 .. 7 : k < heard => rx[k] = Release[k]

\* The chip wakes up before the controller has done with waiting.
Waiting ==
  state = "WAIT_FOR_POWER_UP" =>
    /\ ~cs
    /\ \/ /\ power_up_timer = PowerUpTimer
          /\ heard = 8 /\ Heard(Release) /\ wake = IF asleep THEN PowerUpCycles ELSE 0
       \/ heard = 0 /\ ~asleep /\ wake <= power_up_timer + 2

\* The chip is awake, and whatever it hears begins with the command to read.
Reading ==
  state \in {"IDLE"} \union Transfer =>
    /\ ~asleep /\ wake <= 1 /\ (wake = 1 => state = "IDLE" /\ heard = 0)
    /\ state = "IDLE" => ~cs
    /\ \A k \in 0 .. 7 : k < heard => rx[k] = ReadOp[k]

\* The transfer counts with the pins, and the request is a read.
Counting ==
  /\ state = "COMMAND" => cs /\ heard = 31 - n /\ (heard < 8 => copi = ReadOp[heard])
  /\ state = "COMMAND" => \A i \in 24 .. 30 : i >= 31 - n + 24 => buffer[i] = ReadOp[31 - i + 31 - n]
  /\ state = "DATA_FIRST" => cs /\ heard = 32 /\ n = 31
  /\ state = "DATA" => heard = 64 - n /\ (cs <=> n # 0)
  /\ state \in Transfer /\ cyc => ~we

\* The chip has heard the address on the bus, the controller the bits of the word.
Transferred ==
  cyc =>
    /\ state \in Transfer => \A k \in 0 .. 31 : k < heard => rx[k] = CommandBit(k)
    /\ state = "COMMAND" =>
         /\ copi = CommandBit(heard)
         /\ \A i \in 0 .. 30 : i >= 31 - n => buffer[i] = CommandBit(62 - i - n)
    /\ state = "DATA" =>
         /\ i1 = DataBit(31 - n)
         /\ \A i \in 0 .. 30 : i <= 30 - n => buffer[i] = DataBit(30 - n - i)

(* Wherever in a transfer the controller is, the pins and the chip are     *)
(* too: the number of bits heard and still to come add up, and the bits on *)
(* their way are those of the command and of the word (flash.py 43-129).   *)
FInv == TypeOK /\ Answered /\ WakingUp /\ Waiting /\ Reading /\ Counting /\ Transferred

=============================================================================
