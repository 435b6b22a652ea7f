----------------------------- MODULE FlashProofs ----------------------------
(***************************************************************************)
(* Proofs about module Flash, for every set of addresses, contents, time   *)
(* the chip takes to wake up, and timer that is long enough.               *)
(***************************************************************************)
EXTENDS Flash, TLAPS

LEMMA InitInv == Init => FInv
<1> SUFFICES ASSUME Init PROVE FInv
  OBVIOUS
<1>1. TypeOK
  <2>1. wake \in Nat
    BY FlashAssumption DEF Init
  <2>2. DOMAIN buffer = 0 .. 30 /\ DOMAIN rx = 0 .. 31
    BY DEF Init
  <2>3. state \in {"START"} /\ n \in 0 .. 31 /\ power_up_timer \in Nat /\ heard \in Nat
    BY DEF Init
  <2>4. /\ ack \in BOOLEAN /\ err \in BOOLEAN /\ cs \in BOOLEAN /\ asleep \in BOOLEAN
        /\ cyc \in BOOLEAN /\ adr \in Adr /\ we \in BOOLEAN
    BY DEF Init
  <2> QED
    BY <2>1, <2>2, <2>3, <2>4 DEF TypeOK
<1>2. Answered /\ WakingUp /\ Waiting /\ Reading /\ Counting /\ Transferred
  BY DEF Init, Answered, AcknowledgesItsWord, WakingUp, Waiting, Reading, Counting,
         Transferred, Transfer
<1> QED
  BY <1>1, <1>2 DEF FInv

LEMMA StutterInv == FInv /\ UNCHANGED vars => FInv'
<1> SUFFICES ASSUME FInv, UNCHANGED vars PROVE FInv'
  OBVIOUS
<1> USE DEF vars, bus
<1>1. TypeOK' /\ Counting'
  BY DEF FInv, TypeOK, Counting
<1>2. Answered'
  BY DEF FInv, Answered, AcknowledgesItsWord, Word
<1>3. WakingUp' /\ Waiting' /\ Reading'
  BY DEF FInv, WakingUp, Waiting, Reading, Heard
<1>4. Transferred'
  BY DEF FInv, Transferred, CommandBit, DataBit
<1> QED
  BY <1>1, <1>2, <1>3, <1>4 DEF FInv

LEMMA TypeNext == FInv /\ Next => TypeOK'
<1> SUFFICES ASSUME FInv, Next PROVE TypeOK'
  OBVIOUS
<1>0. TypeOK /\ Chip /\ Master /\ Controller
  BY DEF FInv, Next
<1>1. heard' \in Nat /\ wake' \in Nat /\ asleep' \in BOOLEAN /\ DOMAIN rx' = 0 .. 31
  BY <1>0, FlashAssumption DEF TypeOK, Chip
<1>2. cyc' \in BOOLEAN /\ adr' \in Adr /\ we' \in BOOLEAN
  BY <1>0 DEF Master
<1> USE DEF Controller, Start, PowerUpFirst, PowerUp, WaitForPowerUp, Idle, Command,
            DataFirst, Data, Abort, Goto, Drive, Answer, Shift
<1>3. /\ state' \in {"START", "POWER_UP_FIRST", "POWER_UP", "WAIT_FOR_POWER_UP", "IDLE"}
                      \union Transfer
      /\ n' \in 0 .. 31 /\ power_up_timer' \in Nat
  BY <1>0, FlashAssumption DEF TypeOK, Transfer
<1>4. ack' \in BOOLEAN /\ err' \in BOOLEAN /\ cs' \in BOOLEAN
  BY <1>0 DEF TypeOK
<1>5. DOMAIN buffer' = 0 .. 30
  BY <1>0 DEF TypeOK, WakeCommand, ReadCommand
<1> QED
  BY <1>1, <1>2, <1>3, <1>4, <1>5 DEF TypeOK

\* A transfer is for the request on the bus, until that is withdrawn.
LEMMA RequestKept ==
  ASSUME FInv, Next, cyc', state' \in Transfer \/ (state \in Transfer /\ cyc)
  PROVE  cyc /\ adr' = adr /\ ~we /\ ~we'
<1>0. TypeOK /\ Answered /\ Counting /\ Controller /\ Master
  BY DEF FInv, Next
<1> USE DEF Transfer, Master, Bus!Master, Bus!Withdraw, Bus!Hold, Bus!Request, Bus!Busy, Response
<1>1. CASE state \in Transfer /\ cyc
  BY <1>0, <1>1 DEF Answered, Counting
<1>2. CASE ~(state \in Transfer /\ cyc)
  <2>1. cyc /\ ~ack /\ ~err /\ ~we
    BY <1>0, <1>2
    DEF Controller, Start, PowerUpFirst, PowerUp, WaitForPowerUp, Idle, Command,
        DataFirst, Data, Abort, Goto, Drive, Answer, Shift
  <2> QED
    BY <1>0, <2>1
<1> QED
  BY <1>1, <1>2

\* The bits of the transfer, put in their places, are the word.
LEMMA WordIsRead ==
  ASSUME i1 = DataBit(31), \A i \in 0 .. 30 : buffer[i] = DataBit(30 - i)
  PROVE  WordRead = Word(adr)
<1> DEFINE position(i) == 23 - 8 * (i \div 8) + (i % 8)
           bit(i) == IF position(i) < 0 THEN i1 ELSE buffer[position(i)]
<1> SUFFICES ASSUME NEW i \in 0 .. 31 PROVE bit(i) = Content(adr, i \div 8, i % 8)
  BY DEF WordRead, Word
<1>1. PICK q \in 0 .. 3, r \in 0 .. 7 : i = 8 * q + r /\ q = i \div 8 /\ r = i % 8
  BY SMT
<1>2. position(i) = 23 - 8 * q + r
  BY <1>1
<1>3. CASE position(i) < 0
  <2>1. q = 3 /\ r = 0
    BY <1>2, <1>3
  <2>2. DataBit(31) = Content(adr, 3, 0)
    BY DEF DataBit
  <2> QED
    BY <1>1, <1>3, <2>1, <2>2
<1>4. CASE position(i) >= 0
  <2>1. position(i) \in 0 .. 30 /\ 30 - position(i) = 8 * q + (7 - r)
    BY <1>2, <1>4
  <2>2. (8 * q + (7 - r)) \div 8 = q /\ (8 * q + (7 - r)) % 8 = 7 - r
    BY SMT
  <2>3. DataBit(30 - position(i)) = Content(adr, q, 7 - (7 - r))
    BY <2>1, <2>2 DEF DataBit
  <2>4. 7 - (7 - r) = r
    OBVIOUS
  <2> QED
    BY <1>1, <1>2, <1>4, <2>1, <2>3, <2>4
<1> QED
  BY <1>2, <1>3, <1>4

LEMMA AnsweredNext == FInv /\ Next => Answered'
<1> SUFFICES ASSUME FInv, Next PROVE Answered'
  OBVIOUS
<1>0. TypeOK /\ Answered /\ Transferred /\ Controller
  BY DEF FInv, Next
<1>1. (ack' \/ err' => state' = "IDLE") /\ ~(ack' /\ err')
  BY <1>0 DEF TypeOK, Controller, Start, PowerUpFirst, PowerUp, WaitForPowerUp, Idle, Command,
              DataFirst, Data, Abort, Goto, Drive, Answer, Shift
<1>2. ASSUME ack', cyc' PROVE dat_r' = Word(adr')
  <2>1. state = "DATA" /\ cyc /\ n = 0 /\ dat_r' = WordRead
    BY <1>0, <1>2
    DEF Controller, Start, PowerUpFirst, PowerUp, WaitForPowerUp, Idle, Command,
        DataFirst, Data, Abort, Goto, Drive, Answer, Shift
  <2>2. adr' = adr
    BY <1>2, <2>1, RequestKept DEF Transfer
  <2>3. i1 = DataBit(31) /\ \A i \in 0 .. 30 : buffer[i] = DataBit(30 - i)
    BY <1>0, <2>1 DEF Transferred
  <2> QED
    BY <2>1, <2>2, <2>3, WordIsRead DEF Word
<1> QED
  BY <1>1, <1>2 DEF Answered, AcknowledgesItsWord

\* What the chip does while it hears.
LEMMA ChipHears ==
  ASSUME TypeOK, Chip, cs, asleep \/ wake = 0
  PROVE  /\ heard' = heard + 1
         /\ \A k \in 0 .. 31 : k < heard => rx'[k] = rx[k]
         /\ heard < 32 => rx'[heard] = copi
         /\ asleep' = asleep /\ wake' = IF asleep THEN PowerUpCycles ELSE 0
<1>1. Listening
  BY DEF Listening
<1> QED
  BY <1>1, FlashAssumption DEF TypeOK, Chip

\* And what while it is not selected.
LEMMA ChipRests ==
  ASSUME TypeOK, Chip, ~cs
  PROVE  heard' = 0 /\ asleep' = (asleep /\ ~(heard = 8 /\ Heard(Release)))
BY DEF TypeOK, Chip, Listening

LEMMA WakingUpNext == FInv /\ Next => WakingUp'
<1> SUFFICES ASSUME FInv, Next PROVE WakingUp'
  OBVIOUS
<1>0. TypeOK /\ WakingUp /\ Chip /\ Controller
  BY DEF FInv, Next
<1> USE DEF Goto, Drive, Answer, Shift
<1>1. CASE Start
  <2>1. state' = "POWER_UP_FIRST" /\ ~cs' /\ heard = 0 /\ ~cs /\ wake = IF asleep THEN PowerUpCycles ELSE 0
    BY <1>0, <1>1 DEF Start, WakingUp
  <2>2. heard' = 0 /\ asleep' = asleep
    BY <1>0, <2>1, ChipRests DEF TypeOK
  <2>3. wake' = IF asleep' THEN PowerUpCycles ELSE 0
    BY <1>0, <2>1, <2>2 DEF Chip, TypeOK
  <2> QED
    BY <2>1, <2>2, <2>3 DEF WakingUp
<1>2. CASE PowerUpFirst
  <2>1. /\ state' = "POWER_UP" /\ n' = 7 /\ buffer' = WakeCommand /\ cs' /\ copi' = 1
        /\ heard = 0 /\ ~cs /\ wake = IF asleep THEN PowerUpCycles ELSE 0
    BY <1>0, <1>2 DEF PowerUpFirst, WakingUp
  <2>2. heard' = 0 /\ asleep' = asleep
    BY <1>0, <2>1, ChipRests DEF TypeOK
  <2>3. wake' = IF asleep' THEN PowerUpCycles ELSE 0
    BY <1>0, <2>1, <2>2 DEF Chip, TypeOK
  <2>4. \A i \in 24 .. 30 : buffer'[i] = Release[31 - i]
    BY <2>1 DEF WakeCommand, Release
  <2>5. copi' = Release[0]
    BY <2>1 DEF Release
  <2> QED
    BY <2>1, <2>2, <2>3, <2>4, <2>5 DEF WakingUp
<1>3. CASE PowerUp
  <2> SUFFICES ASSUME n # 0 PROVE WakingUp'
    BY <1>3 DEF PowerUp, WakingUp
  <2>1. /\ state' = "POWER_UP" /\ n' = n - 1 /\ cs' /\ copi' = buffer[30]
        /\ \A i \in 1 .. 30 : buffer'[i] = buffer[i - 1]
    BY <1>3 DEF PowerUp
  <2>2. /\ n \in 1 .. 7 /\ cs /\ heard = 7 - n /\ copi = Release[heard]
        /\ wake = IF asleep THEN PowerUpCycles ELSE 0
        /\ \A i \in 24 .. 30 : i >= 31 - n => buffer[i] = Release[31 - i + 7 - n]
        /\ \A k \in 0 .. 7 : k < heard => rx[k] = Release[k]
    BY <1>0, <1>3 DEF PowerUp, WakingUp, TypeOK
  <2>3. /\ heard' = heard + 1 /\ asleep' = asleep /\ wake' = IF asleep THEN PowerUpCycles ELSE 0
        /\ rx'[heard] = copi /\ \A k \in 0 .. 7 : k < heard => rx'[k] = rx[k]
    BY <1>0, <2>2, ChipHears
  <2>4. \A k \in 0 .. 7 : k < heard' => rx'[k] = Release[k]
    BY <2>2, <2>3
  <2>5. copi' = Release[heard']
    BY <2>1, <2>2, <2>3
  <2>6. \A i \in 24 .. 30 : i >= 31 - n' => buffer'[i] = Release[31 - i + 7 - n']
    BY <2>1, <2>2
  <2> QED
    BY <2>1, <2>2, <2>3, <2>4, <2>5, <2>6 DEF WakingUp
<1>4. CASE WaitForPowerUp \/ Idle \/ Command \/ DataFirst \/ Data \/ Abort
  BY <1>4 DEF WaitForPowerUp, Idle, Command, DataFirst, Data, Abort, WakingUp
<1> QED
  BY <1>0, <1>1, <1>2, <1>3, <1>4 DEF Controller

LEMMA WaitingNext == FInv /\ Next => Waiting'
<1> SUFFICES ASSUME FInv, Next, state' = "WAIT_FOR_POWER_UP" PROVE Waiting'
  BY DEF Waiting
<1>0. TypeOK /\ WakingUp /\ Waiting /\ Chip /\ Controller
  BY DEF FInv, Next
<1>1. PowerUp \/ WaitForPowerUp
  BY <1>0
  DEF Controller, Start, PowerUpFirst, PowerUp, WaitForPowerUp, Idle, Command, DataFirst,
      Data, Abort, Goto, Drive, Answer, Shift
<1> USE DEF Goto, Drive, Answer, Shift
<1>2. CASE PowerUp
  <2>1. n = 0 /\ ~cs' /\ power_up_timer' = PowerUpTimer /\ state = "POWER_UP"
    BY <1>2 DEF PowerUp
  <2>2. /\ cs /\ heard = 7 /\ copi = Release[7] /\ wake = IF asleep THEN PowerUpCycles ELSE 0
        /\ \A k \in 0 .. 6 : rx[k] = Release[k]
    BY <1>0, <2>1 DEF WakingUp
  <2>3. /\ heard' = 8 /\ asleep' = asleep /\ wake' = IF asleep THEN PowerUpCycles ELSE 0
        /\ rx'[7] = copi /\ \A k \in 0 .. 6 : rx'[k] = rx[k]
    BY <1>0, <2>2, ChipHears
  <2>4. Heard(Release)'
    BY <2>2, <2>3 DEF Heard, Release
  <2> QED
    BY <2>1, <2>3, <2>4 DEF Waiting
<1>3. CASE WaitForPowerUp
  <2>1. /\ state = "WAIT_FOR_POWER_UP" /\ ~cs'
        /\ power_up_timer # 0 /\ power_up_timer' = power_up_timer - 1
    BY <1>3 DEF WaitForPowerUp
  <2>2. ~cs /\ heard' = 0
    BY <1>0, <2>1, ChipRests DEF Waiting
  <2>3. CASE power_up_timer = PowerUpTimer /\ heard = 8 /\ Heard(Release) /\ wake = IF asleep THEN PowerUpCycles ELSE 0
    <3>1. ~asleep'
      BY <1>0, <2>2, <2>3, ChipRests
    <3>2. wake' <= PowerUpCycles
      BY <1>0, <2>3, FlashAssumption DEF Chip, TypeOK
    <3> QED
      BY <1>0, <2>1, <2>2, <2>3, <3>1, <3>2, FlashAssumption, TypeNext DEF Waiting, TypeOK
  <2>4. CASE heard = 0 /\ ~asleep /\ wake <= power_up_timer + 2
    <3>1. ~asleep' /\ wake' <= power_up_timer' + 2
      BY <1>0, <2>1, <2>4 DEF Chip, TypeOK
    <3> QED
      BY <2>1, <2>2, <3>1 DEF Waiting
  <2> QED
    BY <1>0, <2>1, <2>3, <2>4 DEF Waiting
<1> QED
  BY <1>1, <1>2, <1>3

\* In a transfer the chip hears as long as it is selected.
LEMMA TransferHeard ==
  ASSUME FInv, Next, state \in Transfer, cs
  PROVE  /\ heard' = heard + 1 /\ ~asleep' /\ wake' = 0
         /\ \A k \in 0 .. 31 : k < heard => rx'[k] = rx[k]
         /\ heard < 32 => rx'[heard] = copi
<1>1. TypeOK /\ Chip /\ ~asleep /\ wake = 0
  <2>1. TypeOK /\ Reading /\ Chip
    BY DEF FInv, Next
  <2> QED
    BY <2>1 DEF Reading, Transfer, TypeOK
<1> QED
  BY <1>1, ChipHears

\* Within a transfer, Counting says when the chip is selected.
LEMMA Selected ==
  ASSUME FInv, state \in Transfer
  PROVE  cs <=> ~(state = "DATA" /\ n = 0)
BY DEF FInv, Counting, Transfer, TypeOK

LEMMA ReadingNext == FInv /\ Next => Reading'
<1> SUFFICES ASSUME FInv, Next, state' \in {"IDLE"} \union Transfer PROVE Reading'
  BY DEF Reading
<1>0. TypeOK /\ WakingUp /\ Waiting /\ Reading /\ Counting /\ Chip /\ Controller
  BY DEF FInv, Next
<1> USE DEF Goto, Drive, Answer, Shift
<1>1. CASE state \in Transfer
  <2>1. state' = "IDLE" => ~cs'
    BY <1>0, <1>1
    DEF Controller, Start, PowerUpFirst, PowerUp, WaitForPowerUp, Idle, Command, DataFirst,
        Data, Abort, Transfer
  <2>2. CASE cs
    <3>1. heard < 8 => copi = ReadOp[heard]
      BY <1>0, <1>1 DEF Counting, Transfer, TypeOK
    <3>2. \A k \in 0 .. 7 : k < heard' => rx'[k] = ReadOp[k]
      BY <1>0, <1>1, <2>2, <3>1, TransferHeard DEF Reading, TypeOK
    <3> QED
      BY <1>1, <2>1, <2>2, <3>2, TransferHeard DEF Reading
  <2>3. CASE ~cs
    <3>1. heard' = 0 /\ ~asleep' /\ wake' = 0
      BY <1>0, <1>1, <2>3, ChipRests DEF Reading, Transfer, Chip, TypeOK
    <3> QED
      BY <2>1, <3>1 DEF Reading
  <2> QED
    BY <2>2, <2>3
<1>2. CASE state \notin Transfer
  <2>1. WaitForPowerUp \/ Idle
    BY <1>0, <1>2
    DEF Controller, Start, PowerUpFirst, PowerUp, WaitForPowerUp, Idle, Command, DataFirst,
        Data, Abort, Transfer
  <2>2. CASE Idle
    <3>1. state = "IDLE" /\ (state' = "IDLE" => ~cs')
      BY <2>2 DEF Idle
    <3>2. ~cs /\ ~asleep /\ wake <= 1
      BY <1>0, <3>1 DEF Reading
    <3>3. heard' = 0 /\ ~asleep' /\ wake' = 0
      BY <1>0, <3>2, ChipRests DEF Chip, TypeOK
    <3> QED
      BY <3>1, <3>3 DEF Reading
  <2>3. CASE WaitForPowerUp
    <3>1. state = "WAIT_FOR_POWER_UP" /\ power_up_timer = 0 /\ state' = "IDLE" /\ ~cs'
      BY <2>3 DEF WaitForPowerUp, Transfer
    <3>2. ~cs /\ heard' = 0
      BY <1>0, <3>1, ChipRests DEF Waiting
    <3>3. ~asleep' /\ wake' <= 1
      <4>1. CASE power_up_timer = PowerUpTimer /\ heard = 8 /\ Heard(Release)
                 /\ wake = IF asleep THEN PowerUpCycles ELSE 0
        <5>1. ~asleep'
          BY <1>0, <3>2, <4>1, ChipRests
        <5>2. wake' <= PowerUpCycles /\ PowerUpCycles <= 1
          BY <1>0, <3>1, <4>1, FlashAssumption DEF Chip, TypeOK
        <5> QED
          BY <1>0, <5>1, <5>2, FlashAssumption, TypeNext DEF TypeOK
      <4>2. CASE heard = 0 /\ ~asleep /\ wake <= power_up_timer + 2
        BY <1>0, <3>1, <4>2 DEF Chip, TypeOK
      <4> QED
        BY <1>0, <3>1, <4>1, <4>2 DEF Waiting
    <3> QED
      BY <3>1, <3>2, <3>3 DEF Reading
  <2> QED
    BY <2>1, <2>2, <2>3
<1> QED
  BY <1>1, <1>2

LEMMA CountingNext == FInv /\ Next => Counting'
<1> SUFFICES ASSUME FInv, Next PROVE Counting'
  OBVIOUS
<1>0. TypeOK /\ Reading /\ Counting /\ Chip /\ Controller
  BY DEF FInv, Next
<1> USE DEF Goto, Drive, Answer, Shift
<1>1. state' \in Transfer /\ cyc' => ~we'
  BY RequestKept
<1>2. CASE state' \notin Transfer
  BY <1>2 DEF Counting, Transfer
<1>3. CASE state = "IDLE" /\ state' \in Transfer
  <2>1. /\ state' = "COMMAND" /\ cs' /\ copi' = 0 /\ n' = 31 /\ buffer' = ReadCommand
    BY <1>0, <1>3
    DEF Controller, Start, PowerUpFirst, PowerUp, WaitForPowerUp, Idle, Command, DataFirst,
        Data, Abort, Transfer
  <2>2. heard' = 0
    BY <1>0, <1>3, ChipRests DEF Reading
  <2>3. copi' = ReadOp[0] /\ \A i \in 24 .. 30 : buffer'[i] = ReadOp[31 - i]
    BY <2>1 DEF ReadOp, ReadCommand
  <2> QED
    BY <1>1, <2>1, <2>2, <2>3 DEF Counting
<1>4. CASE Command /\ state' \in Transfer
  <2>1. state = "COMMAND" /\ cs /\ heard = 31 - n
    BY <1>0, <1>4 DEF Command, Counting
  <2>2. heard' = heard + 1
    BY <2>1, TransferHeard DEF Transfer
  <2>3. CASE n = 0
    <3>1. state' = "DATA_FIRST" /\ cs' /\ n' = 31
      BY <1>4, <2>3 DEF Command
    <3> QED
      BY <1>1, <2>1, <2>2, <2>3, <3>1 DEF Counting
  <2>4. CASE n # 0
    <3>1. /\ state' = "COMMAND" /\ cs' /\ n' = n - 1 /\ copi' = buffer[30]
          /\ \A i \in 1 .. 30 : buffer'[i] = buffer[i - 1]
      BY <1>4, <2>1, <2>4 DEF Command
    <3>2. \A i \in 24 .. 30 : i >= 31 - n + 24 => buffer[i] = ReadOp[31 - i + 31 - n]
      BY <1>0, <2>1 DEF Counting
    <3>3. n \in 1 .. 31
      BY <1>0, <2>4 DEF TypeOK
    <3>4. heard' < 8 => copi' = ReadOp[heard']
      BY <2>1, <2>2, <3>1, <3>2, <3>3
    <3>5. \A i \in 24 .. 30 : i >= 31 - n' + 24 => buffer'[i] = ReadOp[31 - i + 31 - n']
      BY <3>1, <3>2, <3>3
    <3> QED
      BY <1>1, <2>1, <2>2, <3>1, <3>3, <3>4, <3>5 DEF Counting
  <2> QED
    BY <2>3, <2>4
<1>5. CASE DataFirst
  <2>1. state = "DATA_FIRST" /\ state' = "DATA" /\ cs' /\ n' = 31 /\ cs /\ heard = 32
    BY <1>0, <1>5 DEF DataFirst, Counting
  <2>2. heard' = 33
    BY <2>1, TransferHeard DEF Transfer
  <2> QED
    BY <1>1, <2>1, <2>2 DEF Counting
<1>6. CASE Data /\ state' \in Transfer
  <2>1. /\ state = "DATA" /\ state' = "DATA" /\ n # 0 /\ n' = n - 1 /\ cs /\ heard = 64 - n
        /\ (cs' <=> n # 1)
    BY <1>0, <1>6 DEF Data, Counting, Transfer
  <2>2. heard' = heard + 1
    BY <2>1, TransferHeard DEF Transfer
  <2>3. n \in 1 .. 31
    BY <1>0, <2>1 DEF TypeOK
  <2> QED
    BY <1>1, <2>1, <2>2, <2>3 DEF Counting
<1>7. CASE Start \/ PowerUpFirst \/ PowerUp \/ WaitForPowerUp \/ Abort
  BY <1>2, <1>7 DEF Start, PowerUpFirst, PowerUp, WaitForPowerUp, Abort, Transfer
<1>8. CASE Idle
  BY <1>2, <1>3, <1>8 DEF Idle, Transfer
<1> QED
  BY <1>0, <1>2, <1>4, <1>5, <1>6, <1>7, <1>8 DEF Controller

\* What the chip puts on its pin once it has heard the whole command.
LEMMA BitSent ==
  ASSUME TypeOK, cs, ~asleep, heard \in 32 .. 63,
         \A k \in 0 .. 31 : rx[k] = CommandBit(k)
  PROVE  Cipo = DataBit(heard - 32)
<1>1. Heard(ReadOp)
  BY DEF Heard, CommandBit
<1>2. [i \in 0 .. 21 |-> rx[29 - i]] = adr
  <2>1. adr \in [0 .. 21 -> Bit]
    BY FlashAssumption DEF TypeOK
  <2>2. \A i \in 0 .. 21 : rx[29 - i] = adr[i]
    BY DEF CommandBit
  <2> QED
    BY <2>1, <2>2
<1>3. rx[30] = 0 /\ rx[31] = 0
  BY DEF CommandBit
<1>4. (heard - 32) \div 8 \in 0 .. 3
  BY SMT
<1>5. OutputBit(heard - 32) = DataBit(heard - 32)
  BY <1>2, <1>3, <1>4 DEF OutputBit, DataBit
<1> QED
  BY <1>1, <1>5 DEF Cipo

LEMMA TransferredNext == FInv /\ Next => Transferred'
<1> SUFFICES ASSUME FInv, Next, cyc', state' \in Transfer PROVE Transferred'
  BY DEF Transferred, Transfer
<1>0. TypeOK /\ Reading /\ Counting /\ Transferred /\ Chip /\ Controller
  BY DEF FInv, Next
<1>1. cyc /\ adr' = adr
  BY RequestKept
<1>2. \A k : CommandBit(k)' = CommandBit(k) /\ DataBit(k)' = DataBit(k)
  BY <1>1 DEF CommandBit, DataBit
<1> USE DEF Goto, Drive, Answer, Shift
<1>3. ASSUME state \in Transfer, cs, heard < 32 => copi = CommandBit(heard)
      PROVE  \A k \in 0 .. 31 : k < heard' => rx'[k] = CommandBit(k)
  BY <1>0, <1>1, <1>3, TransferHeard DEF Transferred, TypeOK
<1>4. CASE Idle
  <2>1. /\ state = "IDLE" /\ state' = "COMMAND" /\ copi' = 0 /\ n' = 31
        /\ buffer' = ReadCommand
    BY <1>4 DEF Idle, Transfer
  <2>2. heard' = 0
    BY <1>0, <2>1, ChipRests DEF Reading
  <2>3. copi' = CommandBit(0)
    BY <2>1 DEF CommandBit, ReadOp
  <2>4. \A i \in 0 .. 30 : buffer'[i] = CommandBit(31 - i)
    BY <2>1 DEF ReadCommand, CommandBit, ReadOp
  <2> QED
    BY <1>2, <2>1, <2>2, <2>3, <2>4 DEF Transferred, Transfer
<1>5. CASE Command
  <2>1. /\ state = "COMMAND" /\ cs /\ heard = 31 - n /\ copi = CommandBit(heard)
        /\ \A i \in 0 .. 30 : i >= 31 - n => buffer[i] = CommandBit(62 - i - n)
    BY <1>0, <1>1, <1>5 DEF Command, Counting, Transferred
  <2>2. heard' = heard + 1 /\ \A k \in 0 .. 31 : k < heard' => rx'[k] = CommandBit(k)
    BY <1>3, <2>1, TransferHeard DEF Transfer
  <2>3. CASE n = 0
    <3>1. state' = "DATA_FIRST"
      BY <1>5, <2>3 DEF Command
    <3> QED
      BY <1>2, <2>2, <3>1 DEF Transferred
  <2>4. CASE n # 0
    <3>1. /\ state' = "COMMAND" /\ n' = n - 1 /\ copi' = buffer[30]
          /\ \A i \in 1 .. 30 : buffer'[i] = buffer[i - 1]
      BY <1>5, <2>1, <2>4 DEF Command
    <3>2. n \in 1 .. 31
      BY <1>0, <2>4 DEF TypeOK
    <3>3. copi' = CommandBit(heard')
      BY <2>1, <2>2, <3>1, <3>2
    <3>4. \A i \in 0 .. 30 : i >= 31 - n' => buffer'[i] = CommandBit(62 - i - n')
      BY <2>1, <3>1, <3>2
    <3> QED
      BY <1>2, <2>2, <3>1, <3>3, <3>4 DEF Transferred
  <2> QED
    BY <2>3, <2>4
<1>6. CASE DataFirst
  <2>1. state = "DATA_FIRST" /\ state' = "DATA" /\ n' = 31 /\ cs /\ heard = 32 /\ ~asleep
    BY <1>0, <1>6 DEF DataFirst, Counting, Reading, Transfer
  <2>2. \A k \in 0 .. 31 : k < heard' => rx'[k] = CommandBit(k)
    BY <1>3, <2>1 DEF Transfer
  <2>3. i1' = DataBit(0)
    BY <1>0, <1>1, <2>1, BitSent DEF Transferred, Transfer, Chip
  <2> QED
    BY <1>2, <2>1, <2>2, <2>3 DEF Transferred
<1>7. CASE Data
  <2>1. /\ state = "DATA" /\ state' = "DATA" /\ n # 0 /\ n' = n - 1
        /\ buffer' = [i \in 0 .. 30 |-> IF i = 0 THEN i1 ELSE buffer[i - 1]]
    BY <1>7 DEF Data, Transfer
  <2>2. cs /\ heard = 64 - n /\ n \in 1 .. 31 /\ ~asleep
    BY <1>0, <2>1 DEF Counting, Reading, Transfer, TypeOK
  <2>3. \A k \in 0 .. 31 : k < heard' => rx'[k] = CommandBit(k)
    BY <1>3, <2>1, <2>2 DEF Transfer
  <2>4. i1' = DataBit(31 - n')
    <3>1. \A k \in 0 .. 31 : rx[k] = CommandBit(k)
      BY <1>0, <1>1, <2>1, <2>2 DEF Transferred, Transfer
    <3>2. Cipo = DataBit(heard - 32)
      BY <1>0, <2>2, <3>1, BitSent
    <3>3. heard - 32 = 31 - n'
      BY <2>1, <2>2
    <3> QED
      BY <1>0, <3>2, <3>3 DEF Chip
  <2>5. \A i \in 0 .. 30 : i <= 30 - n' => buffer'[i] = DataBit(30 - n' - i)
    <3>1. i1 = DataBit(31 - n) /\ \A i \in 0 .. 30 : i <= 30 - n => buffer[i] = DataBit(30 - n - i)
      BY <1>0, <1>1, <2>1 DEF Transferred
    <3> SUFFICES ASSUME NEW i \in 0 .. 30, i <= 30 - n'
                 PROVE  buffer'[i] = DataBit(30 - n' - i)
      OBVIOUS
    <3>2. CASE i = 0
      <4>1. 30 - n' - i = 31 - n
        BY <2>1, <2>2, <3>2
      <4> QED
        BY <2>1, <3>1, <3>2, <4>1
    <3>3. CASE i # 0
      <4>1. i - 1 \in 0 .. 30 /\ i - 1 <= 30 - n /\ 30 - n' - i = 30 - n - (i - 1)
        BY <2>1, <2>2, <3>3
      <4> QED
        BY <2>1, <3>1, <3>3, <4>1
    <3> QED
      BY <3>2, <3>3
  <2> QED
    BY <1>2, <2>1, <2>3, <2>4, <2>5 DEF Transferred
<1>8. CASE Start \/ PowerUpFirst \/ PowerUp \/ WaitForPowerUp \/ Abort
  BY <1>8 DEF Start, PowerUpFirst, PowerUp, WaitForPowerUp, Abort, Transfer
<1> QED
  BY <1>0, <1>4, <1>5, <1>6, <1>7, <1>8 DEF Controller

(* The inductive invariant of module Flash holds.                          *)
THEOREM Invariant == Spec => []FInv
<1>1. FInv /\ [Next]_vars => FInv'
  BY TypeNext, AnsweredNext, WakingUpNext, WaitingNext, ReadingNext, CountingNext,
     TransferredNext, StutterInv DEF FInv
<1> QED
  BY <1>1, InitInv, PTL DEF Spec

(* AcknowledgesItsWord of module Flash: the word that comes with an answer *)
(* is the one at the address, for every address of 22 bits and contents.   *)
THEOREM AcknowledgesWord == Spec => []AcknowledgesItsWord
<1>1. FInv => AcknowledgesItsWord
  BY DEF FInv, Answered
<1> QED
  BY <1>1, Invariant, PTL

(* ChipHearsReadsOnly of module Flash: no transfer, cut short or not, is   *)
(* a command that changes something in the chip.                           *)
THEOREM ReadsOnly == Spec => []ChipHearsReadsOnly
<1>1. FInv => ChipHearsReadsOnly
  <2> SUFFICES ASSUME FInv, heard >= 8
               PROVE  Heard(ReadOp) \/ (Heard(Release) /\ heard = 8)
    BY DEF ChipHearsReadsOnly
  <2>1. TypeOK /\ WakingUp /\ Waiting /\ Reading
    BY DEF FInv
  <2>2. CASE state \in {"START", "POWER_UP_FIRST", "POWER_UP"}
    BY <2>1, <2>2 DEF WakingUp, TypeOK
  <2>3. CASE state = "WAIT_FOR_POWER_UP"
    BY <2>1, <2>3 DEF Waiting
  <2>4. CASE state \in {"IDLE"} \union Transfer
    BY <2>1, <2>4 DEF Reading, Heard, TypeOK
  <2> QED
    BY <2>1, <2>2, <2>3, <2>4 DEF TypeOK
<1> QED
  BY <1>1, Invariant, PTL

LEMMA MemoryInit == Init => Bus!Init
BY DEF Init, Bus!Init, Response

LEMMA MemoryNext == FInv /\ [Next]_vars => [Bus!Next]_(Bus!vars)
<1> SUFFICES ASSUME FInv, [Next]_vars PROVE Bus!Next \/ UNCHANGED Bus!vars
  OBVIOUS
<1> DEFINE words == [a \in Adr |-> Word(a)]
<1>0. words' = words
  BY DEF Word
<1>1. CASE UNCHANGED vars
  BY <1>0, <1>1 DEF vars, bus, Bus!vars, Response
<1>2. CASE Next
  <2>0. TypeOK /\ Answered /\ Controller /\ Master
    BY <1>2 DEF FInv, Next
  <2>1. Bus!Master
    BY <2>0 DEF Master
  <2>2. CASE ack'
    <3>1. state = "DATA" /\ cyc /\ n = 0 /\ ~err'
      BY <2>0, <2>2
      DEF Controller, Start, PowerUpFirst, PowerUp, WaitForPowerUp, Idle, Command,
          DataFirst, Data, Abort, Goto, Drive, Answer, Shift
    <3>2. ~we /\ Bus!Busy
      BY <2>0, <3>1 DEF FInv, Counting, Transfer, Answered, Bus!Busy, Response
    <3>3. dat_r' = Word(adr)
      BY <2>0, <3>1, WordIsRead DEF FInv, Transferred, Data, Goto, Drive, Answer, Shift, Controller, Start, PowerUpFirst, PowerUp, WaitForPowerUp, Idle, Command, DataFirst, Abort
    <3>4. adr \in Adr
      BY <2>0 DEF TypeOK
    <3> QED
      BY <1>0, <2>1, <2>2, <3>2, <3>3, <3>4 DEF Bus!Next, Bus!Device, Bus!Read, Response
  <2>3. CASE err' /\ ~ack'
    <3>1. cyc /\ ~ack /\ ~err /\ we /\ dat_r' = dat_r
      BY <2>0, <2>3
      DEF Controller, Start, PowerUpFirst, PowerUp, WaitForPowerUp, Idle, Command,
          DataFirst, Data, Abort, Goto, Drive, Answer, Shift
    <3> QED
      BY <1>0, <2>1, <2>3, <3>1
      DEF Bus!Next, Bus!Device, Bus!Refuse, Bus!Busy, Response
  <2>4. CASE ~ack' /\ ~err'
    <3>1. dat_r' = dat_r
      BY <2>0, <2>4
      DEF Controller, Start, PowerUpFirst, PowerUp, WaitForPowerUp, Idle, Command,
          DataFirst, Data, Abort, Goto, Drive, Answer, Shift
    <3> QED
      BY <1>0, <2>1, <2>4, <3>1 DEF Bus!Next, Bus!Device, Bus!Wait, Response
  <2> QED
    BY <2>2, <2>3, <2>4
<1> QED
  BY <1>1, <1>2

(* FlashIsAMemory of module Flash: every step of controller, chip and master  *)
(* is one of module Memory's, or a stutter.                                   *)
THEOREM Implements == Spec => FlashIsAMemory
<1> QED
  BY Invariant, MemoryInit, MemoryNext, PTL DEF Spec, FlashIsAMemory, Bus!Safety
=============================================================================
