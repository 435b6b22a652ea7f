SPECIFICATION Spec
CONSTANTS
  Adr <- MCAdr
  PowerUpCycles = 4
  PowerUpTimer = 3
  Content <- MCContent
  Floating = 2
INVARIANTS
  FInv
  AcknowledgesItsWord
  ChipHearsReadsOnly
PROPERTIES
  FlashIsAMemory
  FlashAnswers
