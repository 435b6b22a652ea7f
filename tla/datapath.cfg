SPECIFICATION Spec
CONSTANTS
  ByteWidth = 2
  Operands <- MCOperands
  Addresses = {252}
  Stale = {90}
  Fields <- MCFields
  Upper = {0, 1, 32}
  TrapVector = 4
CHECK_DEADLOCK FALSE
INVARIANTS
  LegalExactly
  ImmediateOfFormat
  ResultOfOperation
  NextOfOperation
  MemoryOfOperation
  TrapsExactly
  DecoderContract
