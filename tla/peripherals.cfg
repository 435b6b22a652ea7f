SPECIFICATION Spec
CONSTANTS
  Byte = {0, 1, 2, 3}
  Access <- RegisterAccess
  Char = {1}
  Follows <- AnyOrder
  Depth = 3
  Pins = {1}
INVARIANT AnswersTellTheRegisters
PROPERTY RegistersChangeWhole
