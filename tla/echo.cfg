SPECIFICATION ESpec
CONSTANTS
  Byte = {0, 1, 2, 3}
  Access <- EchoAccess
  Char = {1, 2}
  Follows <- InTurn
  Depth = 3
  Pins = {0}
INVARIANT PollingSuffices
PROPERTIES
  EchoIsAQueue
  EchoMoves
