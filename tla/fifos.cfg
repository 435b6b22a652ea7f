SPECIFICATION Spec
CONSTANTS
  Byte = {0, 1, 2, 3}
  Access <- DataAccess
  Char = {1, 2}
  Follows <- AnyOrder
  Depth = 3
  Pins = {0}
PROPERTIES
  ReceiverIsAQueue
  TransmitterIsAQueue
