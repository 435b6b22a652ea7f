SPECIFICATION Spec
CONSTANTS
  Offset = {0, 1}
  Byte = {0, 1}
  Initial <- Blank
  Writes <- MCWrite
PROPERTIES
  BramIsAMemory
  SpramIsAMemory
  RamsAnswer
