SPECIFICATION RSpec
CONSTANTS
  Menu <- RvfiMenu
  Word <- MCWord
  Reg <- MCReg
  Addr <- MCAddr
  Zero = 0
  X0 = 0
  NPC = 2
  ResetVector = 0
  TrapVector = 1
  Answers = {"ack", "err"}
  Control <- MCControl
  Result <- MCResult
  Taken <- MCTaken
  Target <- MCTarget
  TargetMisaligned <- MCTargetMisaligned
  DataAddr <- MCDataAddr
  DataMisaligned <- MCDataMisaligned
  LoadData <- MCLoadData
  StoreData <- MCStoreData
INVARIANTS RInv FaultsAreReported
PROPERTIES ReportsAreARun ReportsAgree
