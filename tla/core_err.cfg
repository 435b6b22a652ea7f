SPECIFICATION ISpec
CONSTANTS
  Menu <- DataMenu
  Word <- MCWord
  Reg <- MCReg
  Addr <- MCAddr
  Zero = 0
  X0 = 0
  NPC = 3
  ResetVector = 0
  TrapVector = 2
  Answers = {"ack", "err"}
  Control <- MCControl
  Result <- MCResult
  Taken <- MCTaken
  Target <- MCTarget
  TargetMisaligned <- MCTargetMisaligned
  DataAddr <- MCDataAddr
  DataMisaligned <- MCDataMisaligned
  LoadData <- MCLoadData
  StoreData <- MCStoreData
PROPERTY IsaSpec
