SPECIFICATION SSpec
CONSTANTS
  Menu <- SocMenu
  Word <- MCWord
  Reg <- MCReg
  Addr <- MCAddr
  Zero = 0
  X0 = 0
  NPC = 4
  ResetVector = 0
  TrapVector = 1
  Answers = {"ack", "err"}
  FlashAddr = {0}
  Hole = {3}
  Control <- MCControl
  Result <- MCResult
  Taken <- MCTaken
  Target <- MCTarget
  TargetMisaligned <- MCTargetMisaligned
  DataAddr <- MCDataAddr
  DataMisaligned <- MCDataMisaligned
  LoadData <- MCLoadData
  StoreData <- AddingStoreData
INVARIANTS
  AnswersBelong
  StoresOnce
PROPERTIES
  DevicesSeeOneMaster
  DataBusRests
  SharedBusAnswers
  StopsOnlyInHoles
