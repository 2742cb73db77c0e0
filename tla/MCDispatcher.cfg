CONSTANTS
  MaxAddr = 31
  Pc <- MCPc
  Word <- MCWord
  Slot <- MCSlot
  Index <- MCIndex
  Chain = {"taken", "fall"}
  Cap <- MCCap
  Capacity = 5
  ThunkSize = 1
  Multiblock = TRUE
  MaxInsts = 3
  SpillLimit = 2
  Programs <- MCPrograms
  Budgets <- MCShortBudgets
  Limit = 2
  HostSize <- MCHostSize
  Vector = {8}
  Unmapped = {8}
  Order <- MCOrder
  LinkBlocks = TRUE
  ResumeAfterFault = TRUE
SPECIFICATION FairSpec
INVARIANTS TypeOK RunsLiveCode HaltLatency VectorsSaved
PROPERTIES ImplementsGuest RunReturns
