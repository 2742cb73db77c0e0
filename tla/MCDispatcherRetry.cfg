CONSTANTS
  MaxAddr = 31
  Pc <- MCPc
  Word <- MCWord
  Slot <- MCSlot
  Index <- MCIndex
  Chain = {"taken", "fall"}
  Cap <- MCCap
  Capacity = 5
  ThunkSize = 1
  Multiblock = TRUE
  MaxInsts = 3
  SpillLimit = 3
  Programs <- MCLines
  Budgets <- MCBudgets
  Limit = 3
  HostSize <- MCHostSize
  Vector = {8}
  Unmapped = {4}
  Order <- MCOrder
  LinkBlocks = TRUE
  ResumeAfterFault = FALSE
SPECIFICATION FairSpec
PROPERTIES FaultPcExact
