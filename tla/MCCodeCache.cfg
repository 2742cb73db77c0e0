CONSTANTS
  MaxAddr = 15
  Pc <- MCPc
  Slot <- MCSlot
  Index <- MCIndex
  Chain = {"taken", "fall"}
  Cap = {1}
  Capacity = 6
  ThunkSize = 1
  Xlat <- MCXlat
  Foreign <- MCForeign
  InvalidateArgs <- MCInvalidateArgs
  Order <- MCOrder
SPECIFICATION Spec
INVARIANTS TypeOK DispatchCoherent LinkedExactly LinksRegistered NoStaleCode CappedIsolated BelowCursor
