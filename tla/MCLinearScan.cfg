CONSTANTS
  Gpr <- MCGpr
  Xmm <- MCXmm
  MaxLen = 5
  Blocks <- MCBlocks
SPECIFICATION Spec
INVARIANTS TypeOK OperandsIntact NoSharing
