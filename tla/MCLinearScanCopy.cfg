CONSTANTS
  Gpr <- MCGpr
  Xmm <- MCXmm
  MaxLen = 5
  Blocks <- MCCopies
SPECIFICATION Spec
INVARIANT Survives
