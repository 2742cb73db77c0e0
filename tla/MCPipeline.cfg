SPECIFICATION Spec
CONSTANTS
  UsesMax = 255
  Gprs <- MCGprs
  Programs <- MCPrograms
  Machines <- MCMachines
  Excluded <- MCExcluded
  StartPc = 64
INVARIANTS
  TranslationFaithful
  OperandsDefined
  OptimizerFaithful
  RemovalSafe
