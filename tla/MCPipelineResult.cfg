SPECIFICATION Spec
CONSTANTS
  UsesMax = 255
  Gprs <- MCGprs
  Programs <- MCResultPrograms
  Machines <- MCResultMachines
  Excluded = {}
  StartPc = 64
INVARIANT
  TranslationFaithful
