SPECIFICATION Spec
CONSTANTS
  UsesMax = 255
  Gprs <- MCGprs
  Programs <- MCLinkPrograms
  Machines <- MCMachines
  Excluded = {}
  StartPc = 64
INVARIANT
  LinksAgree
