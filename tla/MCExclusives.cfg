SPECIFICATION FairSpec
CONSTANTS
  a = a
  b = b
  Thread = {a, b}
  Half = 2
  Workload <- MCWorkload
PROPERTIES
  ImplementsAtomicMemory
  LockFree
