SPECIFICATION FairSpec
CONSTANTS
  a = a
  b = b
  d1 = d1
  d2 = d2
  p1 = p1
  p2 = p2
  p3 = p3
  Thread = {a, b}
  Direct = {d1, d2}
  Tabled = {p1, p2, p3}
  Embeddings <- MCEmbeddings
  Blocks <- MCBlocks
  CodeSize = 12
  SLOTS = 2
  PAGE = 2
  TableLen <- MCTableLen
  TableBases = {10, 14, 18}
INVARIANTS
  FaultsResolved
  OwnSlowPath
  SlotsExact
PROPERTIES
  AccessesEnd
