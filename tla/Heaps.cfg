SPECIFICATION HeapsSpec
CONSTANTS
  NONE = NONE
  MemSize = 7
  MemSizes = {1, 2, 3}
  PoolSizes <- TwoPools
  HeapSizes = {1, 2, 5}
  Callers = {c1, c2}
  NPages = 8
  PageBytes = 128
  zone_page_cnt = 2
  ZONE_RELEASE_THRESH = 1
  SlabSizes = {50, 130}
  MaxOut = 5
  SlabCallers = {c1, c2}
INVARIANTS HeapsSound
PROPERTIES MemKeepsPromise HeapKeepsPromise SlabKeepsPromise
CHECK_DEADLOCK FALSE
