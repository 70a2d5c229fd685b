SPECIFICATION Spec
CONSTANTS
  ARENA_SIZE = 120
  HEADER_SIZE = 32
  FOOTER_SIZE = 16
  SIZE_PRECISION = 8
  MINIMUM_SIZE = 8
  SIZE_MODULUS = 4096
  free_list_sentinel = 8
  HeapStart = 64
  HeapLimit = 500
  MaxLive = 3
  NULL = NULL
  t1 = t1
  t2 = t2
  Threads = {t1, t2}
  MallocSizes = {8, 120}
  ReallocSizes = {9, 121}
  CallocArgs <- CallocProducts
  MaxCalls = 2
INVARIANTS
  WorkHoldsMutex
  UnlockedWritesStayInside
PROPERTIES
  SourceStable
  CallsAreSerial
  CallsReturn
CHECK_DEADLOCK FALSE
