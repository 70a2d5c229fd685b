SPECIFICATION Spec
CONSTANTS
  ARENA_SIZE = 176
  HEADER_SIZE = 32
  FOOTER_SIZE = 16
  SIZE_PRECISION = 8
  MINIMUM_SIZE = 8
  SIZE_MODULUS = 4096
  free_list_sentinel = 8
  HeapStart = 64
  HeapLimit = 1200
  OtherSbrk = {24, 544}
  Requests = {1, 9, 176, 177}
  MaxLive = 3
  NULL = NULL
INVARIANTS
  TypeOK
  BoundaryTagsAgree
  HeapTiled
  FreeListAscending
  Coalesced
  AllocatedIsLive
  HeapBoundedByUse
PROPERTIES
  CallsReturn
  ImplementsAllocator
CHECK_DEADLOCK FALSE
