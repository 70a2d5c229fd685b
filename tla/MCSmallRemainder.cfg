SPECIFICATION Spec
CONSTANTS
  ARENA_SIZE = 120
  HEADER_SIZE = 32
  FOOTER_SIZE = 16
  SIZE_PRECISION = 8
  MINIMUM_SIZE = 8
  SIZE_MODULUS = 4096
  free_list_sentinel = 8
  HeapStart = 64
  HeapLimit = 1200
  OtherSbrk = {}
  Requests = {1, 112}
  MaxLive = 3
  NULL = NULL
INVARIANTS
  SizeIncludesTags
