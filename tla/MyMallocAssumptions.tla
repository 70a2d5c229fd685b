------------------------- MODULE MyMallocAssumptions -------------------------
(***************************************************************************)
(* What the code takes for granted of its environment and of the program,  *)
(* and does not check.  The runs MCSentinelAbove and MCSmallRemainder show *)
(* what the first two are for.                                             *)
(***************************************************************************)
EXTENDS MyMallocProperties

\* The search for the place of a freed object starts at the sentinel and
\* compares addresses, so the sentinel must be the lowest of them.
ASSUME SentinelBelowHeap == free_list_sentinel < HeapStart

\* A request leaves of a fresh chunk nothing, or enough for an object: the
\* grow path splits without looking.
ASSUME CleanSplits ==
  \A size \in Requests :
    LET rest == RealSize - RoundedSize(size)
    IN  rest <= 0 \/ rest >= MinSize

\* Adding the tags to a request, or to the smallest payload, does not overflow
\* a size_t.
ASSUME NoSizeWrap ==
  \A size \in Requests \cup {MINIMUM_SIZE} :
    size + HEADER_SIZE + FOOTER_SIZE + SIZE_PRECISION <= SIZE_MODULUS

\* sbrk is called with multiples of SIZE_PRECISION only, so that every chunk
\* begins on one.
ASSUME AlignedBreak ==
  \A amount \in OtherSbrk \cup {HeapStart} : amount % SIZE_PRECISION = 0

==============================================================================
