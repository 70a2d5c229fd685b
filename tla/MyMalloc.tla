------------------------------ MODULE MyMalloc ------------------------------
(***************************************************************************)
(* The memory allocator of lab2-src/MyMalloc.c: objects delimited by       *)
(* boundary tags, a doubly linked free list in address order with a        *)
(* constant sentinel, first fit with splitting, coalescing on free, and    *)
(* chunks taken from the OS with sbrk.                                     *)
(*                                                                         *)
(* Memory is modelled by the tags the allocator keeps in it: header and    *)
(* footer map an address to the tag stored there.  When an object is       *)
(* swallowed by a neighbour its tags become bytes of a payload and leave   *)
(* the domain, so that reading one would be an error of the model.         *)
(*                                                                         *)
(* A call runs under the mutex.  Straight-line code is one action; the two *)
(* loops over the free list take one step per iteration, with the loop     *)
(* variable in op.cursor.                                                  *)
(*                                                                         *)
(* An operator called Bug... is a plausible mistake in the operator that   *)
(* follows it.  The specification never uses it: putting it in the place   *)
(* of the right one shows that a property notices.                         *)
(***************************************************************************)
EXTENDS Integers, FiniteSets, Functions

CONSTANTS
  ARENA_SIZE,          \* bytes of an arena without its tags
  HEADER_SIZE,         \* sizeof(object_header)
  FOOTER_SIZE,         \* sizeof(object_footer)
  SIZE_PRECISION,      \* object sizes are multiples of this
  MINIMUM_SIZE,        \* smallest payload
  SIZE_MODULUS,        \* 2^w for a size_t of w bits
  free_list_sentinel,  \* the address of the sentinel, in the data segment
  HeapStart,           \* the program break before the first sbrk
  HeapLimit,           \* the break the OS does not go beyond
  OtherSbrk,           \* amounts by which the program itself calls sbrk
  Requests,            \* sizes the program asks for
  MaxLive,             \* bound: objects the program holds at once
  NULL

VARIABLES
  header,         \* address -> object_header stored there
  footer,         \* address -> object_footer stored there
  program_break,  \* sbrk(0)
  chunks,         \* the blocks got from the OS, by their first address
  live,           \* the program's pointers, with the size it asked for
  request,        \* the size the last call of allocate_object asked for
  result,         \* what it returned
  op              \* the call in progress

vars == <<header, footer, program_break, chunks, live, request, result, op>>

UNALLOCATED == "UNALLOCATED"
ALLOCATED == "ALLOCATED"
SENTINEL == "SENTINEL"

(***************************************************************************)
(* Sizes                                                                   *)
(***************************************************************************)

\* max_size, real_size: the one object of a chunk nobody has split.
RealSize == ARENA_SIZE + HEADER_SIZE + FOOTER_SIZE

\* What one call of get_memory_from_os asks for.
OsBlock == ARENA_SIZE + 2 * HEADER_SIZE + 2 * FOOTER_SIZE

BugNoTagsInRemainder == MINIMUM_SIZE

\* min_size: a remainder below it is not split off.
MinSize == MINIMUM_SIZE + HEADER_SIZE + FOOTER_SIZE

BugRoundsDown(size) ==
  LET asked  == IF size < MINIMUM_SIZE THEN MINIMUM_SIZE ELSE size
      padded == asked + HEADER_SIZE + FOOTER_SIZE
  IN  padded - (padded % SIZE_PRECISION)

\* rounded_size, computed in size_t: the addition wraps at SIZE_MODULUS.
RoundedSize(size) ==
  LET asked  == IF size < MINIMUM_SIZE THEN MINIMUM_SIZE ELSE size
      padded == (asked + HEADER_SIZE + FOOTER_SIZE + (SIZE_PRECISION - 1))
                  % SIZE_MODULUS
  IN  padded - (padded % SIZE_PRECISION)

BugRefusesWholeArena(size) == RoundedSize(size) >= RealSize

\* The request does not fit in a chunk.
TooLarge(size) == RoundedSize(size) > RealSize

\* The structures and the arena keep object sizes multiples of SIZE_PRECISION.
ASSUME SizesAssumption ==
  /\ {ARENA_SIZE, HEADER_SIZE, FOOTER_SIZE, SIZE_PRECISION, MINIMUM_SIZE,
      SIZE_MODULUS} \subseteq Nat \ {0}
  /\ \A size \in {ARENA_SIZE, HEADER_SIZE, FOOTER_SIZE, SIZE_MODULUS} :
       size % SIZE_PRECISION = 0
  /\ MINIMUM_SIZE <= ARENA_SIZE

\* The sentinel is a variable of the allocator: sbrk never returns its address.
ASSUME AddressesAssumption ==
  /\ {free_list_sentinel, HeapStart, HeapLimit} \subseteq Nat
  /\ free_list_sentinel \notin HeapStart .. HeapLimit
  /\ HeapStart + OsBlock <= HeapLimit
  /\ NULL \notin Nat

ASSUME ProgramAssumption ==
  /\ OtherSbrk \subseteq Nat \ {0}
  /\ Requests \subseteq Nat
  /\ MaxLive \in Nat \ {0}

(***************************************************************************)
(* Tags                                                                    *)
(***************************************************************************)

HeaderTag(size, status, next, prev) ==
  [object_size |-> size, status |-> status, next |-> next, prev |-> prev]

FooterTag(size, status) == [object_size |-> size, status |-> status]

\* f with v at a, whether or not something was there.
Store(f, a, v) == [x \in DOMAIN f \cup {a} |-> IF x = a THEN v ELSE f[x]]

\* f without what is at the addresses in S.
Without(f, S) == Restrict(f, DOMAIN f \ S)

HeaderOf(ptr) == ptr - HEADER_SIZE
FooterAt(object, size) == object + size - FOOTER_SIZE
FooterOf(object) == FooterAt(object, header[object].object_size)
LeftFooter(object) == object - FOOTER_SIZE
LeftHeader(object) ==
  LeftFooter(object) - footer[LeftFooter(object)].object_size + FOOTER_SIZE
RightHeader(object) == object + header[object].object_size

BugNeverMergesLeft(object, status) == status = ALLOCATED
LeftIs(object, status) == footer[LeftFooter(object)].status = status
BugNeverMergesRight(object, status) == status = ALLOCATED
RightIs(object, status) == header[RightHeader(object)].status = status

BugForgetsPrev(f, prev, next, object) == [f EXCEPT ![prev].next = object]

\* Headers f with object between prev and next in the free list.
Linked(f, prev, next, object) ==
  [f EXCEPT ![prev].next = object, ![next].prev = object]

\* Headers f with object taken off the free list.
Unlinked(f, object) ==
  [f EXCEPT ![f[object].prev].next = f[object].next,
            ![f[object].next].prev = f[object].prev,
            ![object].next = NULL, ![object].prev = NULL]

\* The footers when object is handed out as it is.
AllocatedFooter(object) ==
  [footer EXCEPT ![FooterOf(object)].status = ALLOCATED]

BugLeavesFrontFree(f, object, size, front) ==
  Store(Store(f, FooterAt(object, size), FooterTag(size - front, UNALLOCATED)),
        FooterAt(object, front), FooterTag(front, UNALLOCATED))

BugKeepsBackFooter(f, object, size, front) ==
  Store(f, FooterAt(object, front), FooterTag(front, ALLOCATED))

\* Footers f with an object of the given size split: its front is allocated,
\* its back is free.
SplitFooters(f, object, size, front) ==
  Store(Store(f, FooterAt(object, size), FooterTag(size - front, UNALLOCATED)),
        FooterAt(object, front), FooterTag(front, ALLOCATED))

(***************************************************************************)
(* The call in progress                                                    *)
(***************************************************************************)

NoCall == [kind |-> "idle"]
Searching(size, cursor) ==
  [kind |-> "search", rounded |-> RoundedSize(size), cursor |-> cursor]
Inserting(object, cursor) ==
  [kind |-> "insert", object |-> object, cursor |-> cursor]

\* A store through the (void *) -1 that a failed sbrk returns.
Fault == [kind |-> "fault"]

Idle == op.kind = "idle"
Unaffected == UNCHANGED <<program_break, chunks>>

(***************************************************************************)
(* initialize()                                                            *)
(***************************************************************************)

Init ==
  LET object == HeapStart + FOOTER_SIZE
      end_fencepost == object + RealSize
  IN  /\ header = [a \in {free_list_sentinel, object, end_fencepost} |->
           IF a = free_list_sentinel THEN HeaderTag(0, SENTINEL, object, object)
           ELSE IF a = end_fencepost THEN HeaderTag(0, ALLOCATED, NULL, NULL)
           ELSE HeaderTag(RealSize, UNALLOCATED,
                          free_list_sentinel, free_list_sentinel)]
      /\ footer = [a \in {HeapStart, FooterAt(object, RealSize)} |->
           IF a = HeapStart THEN FooterTag(0, ALLOCATED)
                            ELSE FooterTag(RealSize, UNALLOCATED)]
      /\ program_break = HeapStart + OsBlock
      /\ chunks = {HeapStart}
      /\ live = [ptr \in {} |-> 0]
      /\ request = NULL
      /\ result = NULL
      /\ op = NoCall

(***************************************************************************)
(* allocate_object(size)                                                   *)
(***************************************************************************)

\* The request does not fit in a whole chunk: return NULL.
AllocateTooLarge(size) ==
  /\ TooLarge(size)
  /\ request' = size
  /\ result' = NULL
  /\ UNCHANGED <<header, footer, live, op>>
  /\ Unaffected

FirstListed == header[free_list_sentinel].next

\* current = free_list->next
AllocateStart(size) ==
  /\ ~TooLarge(size)
  /\ request' = size
  /\ op' = Searching(size, FirstListed)
  /\ UNCHANGED <<header, footer, live, result>>
  /\ Unaffected

AtObject == op.kind = "search" /\ op.cursor # free_list_sentinel
AtEnd == op.kind = "search" /\ op.cursor = free_list_sentinel
Remainder == header[op.cursor].object_size - op.rounded

\* The call returns the payload of object.
Return(object) ==
  /\ result' = object + HEADER_SIZE
  /\ live' = Store(live, object + HEADER_SIZE, request)
  /\ op' = NoCall
  /\ UNCHANGED request

\* The object is too small: current = current->next.
SearchNext ==
  /\ AtObject
  /\ Remainder < 0
  /\ op' = [op EXCEPT !.cursor = header[op.cursor].next]
  /\ UNCHANGED <<header, footer, live, request, result>>
  /\ Unaffected

\* The remainder is too small to be an object: hand out the whole object.
TakeWhole ==
  LET current == op.cursor
  IN  /\ AtObject
      /\ Remainder >= 0
      /\ Remainder < MinSize
      /\ header' = [Unlinked(header, current) EXCEPT
                      ![current].status = ALLOCATED]
      /\ footer' = AllocatedFooter(current)
      /\ Return(current)
      /\ Unaffected

\* Hand out the front of the object; the back takes its place in the list.
Split ==
  LET current == op.cursor
      new     == current + op.rounded
      next    == header[current].next
      prev    == header[current].prev
  IN  /\ AtObject
      /\ Remainder >= MinSize
      /\ header' =
           Store([Linked(header, prev, next, new) EXCEPT
                    ![current] = HeaderTag(op.rounded, ALLOCATED, NULL, NULL)],
                 new, HeaderTag(Remainder, UNALLOCATED, next, prev))
      /\ footer' = SplitFooters(footer, current, header[current].object_size,
                                op.rounded)
      /\ Return(current)
      /\ Unaffected

\* get_memory_from_os(OsBlock) succeeds; the new block starts at the break.
SbrkSucceeds ==
  /\ program_break + OsBlock <= HeapLimit
  /\ program_break' = program_break + OsBlock
  /\ chunks' = chunks \cup {program_break}

\* f with the fenceposts of the chunk at the break.
FencedHeader(f) ==
  Store(f, program_break + FOOTER_SIZE + RealSize,
        HeaderTag(0, ALLOCATED, NULL, NULL))
FencedFooter(f) == Store(f, program_break, FooterTag(0, ALLOCATED))

\* Nothing fits: take a new chunk, hand out its front, and append the rest
\* to the free list.  (Unlike Split, any non-zero rest is split off.)
GrowSplit ==
  LET object == program_break + FOOTER_SIZE
      rest   == object + op.rounded
      size   == RealSize - op.rounded
      last   == header[free_list_sentinel].prev
  IN  /\ AtEnd
      /\ op.rounded < RealSize
      /\ SbrkSucceeds
      /\ header' =
           Store(Store(FencedHeader(Linked(header, last, free_list_sentinel,
                                           rest)),
                       rest, HeaderTag(size, UNALLOCATED,
                                       free_list_sentinel, last)),
                 object, HeaderTag(op.rounded, ALLOCATED, NULL, NULL))
      /\ footer' = SplitFooters(FencedFooter(footer), object, RealSize,
                                op.rounded)
      /\ Return(object)

\* Nothing fits and the request takes a whole chunk.
GrowWhole ==
  LET object == program_break + FOOTER_SIZE
  IN  /\ AtEnd
      /\ op.rounded = RealSize
      /\ SbrkSucceeds
      /\ header' = Store(FencedHeader(header), object,
                         HeaderTag(RealSize, ALLOCATED, NULL, NULL))
      /\ footer' = Store(FencedFooter(footer), FooterAt(object, RealSize),
                         FooterTag(RealSize, ALLOCATED))
      /\ Return(object)

\* Nothing fits and sbrk fails: its result is used unchecked.
GrowRefused ==
  /\ AtEnd
  /\ program_break + OsBlock > HeapLimit
  /\ op' = Fault
  /\ UNCHANGED <<header, footer, live, request, result>>
  /\ Unaffected

(***************************************************************************)
(* free_object(ptr)                                                        *)
(***************************************************************************)

\* The program gives ptr up.
Release(ptr) ==
  /\ live' = Without(live, {ptr})
  /\ UNCHANGED <<request, result>>
  /\ Unaffected

\* 1. Neither neighbour is free: mark the object and look for its place.
FreeAlone(ptr) ==
  LET current == HeaderOf(ptr)
  IN  /\ Release(ptr)
      /\ ~LeftIs(current, UNALLOCATED)
      /\ ~RightIs(current, UNALLOCATED)
      /\ header' = [header EXCEPT ![current].status = UNALLOCATED]
      /\ footer' = [footer EXCEPT ![FooterOf(current)].status = UNALLOCATED]
      /\ op' = Inserting(current, free_list_sentinel)

\* 2. The left neighbour is free: it grows over the object.
FreeMergeLeft(ptr) ==
  LET current == HeaderOf(ptr)
      left    == LeftHeader(current)
      size    == header[left].object_size + header[current].object_size
  IN  /\ Release(ptr)
      /\ LeftIs(current, UNALLOCATED)
      /\ RightIs(current, ALLOCATED)
      /\ header' = [Without(header, {current}) EXCEPT ![left].object_size = size]
      /\ footer' = [Without(footer, {LeftFooter(current)}) EXCEPT
                      ![FooterOf(current)] = FooterTag(size, UNALLOCATED)]
      /\ UNCHANGED op

\* 3. The right neighbour is free: the object takes its place in the list.
FreeMergeRight(ptr) ==
  LET current == HeaderOf(ptr)
      right   == RightHeader(current)
      size    == header[current].object_size + header[right].object_size
      next    == header[right].next
      prev    == header[right].prev
  IN  /\ Release(ptr)
      /\ RightIs(current, UNALLOCATED)
      /\ LeftIs(current, ALLOCATED)
      /\ header' = [Linked(Without(header, {right}), prev, next, current) EXCEPT
                      ![current] = HeaderTag(size, UNALLOCATED, next, prev)]
      /\ footer' = [Without(footer, {FooterOf(current)}) EXCEPT
                      ![FooterOf(right)].object_size = size]
      /\ UNCHANGED op

\* 4. Otherwise (both are free): the left neighbour grows over both, and its
\* next pointer becomes that of the right one.
FreeMergeBoth(ptr) ==
  LET current == HeaderOf(ptr)
      left    == LeftHeader(current)
      right   == RightHeader(current)
      size    == footer[LeftFooter(current)].object_size
                   + header[current].object_size + header[right].object_size
      next    == header[right].next
  IN  /\ Release(ptr)
      /\ LeftIs(current, UNALLOCATED) \/ RightIs(current, UNALLOCATED)
      /\ ~(LeftIs(current, UNALLOCATED) /\ RightIs(current, ALLOCATED))
      /\ ~(RightIs(current, UNALLOCATED) /\ LeftIs(current, ALLOCATED))
      /\ header' = [Without(header, {current, right}) EXCEPT
                      ![left].object_size = size,
                      ![left].next = next,
                      ![next].prev = left]
      /\ footer' = [Without(footer, {LeftFooter(current), FooterOf(current)})
                      EXCEPT ![FooterOf(right)].object_size = size]
      /\ UNCHANGED op

BugInsertsFirst == TRUE
BugIgnoresEnd ==
  op.cursor < op.object /\ op.object < header[op.cursor].next

\* The place is after temp when temp and temp->next surround the object, or
\* at the end of the list.
PlaceFound ==
  LET next == header[op.cursor].next
  IN  \/ next = free_list_sentinel
      \/ op.cursor < op.object /\ op.object < next

\* temp = temp->next
InsertNext ==
  /\ op.kind = "insert"
  /\ ~PlaceFound
  /\ op' = [op EXCEPT !.cursor = header[op.cursor].next]
  /\ UNCHANGED <<header, footer, live, request, result>>
  /\ Unaffected

\* Link the object in after temp.
InsertLink ==
  LET current == op.object
      temp    == op.cursor
      next    == header[temp].next
  IN  /\ op.kind = "insert"
      /\ PlaceFound
      /\ header' = [Linked(header, temp, next, current) EXCEPT
                      ![current].next = next, ![current].prev = temp]
      /\ op' = NoCall
      /\ UNCHANGED <<footer, live, request, result>>
      /\ Unaffected

(***************************************************************************)
(* The specification                                                       *)
(***************************************************************************)

\* Code outside the allocator moves the break (test8-7.c:32 calls sbrk), so that
\* the next chunk does not start where the last one ended.
ProgramSbrk(amount) ==
  /\ program_break + amount + OsBlock <= HeapLimit
  /\ program_break \in {c + OsBlock : c \in chunks}
  /\ program_break' = program_break + amount
  /\ UNCHANGED <<header, footer, chunks, live, request, result, op>>

\* One iteration of a loop, or the code after it.
Continue ==
  \/ SearchNext
  \/ TakeWhole
  \/ Split
  \/ GrowSplit
  \/ GrowWhole
  \/ GrowRefused
  \/ InsertNext
  \/ InsertLink

AllocateObject(size) == AllocateTooLarge(size) \/ AllocateStart(size)

FreeObject(ptr) ==
  \/ FreeAlone(ptr)
  \/ FreeMergeLeft(ptr)
  \/ FreeMergeRight(ptr)
  \/ FreeMergeBoth(ptr)

\* The program asks only while it holds fewer than MaxLive objects, and frees
\* only pointers it got and has not freed.
Program ==
  \/ \E size \in Requests :
       Cardinality(DOMAIN live) < MaxLive /\ AllocateObject(size)
  \/ \E ptr \in DOMAIN live : FreeObject(ptr)
  \/ \E amount \in OtherSbrk : ProgramSbrk(amount)

\* Calls come one at a time: that is what the mutex is for.
Next == (Idle /\ Program) \/ Continue

\* Between lock and unlock the code does not block, so a call goes on.
Spec == Init /\ [][Next]_vars /\ WF_vars(Continue)

=============================================================================
