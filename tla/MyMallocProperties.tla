------------------------- MODULE MyMallocProperties -------------------------
(***************************************************************************)
(* What makes the allocator of MyMalloc.tla correct: how the tags describe *)
(* the heap, what the free list holds, and what the program may rely on.   *)
(***************************************************************************)
EXTENDS MyMalloc

(***************************************************************************)
(* The heap as the tags describe it                                        *)
(***************************************************************************)

\* The fenceposts around the one object a chunk starts with.
StartFencepost(chunk) == chunk
EndFencepost(chunk) == chunk + FOOTER_SIZE + RealSize

\* The headers that are in the heap and are not fenceposts.
Objects ==
  DOMAIN header \ ({free_list_sentinel} \cup {EndFencepost(c) : c \in chunks})

Free == {object \in Objects : header[object].status = UNALLOCATED}

\* The free objects on the free list: one that free_object is about to insert
\* is not there yet.
Listed == IF op.kind = "insert" THEN Free \ {op.object} ELSE Free

\* Every address in memory, of a header or a pointer, is one of these.
HeapAddresses == HeapStart .. HeapLimit

\* Type correctness: tags have their fields, and every pointer in a tag or in
\* a loop variable is the address of a header.
TypeOK ==
  /\ header \in [DOMAIN header ->
       [object_size : 0 .. RealSize,
        status : {UNALLOCATED, ALLOCATED, SENTINEL},
        next : DOMAIN header \cup {NULL},
        prev : DOMAIN header \cup {NULL}]]
  /\ DOMAIN header \subseteq HeapAddresses \cup {free_list_sentinel}
  /\ footer \in [DOMAIN footer ->
       [object_size : 0 .. RealSize, status : {UNALLOCATED, ALLOCATED}]]
  /\ DOMAIN footer \subseteq HeapAddresses
  /\ program_break \in HeapAddresses
  /\ chunks \subseteq HeapAddresses
  /\ live \in [DOMAIN live -> Requests]
  /\ request \in Requests \cup {NULL}
  /\ result \in HeapAddresses \cup {NULL}
  /\ \/ op = NoCall
     \/ op = Fault
     \/ /\ op.kind = "search"
        /\ op = [Searching(request, op.cursor) EXCEPT !.rounded = op.rounded]
        /\ op.rounded \in 0 .. RealSize
        /\ op.cursor \in DOMAIN header
     \/ /\ op.kind = "insert"
        /\ op = Inserting(op.object, op.cursor)
        /\ {op.object, op.cursor} \subseteq DOMAIN header

(***************************************************************************)
(* Safety                                                                  *)
(***************************************************************************)

\* Both tags of an object say the same, and every footer is the footer of an
\* object or the fencepost at the start of a chunk: free_object reads its
\* neighbours through these tags alone.
BoundaryTagsAgree ==
  /\ \A object \in Objects :
       /\ FooterOf(object) \in DOMAIN footer
       /\ footer[FooterOf(object)] =
            FooterTag(header[object].object_size, header[object].status)
  /\ \A f \in DOMAIN footer \ chunks :
       \E object \in Objects : FooterOf(object) = f
  /\ \A c \in chunks :
       /\ {StartFencepost(c)} \subseteq DOMAIN footer
       /\ footer[StartFencepost(c)] = FooterTag(0, ALLOCATED)
       /\ EndFencepost(c) \in DOMAIN header
       /\ header[EndFencepost(c)] = HeaderTag(0, ALLOCATED, NULL, NULL)

\* The objects tile their chunks: each has room for its tags and a payload,
\* ends where the next one (or the end fencepost) begins, begins where a footer
\* ends, and no header lies inside it.
HeapTiled ==
  \A object \in Objects :
    /\ header[object].object_size >= MINIMUM_SIZE + HEADER_SIZE + FOOTER_SIZE
    /\ header[object].object_size % SIZE_PRECISION = 0
    /\ RightHeader(object) \in DOMAIN header
    /\ LeftFooter(object) \in DOMAIN footer
    /\ \A other \in DOMAIN header :
         other <= object \/ other >= RightHeader(object)
    /\ \E c \in chunks : StartFencepost(c) < object /\ object < EndFencepost(c)

\* The free list holds exactly the free objects, once each, in address order:
\* the next pointer of a member is the least one above it, or the sentinel
\* when there is none, and its prev pointer undoes it.
FreeListAscending ==
  LET members == Listed \cup {free_list_sentinel}
      Above(other, member) == member = free_list_sentinel \/ other > member
  IN  \A member \in members :
        LET next == header[member].next
        IN  /\ next \in members
            /\ header[next].prev = member
            /\ next # free_list_sentinel => Above(next, member)
            /\ \A other \in Listed : Above(other, member) =>
                 next # free_list_sentinel /\ next <= other

\* Free neighbours are always coalesced, whichever of the four cases freed them
\* and whatever allocate_object split before.
Coalesced ==
  \A object \in Free : RightHeader(object) \notin Free

\* The allocated objects are exactly those the program holds, each with room
\* for what was asked and no tag in it: nothing is lost, nothing is handed out
\* twice, no write of the allocator touches the program's bytes, and no write of
\* the program into its own bytes touches a tag.
AllocatedIsLive ==
  /\ {HeaderOf(ptr) : ptr \in DOMAIN live} = Objects \ Free
  /\ \A ptr \in DOMAIN live :
       LET last == ptr + live[ptr] - 1
       IN  /\ live[ptr] <= header[HeaderOf(ptr)].object_size - HEADER_SIZE - FOOTER_SIZE
           /\ \A h \in DOMAIN header : h + HEADER_SIZE <= ptr \/ h > last
           /\ \A f \in DOMAIN footer : f + FOOTER_SIZE <= ptr \/ f > last

\* The heap is bounded by what the program holds at once, not by how long it
\* runs: a chunk without an object in use could serve any request, so there
\* are never more chunks than objects held at the peak.
HeapBoundedByUse == Cardinality(chunks) <= MaxLive

\* Every call returns, whatever the shape of the free list: the loops of
\* allocate_object and free_object end.  Only a refusal of the OS ends a call,
\* and the process, otherwise.
CallsReturn == ~Idle ~> Idle \/ op.kind = "fault"

(***************************************************************************)
(* What the program may rely on: the abstract specification                *)
(***************************************************************************)

\* A request is asked for from the first step of its search to its return.
Abstract == INSTANCE Allocator WITH
  Addresses <- {a \in HeapAddresses : a % SIZE_PRECISION = 0},
  Sizes <- Requests,
  MaxRequest <- ARENA_SIZE,
  MaxBlocks <- MaxLive,
  NONE <- NULL,
  blocks <- live,
  phase <- CASE op.kind = "search" -> "asked"
             [] op.kind = "fault" -> "dead"
             [] OTHER -> "idle",
  answer <- result

\* The allocator with its tags, free list and chunks gives the program what
\* Allocator promises: malloc's blocks never overlap, are never refused up to
\* ARENA_SIZE bytes, and every call of malloc is answered or ends the process.
ImplementsAllocator == Abstract!Spec

=============================================================================
