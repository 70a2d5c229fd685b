-------------------------- MODULE MyMallocInvariant --------------------------
(***************************************************************************)
(* The inductive invariant of the allocator: what is true of the tags,     *)
(* the free list and the call in progress before and after every step.     *)
(* The properties of MyMallocProperties follow from it.                    *)
(*                                                                         *)
(* Its parts are predicates on headers hd, footers ft and chunks ch, so    *)
(* that they can be said of the tags before and after an assignment.       *)
(***************************************************************************)
EXTENDS MyMallocAssumptions

(***************************************************************************)
(* The shape of the heap                                                   *)
(***************************************************************************)

Fences(ch) == {EndFencepost(c) : c \in ch}
ObjectsOf(hd, ch) == DOMAIN hd \ ({free_list_sentinel} \cup Fences(ch))
EndOf(hd, o) == o + hd[o].object_size
Size(hd, o) == hd[o].object_size
Status(hd, o) == hd[o].status

\* The blocks from the OS lie below the break and do not overlap.
ChunksApart(ch, brk) ==
  /\ \A c \in ch : c \in Int /\ HeapStart <= c /\ c + OsBlock <= brk
  /\ \A c, d \in ch : c < d => c + OsBlock <= d

\* Each has its fenceposts, and an object right after the first of them.
Fenced(hd, ft, ch) ==
  \A c \in ch :
    /\ c \in DOMAIN ft
    /\ ft[c] = FooterTag(0, ALLOCATED)
    /\ EndFencepost(c) \in DOMAIN hd
    /\ Size(hd, EndFencepost(c)) = 0
    /\ Status(hd, EndFencepost(c)) = ALLOCATED
    /\ c + FOOTER_SIZE \in ObjectsOf(hd, ch)

\* Every object is large enough and lies between the fenceposts of a chunk.
Placed(hd, ch) ==
  \A o \in ObjectsOf(hd, ch) :
    /\ o \in Int
    /\ Size(hd, o) \in Int /\ Size(hd, o) >= MinSize
    /\ Size(hd, o) % SIZE_PRECISION = 0
    /\ Status(hd, o) \in {UNALLOCATED, ALLOCATED}
    /\ \E c \in ch : c + FOOTER_SIZE <= o /\ EndOf(hd, o) <= EndFencepost(c)

\* Where an object ends the next header is, and none before.
Tiled(hd, ch) ==
  \A o \in ObjectsOf(hd, ch) :
    /\ EndOf(hd, o) \in DOMAIN hd
    /\ \A x \in DOMAIN hd : x <= o \/ EndOf(hd, o) <= x

\* An object ends with a footer that repeats its header, and follows a footer.
Tagged(hd, ft, ch) ==
  \A o \in ObjectsOf(hd, ch) :
    /\ o - FOOTER_SIZE \in DOMAIN ft
    /\ EndOf(hd, o) - FOOTER_SIZE \in DOMAIN ft
    /\ ft[EndOf(hd, o) - FOOTER_SIZE] = FooterTag(Size(hd, o), Status(hd, o))

\* There are no other footers.
NoStrays(hd, ft, ch) ==
  \A f \in DOMAIN ft :
    f \in ch \/ \E o \in ObjectsOf(hd, ch) : f = EndOf(hd, o) - FOOTER_SIZE

Shape(hd, ft, ch, brk) ==
  /\ DOMAIN hd \subseteq Int /\ DOMAIN ft \subseteq Int
  /\ ChunksApart(ch, brk) /\ Fenced(hd, ft, ch) /\ Placed(hd, ch)
  /\ Tiled(hd, ch) /\ Tagged(hd, ft, ch) /\ NoStrays(hd, ft, ch)

\* No two free objects are neighbours.
FreeOf(hd, ch) == {o \in ObjectsOf(hd, ch) : Status(hd, o) = UNALLOCATED}
Merged(hd, ch) == \A o \in FreeOf(hd, ch) : EndOf(hd, o) \notin FreeOf(hd, ch)

(***************************************************************************)
(* The free list                                                           *)
(***************************************************************************)

\* The objects in L are linked in address order, in a ring closed by the
\* sentinel; other headers have no pointers.
Members(L) == L \cup {free_list_sentinel}
List(hd, L) ==
  /\ L \subseteq Int /\ Members(L) \subseteq DOMAIN hd
  /\ \A m \in L : m > free_list_sentinel
  /\ \A m \in Members(L) :
       /\ hd[m].next \in Members(L) /\ hd[hd[m].next].prev = m
       /\ hd[m].prev \in Members(L) /\ hd[hd[m].prev].next = m
       /\ hd[m].next # free_list_sentinel => hd[m].next > m
       /\ \A x \in L : x > m => hd[m].next # free_list_sentinel /\ hd[m].next <= x
  /\ \A x \in DOMAIN hd \ Members(L) : hd[x].next = NULL /\ hd[x].prev = NULL

Addresses == Int \cup {NULL}
HeaderTags ==
  [object_size : Int, status : {UNALLOCATED, ALLOCATED, SENTINEL},
   next : Addresses, prev : Addresses]
FooterTags == [object_size : Int, status : {UNALLOCATED, ALLOCATED}]

HeapInv ==
  /\ header \in [DOMAIN header -> HeaderTags]
  /\ footer \in [DOMAIN footer -> FooterTags]
  /\ free_list_sentinel \in DOMAIN header
  /\ header[free_list_sentinel].object_size = 0
  /\ header[free_list_sentinel].status = SENTINEL
  /\ program_break \in Int /\ HeapStart <= program_break /\ program_break <= HeapLimit
  /\ Shape(header, footer, chunks, program_break)
  /\ Merged(header, chunks)
  /\ List(header, Listed)

(***************************************************************************)
(* The program and the call in progress                                    *)
(***************************************************************************)

\* The program holds the allocated objects, each with room for what it asked.
Holds(hd, ch, lv) ==
  /\ DOMAIN lv = {o + HEADER_SIZE : o \in ObjectsOf(hd, ch) \ FreeOf(hd, ch)}
  /\ \A o \in ObjectsOf(hd, ch) \ FreeOf(hd, ch) :
       lv[o + HEADER_SIZE] <= Size(hd, o) - HEADER_SIZE - FOOTER_SIZE

ProgramInv ==
  /\ live \in [DOMAIN live -> Requests]
  /\ Holds(header, chunks, live)
  /\ request \in Requests \cup {NULL}
  /\ result \in HeapAddresses \cup {NULL}

\* What the search has passed is too small; what free_object has passed lies
\* below the object it has to place.
OpInv ==
  \/ op = NoCall
  \/ op = Fault
  \/ /\ request \in Requests /\ ~TooLarge(request)
     /\ op = [kind |-> "search", rounded |-> RoundedSize(request), cursor |-> op.cursor]
     /\ op.cursor \in Members(Listed)
     /\ \A m \in Listed :
          m < op.cursor \/ op.cursor = free_list_sentinel => Size(header, m) < op.rounded
  \/ /\ op = Inserting(op.object, op.cursor)
     /\ op.object \in Free
     /\ op.cursor \in Members(Listed)
     /\ op.cursor < op.object

Inv == HeapInv /\ ProgramInv /\ OpInv

(***************************************************************************)
(* More that is invariant, given Inv                                       *)
(***************************************************************************)

\* The number of chunks is bounded, and a search begins below the limit.
Bounded ==
  /\ IsFiniteSet(DOMAIN live) /\ IsFiniteSet(chunks)
  /\ op.kind = "search" => Cardinality(DOMAIN live) < MaxLive
  /\ HeapBoundedByUse

\* Every header but the sentinel's is at a multiple of SIZE_PRECISION.
Whole(a) == a % SIZE_PRECISION = 0
Aligned ==
  /\ Whole(program_break)
  /\ \A a \in DOMAIN header \ {free_list_sentinel} : Whole(a)

==============================================================================
