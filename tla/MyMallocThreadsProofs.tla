------------------------ MODULE MyMallocThreadsProofs ------------------------
(***************************************************************************)
(* Proofs about MyMallocThreads, for any threads, sizes and heap.          *)
(*                                                                         *)
(* The allocator works under the mutex and for one call at a time; so the  *)
(* blocks that are in calls stay with those calls (OwnInv), the threads    *)
(* are a correct program for the allocator, and what MyMallocProofs proves *)
(* of it holds here too. That in turn bounds what realloc and calloc do    *)
(* with their blocks while they do not hold the mutex.                     *)
(***************************************************************************)
EXTENDS MyMallocThreads, FiniteSetTheorems, TLAPS

USE ThreadsAssumption

Places == {"program", "lock", "locked", "working", "unlock", "clear", "copy",
           "copying", "return", "fault"}

\* A thread is past its lock and before its unlock exactly when it has the
\* mutex, and only then can the allocator be in the middle of a call.
MutexInv ==
  /\ pc \in [Threads -> Places]
  /\ mutex \in Threads \cup {NULL}
  /\ \A t \in Threads : pc[t] \in {"locked", "working", "unlock"} => mutex = t
  /\ mutex # NULL => pc[mutex] \in {"locked", "working", "unlock"}
  /\ WorkHoldsMutex

LEMMA MutexInit == Init => MutexInv
  BY DEF Init, MutexInv, WorkHoldsMutex, Places, Heap!Init, Heap!NoCall

\* A step of the program or of code outside the mutex.
LEMMA OutsideStep ==
  ASSUME MutexInv, NEW t \in Threads, NEW from \in Places, NEW to \in Places,
         pc[t] = from, from \notin {"locked", "working", "unlock"},
         to \notin {"locked", "working", "unlock"},
         Goto(t, to), UNCHANGED <<op, mutex>>
  PROVE  MutexInv'
  BY DEF MutexInv, WorkHoldsMutex, Places, Goto

LEMMA MutexStep == MutexInv /\ [Next]_vars => MutexInv'
<1> SUFFICES ASSUME MutexInv, [Next]_vars
             PROVE  MutexInv'
  OBVIOUS
<1>1. ASSUME NEW t \in Threads, Program(t)
      PROVE  MutexInv'
  <2>1. PICK function, ptr, size : Call(t, function, ptr, size)
    BY <1>1 DEF Program, CallMalloc, CallCalloc, CallRealloc, CallFree
  <2>2. pc[t] = "program" /\ Goto(t, "lock") /\ UNCHANGED <<op, mutex>>
    BY <2>1 DEF Call, heap
  <2> QED
    BY <2>2, OutsideStep DEF Places
<1>2. ASSUME NEW t \in Threads, Lock(t)
      PROVE  MutexInv'
  BY <1>2 DEF Lock, MutexInv, WorkHoldsMutex, Places, Goto, heap
<1>3. ASSUME NEW t \in Threads, Allocate(t) \/ Free(t) \/ Work(t)
      PROVE  MutexInv'
  <2>1. /\ pc[t] \in {"locked", "working"}
        /\ AfterStep(t)
        /\ mutex' = mutex
    BY <1>3 DEF Allocate, Free, Work
  <2> QED
    BY <2>1 DEF MutexInv, WorkHoldsMutex, Places, AfterStep, Goto
<1>4. ASSUME NEW t \in Threads, FreeNull(t)
      PROVE  MutexInv'
  BY <1>4 DEF FreeNull, MutexInv, WorkHoldsMutex, Places, Goto, heap
<1>5. ASSUME NEW t \in Threads, Unlock(t)
      PROVE  MutexInv'
  BY <1>5 DEF Unlock, AfterUnlock, Released, MutexInv, WorkHoldsMutex, Places, Goto, heap
<1>6. ASSUME NEW t \in Threads,
             Clear(t) \/ BeginCopy(t) \/ CopyToNull(t) \/ EndCopy(t) \/ Return(t)
      PROVE  MutexInv'
  <2>1. UNCHANGED <<op, mutex>>
    BY <1>6 DEF Clear, BeginCopy, CopyToNull, EndCopy, Return, heap
  <2>2. CASE Clear(t)
    BY <2>1, <2>2, OutsideStep DEF Clear, Places
  <2>3. CASE BeginCopy(t)
    BY <2>1, <2>3, OutsideStep DEF BeginCopy, Places
  <2>4. CASE CopyToNull(t)
    BY <2>1, <2>4, OutsideStep DEF CopyToNull, Places
  <2>5. CASE EndCopy(t)
    BY <2>1, <2>5, OutsideStep DEF EndCopy, AfterCopy, Places
  <2>6. CASE Return(t)
    BY <2>1, <2>6, OutsideStep DEF Return, Places
  <2> QED
    BY <1>6, <2>2, <2>3, <2>4, <2>5, <2>6
<1>7. CASE UNCHANGED vars
  BY <1>7 DEF vars, heap, locals, MutexInv, WorkHoldsMutex
<1> QED
  BY <1>1, <1>2, <1>3, <1>4, <1>5, <1>6, <1>7 DEF Next, Step

\* Whatever the threads call, the heap is in the middle of a change only while
\* the thread that changes it holds the mutex (MyMalloc.c:578-669).
THEOREM AllocatorIsLocked == Spec => []WorkHoldsMutex
<1>1. Spec => []MutexInv
  BY MutexInit, MutexStep, PTL DEF Spec
<1> QED
  BY <1>1, PTL DEF MutexInv

(***************************************************************************)
(* The allocator of the threads is the one of MyMallocProofs               *)
(***************************************************************************)

Sizes ==
  MallocSizes \cup ReallocSizes \cup {SizeT(args[1] * args[2]) : args \in CallocArgs}

Allocator == INSTANCE MyMallocProofs WITH
  OtherSbrk <- {},
  Requests <- Sizes

\* The assumptions of the proofs about the allocator hold of it.
LEMMA AssumptionsHold ==
  /\ Allocator!SizesAssumption /\ Allocator!AddressesAssumption
  /\ Allocator!ProgramAssumption /\ Allocator!SentinelBelowHeap
  /\ Allocator!CleanSplits /\ Allocator!NoSizeWrap /\ Allocator!AlignedBreak
  BY HeapAssumption
  DEF Heap!SizesAssumption, Allocator!SizesAssumption,
      Heap!AddressesAssumption, Allocator!AddressesAssumption,
      Heap!ProgramAssumption, Allocator!ProgramAssumption,
      Heap!SentinelBelowHeap, Allocator!SentinelBelowHeap,
      Heap!CleanSplits, Allocator!CleanSplits, Heap!NoSizeWrap,
      Allocator!NoSizeWrap, Heap!AlignedBreak, Allocator!AlignedBreak,
      Heap!RealSize, Allocator!RealSize, Heap!OsBlock,
      Allocator!OsBlock, Heap!MinSize, Allocator!MinSize,
      Heap!RoundedSize, Allocator!RoundedSize, Sizes

\* Both instances are the same program.
LEMMA SameInit == Heap!Init <=> Allocator!Init
  BY DEF Heap!Init, Allocator!Init, Heap!HeaderTag, Allocator!HeaderTag,
      Heap!FooterTag, Allocator!FooterTag, Heap!Store, Allocator!Store,
      Heap!Without, Allocator!Without, Heap!HeaderOf,
      Allocator!HeaderOf, Heap!FooterAt, Allocator!FooterAt,
      Heap!FooterOf, Allocator!FooterOf, Heap!LeftFooter,
      Allocator!LeftFooter, Heap!LeftHeader, Allocator!LeftHeader,
      Heap!RightHeader, Allocator!RightHeader, Heap!LeftIs,
      Allocator!LeftIs, Heap!RightIs, Allocator!RightIs, Heap!Linked,
      Allocator!Linked, Heap!Unlinked, Allocator!Unlinked,
      Heap!AllocatedFooter, Allocator!AllocatedFooter,
      Heap!SplitFooters, Allocator!SplitFooters, Heap!NoCall,
      Allocator!NoCall, Heap!Searching, Allocator!Searching,
      Heap!Inserting, Allocator!Inserting, Heap!Fault, Allocator!Fault,
      Heap!Unaffected, Allocator!Unaffected, Heap!RealSize,
      Allocator!RealSize, Heap!OsBlock, Allocator!OsBlock, Heap!MinSize,
      Allocator!MinSize, Heap!RoundedSize, Allocator!RoundedSize,
      Heap!TooLarge, Allocator!TooLarge, Heap!UNALLOCATED,
      Allocator!UNALLOCATED, Heap!ALLOCATED, Allocator!ALLOCATED,
      Heap!SENTINEL, Allocator!SENTINEL, Heap!FirstListed,
      Allocator!FirstListed, Heap!AtObject, Allocator!AtObject,
      Heap!AtEnd, Allocator!AtEnd, Heap!Remainder, Allocator!Remainder,
      Heap!Return, Allocator!Return, Heap!SbrkSucceeds,
      Allocator!SbrkSucceeds, Heap!FencedHeader, Allocator!FencedHeader,
      Heap!FencedFooter, Allocator!FencedFooter, Heap!Release,
      Allocator!Release, Heap!PlaceFound, Allocator!PlaceFound,
      Heap!Restrict, Allocator!Restrict

LEMMA SameAllocate ==
  ASSUME NEW size
  PROVE  Heap!AllocateObject(size) <=> Allocator!AllocateObject(size)
  BY DEF Heap!AllocateObject, Allocator!AllocateObject, Heap!AllocateTooLarge,
      Allocator!AllocateTooLarge, Heap!AllocateStart,
      Allocator!AllocateStart, Heap!HeaderTag, Allocator!HeaderTag,
      Heap!FooterTag, Allocator!FooterTag, Heap!Store, Allocator!Store,
      Heap!Without, Allocator!Without, Heap!HeaderOf,
      Allocator!HeaderOf, Heap!FooterAt, Allocator!FooterAt,
      Heap!FooterOf, Allocator!FooterOf, Heap!LeftFooter,
      Allocator!LeftFooter, Heap!LeftHeader, Allocator!LeftHeader,
      Heap!RightHeader, Allocator!RightHeader, Heap!LeftIs,
      Allocator!LeftIs, Heap!RightIs, Allocator!RightIs, Heap!Linked,
      Allocator!Linked, Heap!Unlinked, Allocator!Unlinked,
      Heap!AllocatedFooter, Allocator!AllocatedFooter,
      Heap!SplitFooters, Allocator!SplitFooters, Heap!NoCall,
      Allocator!NoCall, Heap!Searching, Allocator!Searching,
      Heap!Inserting, Allocator!Inserting, Heap!Fault, Allocator!Fault,
      Heap!Unaffected, Allocator!Unaffected, Heap!RealSize,
      Allocator!RealSize, Heap!OsBlock, Allocator!OsBlock, Heap!MinSize,
      Allocator!MinSize, Heap!RoundedSize, Allocator!RoundedSize,
      Heap!TooLarge, Allocator!TooLarge, Heap!UNALLOCATED,
      Allocator!UNALLOCATED, Heap!ALLOCATED, Allocator!ALLOCATED,
      Heap!SENTINEL, Allocator!SENTINEL, Heap!FirstListed,
      Allocator!FirstListed, Heap!AtObject, Allocator!AtObject,
      Heap!AtEnd, Allocator!AtEnd, Heap!Remainder, Allocator!Remainder,
      Heap!Return, Allocator!Return, Heap!SbrkSucceeds,
      Allocator!SbrkSucceeds, Heap!FencedHeader, Allocator!FencedHeader,
      Heap!FencedFooter, Allocator!FencedFooter, Heap!Release,
      Allocator!Release, Heap!PlaceFound, Allocator!PlaceFound,
      Heap!Restrict, Allocator!Restrict

LEMMA SameFree ==
  ASSUME NEW ptr
  PROVE  Heap!FreeObject(ptr) <=> Allocator!FreeObject(ptr)
  BY DEF Heap!FreeObject, Allocator!FreeObject, Heap!FreeAlone,
      Allocator!FreeAlone, Heap!FreeMergeLeft, Allocator!FreeMergeLeft,
      Heap!FreeMergeRight, Allocator!FreeMergeRight, Heap!FreeMergeBoth,
      Allocator!FreeMergeBoth, Heap!HeaderTag, Allocator!HeaderTag,
      Heap!FooterTag, Allocator!FooterTag, Heap!Store, Allocator!Store,
      Heap!Without, Allocator!Without, Heap!HeaderOf,
      Allocator!HeaderOf, Heap!FooterAt, Allocator!FooterAt,
      Heap!FooterOf, Allocator!FooterOf, Heap!LeftFooter,
      Allocator!LeftFooter, Heap!LeftHeader, Allocator!LeftHeader,
      Heap!RightHeader, Allocator!RightHeader, Heap!LeftIs,
      Allocator!LeftIs, Heap!RightIs, Allocator!RightIs, Heap!Linked,
      Allocator!Linked, Heap!Unlinked, Allocator!Unlinked,
      Heap!AllocatedFooter, Allocator!AllocatedFooter,
      Heap!SplitFooters, Allocator!SplitFooters, Heap!NoCall,
      Allocator!NoCall, Heap!Searching, Allocator!Searching,
      Heap!Inserting, Allocator!Inserting, Heap!Fault, Allocator!Fault,
      Heap!Unaffected, Allocator!Unaffected, Heap!RealSize,
      Allocator!RealSize, Heap!OsBlock, Allocator!OsBlock, Heap!MinSize,
      Allocator!MinSize, Heap!RoundedSize, Allocator!RoundedSize,
      Heap!TooLarge, Allocator!TooLarge, Heap!UNALLOCATED,
      Allocator!UNALLOCATED, Heap!ALLOCATED, Allocator!ALLOCATED,
      Heap!SENTINEL, Allocator!SENTINEL, Heap!FirstListed,
      Allocator!FirstListed, Heap!AtObject, Allocator!AtObject,
      Heap!AtEnd, Allocator!AtEnd, Heap!Remainder, Allocator!Remainder,
      Heap!Return, Allocator!Return, Heap!SbrkSucceeds,
      Allocator!SbrkSucceeds, Heap!FencedHeader, Allocator!FencedHeader,
      Heap!FencedFooter, Allocator!FencedFooter, Heap!Release,
      Allocator!Release, Heap!PlaceFound, Allocator!PlaceFound,
      Heap!Restrict, Allocator!Restrict

LEMMA SameContinue == Heap!Continue <=> Allocator!Continue
  BY DEF Heap!Continue, Allocator!Continue, Heap!SearchNext,
      Allocator!SearchNext, Heap!TakeWhole, Allocator!TakeWhole,
      Heap!Split, Allocator!Split, Heap!GrowSplit, Allocator!GrowSplit,
      Heap!GrowWhole, Allocator!GrowWhole, Heap!GrowRefused,
      Allocator!GrowRefused, Heap!InsertNext, Allocator!InsertNext,
      Heap!InsertLink, Allocator!InsertLink, Heap!HeaderTag,
      Allocator!HeaderTag, Heap!FooterTag, Allocator!FooterTag,
      Heap!Store, Allocator!Store, Heap!Without, Allocator!Without,
      Heap!HeaderOf, Allocator!HeaderOf, Heap!FooterAt,
      Allocator!FooterAt, Heap!FooterOf, Allocator!FooterOf,
      Heap!LeftFooter, Allocator!LeftFooter, Heap!LeftHeader,
      Allocator!LeftHeader, Heap!RightHeader, Allocator!RightHeader,
      Heap!LeftIs, Allocator!LeftIs, Heap!RightIs, Allocator!RightIs,
      Heap!Linked, Allocator!Linked, Heap!Unlinked, Allocator!Unlinked,
      Heap!AllocatedFooter, Allocator!AllocatedFooter,
      Heap!SplitFooters, Allocator!SplitFooters, Heap!NoCall,
      Allocator!NoCall, Heap!Searching, Allocator!Searching,
      Heap!Inserting, Allocator!Inserting, Heap!Fault, Allocator!Fault,
      Heap!Unaffected, Allocator!Unaffected, Heap!RealSize,
      Allocator!RealSize, Heap!OsBlock, Allocator!OsBlock, Heap!MinSize,
      Allocator!MinSize, Heap!RoundedSize, Allocator!RoundedSize,
      Heap!TooLarge, Allocator!TooLarge, Heap!UNALLOCATED,
      Allocator!UNALLOCATED, Heap!ALLOCATED, Allocator!ALLOCATED,
      Heap!SENTINEL, Allocator!SENTINEL, Heap!FirstListed,
      Allocator!FirstListed, Heap!AtObject, Allocator!AtObject,
      Heap!AtEnd, Allocator!AtEnd, Heap!Remainder, Allocator!Remainder,
      Heap!Return, Allocator!Return, Heap!SbrkSucceeds,
      Allocator!SbrkSucceeds, Heap!FencedHeader, Allocator!FencedHeader,
      Heap!FencedFooter, Allocator!FencedFooter, Heap!Release,
      Allocator!Release, Heap!PlaceFound, Allocator!PlaceFound,
      Heap!Restrict, Allocator!Restrict

LEMMA SameNext == Allocator!Next => Heap!Next
<1>1. Heap!Cardinality(DOMAIN live) = Allocator!Cardinality(DOMAIN live)
  BY DEF Heap!Cardinality, Allocator!Cardinality
<1>2. Allocator!Program => Heap!Program
  BY <1>1, SameAllocate, SameFree DEF Heap!Program, Allocator!Program, Sizes
<1> QED
  BY <1>2, SameContinue DEF Heap!Next, Allocator!Next, Heap!Idle, Allocator!Idle

(***************************************************************************)
(* What the threads hold                                                   *)
(***************************************************************************)

Pointers == HeapStart .. HeapLimit \cup {NULL}

Calls == [function : {"none", "malloc", "realloc", "calloc", "free"},
          ptr : Pointers, size : Nat]

\* The types of the locals, what a call asks for, and where each function goes.
CallInv ==
  /\ call \in [Threads -> Calls]
  /\ new_ptr \in [Threads -> Pointers]
  /\ to_copy \in [Threads -> Int]
  /\ calls_left \in [Threads -> Int]
  /\ \A t \in Threads :
       /\ Allocates(t) => SizeT(call[t].size) \in Sizes
       /\ pc[t] = "working" =>
            IF Allocates(t) THEN op.kind \in {"search", "fault"} /\ request = SizeT(call[t].size)
                            ELSE op.kind \in {"insert"}
       /\ pc[t] = "clear" => call[t].function = "calloc" /\ new_ptr[t] # NULL
       /\ pc[t] \in {"copy", "copying"} => call[t].function = "realloc" /\ call[t].ptr # NULL
       /\ pc[t] = "copying" => new_ptr[t] # NULL /\ to_copy[t] <= SizeT(call[t].size)

\* The block a thread has passed to its call, as long as the call has not freed
\* it, and the one it gets.
Old(t) ==
  IF \/ pc[t] \in {"lock", "locked"}
     \/ call[t].function = "realloc" /\ pc[t] \in {"working", "unlock", "copy", "copying"}
  THEN {call[t].ptr} \ {NULL} ELSE {}
New(t) ==
  (IF pc[t] = "unlock" /\ Allocates(t) THEN {result} ELSE {new_ptr[t]}) \ {NULL}
Owned(t) == Old(t) \cup New(t)

\* Blocks in calls are allocated, and in one call only.
OwnInv ==
  /\ \A t \in Threads : Owned(t) \subseteq DOMAIN live /\ Old(t) \cap New(t) = {}
  /\ \A t, u \in Threads : t # u => Owned(t) \cap Owned(u) = {}

\* A block that is new has the size that was asked for.
SizedInv ==
  \A t \in Threads :
    pc[t] = "clear" \/ pc[t] \in {"copy", "copying"} \/ (pc[t] = "unlock" /\ Allocates(t)) =>
      \A p \in New(t) : live[p] = SizeT(call[t].size)

\* Blocks that the program has and blocks it has asked for.
CountInv ==
  /\ IsFiniteSet(DOMAIN live) /\ IsFiniteSet(Underway)
  /\ Cardinality(DOMAIN live) + Cardinality(Underway) <= MaxLive

(***************************************************************************)
(* What a step under the mutex does                                        *)
(***************************************************************************)

HeapOK == Allocator!Inv

LocalsStay == UNCHANGED <<mutex, call, new_ptr, to_copy, calls_left>>

\* allocate_object begins, or refuses at once.
Begins(t) ==
  /\ pc[t] = "locked" /\ Allocates(t)
  /\ live' = live /\ request' = SizeT(call[t].size)
  /\ \/ op'.kind = "search" /\ pc' = [pc EXCEPT ![t] = "working"]
     \/ op'.kind = "idle" /\ result' = NULL /\ pc' = [pc EXCEPT ![t] = "unlock"]

\* free_object takes the block.
Frees(t) ==
  /\ pc[t] = "locked" /\ ~Allocates(t) /\ call[t].ptr # NULL
  /\ live' = Allocator!Without(live, {call[t].ptr})
  /\ UNCHANGED <<request, result>>
  /\ \/ op'.kind = "insert" /\ pc' = [pc EXCEPT ![t] = "working"]
     \/ op'.kind = "idle" /\ pc' = [pc EXCEPT ![t] = "unlock"]

\* The search finds a block, or makes one.
Gets(t) ==
  /\ pc[t] = "working" /\ op.kind = "search"
  /\ Allocator!Serves
  /\ pc' = [pc EXCEPT ![t] = "unlock"]

\* A loop goes on, or ends without a block.
Loops(t) ==
  /\ pc[t] = "working"
  /\ UNCHANGED <<live, request, result>>
  /\ \/ /\ op.kind = "search" /\ op'.kind \in {"search", "fault"}
        /\ pc' = [pc EXCEPT ![t] = "working"]
     \/ /\ op.kind = "insert"
        /\ \/ op'.kind = "insert" /\ pc' = [pc EXCEPT ![t] = "working"]
           \/ op'.kind = "idle" /\ pc' = [pc EXCEPT ![t] = "unlock"]

\* Only the thread that has the mutex is under it, and the allocator is idle
\* when it has just got it.
LEMMA Alone ==
  ASSUME MutexInv, NEW t \in Threads, pc[t] \in {"locked", "working", "unlock"}
  PROVE  /\ \A u \in Threads \ {t} : pc[u] \notin {"locked", "working", "unlock"}
         /\ mutex = t
         /\ pc[t] # "working" => op.kind = "idle"
  BY DEF MutexInv, WorkHoldsMutex

\* Allocate, Free and Work are of these forms.
LEMMA UnderMutex ==
  ASSUME MutexInv, HeapOK, NEW t \in Threads, Allocate(t) \/ Free(t) \/ Work(t)
  PROVE  (Begins(t) \/ Frees(t) \/ Gets(t) \/ Loops(t)) /\ LocalsStay
<1> LocalsStay
  BY DEF Allocate, Free, Work, LocalsStay
<1>a. AfterStep(t)
  BY DEF Allocate, Free, Work
<1>b. /\ op'.kind = "idle" => pc' = [pc EXCEPT ![t] = "unlock"]
      /\ op'.kind # "idle" => pc' = [pc EXCEPT ![t] = "working"]
  BY <1>a DEF AfterStep, Goto
<1>1. CASE Allocate(t)
  <2> DEFINE size == SizeT(call[t].size)
  <2>1. pc[t] = "locked" /\ Allocates(t) /\ Heap!AllocateObject(size)
    BY <1>1 DEF Allocate
  <2>2. Allocator!AllocateObject(size)
    BY <2>1, SameAllocate
  <2> HIDE DEF size
  <2>3. /\ live' = live /\ request' = size
        /\ op'.kind = "search" \/ (op' = op /\ result' = NULL)
    BY <2>2, AssumptionsHold, Allocator!AllocateFacts
  <2>4. op.kind = "idle"
    BY <2>1, Alone
  <2> QED
    BY <2>1, <2>3, <2>4, <1>b DEF Begins, size
<1>2. CASE Free(t)
  <2> DEFINE ptr == call[t].ptr
  <2>1. /\ pc[t] = "locked" /\ ~Allocates(t) /\ ptr # NULL /\ Heap!FreeObject(ptr)
    BY <1>2 DEF Free
  <2>2. Allocator!FreeObject(ptr)
    BY <2>1, SameFree
  <2> HIDE DEF ptr
  <2>3. /\ live' = Allocator!Without(live, {ptr}) /\ UNCHANGED <<request, result>>
        /\ op'.kind = "insert" \/ op' = op
    BY <2>2, AssumptionsHold, Allocator!FreeObjectFacts
  <2>4. op.kind = "idle"
    BY <2>1, Alone
  <2> QED
    BY <2>1, <2>3, <2>4, <1>b DEF Frees, ptr
<1>3. CASE Work(t)
  <2>1. pc[t] = "working" /\ Allocator!Continue
    BY <1>3, SameContinue DEF Work
  <2>2. \/ op.kind = "search" /\ Allocator!Serves
        \/ /\ op.kind = "search" /\ op'.kind \in {"search", "fault"}
           /\ UNCHANGED <<live, request, result>>
        \/ /\ op.kind = "insert" /\ op'.kind \in {"insert", "idle"}
           /\ UNCHANGED <<live, request, result>>
    BY <2>1, AssumptionsHold, Allocator!ContinueFacts DEF HeapOK
  <2>3. Allocator!Serves => op'.kind = "idle"
    BY DEF Allocator!Serves
  <2> QED
    BY <2>1, <2>2, <2>3, <1>b DEF Gets, Loops
<1> QED
  BY <1>1, <1>2, <1>3

\* The other steps leave the heap alone.
LEMMA OverHeap ==
  ASSUME NEW t \in Threads,
         Program(t) \/ Lock(t) \/ FreeNull(t) \/ Unlock(t) \/ Clear(t) \/ BeginCopy(t)
           \/ CopyToNull(t) \/ EndCopy(t) \/ Return(t)
  PROVE  UNCHANGED heap
  BY DEF Program, CallMalloc, CallCalloc, CallRealloc, CallFree, Call, Lock, FreeNull,
         Unlock, Clear, BeginCopy, CopyToNull, EndCopy, Return

(***************************************************************************)
(* The arguments of calls                                                  *)
(***************************************************************************)

\* A size in size_t.
LEMMA SizesFit ==
  /\ SIZE_MODULUS \in Nat \ {0}
  /\ Sizes \subseteq Nat
  /\ \A size \in MallocSizes \cup ReallocSizes : size \in Nat /\ SizeT(size) = size
  /\ NULL \notin Nat /\ HeapStart \in Nat /\ HeapLimit \in Nat
<1>1. /\ SIZE_MODULUS \in Nat \ {0} /\ Sizes \subseteq Nat
      /\ HEADER_SIZE \in Nat /\ FOOTER_SIZE \in Nat /\ SIZE_PRECISION \in Nat \ {0}
      /\ NULL \notin Nat /\ HeapStart \in Nat /\ HeapLimit \in Nat
  BY AssumptionsHold DEF Allocator!SizesAssumption, Allocator!ProgramAssumption,
     Allocator!AddressesAssumption
<1>2. ASSUME NEW size \in MallocSizes \cup ReallocSizes
      PROVE  size \in Nat /\ SizeT(size) = size
  <2>1. size \in Sizes /\ size \in Nat
    BY <1>1 DEF Sizes
  <2>2. size + HEADER_SIZE + FOOTER_SIZE + SIZE_PRECISION <= SIZE_MODULUS
    BY <2>1, AssumptionsHold DEF Allocator!NoSizeWrap
  <2>3. size < SIZE_MODULUS
    BY <1>1, <2>1, <2>2
  <2> QED
    BY <1>1, <2>1, <2>3 DEF SizeT
<1> QED
  BY <1>1, <1>2

\* The pointers of the program are addresses, and NULL is none of them.
LEMMA LivePointers ==
  ASSUME HeapOK
  PROVE  DOMAIN live \subseteq Pointers /\ NULL \notin DOMAIN live
<1>1. DOMAIN live \subseteq HeapStart .. HeapLimit
  BY AssumptionsHold, Allocator!PointersInHeap DEF HeapOK, Allocator!HeapAddresses
<1> QED
  BY <1>1, SizesFit DEF Pointers

\* What the program passes to a call.
LEMMA CallFacts ==
  ASSUME HeapOK, NEW t \in Threads, Program(t)
  PROVE  \E function \in {"malloc", "realloc", "calloc", "free"}, ptr \in Pointers, size \in Nat :
           /\ Call(t, function, ptr, size)
           /\ ptr \in Usable \cup {NULL}
           /\ function # "free" =>
                /\ SizeT(size) \in Sizes
                /\ Cardinality(DOMAIN live) + Cardinality(Underway) < MaxLive
<1>1. \A p \in Usable : p \in Pointers
  BY LivePointers DEF Usable
<1>2. NULL \in Pointers
  BY DEF Pointers
<1> QED
  BY <1>1, <1>2, SizesFit, ArgumentsAssumption
  DEF Program, CallMalloc, CallCalloc, CallRealloc, CallFree, Sizes

\* Everything that is invariant about the threads.
ThreadsInv == MutexInv /\ CallInv /\ OwnInv /\ SizedInv /\ CountInv

LEMMA ThreadsInit == Init => ThreadsInv
<1> SUFFICES ASSUME Init
             PROVE  ThreadsInv
  OBVIOUS
<1>1. MutexInv
  BY MutexInit
<1>2. /\ pc = [t \in Threads |-> "program"]
      /\ call = [t \in Threads |-> NoArguments]
      /\ new_ptr = [t \in Threads |-> NULL]
      /\ to_copy = [t \in Threads |-> 0]
      /\ calls_left = [t \in Threads |-> MaxCalls]
  BY DEF Init
<1>3. DOMAIN live = {}
  BY DEF Init, Heap!Init
<1>4. CallInv
  BY <1>2, ArgumentsAssumption DEF CallInv, Calls, Pointers, NoArguments, Allocates
<1>5. OwnInv
  BY <1>2 DEF OwnInv, Owned, Old, New, NoArguments
<1>6. SizedInv
  BY <1>2 DEF SizedInv
<1>7. CountInv
  <2>1. Underway = {}
    BY <1>2 DEF Underway
  <2>2. MaxLive \in Nat
    BY AssumptionsHold DEF Allocator!ProgramAssumption
  <2> QED
    BY <1>3, <2>1, <2>2, FS_EmptySet DEF CountInv
<1> QED
  BY <1>1, <1>4, <1>5, <1>6, <1>7 DEF ThreadsInv

\* What CallInv says of one thread.
CallOf(t) ==
  /\ Allocates(t) => SizeT(call[t].size) \in Sizes
  /\ pc[t] = "working" =>
       IF Allocates(t) THEN op.kind \in {"search", "fault"} /\ request = SizeT(call[t].size)
                       ELSE op.kind \in {"insert"}
  /\ pc[t] = "clear" => call[t].function = "calloc" /\ new_ptr[t] # NULL
  /\ pc[t] \in {"copy", "copying"} => call[t].function = "realloc" /\ call[t].ptr # NULL
  /\ pc[t] = "copying" => new_ptr[t] # NULL /\ to_copy[t] <= SizeT(call[t].size)

LocalTypes ==
  /\ call \in [Threads -> Calls]
  /\ new_ptr \in [Threads -> Pointers]
  /\ to_copy \in [Threads -> Int]
  /\ calls_left \in [Threads -> Int]

LEMMA CallParts == CallInv <=> LocalTypes /\ \A t \in Threads : CallOf(t)
  BY DEF CallInv, LocalTypes, CallOf

LEMMA CallPartsNext ==
  LocalTypes' /\ (\A t \in Threads : CallOf(t)') => CallInv'
  BY DEF CallInv, LocalTypes, CallOf

\* A thread that another one's step leaves alone.
LEMMA OtherCall ==
  ASSUME NEW u \in Threads, CallOf(u),
         pc'[u] = pc[u], call'[u] = call[u], new_ptr'[u] = new_ptr[u], to_copy'[u] = to_copy[u],
         pc[u] = "working" => op' = op /\ request' = request
  PROVE  CallOf(u)'
  BY DEF CallOf, Allocates

\* The types of a step over the heap, and of one under the mutex.
LEMMA LocalTypesStep ==
  ASSUME ThreadsInv, HeapOK, NEW t \in Threads, Program(t) \/ Step(t)
  PROVE  LocalTypes'
<1> LocalTypes /\ MutexInv
  BY CallParts DEF ThreadsInv
<1>1. CASE Program(t)
  <2>1. PICK function \in {"malloc", "realloc", "calloc", "free"}, ptr \in Pointers, size \in Nat :
          Call(t, function, ptr, size)
    BY <1>1, CallFacts
  <2>2. [function |-> function, ptr |-> ptr, size |-> size] \in Calls
    BY DEF Calls
  <2> QED
    BY <2>1, <2>2 DEF Call, LocalTypes
<1>2. CASE Allocate(t) \/ Free(t) \/ Work(t)
  BY <1>2, UnderMutex DEF LocalsStay, LocalTypes
<1>3. CASE Unlock(t)
  <2>1. result \in Pointers
    <3>1. result \in HeapStart .. HeapLimit \cup {NULL}
      BY AssumptionsHold, Allocator!HeapFacts DEF HeapOK, Allocator!HeapAddresses
    <3> QED
      BY <3>1 DEF Pointers
  <2> QED
    BY <1>3, <2>1 DEF Unlock, LocalTypes
<1>4. CASE BeginCopy(t)
  <2>1. SizeToCopy(t) \in Int
    <3>1. pc[t] = "copy" /\ call[t].ptr # NULL /\ call[t].function = "realloc"
      BY <1>4 DEF BeginCopy, ThreadsInv, CallInv
    <3>2. call[t].ptr \in DOMAIN live
      BY <3>1 DEF ThreadsInv, OwnInv, Owned, Old
    <3>3. Allocator!HeaderOf(call[t].ptr) \in DOMAIN header
      BY <3>2, AssumptionsHold, Allocator!ObjectHeld DEF HeapOK
    <3>4. header[Allocator!HeaderOf(call[t].ptr)].object_size \in Int
      BY <3>3, AssumptionsHold, Allocator!HeapFacts DEF HeapOK, Allocator!HeaderTags
    <3>5. SizeT(call[t].size) \in Int
      BY SizesFit DEF SizeT, LocalTypes, Calls
    <3> QED
      BY <3>4, <3>5 DEF SizeToCopy, Heap!HeaderOf, Allocator!HeaderOf
  <2> QED
    BY <1>4, <2>1 DEF BeginCopy, LocalTypes
<1>5. CASE EndCopy(t)
  BY <1>5 DEF EndCopy, LocalTypes, Calls
<1>6. CASE Return(t)
  BY <1>6 DEF Return, LocalTypes, Calls, NoArguments, Pointers
<1>7. CASE Lock(t) \/ FreeNull(t) \/ Clear(t) \/ CopyToNull(t)
  BY <1>7 DEF Lock, FreeNull, Clear, CopyToNull, LocalTypes
<1> QED
  BY <1>1, <1>2, <1>3, <1>4, <1>5, <1>6, <1>7 DEF Step

\* A step of t leaves the locals of the others alone.
LEMMA OthersStay ==
  ASSUME ThreadsInv, HeapOK, NEW t \in Threads, Program(t) \/ Step(t), NEW u \in Threads \ {t}
  PROVE  /\ pc'[u] = pc[u] /\ call'[u] = call[u] /\ new_ptr'[u] = new_ptr[u]
         /\ to_copy'[u] = to_copy[u]
         /\ pc[u] \in {"working", "unlock"} => UNCHANGED <<op, request, result>>
<1>1. pc \in [Threads -> Places] /\ LocalTypes /\ MutexInv
  BY CallParts DEF ThreadsInv, MutexInv
<1>2. CASE Allocate(t) \/ Free(t) \/ Work(t)
  <2>1. (Begins(t) \/ Frees(t) \/ Gets(t) \/ Loops(t)) /\ LocalsStay
    BY <1>1, <1>2, UnderMutex
  <2>2. pc[t] \in {"locked", "working"} /\ pc'[u] = pc[u]
    BY <1>1, <2>1 DEF Begins, Frees, Gets, Loops
  <2>3. pc[u] \notin {"working", "unlock"}
    BY <1>1, <2>2, Alone
  <2> QED
    BY <2>1, <2>2, <2>3 DEF LocalsStay
<1>3. CASE Program(t)
  <2>1. PICK function, ptr, size : Call(t, function, ptr, size)
    BY <1>3, CallFacts
  <2> QED
    BY <1>1, <2>1 DEF Call, Goto, LocalTypes, heap
<1>4. CASE Lock(t) \/ FreeNull(t) \/ Clear(t) \/ BeginCopy(t) \/ CopyToNull(t)
  BY <1>1, <1>4 DEF Lock, FreeNull, Clear, BeginCopy, CopyToNull, Goto, LocalTypes, heap
<1>5. CASE Unlock(t) \/ EndCopy(t) \/ Return(t)
  BY <1>1, <1>5 DEF Unlock, EndCopy, Return, Goto, LocalTypes, heap
<1> QED
  BY <1>2, <1>3, <1>4, <1>5 DEF Step

\* The thread that steps.
LEMMA CallOfStep ==
  ASSUME ThreadsInv, HeapOK, NEW t \in Threads, Program(t) \/ Step(t)
  PROVE  CallOf(t)'
<1>1. pc \in [Threads -> Places] /\ LocalTypes /\ MutexInv /\ CallOf(t)
  BY CallParts DEF ThreadsInv, MutexInv
<1>2. CASE Program(t)
  <2>1. PICK function \in {"malloc", "realloc", "calloc", "free"}, ptr \in Pointers, size \in Nat :
          /\ Call(t, function, ptr, size)
          /\ function # "free" => SizeT(size) \in Sizes
    BY <1>2, CallFacts
  <2>2. /\ pc'[t] = "lock"
        /\ call'[t] = [function |-> function, ptr |-> ptr, size |-> size]
    BY <1>1, <2>1 DEF Call, Goto, LocalTypes
  <2> QED
    BY <2>1, <2>2 DEF CallOf, Allocates
<1>3. CASE Lock(t) \/ FreeNull(t) \/ Clear(t) \/ CopyToNull(t)
  <2>1. /\ pc'[t] \notin {"working", "clear", "copy", "copying"}
        /\ call'[t] = call[t]
    BY <1>1, <1>3 DEF Lock, FreeNull, Clear, CopyToNull, Goto
  <2> QED
    BY <1>1, <2>1 DEF CallOf, Allocates
<1>4. CASE Allocate(t) \/ Free(t) \/ Work(t)
  <2>1. (Begins(t) \/ Frees(t) \/ Gets(t) \/ Loops(t)) /\ call' = call
    BY <1>1, <1>4, UnderMutex DEF LocalsStay
  <2>2. CASE Begins(t)
    <3>1. \/ op'.kind = "search" /\ pc'[t] = "working" /\ request' = SizeT(call[t].size)
          \/ pc'[t] = "unlock"
      BY <1>1, <2>2 DEF Begins
    <3> QED
      BY <1>1, <2>1, <2>2, <3>1 DEF CallOf, Allocates, Begins
  <2>3. CASE Frees(t)
    <3>1. (op'.kind = "insert" /\ pc'[t] = "working") \/ pc'[t] = "unlock"
      BY <1>1, <2>3 DEF Frees
    <3> QED
      BY <1>1, <2>1, <2>3, <3>1 DEF CallOf, Allocates, Frees
  <2>4. CASE Gets(t)
    <3>1. pc'[t] = "unlock"
      BY <1>1, <2>4 DEF Gets
    <3> QED
      BY <1>1, <2>1, <3>1 DEF CallOf, Allocates
  <2>5. CASE Loops(t)
    <3>1. \/ pc'[t] = "unlock"
          \/ pc'[t] = "working" /\ op'.kind \in {"search", "fault"} /\ op.kind = "search"
          \/ pc'[t] = "working" /\ op'.kind = "insert" /\ op.kind = "insert"
      BY <1>1, <2>5 DEF Loops
    <3>2. pc[t] = "working" /\ request' = request
      BY <2>5 DEF Loops
    <3> QED
      BY <1>1, <2>1, <3>1, <3>2 DEF CallOf, Allocates
  <2> QED
    BY <2>1, <2>2, <2>3, <2>4, <2>5
<1>5. CASE Unlock(t)
  <2> DEFINE block == IF Allocates(t) THEN result ELSE new_ptr[t]
  <2>1. /\ pc'[t] = AfterUnlock(t, block) /\ new_ptr'[t] = block /\ call' = call
    BY <1>1, <1>5 DEF Unlock, Goto, LocalTypes
  <2> HIDE DEF block
  <2> QED
    BY <1>1, <2>1 DEF CallOf, Allocates, AfterUnlock
<1>6. CASE BeginCopy(t)
  <2>1. /\ pc[t] = "copy" /\ pc'[t] = "copying" /\ call' = call /\ new_ptr' = new_ptr
        /\ new_ptr[t] # NULL /\ to_copy'[t] = SizeToCopy(t)
    BY <1>1, <1>6 DEF BeginCopy, Goto, LocalTypes
  <2>2. to_copy'[t] <= SizeT(call[t].size)
    <3>1. call[t].ptr # NULL /\ call[t].function = "realloc"
      BY <1>1, <2>1 DEF CallOf
    <3>2. call[t].ptr \in DOMAIN live
      BY <2>1, <3>1 DEF ThreadsInv, OwnInv, Owned, Old
    <3>3. Allocator!HeaderOf(call[t].ptr) \in DOMAIN header
      BY <3>2, AssumptionsHold, Allocator!ObjectHeld DEF HeapOK
    <3>4. header[Allocator!HeaderOf(call[t].ptr)].object_size \in Int
      BY <3>3, AssumptionsHold, Allocator!HeapFacts DEF HeapOK, Allocator!HeaderTags
    <3>5. SizeT(call[t].size) \in Int
      BY <1>1, SizesFit DEF SizeT, LocalTypes, Calls
    <3> QED
      BY <2>1, <3>4, <3>5 DEF SizeToCopy, Heap!HeaderOf, Allocator!HeaderOf
  <2> QED
    BY <1>1, <2>1, <2>2 DEF CallOf, Allocates
<1>7. CASE EndCopy(t)
  <2>1. /\ pc'[t] = "lock" /\ call'[t] = [call[t] EXCEPT !.function = "free"]
        /\ call[t] \in Calls
    BY <1>1, <1>7 DEF EndCopy, AfterCopy, Goto, LocalTypes
  <2>2. call'[t].function = "free"
    BY <2>1 DEF Calls
  <2> QED
    BY <2>1, <2>2 DEF CallOf, Allocates
<1>8. CASE Return(t)
  <2>1. pc'[t] = "program" /\ call'[t] = NoArguments
    BY <1>1, <1>8 DEF Return, Goto, LocalTypes
  <2> QED
    BY <2>1 DEF CallOf, Allocates, NoArguments
<1> QED
  BY <1>2, <1>3, <1>4, <1>5, <1>6, <1>7, <1>8 DEF Step

LEMMA CallStep ==
  ASSUME ThreadsInv, HeapOK, NEW t \in Threads, Program(t) \/ Step(t)
  PROVE  CallInv'
<1>1. LocalTypes'
  BY LocalTypesStep
<1>2. CallOf(t)'
  BY CallOfStep
<1>3. ASSUME NEW u \in Threads \ {t}
      PROVE  CallOf(u)'
  <2>1. CallOf(u)
    BY CallParts DEF ThreadsInv
  <2> QED
    BY <2>1, OthersStay, OtherCall
<1>4. \A u \in Threads : CallOf(u)'
  BY <1>2, <1>3
<1> QED
  BY <1>1, <1>4, CallPartsNext

(***************************************************************************)
(* Who owns which block                                                    *)
(***************************************************************************)

\* A thread that another one's step leaves alone owns what it owned.
LEMMA OtherOwns ==
  ASSUME NEW u \in Threads,
         pc'[u] = pc[u], call'[u] = call[u], new_ptr'[u] = new_ptr[u],
         pc[u] = "unlock" => result' = result
  PROVE  /\ Old(u)' = Old(u) /\ New(u)' = New(u)
         /\ Allocates(u)' = Allocates(u)
  BY DEF Old, New, Allocates

\* The step of t changes what t owns, and the blocks of the program.
LEMMA OwnFrom ==
  ASSUME OwnInv, NEW t \in Threads,
         \A u \in Threads \ {t} : Old(u)' = Old(u) /\ New(u)' = New(u),
         \A u \in Threads \ {t} : Owned(u) \cap Owned(t)' = {},
         \A u \in Threads \ {t} : Owned(u) \subseteq DOMAIN live',
         Owned(t)' \subseteq DOMAIN live', (Old(t) \cap New(t))' = {}
  PROVE  OwnInv'
<1>1. \A u \in Threads \ {t} : Owned(u)' = Owned(u)
  BY DEF Owned
<1>2. ASSUME NEW u \in Threads
      PROVE  Owned(u)' \subseteq DOMAIN live' /\ (Old(u) \cap New(u))' = {}
  <2>1. CASE u = t
    BY <2>1
  <2>2. CASE u # t
    BY <1>1, <2>2 DEF OwnInv
  <2> QED
    BY <2>1, <2>2
<1>3. ASSUME NEW u \in Threads, NEW v \in Threads, u # v
      PROVE  Owned(u)' \cap Owned(v)' = {}
  <2>1. CASE u # t /\ v # t
    BY <1>1, <1>3, <2>1 DEF OwnInv
  <2>2. CASE u = t
    <3>1. Owned(v)' = Owned(v) /\ Owned(v) \cap Owned(t)' = {}
      BY <1>1, <1>3, <2>2
    <3> QED
      BY <2>2, <3>1
  <2>3. CASE v = t
    <3>1. Owned(u)' = Owned(u) /\ Owned(u) \cap Owned(t)' = {}
      BY <1>1, <1>3, <2>3
    <3> QED
      BY <2>3, <3>1
  <2> QED
    BY <2>1, <2>2, <2>3
<1> QED
  BY <1>2, <1>3 DEF OwnInv

\* A step that gives t nothing new.
LEMMA OwnShrinks ==
  ASSUME OwnInv, NEW t \in Threads,
         \A u \in Threads \ {t} : Old(u)' = Old(u) /\ New(u)' = New(u),
         Old(t)' \subseteq Old(t), New(t)' \subseteq New(t), DOMAIN live' = DOMAIN live
  PROVE  OwnInv'
<1>1. Owned(t)' \subseteq Owned(t)
  BY DEF Owned
<1>2. /\ \A u \in Threads \ {t} : Owned(u) \cap Owned(t)' = {}
      /\ \A u \in Threads \ {t} : Owned(u) \subseteq DOMAIN live'
      /\ Owned(t)' \subseteq DOMAIN live' /\ (Old(t) \cap New(t))' = {}
  BY <1>1 DEF OwnInv
<1> QED
  BY <1>2, OwnFrom

\* What t owns after a step that is not the start of a call and brings no block.
LEMMA OwnLess ==
  ASSUME ThreadsInv, HeapOK, NEW t \in Threads, Step(t), ~Frees(t), ~Gets(t)
  PROVE  Old(t)' \subseteq Old(t) /\ New(t)' \subseteq New(t) /\ live' = live
<1>1. pc \in [Threads -> Places] /\ LocalTypes /\ MutexInv /\ CallOf(t)
  BY CallParts DEF ThreadsInv, MutexInv
<1>2. CASE Lock(t)
  <2>1. /\ pc[t] = "lock" /\ pc'[t] = "locked" /\ call' = call /\ new_ptr' = new_ptr
        /\ live' = live /\ result' = result
    BY <1>1, <1>2 DEF Lock, Goto, heap
  <2> QED
    BY <2>1 DEF Old, New, Allocates
<1>3. CASE Allocate(t) \/ Free(t) \/ Work(t)
  <2>1. (Begins(t) \/ Loops(t)) /\ call' = call /\ new_ptr' = new_ptr
    BY <1>1, <1>3, UnderMutex DEF LocalsStay
  <2>2. CASE Begins(t)
    <3>1. pc[t] = "locked" /\ Allocates(t) /\ live' = live
          /\ (pc'[t] = "working" \/ (pc'[t] = "unlock" /\ result' = NULL))
      BY <1>1, <2>2 DEF Begins
    <3> QED
      BY <2>1, <3>1 DEF Old, New, Allocates
  <2>3. CASE Loops(t)
    <3>1. /\ pc[t] = "working" /\ live' = live /\ result' = result
          /\ pc'[t] = "working" \/ (pc'[t] = "unlock" /\ op.kind = "insert")
      BY <1>1, <2>3 DEF Loops
    <3>2. pc'[t] = "unlock" => ~Allocates(t)
      BY <1>1, <3>1 DEF CallOf
    <3> QED
      BY <2>1, <3>1, <3>2 DEF Old, New, Allocates
  <2> QED
    BY <2>1, <2>2, <2>3
<1>4. CASE FreeNull(t)
  <2>1. /\ pc[t] = "locked" /\ pc'[t] = "unlock" /\ call' = call /\ new_ptr' = new_ptr
        /\ live' = live /\ ~Allocates(t)
    BY <1>1, <1>4 DEF FreeNull, Goto, heap
  <2> QED
    BY <2>1 DEF Old, New, Allocates
<1>5. CASE Unlock(t)
  <2> DEFINE block == IF Allocates(t) THEN result ELSE new_ptr[t]
  <2>1. /\ pc[t] = "unlock" /\ pc'[t] = AfterUnlock(t, block)
        /\ new_ptr'[t] = block /\ call' = call /\ live' = live
    BY <1>1, <1>5 DEF Unlock, Goto, LocalTypes, heap
  <2>2. pc'[t] \in {"clear", "copy", "return"}
        /\ (pc'[t] = "copy" => call[t].function = "realloc")
    BY <2>1 DEF AfterUnlock
  <2> QED
    BY <2>1, <2>2 DEF Old, New, Allocates
<1>6. CASE Clear(t) \/ CopyToNull(t)
  <2>1. /\ pc'[t] \in {"return", "fault"} /\ call' = call /\ new_ptr' = new_ptr
        /\ live' = live /\ pc[t] \in {"clear", "copy"}
    BY <1>1, <1>6 DEF Clear, CopyToNull, Goto, heap
  <2> QED
    BY <2>1 DEF Old, New, Allocates
<1>7. CASE BeginCopy(t)
  <2>1. /\ pc'[t] = "copying" /\ call' = call /\ new_ptr' = new_ptr
        /\ live' = live /\ pc[t] = "copy"
    BY <1>1, <1>7 DEF BeginCopy, Goto, heap
  <2> QED
    BY <2>1 DEF Old, New, Allocates
<1>8. CASE EndCopy(t)
  <2>1. /\ pc[t] = "copying" /\ pc'[t] = "lock" /\ new_ptr' = new_ptr /\ live' = live
        /\ call'[t] = [call[t] EXCEPT !.function = "free"]
        /\ call[t] \in Calls /\ call[t].function = "realloc"
    BY <1>1, <1>8 DEF EndCopy, AfterCopy, Goto, LocalTypes, CallOf, heap
  <2>2. call'[t].ptr = call[t].ptr /\ call'[t].function = "free"
    BY <2>1 DEF Calls
  <2> QED
    BY <2>1, <2>2 DEF Old, New, Allocates
<1>9. CASE Return(t)
  <2>1. /\ pc[t] = "return" /\ pc'[t] = "program" /\ new_ptr'[t] = NULL /\ live' = live
    BY <1>1, <1>9 DEF Return, Goto, LocalTypes, heap
  <2> QED
    BY <2>1 DEF Old, New, Allocates
<1> QED
  BY <1>2, <1>3, <1>4, <1>5, <1>6, <1>7, <1>8, <1>9 DEF Step

\* A thread owns nothing but what its locals and, at its unlock, the result name.
LEMMA OwnedNames ==
  ASSUME NEW u \in Threads
  PROVE  Owned(u) \subseteq {call[u].ptr, new_ptr[u],
                             IF pc[u] = "unlock" THEN result ELSE NULL} \ {NULL}
  BY DEF Owned, Old, New

\* What free_object takes from t.
LEMMA FreesFacts ==
  ASSUME ThreadsInv, NEW t \in Threads, Frees(t), call' = call, new_ptr' = new_ptr
  PROVE  /\ Old(t) = {call[t].ptr} /\ call[t].ptr \in DOMAIN live
         /\ Old(t)' = {} /\ New(t)' = New(t)
         /\ DOMAIN live' = DOMAIN live \ {call[t].ptr}
         /\ \A p \in DOMAIN live' : live'[p] = live[p]
<1>1. pc \in [Threads -> Places]
  BY DEF ThreadsInv, MutexInv
<1>2. /\ pc[t] = "locked" /\ ~Allocates(t) /\ call[t].ptr # NULL
      /\ live' = Allocator!Without(live, {call[t].ptr})
      /\ pc'[t] \in {"working", "unlock"}
  BY <1>1 DEF Frees
<1>3. Old(t) = {call[t].ptr} /\ Old(t)' = {} /\ New(t)' = New(t)
  BY <1>2 DEF Old, New, Allocates
<1>4. call[t].ptr \in DOMAIN live
  BY <1>3 DEF ThreadsInv, OwnInv, Owned
<1>5. /\ DOMAIN live' = DOMAIN live \ {call[t].ptr}
      /\ \A p \in DOMAIN live' : live'[p] = live[p]
  BY <1>2 DEF Allocator!Without, Allocator!Restrict
<1> QED
  BY <1>3, <1>4, <1>5

\* What allocate_object gives t.
LEMMA GetsFacts ==
  ASSUME ThreadsInv, NEW t \in Threads, Gets(t), call' = call, new_ptr' = new_ptr
  PROVE  /\ Allocates(t) /\ request = SizeT(call[t].size)
         /\ pc[t] = "working" /\ pc'[t] = "unlock"
         /\ Old(t)' \subseteq Old(t) /\ New(t)' = {result'} \ {NULL}
         /\ result' \notin DOMAIN live
         /\ DOMAIN live' = DOMAIN live \cup {result'}
         /\ live'[result'] = request
         /\ \A p \in DOMAIN live : live'[p] = live[p]
<1>1. pc \in [Threads -> Places] /\ CallOf(t)
  BY CallParts DEF ThreadsInv, MutexInv
<1>2. /\ pc[t] = "working" /\ pc'[t] = "unlock" /\ op.kind = "search"
      /\ result' \notin DOMAIN live /\ live' = Allocator!Store(live, result', request)
  BY <1>1 DEF Gets, Allocator!Serves
<1>3. Allocates(t) /\ request = SizeT(call[t].size)
  BY <1>1, <1>2 DEF CallOf
<1>4. Old(t)' \subseteq Old(t) /\ New(t)' = {result'} \ {NULL}
  BY <1>2, <1>3 DEF Old, New, Allocates
<1>5. /\ DOMAIN live' = DOMAIN live \cup {result'}
      /\ live'[result'] = request
      /\ \A p \in DOMAIN live : live'[p] = live[p]
  BY <1>2 DEF Allocator!Store
<1> QED
  BY <1>2, <1>3, <1>4, <1>5

LEMMA OwnStep ==
  ASSUME ThreadsInv, HeapOK, NEW t \in Threads, Program(t) \/ Step(t)
  PROVE  OwnInv'
<1>1. pc \in [Threads -> Places] /\ LocalTypes /\ MutexInv /\ OwnInv
  BY CallParts DEF ThreadsInv, MutexInv
<1>2. \A u \in Threads \ {t} : Old(u)' = Old(u) /\ New(u)' = New(u)
  BY OthersStay, OtherOwns
<1>3. /\ Owned(t) \subseteq DOMAIN live /\ Old(t) \cap New(t) = {}
      /\ \A u \in Threads \ {t} : Owned(u) \cap Owned(t) = {} /\ Owned(u) \subseteq DOMAIN live
  BY <1>1 DEF OwnInv
<1>4. CASE Program(t)
  <2>1. PICK function \in {"malloc", "realloc", "calloc", "free"}, ptr \in Pointers, size \in Nat :
          Call(t, function, ptr, size) /\ ptr \in Usable \cup {NULL}
    BY <1>4, CallFacts
  <2>2. /\ pc[t] = "program" /\ pc'[t] = "lock" /\ live' = live /\ new_ptr' = new_ptr
        /\ call'[t] = [function |-> function, ptr |-> ptr, size |-> size]
    BY <1>1, <2>1 DEF Call, Goto, LocalTypes, heap
  <2>3. Old(t)' = {ptr} \ {NULL} /\ New(t)' = New(t)
    BY <2>2 DEF Old, New
  <2>4. ASSUME ptr # NULL
        PROVE  /\ ptr \in DOMAIN live /\ ptr \notin New(t)
               /\ \A u \in Threads \ {t} : ptr \notin Owned(u)
    <3>1. /\ ptr \in DOMAIN live
          /\ \A u \in Threads : ptr \notin {call[u].ptr, new_ptr[u],
                                            IF pc[u] = "unlock" THEN result ELSE NULL}
      BY <2>1, <2>4 DEF Usable
    <3>2. ptr \notin New(t)
      BY <2>2, <3>1 DEF New
    <3> QED
      BY <3>1, <3>2, OwnedNames
  <2>5. Owned(t)' = ({ptr} \ {NULL}) \cup New(t) /\ New(t) \subseteq Owned(t)
    BY <2>3 DEF Owned
  <2>6. /\ \A u \in Threads \ {t} : Owned(u) \cap Owned(t)' = {}
        /\ Owned(t)' \subseteq DOMAIN live' /\ (Old(t) \cap New(t))' = {}
    BY <1>3, <2>2, <2>3, <2>4, <2>5
  <2> QED
    BY <1>1, <1>2, <1>3, <2>2, <2>6, OwnFrom
<1>5. CASE Step(t) /\ ~Frees(t) /\ ~Gets(t)
  BY <1>1, <1>2, <1>5, OwnLess, OwnShrinks
<1>6. CASE Step(t) /\ (Frees(t) \/ Gets(t))
  <2>1. call' = call /\ new_ptr' = new_ptr
    <3>1. pc[t] \in {"locked", "working"}
      BY <1>6 DEF Frees, Gets
    <3> QED
      BY <1>1, <1>6, <3>1, UnderMutex
      DEF Step, Lock, FreeNull, Unlock, Clear, BeginCopy, CopyToNull, EndCopy, Return, LocalsStay
  <2>2. CASE Frees(t)
    <3>1. /\ Old(t) = {call[t].ptr} /\ Old(t)' = {} /\ New(t)' = New(t)
          /\ DOMAIN live' = DOMAIN live \ {call[t].ptr}
      BY <2>1, <2>2, FreesFacts
    <3>2. call[t].ptr \in Owned(t) /\ call[t].ptr \notin New(t) /\ Owned(t)' = New(t)
          /\ New(t) \subseteq Owned(t)
      BY <1>3, <3>1 DEF Owned
    <3> QED
      BY <1>1, <1>2, <1>3, <3>1, <3>2, OwnFrom
  <2>3. CASE Gets(t)
    <3>1. /\ Old(t)' \subseteq Old(t) /\ New(t)' = {result'} \ {NULL}
          /\ result' \notin DOMAIN live /\ DOMAIN live' = DOMAIN live \cup {result'}
      BY <2>1, <2>3, GetsFacts
    <3>2. Owned(t)' \subseteq Old(t) \cup {result'} /\ Old(t) \subseteq Owned(t)
      BY <3>1 DEF Owned
    <3>3. (Old(t) \cap New(t))' = {}
      BY <1>3, <3>1, <3>2
    <3> QED
      BY <1>1, <1>2, <1>3, <3>1, <3>2, <3>3, OwnFrom
  <2> QED
    BY <1>6, <2>2, <2>3
<1> QED
  BY <1>4, <1>5, <1>6

\* The three ways a step changes the program's blocks.
LEMMA StepKinds ==
  ASSUME ThreadsInv, HeapOK, NEW t \in Threads, Program(t) \/ Step(t)
  PROVE  \/ Program(t) /\ live' = live
         \/ Step(t) /\ ~Frees(t) /\ ~Gets(t)
         \/ Frees(t) /\ LocalsStay
         \/ Gets(t) /\ LocalsStay
<1>1. MutexInv
  BY DEF ThreadsInv
<1>2. Program(t) => live' = live
  BY OverHeap DEF heap
<1>3. ASSUME Step(t), Frees(t) \/ Gets(t)
      PROVE  LocalsStay
  <2>1. pc[t] \in {"locked", "working"}
    BY <1>3 DEF Frees, Gets
  <2>2. CASE FreeNull(t)
    BY <2>2, <1>3 DEF FreeNull, Frees, Gets
  <2>3. ~FreeNull(t) => Allocate(t) \/ Free(t) \/ Work(t)
    BY <1>3, <2>1 DEF Step, Lock, Unlock, Clear, BeginCopy, CopyToNull, EndCopy, Return
  <2> QED
    BY <1>1, <2>2, <2>3, UnderMutex
<1> QED
  BY <1>2, <1>3

(***************************************************************************)
(* Sizes of new blocks                                                     *)
(***************************************************************************)

\* A block that stays allocated keeps the size that was asked for.
LEMMA LiveKept ==
  ASSUME ThreadsInv, HeapOK, NEW t \in Threads, Program(t) \/ Step(t),
         NEW p \in DOMAIN live, p \in DOMAIN live'
  PROVE  live'[p] = live[p]
<1>1. CASE live' = live
  BY <1>1
<1>2. CASE Frees(t) /\ LocalsStay
  BY <1>2, FreesFacts DEF LocalsStay
<1>3. CASE Gets(t) /\ LocalsStay
  BY <1>3, GetsFacts DEF LocalsStay
<1> QED
  BY <1>1, <1>2, <1>3, StepKinds, OwnLess

\* What SizedInv says of one thread.
SizedOf(t) ==
  pc[t] = "clear" \/ pc[t] \in {"copy", "copying"} \/ (pc[t] = "unlock" /\ Allocates(t)) =>
    \A p \in New(t) : live[p] = SizeT(call[t].size)

LEMMA SizedParts ==
  /\ SizedInv <=> \A t \in Threads : SizedOf(t)
  /\ (\A t \in Threads : SizedOf(t)') => SizedInv'
  BY DEF SizedInv, SizedOf

\* The thread that steps.
LEMMA SizedOfStep ==
  ASSUME ThreadsInv, HeapOK, NEW t \in Threads, Program(t) \/ Step(t)
  PROVE  SizedOf(t)'
<1>1. pc \in [Threads -> Places] /\ LocalTypes /\ MutexInv /\ CallOf(t) /\ SizedOf(t)
  BY CallParts, SizedParts DEF ThreadsInv, MutexInv
<1>2. CASE Program(t)
  <2>1. PICK function \in {"malloc", "realloc", "calloc", "free"}, ptr \in Pointers, size \in Nat :
          Call(t, function, ptr, size)
    BY <1>2, CallFacts
  <2>2. pc'[t] = "lock"
    BY <1>1, <2>1 DEF Call, Goto
  <2> QED
    BY <2>2 DEF SizedOf
<1>3. CASE Frees(t) /\ LocalsStay
  <2>1. pc'[t] \in {"working", "unlock"} /\ ~Allocates(t) /\ call' = call
    BY <1>1, <1>3 DEF Frees, LocalsStay
  <2> QED
    BY <2>1 DEF SizedOf, Allocates
<1>4. CASE Gets(t) /\ LocalsStay
  <2>1. /\ request = SizeT(call[t].size) /\ New(t)' = {result'} \ {NULL}
        /\ live'[result'] = request /\ call' = call
    BY <1>4, GetsFacts DEF LocalsStay
  <2> QED
    BY <2>1 DEF SizedOf
<1>5. CASE Step(t) /\ ~Frees(t) /\ ~Gets(t)
  <2>1. New(t)' \subseteq New(t) /\ live' = live
    BY <1>5, OwnLess
  <2>2. CASE Allocate(t) \/ Free(t) \/ Work(t)
    <3>1. (Begins(t) \/ Loops(t)) /\ call' = call
      BY <1>1, <1>5, <2>2, UnderMutex DEF LocalsStay
    <3>2. CASE Begins(t)
      <4>1. pc'[t] = "working" \/ (pc'[t] = "unlock" /\ result' = NULL)
        BY <1>1, <3>2 DEF Begins
      <4> QED
        BY <3>1, <3>2, <4>1 DEF SizedOf, New, Allocates, Begins
    <3>3. CASE Loops(t)
      <4>1. pc[t] = "working" /\ (pc'[t] = "working" \/ (pc'[t] = "unlock" /\ op.kind = "insert"))
        BY <1>1, <3>3 DEF Loops
      <4>2. pc'[t] = "unlock" => ~Allocates(t)
        BY <1>1, <4>1 DEF CallOf
      <4> QED
        BY <3>1, <4>1, <4>2 DEF SizedOf, Allocates
    <3> QED
      BY <3>1, <3>2, <3>3
  <2>3. CASE Lock(t) \/ Clear(t) \/ CopyToNull(t) \/ EndCopy(t) \/ Return(t)
    <3>1. pc'[t] \notin {"clear", "copy", "copying", "unlock"}
      BY <1>1, <2>3 DEF Lock, Clear, CopyToNull, EndCopy, AfterCopy, Return, Goto
    <3> QED
      BY <3>1 DEF SizedOf
  <2>4. CASE FreeNull(t)
    <3>1. pc'[t] = "unlock" /\ ~Allocates(t) /\ call' = call
      BY <1>1, <2>4 DEF FreeNull, Goto
    <3> QED
      BY <3>1 DEF SizedOf, Allocates
  <2>5. CASE Unlock(t)
    <3> DEFINE block == IF Allocates(t) THEN result ELSE new_ptr[t]
    <3>1. pc[t] = "unlock" /\ pc'[t] = AfterUnlock(t, block) /\ call' = call
      BY <1>1, <2>5 DEF Unlock, Goto
    <3>2. /\ pc'[t] \in {"clear", "copy", "return"}
          /\ pc'[t] # "return" => Allocates(t)
      BY <3>1 DEF AfterUnlock, Allocates
    <3> QED
      BY <1>1, <2>1, <3>1, <3>2 DEF SizedOf
  <2>6. CASE BeginCopy(t)
    <3>1. pc[t] = "copy" /\ pc'[t] = "copying" /\ call' = call
      BY <1>1, <2>6 DEF BeginCopy, Goto
    <3> QED
      BY <1>1, <2>1, <3>1 DEF SizedOf
  <2> QED
    BY <1>5, <2>2, <2>3, <2>4, <2>5, <2>6 DEF Step
<1> QED
  BY <1>2, <1>3, <1>4, <1>5, StepKinds

LEMMA SizedStep ==
  ASSUME ThreadsInv, HeapOK, NEW t \in Threads, Program(t) \/ Step(t)
  PROVE  SizedInv'
<1>1. SizedOf(t)'
  BY SizedOfStep
<1>2. ASSUME NEW u \in Threads \ {t}
      PROVE  SizedOf(u)'
  <2>1. /\ pc'[u] = pc[u] /\ call'[u] = call[u] /\ New(u)' = New(u)
        /\ Allocates(u)' = Allocates(u)
    BY OthersStay, OtherOwns
  <2>2. SizedOf(u)
    BY SizedParts DEF ThreadsInv
  <2>3. \A p \in New(u) : live'[p] = live[p]
    <3>1. New(u) \subseteq DOMAIN live
      BY DEF ThreadsInv, OwnInv, Owned
    <3>2. New(u)' \subseteq DOMAIN live'
      BY OwnStep DEF OwnInv, Owned
    <3> QED
      BY <2>1, <3>1, <3>2, LiveKept
  <2> QED
    BY <2>1, <2>2, <2>3 DEF SizedOf
<1>3. \A u \in Threads : SizedOf(u)'
  BY <1>1, <1>2
<1> QED
  BY <1>3, SizedParts

(***************************************************************************)
(* How many blocks                                                         *)
(***************************************************************************)

\* Whether t is about to get a block.
Asks(t) == Allocates(t) /\ pc[t] \in {"lock", "locked", "working"}

LEMMA UnderwayStep ==
  ASSUME ThreadsInv, HeapOK, NEW t \in Threads, Program(t) \/ Step(t)
  PROVE  /\ t \in Underway <=> Asks(t)
         /\ t \in Underway' <=> Asks(t)'
         /\ Underway' \ {t} = Underway \ {t}
<1>1. \A u \in Threads \ {t} : Asks(u)' = Asks(u)
  BY OthersStay DEF Asks, Allocates
<1>2. Underway = {u \in Threads : Asks(u)}
  BY DEF Underway, Asks
<1>3. Underway' = {u \in Threads : Asks(u)'}
  BY DEF Underway, Asks, Allocates
<1> QED
  BY <1>1, <1>2, <1>3

\* Only a call that has begun asks for a block.
LEMMA AsksLess ==
  ASSUME ThreadsInv, HeapOK, NEW t \in Threads, Step(t)
  PROVE  Asks(t)' => Asks(t)
<1>1. pc \in [Threads -> Places] /\ LocalTypes /\ MutexInv
  BY CallParts DEF ThreadsInv, MutexInv
<1>2. CASE Allocate(t) \/ Free(t) \/ Work(t)
  <2>1. (Begins(t) \/ Frees(t) \/ Gets(t) \/ Loops(t)) /\ call' = call
    BY <1>1, <1>2, UnderMutex DEF LocalsStay
  <2>2. pc[t] \in {"locked", "working"}
    BY <2>1 DEF Begins, Frees, Gets, Loops
  <2> QED
    BY <2>1, <2>2 DEF Asks, Allocates
<1>3. CASE Lock(t)
  BY <1>1, <1>3 DEF Lock, Asks, Allocates
<1>4. CASE FreeNull(t) \/ Unlock(t) \/ Clear(t) \/ BeginCopy(t) \/ CopyToNull(t) \/ Return(t)
  <2>1. pc'[t] \notin {"lock", "locked", "working"}
    BY <1>1, <1>4 DEF FreeNull, Unlock, AfterUnlock, Clear, BeginCopy, CopyToNull, Return, Goto
  <2> QED
    BY <2>1 DEF Asks
<1>5. CASE EndCopy(t)
  <2>1. call'[t].function = "free"
    BY <1>1, <1>5 DEF EndCopy, LocalTypes, Calls
  <2> QED
    BY <2>1 DEF Asks, Allocates
<1> QED
  BY <1>2, <1>3, <1>4, <1>5 DEF Step

LEMMA CountStep ==
  ASSUME ThreadsInv, HeapOK, NEW t \in Threads, Program(t) \/ Step(t)
  PROVE  CountInv'
<1> DEFINE n == Cardinality(DOMAIN live)
           m == Cardinality(Underway)
<1>1. pc \in [Threads -> Places] /\ LocalTypes
  BY CallParts DEF ThreadsInv, MutexInv
<1>2. /\ IsFiniteSet(DOMAIN live) /\ IsFiniteSet(Underway)
      /\ n + m <= MaxLive /\ n \in Nat /\ m \in Nat /\ MaxLive \in Nat
  BY AssumptionsHold, FS_CardinalityType DEF ThreadsInv, CountInv, Allocator!ProgramAssumption
<1>3. /\ t \in Underway <=> Asks(t)
      /\ t \in Underway' <=> Asks(t)'
      /\ Underway' \ {t} = Underway \ {t}
  BY UnderwayStep
<1>4. CASE Program(t)
  <2>1. PICK function \in {"malloc", "realloc", "calloc", "free"}, ptr \in Pointers, size \in Nat :
          /\ Call(t, function, ptr, size)
          /\ function # "free" => n + m < MaxLive
    BY <1>4, CallFacts
  <2>2. /\ pc[t] = "program" /\ live' = live
        /\ call'[t] = [function |-> function, ptr |-> ptr, size |-> size]
    BY <1>1, <2>1 DEF Call, Goto, LocalTypes, heap
  <2>3. t \notin Underway
    BY <1>3, <2>2 DEF Asks
  <2>4. CASE t \in Underway'
    <3>1. function # "free"
      BY <1>3, <2>2, <2>4 DEF Asks, Allocates
    <3>2. Underway' = Underway \cup {t}
      BY <1>3, <2>4
    <3>3. IsFiniteSet(Underway') /\ Cardinality(Underway') = m + 1
      BY <1>2, <2>3, <3>2, FS_AddElement
    <3> QED
      BY <1>2, <2>1, <2>2, <3>1, <3>3 DEF CountInv
  <2>5. CASE t \notin Underway'
    <3>1. Underway' = Underway
      BY <1>3, <2>3, <2>5
    <3> QED
      BY <1>2, <2>2, <3>1 DEF CountInv
  <2> QED
    BY <2>4, <2>5
<1>5. CASE Step(t) /\ live' = live
  <2>1. Underway' \subseteq Underway
    BY <1>3, <1>5, AsksLess
  <2>2. IsFiniteSet(Underway') /\ Cardinality(Underway') <= m /\ Cardinality(Underway') \in Nat
    BY <1>2, <2>1, FS_Subset, FS_CardinalityType
  <2> QED
    BY <1>2, <1>5, <2>2 DEF CountInv
<1>6. CASE Frees(t) /\ LocalsStay
  <2>1. ~Allocates(t) /\ ~Allocates(t)'
    BY <1>6 DEF Frees, LocalsStay, Allocates
  <2>2. Underway' = Underway
    BY <1>3, <2>1 DEF Asks
  <2>3. call[t].ptr \in DOMAIN live /\ DOMAIN live' = DOMAIN live \ {call[t].ptr}
    BY <1>6, FreesFacts DEF LocalsStay
  <2>4. IsFiniteSet(DOMAIN live') /\ Cardinality(DOMAIN live') = n - 1
    BY <1>2, <2>3, FS_RemoveElement
  <2> QED
    BY <1>2, <2>2, <2>4 DEF CountInv
<1>7. CASE Gets(t) /\ LocalsStay
  <2>1. /\ Allocates(t) /\ pc[t] = "working" /\ pc'[t] = "unlock"
        /\ result' \notin DOMAIN live /\ DOMAIN live' = DOMAIN live \cup {result'}
    BY <1>7, GetsFacts DEF LocalsStay
  <2>2. t \in Underway /\ Underway' = Underway \ {t}
    BY <1>3, <2>1 DEF Asks
  <2>3. IsFiniteSet(Underway') /\ Cardinality(Underway') = m - 1
    BY <1>2, <2>2, FS_RemoveElement
  <2>4. IsFiniteSet(DOMAIN live') /\ Cardinality(DOMAIN live') = n + 1
    BY <1>2, <2>1, FS_AddElement
  <2> QED
    BY <1>2, <2>3, <2>4 DEF CountInv
<1> QED
  BY <1>4, <1>5, <1>6, <1>7, StepKinds, OwnLess

(***************************************************************************)
(* A step of the threads is a step of the allocator, or none               *)
(***************************************************************************)

LEMMA ThreadsStep == ThreadsInv /\ HeapOK /\ [Next]_vars => ThreadsInv'
<1> SUFFICES ASSUME ThreadsInv, HeapOK, [Next]_vars
             PROVE  ThreadsInv'
  OBVIOUS
<1>1. MutexInv'
  BY MutexStep DEF ThreadsInv
<1>2. CASE UNCHANGED vars
  <2>1. /\ UNCHANGED <<live, request, result, op>>
        /\ UNCHANGED <<pc, call, new_ptr, to_copy, calls_left>>
    BY <1>2 DEF vars, heap, locals
  <2>2. CallInv'
    BY <2>1 DEF ThreadsInv, CallInv, Allocates
  <2>3. \A t \in Threads : Old(t)' = Old(t) /\ New(t)' = New(t) /\ Allocates(t)' = Allocates(t)
    BY <2>1 DEF Old, New, Allocates
  <2>4. OwnInv'
    BY <2>1, <2>3 DEF ThreadsInv, OwnInv, Owned
  <2>5. SizedInv'
    BY <2>1, <2>3 DEF ThreadsInv, SizedInv
  <2>6. Underway' = Underway
    BY <2>1, <2>3 DEF Underway
  <2>7. CountInv'
    BY <2>1, <2>6 DEF ThreadsInv, CountInv
  <2> QED
    BY <1>1, <2>2, <2>4, <2>5, <2>7 DEF ThreadsInv
<1>3. ASSUME NEW t \in Threads, Program(t) \/ Step(t)
      PROVE  ThreadsInv'
  BY <1>1, <1>3, CallStep, OwnStep, SizedStep, CountStep DEF ThreadsInv
<1> QED
  BY <1>2, <1>3 DEF Next

\* A thread that allocates leaves room for the block.
LEMMA RoomForOne ==
  ASSUME ThreadsInv, NEW t \in Threads, pc[t] = "locked", Allocates(t)
  PROVE  Allocator!Cardinality(DOMAIN live) < MaxLive
<1>1. /\ IsFiniteSet(DOMAIN live) /\ IsFiniteSet(Underway)
      /\ Cardinality(DOMAIN live) + Cardinality(Underway) <= MaxLive
  BY DEF ThreadsInv, CountInv
<1>2. t \in Underway
  BY DEF Underway
<1>3. Cardinality(Underway) # 0
  BY <1>1, <1>2, FS_EmptySet
<1>4. Cardinality(DOMAIN live) \in Nat /\ Cardinality(Underway) \in Nat /\ MaxLive \in Nat
  BY <1>1, FS_CardinalityType, AssumptionsHold DEF Allocator!ProgramAssumption
<1>5. Cardinality(DOMAIN live) < MaxLive
  BY <1>1, <1>3, <1>4
<1> QED
  BY <1>5 DEF Cardinality, Allocator!Cardinality

LEMMA AllocatorStep == ThreadsInv /\ HeapOK /\ [Next]_vars => [Allocator!Next]_heap
<1> SUFFICES ASSUME ThreadsInv, HeapOK, [Next]_vars
             PROVE  [Allocator!Next]_heap
  OBVIOUS
<1>1. CASE UNCHANGED vars
  BY <1>1 DEF vars
<1>2. ASSUME NEW t \in Threads, Allocate(t)
      PROVE  Allocator!Next
  <2>1. pc[t] = "locked" /\ Allocates(t) /\ Heap!AllocateObject(SizeT(call[t].size))
    BY <1>2 DEF Allocate
  <2>2. Allocator!Idle
    BY <2>1, Alone DEF ThreadsInv, Allocator!Idle
  <2>3. SizeT(call[t].size) \in Sizes
    BY <2>1 DEF ThreadsInv, CallInv
  <2>4. Allocator!AllocateObject(SizeT(call[t].size))
    BY <2>1, SameAllocate
  <2>5. Allocator!Cardinality(DOMAIN live) < MaxLive
    BY <2>1, RoomForOne
  <2> QED
    BY <2>2, <2>3, <2>4, <2>5 DEF Allocator!Next, Allocator!Program
<1>3. ASSUME NEW t \in Threads, Free(t)
      PROVE  Allocator!Next
  <2>1. pc[t] = "locked" /\ call[t].ptr # NULL /\ Heap!FreeObject(call[t].ptr)
    BY <1>3 DEF Free
  <2>2. Allocator!Idle
    BY <2>1, Alone DEF ThreadsInv, Allocator!Idle
  <2>3. call[t].ptr \in DOMAIN live
    BY <2>1 DEF ThreadsInv, OwnInv, Owned, Old
  <2>4. Allocator!FreeObject(call[t].ptr)
    BY <2>1, SameFree
  <2> QED
    BY <2>2, <2>3, <2>4 DEF Allocator!Next, Allocator!Program
<1>4. ASSUME NEW t \in Threads, Work(t)
      PROVE  Allocator!Next
  BY <1>4, SameContinue DEF Work, Allocator!Next
<1>5. ASSUME NEW t \in Threads, Program(t) \/ Step(t)
      PROVE  [Allocator!Next]_heap
  BY <1>2, <1>3, <1>4, <1>5, OverHeap DEF Step
<1> QED
  BY <1>1, <1>5 DEF Next

LEMMA SameState == heap = Allocator!vars
  BY DEF heap, Allocator!vars

\* The threads keep the invariant of the allocator.
LEMMA HeapStep == ThreadsInv /\ HeapOK /\ [Next]_vars => HeapOK'
  BY AllocatorStep, SameState, AssumptionsHold, Allocator!InvStep DEF HeapOK, heap, Allocator!vars

LEMMA HeapInit == Init => HeapOK
  BY SameInit, AssumptionsHold, Allocator!InitInv DEF Init, HeapOK

\* Both invariants of a program of threads that call malloc, free, realloc and calloc.
THEOREM WholeInvariant == Spec => [](ThreadsInv /\ HeapOK)
<1>1. Init => ThreadsInv /\ HeapOK
  BY ThreadsInit, HeapInit
<1>2. ThreadsInv /\ HeapOK /\ [Next]_vars => (ThreadsInv /\ HeapOK)'
  BY ThreadsStep, HeapStep
<1> QED
  BY <1>1, <1>2, PTL DEF Spec

\* Whatever the threads do, the heap changes as it does when calls come one at a
\* time and the program is correct, so all of MyMallocProofs holds of it.
THEOREM SerialCalls == Spec => CallsAreSerial
<1>1. Init => Heap!Init
  BY DEF Init
<1>2. ThreadsInv /\ HeapOK /\ [Next]_vars => [Heap!Next]_heap
  BY AllocatorStep, SameNext
<1> QED
  BY <1>1, <1>2, WholeInvariant, PTL DEF Spec, CallsAreSerial

(***************************************************************************)
(* The copy in realloc                                                     *)
(***************************************************************************)

\* While t copies, the old block is its own, whoever steps.
LEMMA CopyKeepsOld ==
  ASSUME ThreadsInv, HeapOK, [Next]_vars, NEW t \in Threads, pc[t] \in {"copy", "copying"}
  PROVE  call[t].ptr \in DOMAIN live /\ call[t].ptr \in DOMAIN live'
<1>1. call[t].function = "realloc" /\ call[t].ptr # NULL
  BY DEF ThreadsInv, CallInv
<1>2. call[t].ptr \in Old(t)
  BY <1>1 DEF Old
<1>3. call[t].ptr \in DOMAIN live
  BY <1>2 DEF ThreadsInv, OwnInv, Owned
<1>4. CASE UNCHANGED vars
  BY <1>3, <1>4 DEF vars, heap
<1>5. ASSUME NEW u \in Threads, Program(u) \/ Step(u), u # t
      PROVE  call[t].ptr \in DOMAIN live'
  <2>1. Old(t)' = Old(t)
    BY <1>5, OthersStay, OtherOwns
  <2>2. OwnInv'
    BY <1>5, OwnStep
  <2> QED
    BY <1>2, <2>1, <2>2 DEF OwnInv, Owned
<1>6. CASE Program(t) \/ Step(t)
  <2>1. ~Program(t) /\ ~Lock(t) /\ ~Allocate(t) /\ ~Free(t) /\ ~Work(t)
    BY DEF Program, CallMalloc, CallCalloc, CallRealloc, CallFree, Call, Lock, Allocate, Free, Work
  <2>2. UNCHANGED heap
    BY <1>6, <2>1, OverHeap DEF Step
  <2> QED
    BY <1>3, <2>2 DEF heap
<1> QED
  BY <1>3, <1>4, <1>5, <1>6 DEF Next

\* From the read of the old object's size to the end of memcpy nobody frees or
\* resizes it, though realloc does not hold the mutex.
THEOREM CopySourceIsStable == Spec => SourceStable
<1>1. ASSUME ThreadsInv, HeapOK, [Next]_vars, NEW t \in Threads, pc[t] \in {"copy", "copying"}
      PROVE  LET object == Heap!HeaderOf(call[t].ptr)
             IN  object \in DOMAIN header' /\ header'[object] = header[object]
  <2>1. call[t].ptr \in DOMAIN live /\ call[t].ptr \in DOMAIN live'
    BY <1>1, CopyKeepsOld
  <2>2. [Allocator!Next]_(Allocator!vars)
    BY <1>1, AllocatorStep, SameState DEF heap, Allocator!vars
  <2> DEFINE p == call[t].ptr
  <2> HIDE DEF p
  <2>3. p \in DOMAIN live /\ p \in DOMAIN live'
    BY <2>1 DEF p
  <2>4. Allocator!HeaderOf(p) \in DOMAIN header'
        /\ header'[Allocator!HeaderOf(p)] = header[Allocator!HeaderOf(p)]
    BY <1>1, <2>2, <2>3, AssumptionsHold, Allocator!HeaderKept DEF HeapOK
  <2> QED
    BY <2>4 DEF p, Heap!HeaderOf, Allocator!HeaderOf
<1>2. ThreadsInv /\ HeapOK /\ [Next]_vars =>
        [\A t \in Threads :
           pc[t] \in {"copy", "copying"} =>
             LET object == Heap!HeaderOf(call[t].ptr)
             IN  object \in DOMAIN header' /\ header'[object] = header[object]
        ]_vars
  BY <1>1
<1> QED
  BY <1>2, WholeInvariant, PTL DEF Spec, SourceStable

(***************************************************************************)
(* What calloc and realloc write                                           *)
(***************************************************************************)

LEMMA WritesInside == ThreadsInv /\ HeapOK => UnlockedWritesStayInside
<1> SUFFICES ASSUME ThreadsInv, HeapOK, NEW t \in Threads, Written(t) > 0
             PROVE  LET first == new_ptr[t]
                        end == first + Written(t)
                    IN  /\ first \in DOMAIN live
                        /\ \A h \in DOMAIN header : h + HEADER_SIZE <= first \/ end <= h
                        /\ \A f \in DOMAIN footer : f + FOOTER_SIZE <= first \/ end <= f
                        /\ \A ptr \in DOMAIN live \ {first} :
                             ptr + live[ptr] <= first \/ end <= ptr
  BY DEF UnlockedWritesStayInside
<1> DEFINE p == new_ptr[t]
           n == Written(t)
<1>1. LocalTypes /\ CallOf(t) /\ OwnInv /\ SizedInv
  BY CallParts DEF ThreadsInv
<1>2. pc[t] \in {"clear", "copying"}
  BY DEF Written
<1>3. p # NULL /\ p \in New(t)
  BY <1>1, <1>2 DEF CallOf, New
<1>4. p \in DOMAIN live /\ live[p] = SizeT(call[t].size)
  BY <1>1, <1>2, <1>3 DEF OwnInv, Owned, SizedInv
<1>5. n <= live[p] /\ n \in Int
  <2>1. SizeT(call[t].size) \in Int
    BY <1>1, SizesFit DEF SizeT, LocalTypes, Calls
  <2> QED
    BY <1>1, <1>2, <1>4, <2>1 DEF Written, CallOf, LocalTypes
<1> HIDE DEF p, n
<1>6. DOMAIN live \subseteq Int /\ \A q \in DOMAIN live : live[q] \in Int
  <2>1. \A q \in DOMAIN live : live[q] \in Nat
    BY AssumptionsHold, Allocator!ObjectHeld DEF HeapOK
  <2>2. DOMAIN live \subseteq HeapStart .. HeapLimit
    BY AssumptionsHold, Allocator!PointersInHeap DEF HeapOK, Allocator!HeapAddresses
  <2> QED
    BY <2>1, <2>2, SizesFit
<1>7. /\ \A h \in DOMAIN header : h + HEADER_SIZE <= p \/ p + live[p] <= h
      /\ \A f \in DOMAIN footer : f + FOOTER_SIZE <= p \/ p + live[p] <= f
  BY <1>4, AssumptionsHold, Allocator!InvImpliesClear DEF HeapOK, Allocator!ClearOfTags
<1>8. \A q \in DOMAIN live \ {p} : q + live[q] <= p \/ p + live[p] <= q
  <2>1. Allocator!BlocksApart
    BY AssumptionsHold, Allocator!InvImpliesApart DEF HeapOK
  <2> QED
    BY <1>4, <1>6, <2>1 DEF Allocator!BlocksApart
<1>9. DOMAIN header \subseteq Int /\ DOMAIN footer \subseteq Int
  BY AssumptionsHold, Allocator!HeapFacts DEF HeapOK, Allocator!Shape
<1>10. /\ \A h \in DOMAIN header : h + HEADER_SIZE <= p \/ p + n <= h
       /\ \A f \in DOMAIN footer : f + FOOTER_SIZE <= p \/ p + n <= f
       /\ \A q \in DOMAIN live \ {p} : q + live[q] <= p \/ p + n <= q
  BY <1>4, <1>5, <1>6, <1>7, <1>8, <1>9
<1> QED
  BY <1>4, <1>10 DEF p, n

\* memset and memcpy, outside the mutex, write only the block that calloc or
\* realloc is about to return.
THEOREM WritesStayInside == Spec => []UnlockedWritesStayInside
  BY WholeInvariant, WritesInside, PTL
==============================================================================
