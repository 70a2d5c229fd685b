--------------------------- MODULE MyMallocThreads ---------------------------
(***************************************************************************)
(* The C interface of lab2-src/MyMalloc.c, called by several threads:      *)
(* malloc, free, realloc and calloc around allocate_object and free_object *)
(* (the actions of MyMalloc), one mutex, and what realloc and calloc do    *)
(* with a block while they do not hold it.                                 *)
(*                                                                         *)
(* An operator called Bug... is a plausible mistake in the one after it;   *)
(* the specification never uses it.                                        *)
(***************************************************************************)
EXTENDS Integers, FiniteSets

CONSTANTS
  ARENA_SIZE, HEADER_SIZE, FOOTER_SIZE, SIZE_PRECISION, MINIMUM_SIZE,
  SIZE_MODULUS, free_list_sentinel, HeapStart, HeapLimit, MaxLive, NULL,
  Threads,
  MallocSizes,   \* arguments of malloc
  ReallocSizes,  \* second arguments of realloc
  CallocArgs,    \* arguments of calloc, as pairs
  MaxCalls       \* bound: calls a thread makes

VARIABLES
  header, footer, program_break, chunks, live, request, result, op,  \* see MyMalloc
  mutex,      \* the thread that holds it, or NULL
  pc,         \* thread -> where it is
  call,       \* thread -> the call it makes: function, ptr and size
  new_ptr,    \* thread -> the local variable memory, new_ptr or ptr
  to_copy,    \* thread -> size_to_copy, the bytes memcpy is copying
  calls_left  \* thread -> how many calls it still makes

heap == <<header, footer, program_break, chunks, live, request, result, op>>
locals == <<pc, call, new_ptr, to_copy, calls_left>>
vars == <<heap, mutex, locals>>

ASSUME ThreadsAssumption == NULL \notin Threads

\* A number of bytes in size_t: calloc's product wraps at SIZE_MODULUS.
SizeT(bytes) == bytes % SIZE_MODULUS

Heap == INSTANCE MyMallocAssumptions WITH
  OtherSbrk <- {},
  Requests <- MallocSizes \cup ReallocSizes \cup
    {SizeT(args[1] * args[2]) : args \in CallocArgs}

\* The allocator's sizes and addresses, and what it takes for granted.
ASSUME HeapAssumption ==
  /\ Heap!SizesAssumption
  /\ Heap!AddressesAssumption
  /\ Heap!ProgramAssumption
  /\ Heap!SentinelBelowHeap
  /\ Heap!CleanSplits
  /\ Heap!NoSizeWrap
  /\ Heap!AlignedBreak

\* Arguments of the calls are numbers.
ASSUME ArgumentsAssumption ==
  /\ CallocArgs \subseteq Nat \X Nat
  /\ MaxCalls \in Nat

NoArguments == [function |-> "none", ptr |-> NULL, size |-> 0]

Init ==
  /\ Heap!Init
  /\ mutex = NULL
  /\ pc = [t \in Threads |-> "program"]
  /\ call = [t \in Threads |-> NoArguments]
  /\ new_ptr = [t \in Threads |-> NULL]
  /\ to_copy = [t \in Threads |-> 0]
  /\ calls_left = [t \in Threads |-> MaxCalls]

Goto(t, place) == pc' = [pc EXCEPT ![t] = place]

(***************************************************************************)
(* The program                                                             *)
(***************************************************************************)

Allocates(t) == call[t].function \in {"malloc", "realloc", "calloc"}

\* The calls that will put one more block in the program's hands.
Underway ==
  {t \in Threads : Allocates(t) /\ pc[t] \in {"lock", "locked", "working"}}

\* The blocks the program may pass to a call: it holds them, it has not given
\* them to another call, and no call has yet to return them.
Usable ==
  DOMAIN live \ UNION {{call[t].ptr, new_ptr[t],
                        IF pc[t] = "unlock" THEN result ELSE NULL} : t \in Threads}

Call(t, function, ptr, size) ==
  /\ pc[t] = "program"
  /\ calls_left[t] > 0
  /\ Goto(t, "lock")
  /\ call' = [call EXCEPT
                ![t] = [function |-> function, ptr |-> ptr, size |-> size]]
  /\ calls_left' = [calls_left EXCEPT ![t] = @ - 1]
  /\ UNCHANGED <<heap, mutex, new_ptr, to_copy>>

\* A program that uses memory correctly, and at most MaxLive blocks of it.
CallMalloc(t) ==
  \E size \in MallocSizes : Call(t, "malloc", NULL, size)
CallCalloc(t) ==
  \E args \in CallocArgs : Call(t, "calloc", NULL, args[1] * args[2])
CallRealloc(t) ==
  \E size \in ReallocSizes, ptr \in Usable \cup {NULL} :
    Call(t, "realloc", ptr, size)
CallFree(t) ==
  \E ptr \in Usable \cup {NULL} : Call(t, "free", ptr, 0)

Program(t) ==
  \/ /\ Cardinality(DOMAIN live) + Cardinality(Underway) < MaxLive
     /\ CallMalloc(t) \/ CallCalloc(t) \/ CallRealloc(t)
  \/ CallFree(t)

(***************************************************************************)
(* Under the mutex                                                         *)
(***************************************************************************)

\* pthread_mutex_lock, and the call counter.
Lock(t) ==
  /\ pc[t] = "lock"
  /\ mutex = NULL
  /\ mutex' = t
  /\ Goto(t, "locked")
  /\ UNCHANGED <<heap, call, new_ptr, to_copy, calls_left>>

BugUnlocksEarly(t) == Goto(t, "unlock")

\* The mutex is released at once when allocate_object or free_object is done.
AfterStep(t) == Goto(t, IF op'.kind = "idle" THEN "unlock" ELSE "working")

\* The call of allocate_object begins.
Allocate(t) ==
  /\ pc[t] = "locked"
  /\ Allocates(t)
  /\ Heap!AllocateObject(SizeT(call[t].size))
  /\ AfterStep(t)
  /\ UNCHANGED <<mutex, call, new_ptr, to_copy, calls_left>>

\* The call of free_object begins.
Free(t) ==
  /\ pc[t] = "locked"
  /\ ~Allocates(t)
  /\ call[t].ptr # NULL
  /\ Heap!FreeObject(call[t].ptr)
  /\ AfterStep(t)
  /\ UNCHANGED <<mutex, call, new_ptr, to_copy, calls_left>>

\* free(NULL) does nothing.
FreeNull(t) ==
  /\ pc[t] = "locked"
  /\ ~Allocates(t)
  /\ call[t].ptr = NULL
  /\ Goto(t, "unlock")
  /\ UNCHANGED <<heap, mutex, call, new_ptr, to_copy, calls_left>>

\* allocate_object or free_object goes on.
Work(t) ==
  /\ pc[t] = "working"
  /\ Heap!Continue
  /\ AfterStep(t)
  /\ UNCHANGED <<mutex, call, new_ptr, to_copy, calls_left>>

BugCopiesLocked(t) == IF call[t].function = "realloc" THEN t ELSE NULL

\* Who holds the mutex when t has let go of it.
Released(t) == NULL

\* pthread_mutex_unlock: malloc and free are done, and so are calloc without a
\* block and realloc without an old one.
AfterUnlock(t, block) ==
  IF call[t].function = "calloc" /\ block # NULL THEN "clear"
  ELSE IF call[t].function = "realloc" /\ call[t].ptr # NULL THEN "copy"
  ELSE "return"

Unlock(t) ==
  LET block == IF Allocates(t) THEN result ELSE new_ptr[t]
  IN  /\ pc[t] = "unlock"
      /\ mutex' = Released(t)
      /\ new_ptr' = [new_ptr EXCEPT ![t] = block]
      /\ Goto(t, AfterUnlock(t, block))
      /\ UNCHANGED <<heap, call, to_copy, calls_left>>

(***************************************************************************)
(* Outside the mutex                                                       *)
(***************************************************************************)

\* calloc: memset(ptr, 0, size)
Clear(t) ==
  /\ pc[t] = "clear"
  /\ Goto(t, "return")
  /\ UNCHANGED <<heap, mutex, call, new_ptr, to_copy, calls_left>>

BugCopiesWholeObject(t) == header[Heap!HeaderOf(call[t].ptr)].object_size

\* size_to_copy: the size of the old object, read without the mutex, but no
\* more than what was asked for.
SizeToCopy(t) ==
  LET object_size == header[Heap!HeaderOf(call[t].ptr)].object_size
      size == SizeT(call[t].size)
  IN  IF object_size > size THEN size ELSE object_size

\* realloc starts memcpy.
BeginCopy(t) ==
  /\ pc[t] = "copy"
  /\ new_ptr[t] # NULL
  /\ to_copy' = [to_copy EXCEPT ![t] = SizeToCopy(t)]
  /\ Goto(t, "copying")
  /\ UNCHANGED <<heap, mutex, call, new_ptr, calls_left>>

\* memcpy to the NULL that allocate_object returned.
CopyToNull(t) ==
  /\ pc[t] = "copy"
  /\ new_ptr[t] = NULL
  /\ Goto(t, "fault")
  /\ UNCHANGED <<heap, mutex, call, new_ptr, to_copy, calls_left>>

BugFreesUnlocked == "locked"

\* realloc takes the mutex again before it frees.
AfterCopy == "lock"

\* memcpy is done: free the old block.
EndCopy(t) ==
  /\ pc[t] = "copying"
  /\ to_copy' = [to_copy EXCEPT ![t] = 0]
  /\ call' = [call EXCEPT ![t].function = "free"]
  /\ Goto(t, AfterCopy)
  /\ UNCHANGED <<heap, mutex, new_ptr, calls_left>>

Return(t) ==
  /\ pc[t] = "return"
  /\ Goto(t, "program")
  /\ call' = [call EXCEPT ![t] = NoArguments]
  /\ new_ptr' = [new_ptr EXCEPT ![t] = NULL]
  /\ UNCHANGED <<heap, mutex, to_copy, calls_left>>

(***************************************************************************)
(* The specification                                                       *)
(***************************************************************************)

Step(t) ==
  \/ Lock(t)
  \/ Allocate(t)
  \/ Free(t)
  \/ FreeNull(t)
  \/ Work(t)
  \/ Unlock(t)
  \/ Clear(t)
  \/ BeginCopy(t)
  \/ CopyToNull(t)
  \/ EndCopy(t)
  \/ Return(t)

\* A fault ends the process with all its threads.
Alive == op.kind # "fault" /\ \A t \in Threads : pc[t] # "fault"

Next == Alive /\ \E t \in Threads : Program(t) \/ Step(t)

\* A thread inside a call is scheduled; it need not make one.
Spec == Init /\ [][Next]_vars /\ \A t \in Threads : WF_vars(Alive /\ Step(t))

(***************************************************************************)
(* Properties                                                              *)
(***************************************************************************)

\* However the threads interleave, the allocator behaves as it does when calls
\* come one at a time, with all that follows from that (MyMallocProperties).
CallsAreSerial == Heap!Init /\ [][Heap!Next]_heap

\* While the allocator is in the middle of a call, the mutex is held by the
\* thread that makes it.
WorkHoldsMutex ==
  op.kind # "idle" => mutex # NULL /\ pc[mutex] = "working"

\* realloc reads the size of the old block without the mutex, because no call
\* may free or resize it meanwhile (MyMalloc.c:622-625): from that read to the
\* end of memcpy, the block stays allocated and its size stays what it was,
\* though the other threads split and coalesce around it.
SourceStable ==
  [][\A t \in Threads :
       pc[t] \in {"copy", "copying"} =>
         LET object == Heap!HeaderOf(call[t].ptr)
         IN  object \in DOMAIN header' /\ header'[object] = header[object]
    ]_vars

\* What memset and memcpy write without the mutex.
Written(t) ==
  CASE pc[t] = "clear" -> SizeT(call[t].size)
    [] pc[t] = "copying" -> to_copy[t]
    [] OTHER -> 0

\* The bytes calloc and realloc write without the mutex are in the block they
\* are about to return: no tag and no other block of the program is hit.
UnlockedWritesStayInside ==
  \A t \in Threads :
    Written(t) > 0 =>
      LET first == new_ptr[t]
          end == first + Written(t)
      IN  /\ first \in DOMAIN live
          /\ \A h \in DOMAIN header : h + HEADER_SIZE <= first \/ end <= h
          /\ \A f \in DOMAIN footer : f + FOOTER_SIZE <= first \/ end <= f
          /\ \A ptr \in DOMAIN live \ {first} :
               ptr + live[ptr] <= first \/ end <= ptr

\* Every call returns, though it waits for the mutex, which realloc takes twice,
\* unless the process ends.
CallsReturn ==
  \A t \in Threads : pc[t] # "program" ~> pc[t] = "program" \/ ~Alive

=============================================================================
