----------------------------- MODULE MCMyMalloc -----------------------------
(***************************************************************************)
(* MyMalloc on a small heap.  The tags have their 64-bit sizes and the     *)
(* arena holds four objects of the smallest size.  The sentinel lies below *)
(* the heap, where it is in the tests, which are linked with MyMalloc.c.   *)
(***************************************************************************)
EXTENDS MyMallocAssumptions

=============================================================================
