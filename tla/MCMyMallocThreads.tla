-------------------------- MODULE MCMyMallocThreads --------------------------
(***************************************************************************)
(* MyMallocThreads with two threads that make two calls each, on a heap    *)
(* whose chunks hold three objects of the smallest size.                   *)
(***************************************************************************)
EXTENDS MyMallocThreads

CONSTANTS t1, t2

\* Arguments of calloc: nine bytes, and a product that wraps to eight.
CallocProducts == {<<3, 3>>, <<72, 57>>}

==============================================================================
