------------------------- MODULE MCMyMallocUnassumed -------------------------
(***************************************************************************)
(* MyMalloc without the assumptions of MyMallocAssumptions: what the       *)
(* comments of the code say, in the deployments they leave out.            *)
(***************************************************************************)
EXTENDS MyMallocProperties

\* MyMalloc.h:13 and :34: object_size is the "size of the object including
\* header and footer", so that no object is smaller than its two tags.
SizeIncludesTags ==
  \A object \in Objects :
    header[object].object_size >= HEADER_SIZE + FOOTER_SIZE

==============================================================================
