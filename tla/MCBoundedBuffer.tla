--------------------------- MODULE MCBoundedBuffer ---------------------------
(***************************************************************************)
(* BoundedBuffer with few threads, a short string and a small ring.        *)
(***************************************************************************)
EXTENDS BoundedBuffer

CONSTANTS p1, p2, c1, c2

Hello == <<"H", "e", "l">>

==============================================================================
