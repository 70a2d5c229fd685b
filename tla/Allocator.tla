------------------------------ MODULE Allocator ------------------------------
(***************************************************************************)
(* What a program may rely on when it calls the allocator: blocks of       *)
(* memory that are as large as it asked for and that share no byte, served *)
(* one call at a time.  Where a block comes from is left open; a request   *)
(* that fits in an arena is never refused, and every request is answered,  *)
(* or the process ends: the system has no memory left.                     *)
(***************************************************************************)
EXTENDS Integers, FiniteSets, Functions

CONSTANTS
  Addresses,   \* where a block may begin
  Sizes,       \* the sizes asked for
  MaxRequest,  \* the largest size that is never refused
  MaxBlocks,   \* bound: blocks held at once
  NONE

VARIABLES
  blocks,   \* the blocks the program holds: first byte -> size
  phase,    \* "idle", "asked" during a call, "dead" when the process ended
  request,  \* the size last asked for
  answer    \* the last answer: a block, or NONE for a refusal

vars == <<blocks, phase, request, answer>>

Init ==
  /\ blocks = [b \in {} |-> 0]
  /\ phase = "idle"
  /\ request = NONE
  /\ answer = NONE

\* A block of the given size at b would share a byte with block c.
Overlap(b, size, c) ==
  /\ b < c + blocks[c]
  /\ c < b + size
  /\ blocks[c] > 0
  /\ size > 0

Ask(size) ==
  /\ phase = "idle"
  /\ Cardinality(DOMAIN blocks) < MaxBlocks
  /\ phase' = "asked"
  /\ request' = size
  /\ UNCHANGED <<blocks, answer>>

\* Hand out a block that is not in use.
Serve(b) ==
  /\ phase = "asked"
  /\ b \notin DOMAIN blocks
  /\ \A c \in DOMAIN blocks : ~Overlap(b, request, c)
  /\ blocks' = [c \in DOMAIN blocks \cup {b} |->
                  IF c = b THEN request ELSE blocks[c]]
  /\ answer' = b
  /\ phase' = "idle"
  /\ UNCHANGED request

\* The process ends in the middle of a call, and holds its blocks to the end.
Die ==
  /\ phase = "asked"
  /\ phase' = "dead"
  /\ UNCHANGED <<blocks, request, answer>>

\* Only a request that is too large is turned down, at once.
Refuse(size) ==
  /\ phase = "idle"
  /\ size > MaxRequest
  /\ request' = size
  /\ answer' = NONE
  /\ UNCHANGED <<blocks, phase>>

GiveBack(b) ==
  /\ phase = "idle"
  /\ blocks' = Restrict(blocks, DOMAIN blocks \ {b})
  /\ UNCHANGED <<phase, request, answer>>

Next ==
  \/ \E size \in Sizes : Ask(size) \/ Refuse(size)
  \/ \E b \in Addresses : Serve(b)
  \/ Die
  \/ \E b \in DOMAIN blocks : GiveBack(b)

Spec == Init /\ [][Next]_vars /\ WF_vars(Die \/ \E b \in Addresses : Serve(b))

=============================================================================
