----------------------------- MODULE BlockPool -----------------------------
(***************************************************************************)
(* What MEM_Pool.c promises to its callers, without the segment table:     *)
(* a set of disjoint blocks, each a run of segments of one RAM array.      *)
(* A request is granted by some run of free segments of the right length,  *)
(* and refused only when no such run exists.                               *)
(***************************************************************************)
EXTENDS Integers

CONSTANTS
  Segments,   \* number of segments of the pool
  SegSize,    \* bytes of one segment
  WordMod,    \* one more than the largest unsigned int
  Requests    \* the sizes, in bytes, callers ask for

VARIABLES
  blocks,     \* the blocks handed out: [start, len], in segments
  request,    \* the bytes the last allocation asked for
  reply       \* what it returned: a start, or NullPtr

bvars == <<blocks, request, reply>>

NullPtr == -1

Extent(b) == b.start .. b.start + b.len - 1

AllBlocks == {b \in [start : 0 .. Segments - 1, len : 1 .. Segments] :
                b.start + b.len <= Segments}

(* A block that could be handed out for a request of this many bytes: it   *)
(* is long enough, and no segment of it is wasted.                         *)
Fits(b, bytes) ==
  /\ bytes <= b.len * SegSize
  /\ (b.len - 1) * SegSize < bytes
  /\ \A c \in blocks : Extent(b) \cap Extent(c) = {}

Init == blocks = {} /\ request = 0 /\ reply = NullPtr

Grant(bytes) ==
  \E b \in AllBlocks :
    /\ Fits(b, bytes)
    /\ blocks' = blocks \cup {b}
    /\ request' = bytes
    /\ reply' = b.start

(* A request is refused only for want of a long enough free run.           *)
Refuse(bytes) ==
  /\ bytes = 0 \/ \A b \in AllBlocks : ~Fits(b, bytes)
  /\ request' = bytes
  /\ reply' = NullPtr
  /\ UNCHANGED blocks

Release(b) ==
  /\ b \in blocks
  /\ blocks' = blocks \ {b}
  /\ UNCHANGED <<request, reply>>

Next ==
  \/ \E bytes \in Requests : Grant(bytes) \/ Refuse(bytes)
  \/ \E b \in blocks : Release(b)

Spec == Init /\ [][Next]_bvars
=============================================================================
