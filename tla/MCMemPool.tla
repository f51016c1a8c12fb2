----------------------------- MODULE MCMemPool -----------------------------
(* A pool of a few segments; request sizes on both sides of the rounding   *)
(* boundaries, the whole pool, more than that, and one whose rounding      *)
(* wraps.                                                                  *)
EXTENDS MemPool

MCRequests == {0, 1, SegSize + 1, 3 * SegSize, Segments * SegSize,
               Segments * SegSize + 1, WordMod - 1}
=============================================================================
