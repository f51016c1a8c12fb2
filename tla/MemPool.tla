------------------------------ MODULE MemPool ------------------------------
(***************************************************************************)
(* The segment allocator of CM7/Core/Src/MEM_Pool.c.  Each call runs to    *)
(* its end before the next one starts; PoolRace.tla takes that away.       *)
(* A pointer is the index of the segment it addresses.                     *)
(***************************************************************************)
EXTENDS Integers, FiniteSets

CONSTANTS
  Segments,   \* MEM_POOL_SEGMENTS
  SegSize,    \* MEM_POOL_SEG_SIZE, in bytes
  WordMod,    \* one more than UINT_MAX
  Requests    \* the sizes callers ask for

ASSUME SegmentsAssumption == Segments \in Nat \ {0}
ASSUME SegSizeAssumption  == SegSize \in Nat \ {0}
ASSUME WordModAssumption  == WordMod \in Nat \ {0}
ASSUME RequestsAssumption == Requests \subseteq 0 .. WordMod - 1
ASSUME PoolFitsAssumption == (Segments + 1) * SegSize <= WordMod

VARIABLES
  alloc,         \* gMemPoolMgt[i].alloc
  lookAheadIdx,
  inUse,
  watermark,     \* sMEMPoolWatermark
  sysErr,        \* the bits of GSysErr the pool sets
  held,          \* the blocks the callers own (not a variable of the code)
  asked,         \* the bytes the last MEM_PoolAlloc was asked for, and
  ret            \* its result

vars == <<alloc, lookAheadIdx, inUse, watermark, sysErr, held, asked, ret>>

Free == 0
Used == 1
Subseq == 2

NullPtr == -1
Foreign == Segments      \* an address that starts no segment

Index == 0 .. Segments - 1
Block == [start : Index, len : 1 .. Segments]
Extent(b) == b.start .. b.start + b.len - 1
NotFree(a) == {i \in Index : a[i] # Free}

(* Definitions with a suffix _x... are faulty variants of the definition    *)
(* that follows them; each breaks a property, and no behaviour uses one.   *)

SegmentsFor_xRoundDown(bytes) == bytes \div SegSize

(* Bytes to segments, rounded up in unsigned arithmetic, which wraps.      *)
SegmentsFor(bytes) == ((bytes + SegSize - 1) % WordMod) \div SegSize

FreeRuns_xStartOnly(from, n) ==
  {i \in from .. Segments - 1 : n >= 1 /\ i + n <= Segments /\ alloc[i] = Free}

(* Where the scan from a given index can stop: the run counter k reaches n *)
(* only for n >= 1 free segments inside the table.                         *)
FreeRuns(from, n) ==
  {i \in from .. Segments - 1 :
     /\ n >= 1
     /\ i + n <= Segments
     /\ \A j \in i .. i + n - 1 : alloc[j] = Free}

First(S) == CHOOSE i \in S : \A j \in S : i <= j

(* From lookAheadIdx on, else once more from the beginning.                *)
Found(n) ==
  IF FreeRuns(lookAheadIdx, n) # {} THEN First(FreeRuns(lookAheadIdx, n))
                                    ELSE First(FreeRuns(0, n))

Mark(f, n) ==
  [i \in Index |-> IF i = f THEN Used
                   ELSE IF i \in f + 1 .. f + n - 1 THEN Subseq
                   ELSE alloc[i]]

Followers_xNone(i) == {}

Followers_xNotFree(i) ==
  {j \in i + 1 .. Segments - 1 : \A k \in i + 1 .. j : alloc[k] # Free}

(* The segments after i that belong to the same block.                     *)
Followers(i) ==
  {j \in i + 1 .. Segments - 1 : \A k \in i + 1 .. j : alloc[k] = Subseq}

Init ==
  /\ alloc = [i \in Index |-> Free]
  /\ lookAheadIdx = 0
  /\ inUse = 0
  /\ watermark = 0
  /\ sysErr = {}
  /\ held = {}
  /\ asked = 0
  /\ ret = NullPtr

AllocOk(bytes) ==
  LET n == SegmentsFor(bytes)
      f == Found(n)
  IN /\ bytes # 0
     /\ FreeRuns(0, n) # {}
     /\ alloc' = Mark(f, n)
     /\ lookAheadIdx' = IF f + 1 >= Segments THEN 0 ELSE f + 1
     /\ inUse' = (inUse + n) % WordMod
     /\ watermark' = IF watermark < inUse' THEN inUse' ELSE watermark
     /\ held' = held \cup {[start |-> f, len |-> n]}
     /\ asked' = bytes
     /\ ret' = f
     /\ UNCHANGED sysErr

AllocFail(bytes) ==
  /\ bytes = 0 \/ FreeRuns(0, SegmentsFor(bytes)) = {}
  /\ sysErr' = IF bytes = 0 THEN sysErr ELSE sysErr \cup {"OUT_OF_MEM"}
  /\ asked' = bytes
  /\ ret' = NullPtr
  /\ UNCHANGED <<alloc, lookAheadIdx, inUse, watermark, held>>

MEM_PoolAlloc(bytes) == AllocOk(bytes) \/ AllocFail(bytes)

FreeFound_xCountsOne(ptr) ==
  /\ ptr \in Index
  /\ alloc' = [i \in Index |-> IF i \in {ptr} \cup Followers(ptr)
                               THEN Free ELSE alloc[i]]
  /\ inUse' = (inUse - 1) % WordMod
  /\ UNCHANGED sysErr

(* Any segment start is released, whatever its state.                      *)
FreeFound(ptr) ==
  /\ ptr \in Index
  /\ alloc' = [i \in Index |-> IF i \in {ptr} \cup Followers(ptr)
                               THEN Free ELSE alloc[i]]
  /\ inUse' = (inUse - 1 - Cardinality(Followers(ptr))) % WordMod
  /\ UNCHANGED sysErr

FreeRejected(ptr) ==
  /\ ptr \notin Index
  /\ sysErr' = sysErr \cup {IF ptr = NullPtr THEN "NULL_PTR" ELSE "INV_PTR"}
  /\ UNCHANGED <<alloc, inUse>>

MEM_PoolFree(ptr) ==
  /\ FreeFound(ptr) \/ FreeRejected(ptr)
  /\ held' = {b \in held : b.start # ptr}
  /\ UNCHANGED <<lookAheadIdx, watermark, asked, ret>>

(* SYS_ClrError, by the syserr command.                                    *)
SYS_ClrError ==
  /\ sysErr' = {}
  /\ UNCHANGED <<alloc, lookAheadIdx, inUse, watermark, held, asked, ret>>

(* Callers free what they own, once, or an address that is no segment.     *)
Next ==
  \/ \E bytes \in Requests : MEM_PoolAlloc(bytes)
  \/ \E b \in held : MEM_PoolFree(b.start)
  \/ \E ptr \in {NullPtr, Foreign} : MEM_PoolFree(ptr)
  \/ SYS_ClrError

Spec == Init /\ [][Next]_vars
-----------------------------------------------------------------------------
(* The state is what the declarations of MEM_Pool.c allow.                 *)
TypeOK ==
  /\ alloc \in [Index -> {Free, Used, Subseq}]
  /\ lookAheadIdx \in Index
  /\ inUse \in 0 .. WordMod - 1
  /\ watermark \in 0 .. WordMod - 1
  /\ sysErr \subseteq {"OUT_OF_MEM", "NULL_PTR", "INV_PTR"}
  /\ held \subseteq Block
  /\ asked \in Requests \cup {0}
  /\ ret \in Index \cup {NullPtr}

(* The blocks the table encodes: a USED segment and the SUBSEQ run that    *)
(* follows it, up to the next segment that is not SUBSEQ.                  *)
TableBlocks ==
  {b \in Block :
     /\ b.start + b.len <= Segments
     /\ alloc[b.start] = Used
     /\ \A i \in b.start + 1 .. b.start + b.len - 1 : alloc[i] = Subseq
     /\ b.start + b.len < Segments => alloc[b.start + b.len] # Subseq}

(* The table of MEM_PoolAlloc and MEM_PoolFree encodes exactly the blocks  *)
(* the callers own: none is cut short, merged with its neighbour or kept   *)
(* after its release.                                                      *)
TableIsHeld == held = TableBlocks

(* No segment is leaked: what is not FREE belongs to a block somebody owns *)
(* and will pass to MEM_PoolFree.  In particular a SUBSEQ segment "belongs *)
(* to the start with ALLOC_USED" (MEM_Pool.h:39).                          *)
NoLeak == \A i \in NotFree(alloc) : \E b \in held : i \in Extent(b)

(* The table and the callers agree on who owns what: every block owned is  *)
(* in it, whole, and every segment in use is owned by somebody.            *)
TableExact == TableIsHeld /\ NoLeak

(* No two callers of MEM_PoolAlloc own the same segment.                   *)
BlocksDisjoint ==
  \A b, c \in held : b # c => Extent(b) \cap Extent(c) = {}

(* The counter inUse that MEM_PoolAlloc and MEM_PoolFree keep apart from   *)
(* the table counts the segments that are not FREE.                        *)
InUseExact == inUse = Cardinality(NotFree(alloc))

(* sMEMPoolWatermark was reached and nothing exceeded it.                  *)
WatermarkBounds == inUse <= watermark /\ watermark <= Segments

(* An operation on one block leaves the segments of every other block as   *)
(* they were: no caller sees its memory handed to someone else.            *)
OthersUntouched ==
  [][\A b \in held \cap held' : \A i \in Extent(b) : alloc'[i] = alloc[i]]_vars

Abstract == INSTANCE BlockPool WITH
  blocks <- TableBlocks, request <- asked, reply <- ret

(* The table implements the abstract pool: a request is refused only when  *)
(* no long enough run is free, and what is granted covers the request.     *)
ImplementsBlockPool == Abstract!Spec
=============================================================================
