--------------------------- MODULE MemPoolProofs ---------------------------
(***************************************************************************)
(* Theorems about MemPool, for every number and size of segments, and      *)
(* about the loops of PoolRace, when one task at a time calls them.        *)
(*                                                                         *)
(* The inductive invariant says that the table and the callers' blocks     *)
(* describe each other: every block is written in the table as one USED    *)
(* segment and the SUBSEQ run behind it, and every segment that is not     *)
(* FREE lies in a block.  Both halves are needed: a new block must not     *)
(* touch an orphaned SUBSEQ segment, or MEM_PoolFree would take it along.  *)
(***************************************************************************)
EXTENDS PoolRace, FiniteSetTheorems, WellFoundedInduction, TLAPS

(* A nonempty set of naturals has a least element.                         *)
LEMMA LeastElement ==
  ASSUME NEW S \in SUBSET Nat, S # {}
  PROVE  \E i \in S : \A j \in S : i <= j
<1> DEFINE R == {ss \in Nat \X Nat : ss[1] < ss[2]}
<1>1. IsWellFoundedOn(R, Nat)
  BY NatLessThanWellFounded DEF OpToRel
<1> HIDE DEF R
<1>2. PICK i \in S : \A j \in S : <<j, i>> \notin R
  BY <1>1, WFMin
<1>3. \A j \in S : ~(j < i)
  BY <1>2 DEF R
<1>. QED
  BY <1>3

LEMMA FirstInSet ==
  ASSUME NEW S \in SUBSET Nat, S # {}
  PROVE  First(S) \in S
BY LeastElement DEF First

(* The number of segments of a request is a natural number.                *)
LEMMA SegmentsForType ==
  ASSUME NEW bytes \in Requests
  PROVE  SegmentsFor(bytes) \in Nat
<1>1. (bytes + SegSize - 1) % WordMod \in Nat
  BY RequestsAssumption, SegSizeAssumption, WordModAssumption
<1>. QED
  BY <1>1, SegSizeAssumption DEF SegmentsFor

(* Both scans of MEM_PoolAlloc end at a run of free segments.              *)
LEMMA FoundIsFreeRun ==
  ASSUME TypeOK, NEW n \in Nat, FreeRuns(0, n) # {}
  PROVE  Found(n) \in FreeRuns(0, n)
<1>1. FreeRuns(lookAheadIdx, n) \subseteq FreeRuns(0, n)
  BY SegmentsAssumption DEF TypeOK, Index, FreeRuns
<1>2. FreeRuns(0, n) \in SUBSET Nat
  BY SegmentsAssumption DEF FreeRuns
<1>. QED
  BY <1>1, <1>2, FirstInSet DEF Found
-----------------------------------------------------------------------------
(* The table and the owned blocks describe each other.                     *)
TableInv ==
  /\ TypeOK
  /\ TableIsHeld
  /\ NoLeak

(* A block in the table is inside it, starts USED and goes on SUBSEQ.      *)
LEMMA HeldBlock ==
  ASSUME TableInv, NEW b \in held
  PROVE  /\ b.start \in Index
         /\ b.len \in 1 .. Segments
         /\ b.start + b.len <= Segments
         /\ Extent(b) \subseteq Index
         /\ alloc[b.start] = Used
         /\ \A i \in b.start + 1 .. b.start + b.len - 1 : alloc[i] = Subseq
         /\ b.start + b.len < Segments => alloc[b.start + b.len] # Subseq
         /\ b = [start |-> b.start, len |-> b.len]
<1>1. b \in TableBlocks
  BY DEF TableInv, TableIsHeld
<1>. QED
  BY <1>1, SegmentsAssumption DEF TableBlocks, Block, Index, Extent

(* Two owned blocks that share a segment are the same block.               *)
LEMMA SharedSegment ==
  ASSUME TableInv, NEW b \in held, NEW c \in held,
         Extent(b) \cap Extent(c) # {}
  PROVE  b = c
<1>. USE SegmentsAssumption
<1>1. b.start = c.start
  BY HeldBlock DEF Extent, Index, Used, Subseq
<1>2. b.len = c.len
  BY <1>1, HeldBlock DEF Extent, Index, Used, Subseq
<1>. QED
  BY <1>1, <1>2, HeldBlock

(* Behind a run of free segments no SUBSEQ segment follows.                *)
LEMMA NoSubseqBehindFree ==
  ASSUME TableInv, NEW i \in Index, i + 1 \in Index, alloc[i] = Free
  PROVE  alloc[i + 1] # Subseq
<1>. USE SegmentsAssumption
<1>1. SUFFICES ASSUME alloc[i + 1] = Subseq PROVE FALSE
  OBVIOUS
<1>2. PICK b \in held : i + 1 \in Extent(b)
  BY <1>1 DEF TableInv, NoLeak, NotFree, Free, Subseq
<1>3. b.start # i + 1
  BY <1>1, HeldBlock DEF Used, Subseq
<1>4. i \in Extent(b)
  BY <1>2, <1>3, HeldBlock DEF Extent, Index
<1>. QED
  BY <1>4, HeldBlock DEF Extent, Index, Used, Subseq, Free
-----------------------------------------------------------------------------
(* What an allocation does to the table: one more block, all of it from    *)
(* free segments.                                                          *)
LEMMA AllocTable ==
  ASSUME TableInv, NEW bytes \in Requests, AllocOk(bytes),
         NEW n, n = SegmentsFor(bytes),
         NEW f, f = Found(n)
  PROVE  /\ n \in 1 .. Segments
         /\ f \in Index
         /\ f + n <= Segments
         /\ \A i \in f .. f + n - 1 : alloc[i] = Free
         /\ alloc' = Mark(f, n)
         /\ held' = held \cup {[start |-> f, len |-> n]}
<1>1. n \in Nat
  BY SegmentsForType
<1>2. f \in FreeRuns(0, n)
  BY <1>1, FoundIsFreeRun DEF TableInv, AllocOk
<1>. QED
  BY <1>1, <1>2, SegmentsAssumption DEF AllocOk, FreeRuns, Index

LEMMA AllocOkTypeOK ==
  ASSUME TableInv, NEW bytes \in Requests, AllocOk(bytes)
  PROVE  TypeOK'
<1> DEFINE n == SegmentsFor(bytes)
           f == Found(n)
<1>1. /\ n \in 1 .. Segments
      /\ f \in Index
      /\ alloc' = Mark(f, n)
      /\ held' = held \cup {[start |-> f, len |-> n]}
  BY AllocTable
<1>2. alloc' \in [Index -> {Free, Used, Subseq}]
  BY <1>1 DEF TableInv, TypeOK, Mark
<1>3. held' \subseteq Block
  BY <1>1 DEF TableInv, TypeOK, Block
<1>4. inUse' \in 0 .. WordMod - 1
  BY <1>1, WordModAssumption, SegmentsAssumption DEF TableInv, TypeOK, AllocOk
<1>5. /\ lookAheadIdx' \in Index
      /\ watermark' \in 0 .. WordMod - 1
      /\ sysErr' = sysErr
      /\ asked' = bytes
      /\ ret' \in Index
  BY <1>1, <1>4, SegmentsAssumption DEF TableInv, TypeOK, AllocOk, Index
<1>. QED
  BY <1>2, <1>3, <1>4, <1>5 DEF TableInv, TypeOK

LEMMA AllocOkTableIsHeld ==
  ASSUME TableInv, NEW bytes \in Requests, AllocOk(bytes)
  PROVE  TableIsHeld'
<1>. USE SegmentsAssumption
<1> DEFINE n == SegmentsFor(bytes)
           f == Found(n)
           new == [start |-> f, len |-> n]
<1>1. /\ n \in 1 .. Segments
      /\ f \in Index
      /\ f + n <= Segments
      /\ \A i \in f .. f + n - 1 : alloc[i] = Free
      /\ alloc' = Mark(f, n)
      /\ held' = held \cup {new}
  BY AllocTable
<1>2. f + n < Segments => alloc[f + n] # Subseq
  <2>1. SUFFICES ASSUME f + n < Segments PROVE alloc[f + n] # Subseq
    OBVIOUS
  <2>2. f + n - 1 \in Index /\ (f + n - 1) + 1 \in Index
        /\ alloc[f + n - 1] = Free
    BY <1>1, <2>1 DEF Index
  <2>. QED
    BY <1>1, <2>2, NoSubseqBehindFree DEF Index
<1> HIDE DEF n, f
<1>3. new \in TableBlocks'
  BY <1>1, <1>2 DEF TableBlocks, Block, Index, Mark
<1>4. ASSUME NEW b \in held PROVE b \in TableBlocks'
  <2>1. Extent(b) \cap (f .. f + n - 1) = {}
    BY <1>1, HeldBlock DEF Extent, Free, Used, Subseq, Index
  <2>2. \A i \in Extent(b) : alloc'[i] = alloc[i]
    BY <1>1, <2>1, HeldBlock DEF Mark, Extent, Index
  <2>3. b.start + b.len < Segments => alloc'[b.start + b.len] # Subseq
    <3>1. SUFFICES ASSUME b.start + b.len < Segments
                   PROVE  alloc'[b.start + b.len] # Subseq
      OBVIOUS
    <3>2. b.start + b.len \in Index /\ b.start + b.len - 1 \in Extent(b)
      BY <3>1, HeldBlock DEF Extent, Index
    <3>3. b.start + b.len \notin f + 1 .. f + n - 1
      BY <1>1, <2>1, <3>2, HeldBlock DEF Index
    <3>. QED
      BY <1>1, <3>1, <3>2, <3>3, HeldBlock DEF Mark, Used, Subseq
  <2>4. b \in Block
    BY DEF TableInv, TypeOK
  <2>. QED
    BY <2>2, <2>3, <2>4, HeldBlock DEF TableBlocks, Extent, Index
<1>5. ASSUME NEW b \in TableBlocks', b # new PROVE b \in held
  <2>1. /\ b \in Block
        /\ b.start \in Index /\ b.len \in 1 .. Segments
        /\ b.start + b.len <= Segments
        /\ alloc'[b.start] = Used
        /\ \A i \in b.start + 1 .. b.start + b.len - 1 : alloc'[i] = Subseq
        /\ b.start + b.len < Segments => alloc'[b.start + b.len] # Subseq
    BY DEF TableBlocks, Block
  <2>2. b.start # f
    <3>1. SUFFICES ASSUME b.start = f PROVE FALSE
      OBVIOUS
    <3>2. ~(b.len < n)
      <4>1. SUFFICES ASSUME b.len < n PROVE FALSE
        OBVIOUS
      <4>2. f + b.len \in f + 1 .. f + n - 1 /\ f + b.len \in Index
        BY <1>1, <2>1, <4>1 DEF Index
      <4>3. alloc'[f + b.len] = Subseq
        BY <1>1, <4>2 DEF Mark, Index
      <4>. QED
        BY <2>1, <3>1, <4>2, <4>3 DEF Index
    <3>3. ~(n < b.len)
      <4>1. SUFFICES ASSUME n < b.len PROVE FALSE
        OBVIOUS
      <4>2. f + n \in b.start + 1 .. b.start + b.len - 1 /\ f + n \in Index
        BY <1>1, <2>1, <3>1, <4>1 DEF Index
      <4>3. alloc'[f + n] = alloc[f + n]
        BY <1>1, <4>2 DEF Mark, Index
      <4>. QED
        BY <1>2, <2>1, <4>2, <4>3 DEF Index
    <3>4. b.len = n
      BY <1>1, <2>1, <3>2, <3>3
    <3>. QED
      BY <2>1, <3>1, <3>4, <1>5 DEF Block
  <2>3. b.start \notin f .. f + n - 1
    BY <1>1, <2>1, <2>2 DEF Mark, Index, Used, Subseq
  <2>4. f \notin Extent(b)
    <3>1. SUFFICES ASSUME f \in b.start + 1 .. b.start + b.len - 1 PROVE FALSE
      BY <1>1, <2>1, <2>2 DEF Extent, Index
    <3>2. alloc'[f] = Used
      BY <1>1 DEF Mark
    <3>. QED
      BY <2>1, <3>1, <3>2 DEF Used, Subseq
  <2>5. Extent(b) \cap (f .. f + n - 1) = {}
    BY <1>1, <2>1, <2>3, <2>4 DEF Extent, Index
  <2>6. \A i \in Extent(b) : alloc'[i] = alloc[i]
    BY <1>1, <2>1, <2>5 DEF Mark, Extent, Index
  <2>7. b.start + b.len < Segments => alloc[b.start + b.len] # Subseq
    BY <1>1, <2>1 DEF Mark, Index, Used, Subseq, Free
  <2>8. b \in TableBlocks
    BY <2>1, <2>6, <2>7 DEF TableBlocks, Extent, Index
  <2>. QED
    BY <2>8 DEF TableInv, TableIsHeld
<1>. QED
  BY <1>1, <1>3, <1>4, <1>5 DEF TableIsHeld

LEMMA AllocOkNoLeak ==
  ASSUME TableInv, NEW bytes \in Requests, AllocOk(bytes)
  PROVE  NoLeak'
<1> DEFINE n == SegmentsFor(bytes)
           f == Found(n)
<1>1. /\ n \in 1 .. Segments
      /\ f \in Index
      /\ alloc' = Mark(f, n)
      /\ held' = held \cup {[start |-> f, len |-> n]}
  BY AllocTable
<1> HIDE DEF n, f
<1>2. ASSUME NEW i \in Index, alloc'[i] # Free
      PROVE  \E b \in held' : i \in Extent(b)
  <2>1. CASE i \in f .. f + n - 1
    <3>1. i \in Extent([start |-> f, len |-> n])
      BY <2>1 DEF Extent
    <3>. QED
      BY <1>1, <3>1
  <2>2. CASE i \notin f .. f + n - 1
    <3>1. alloc[i] # Free
      BY <1>1, <1>2, <2>2 DEF Mark, Index
    <3>. QED
      BY <1>1, <3>1 DEF TableInv, NoLeak, NotFree
  <2>. QED
    BY <2>1, <2>2
<1>. QED
  BY <1>2 DEF NoLeak, NotFree
-----------------------------------------------------------------------------
(* What the release of an owned block does to the table: the followers of  *)
(* its first segment are the rest of the block, no more and no less.       *)
LEMMA FollowersOfBlock ==
  ASSUME TableInv, NEW b \in held
  PROVE  /\ Followers(b.start) = b.start + 1 .. b.start + b.len - 1
         /\ {b.start} \cup Followers(b.start) = Extent(b)
<1>. USE SegmentsAssumption
<1>1. b.start + 1 .. b.start + b.len - 1 \subseteq Followers(b.start)
  BY HeldBlock DEF Followers, Index
<1>2. ASSUME NEW j \in Followers(b.start)
      PROVE  j \in b.start + 1 .. b.start + b.len - 1
  <2>1. SUFFICES ASSUME j >= b.start + b.len PROVE FALSE
    BY HeldBlock DEF Followers, Index
  <2>2. b.start + b.len \in b.start + 1 .. j /\ b.start + b.len < Segments
    BY <2>1, HeldBlock DEF Followers, Index
  <2>3. alloc[b.start + b.len] = Subseq
    BY <2>2 DEF Followers
  <2>. QED
    BY <2>2, <2>3, HeldBlock
<1>3. Followers(b.start) = b.start + 1 .. b.start + b.len - 1
  BY <1>1, <1>2
<1>. QED
  BY <1>3, HeldBlock DEF Extent, Index

LEMMA FollowersCount ==
  ASSUME TableInv, NEW b \in held
  PROVE  Cardinality(Followers(b.start)) = b.len - 1
<1> DEFINE lo == b.start + 1
           hi == b.start + b.len - 1
<1>1. lo \in Int /\ hi \in Int /\ b.len \in Nat \ {0}
      /\ hi - lo + 1 = b.len - 1
  BY HeldBlock, SegmentsAssumption DEF Index
<1>2. Followers(b.start) = lo .. hi
  BY FollowersOfBlock
<1> HIDE DEF lo, hi
<1>3. Cardinality(lo .. hi) = IF lo > hi THEN 0 ELSE hi - lo + 1
  BY <1>1, FS_Interval
<1>. QED
  BY <1>1, <1>2, <1>3

LEMMA FreeTable ==
  ASSUME TableInv, NEW b \in held, MEM_PoolFree(b.start)
  PROVE  /\ alloc' = [i \in Index |->
                      IF i \in Extent(b) THEN Free ELSE alloc[i]]
         /\ held' = held \ {b}
<1>1. FreeFound(b.start)
  BY HeldBlock DEF MEM_PoolFree, FreeRejected
<1>2. alloc' = [i \in Index |-> IF i \in Extent(b) THEN Free ELSE alloc[i]]
  BY <1>1, FollowersOfBlock DEF FreeFound
<1>3. ASSUME NEW c \in held, c.start = b.start PROVE c = b
  <2>1. b.start \in Extent(b) /\ c.start \in Extent(c)
    BY HeldBlock DEF Extent, Index
  <2>. QED
    BY <1>3, <2>1, SharedSegment
<1>4. held' = {c \in held : c.start # b.start}
  BY DEF MEM_PoolFree
<1>. QED
  BY <1>2, <1>3, <1>4

LEMMA FreeHeldTypeOK ==
  ASSUME TableInv, NEW b \in held, MEM_PoolFree(b.start)
  PROVE  TypeOK'
<1>1. FreeFound(b.start)
  BY HeldBlock DEF MEM_PoolFree, FreeRejected
<1>2. Cardinality(Followers(b.start)) \in Nat
  BY FollowersCount, HeldBlock
<1>3. inUse' \in 0 .. WordMod - 1
  BY <1>1, <1>2, WordModAssumption DEF FreeFound, TableInv, TypeOK
<1>4. alloc' \in [Index -> {Free, Used, Subseq}]
  BY FreeTable DEF TableInv, TypeOK
<1>5. held' \subseteq Block
  BY FreeTable DEF TableInv, TypeOK
<1>. QED
  BY <1>1, <1>3, <1>4, <1>5 DEF TableInv, TypeOK, MEM_PoolFree, FreeFound

LEMMA FreeHeldTableIsHeld ==
  ASSUME TableInv, NEW b \in held, MEM_PoolFree(b.start)
  PROVE  TableIsHeld'
<1>. USE SegmentsAssumption
<1>1. /\ alloc' = [i \in Index |-> IF i \in Extent(b) THEN Free ELSE alloc[i]]
      /\ held' = held \ {b}
  BY FreeTable
<1>2. ASSUME NEW c \in held, c # b PROVE c \in TableBlocks'
  <2>1. Extent(c) \cap Extent(b) = {}
    BY <1>2, SharedSegment
  <2>2. \A i \in Extent(c) : alloc'[i] = alloc[i]
    BY <1>1, <2>1, HeldBlock
  <2>3. c.start + c.len < Segments => alloc'[c.start + c.len] # Subseq
    BY <1>1, HeldBlock DEF Index, Free, Subseq
  <2>4. c \in Block
    BY DEF TableInv, TypeOK
  <2>. QED
    BY <2>2, <2>3, <2>4, HeldBlock DEF TableBlocks, Extent, Index
<1>3. ASSUME NEW c \in TableBlocks' PROVE c \in held /\ c # b
  <2>1. /\ c \in Block
        /\ c.start \in Index /\ c.len \in 1 .. Segments
        /\ c.start + c.len <= Segments
        /\ alloc'[c.start] = Used
        /\ \A i \in c.start + 1 .. c.start + c.len - 1 : alloc'[i] = Subseq
        /\ c.start + c.len < Segments => alloc'[c.start + c.len] # Subseq
    BY DEF TableBlocks, Block
  <2>2. \A i \in Extent(c) : i \in Index /\ alloc'[i] # Free
    BY <2>1 DEF Extent, Index, Free, Used, Subseq
  <2>3. \A i \in Extent(c) : i \notin Extent(b) /\ alloc'[i] = alloc[i]
    BY <1>1, <2>2
  <2>4. c.start + c.len < Segments => alloc[c.start + c.len] # Subseq
    <3>1. SUFFICES ASSUME c.start + c.len < Segments,
                          alloc[c.start + c.len] = Subseq
                   PROVE  FALSE
      OBVIOUS
    <3>2. c.start + c.len \in Extent(b)
      BY <1>1, <2>1, <3>1 DEF Index
    <3>3. c.start + c.len # b.start
      BY <3>1, HeldBlock DEF Used, Subseq
    <3>4. c.start + c.len - 1 \in Extent(b)
          /\ c.start + c.len - 1 \in Extent(c)
      BY <2>1, <3>2, <3>3, HeldBlock DEF Extent, Index
    <3>. QED
      BY <2>3, <3>4
  <2>5. c \in TableBlocks
    BY <2>1, <2>3, <2>4 DEF TableBlocks, Extent, Index
  <2>6. c.start \in Extent(c)
    BY <2>1 DEF Extent, Index
  <2>. QED
    BY <2>3, <2>5, <2>6 DEF TableInv, TableIsHeld
<1>. QED
  BY <1>1, <1>2, <1>3 DEF TableIsHeld

LEMMA FreeHeldNoLeak ==
  ASSUME TableInv, NEW b \in held, MEM_PoolFree(b.start)
  PROVE  NoLeak'
<1>1. /\ alloc' = [i \in Index |-> IF i \in Extent(b) THEN Free ELSE alloc[i]]
      /\ held' = held \ {b}
  BY FreeTable
<1>2. ASSUME NEW i \in Index, alloc'[i] # Free
      PROVE  i \notin Extent(b) /\ alloc[i] # Free
  BY <1>1, <1>2
<1>. QED
  BY <1>1, <1>2 DEF TableInv, NoLeak, NotFree
-----------------------------------------------------------------------------
LEMMA InitTableInv == Init => TableInv
BY SegmentsAssumption, WordModAssumption
   DEF Init, TableInv, TypeOK, TableIsHeld, TableBlocks, NoLeak, NotFree,
       Block, Index, Free, Used, Subseq, NullPtr

LEMMA NextTableInv == TableInv /\ [Next]_vars => TableInv'
<1>1. ASSUME TableInv, NEW bytes \in Requests, AllocOk(bytes)
      PROVE  TableInv'
  BY <1>1, AllocOkTypeOK, AllocOkTableIsHeld, AllocOkNoLeak DEF TableInv
<1>2. ASSUME TableInv, NEW bytes \in Requests, AllocFail(bytes)
      PROVE  TableInv'
  BY <1>2 DEF TableInv, TypeOK, AllocFail, TableIsHeld, TableBlocks, NoLeak,
     NotFree
<1>3. ASSUME TableInv, NEW b \in held, MEM_PoolFree(b.start)
      PROVE  TableInv'
  BY <1>3, FreeHeldTypeOK, FreeHeldTableIsHeld, FreeHeldNoLeak DEF TableInv
<1>4. ASSUME TableInv, NEW ptr \in {NullPtr, Foreign}, MEM_PoolFree(ptr)
      PROVE  TableInv'
  <2>1. ptr \notin Index
    BY SegmentsAssumption DEF NullPtr, Foreign, Index
  <2>2. held' = held
    BY <1>4, <2>1, HeldBlock DEF MEM_PoolFree
  <2>. QED
    BY <1>4, <2>1, <2>2
       DEF TableInv, TypeOK, MEM_PoolFree, FreeFound, FreeRejected,
           TableIsHeld, TableBlocks, NoLeak, NotFree
<1>5. ASSUME TableInv, SYS_ClrError
      PROVE  TableInv'
  BY <1>5 DEF TableInv, TypeOK, SYS_ClrError, TableIsHeld, TableBlocks,
     NoLeak, NotFree
<1>6. ASSUME TableInv, UNCHANGED vars
      PROVE  TableInv'
  BY <1>6 DEF TableInv, TypeOK, vars, TableIsHeld, TableBlocks, NoLeak, NotFree
<1>. QED
  BY <1>1, <1>2, <1>3, <1>4, <1>5, <1>6 DEF Next, MEM_PoolAlloc

(* The variables of MEM_Pool.c keep their declared ranges, whatever the    *)
(* callers request and in whatever order they release.                     *)
THEOREM TypeCorrect == Spec => []TypeOK
<1>1. TableInv => TypeOK
  BY DEF TableInv
<1>. QED
  BY <1>1, InitTableInv, NextTableInv, PTL DEF Spec

(* After every call of MEM_PoolAlloc and MEM_PoolFree the table holds the  *)
(* blocks the callers own, and nothing else.                               *)
THEOREM TableCorrect == Spec => []TableExact
<1>1. TableInv => TableExact
  BY DEF TableInv, TableExact
<1>. QED
  BY <1>1, InitTableInv, NextTableInv, PTL DEF Spec

(* MEM_PoolAlloc never hands a segment to two owners.                      *)
THEOREM DisjointBlocks == Spec => []BlocksDisjoint
<1>1. TableInv => BlocksDisjoint
  BY SharedSegment DEF BlocksDisjoint
<1>. QED
  BY <1>1, InitTableInv, NextTableInv, PTL DEF Spec

(* No call changes the table entries of a block that stays owned.          *)
THEOREM OwnersUndisturbed == Spec => OthersUntouched
<1> DEFINE Undisturbed ==
      \A b \in held \cap held' : \A i \in Extent(b) : alloc'[i] = alloc[i]
<1>1. ASSUME TableInv, NEW bytes \in Requests, AllocOk(bytes)
      PROVE  Undisturbed
  <2> DEFINE n == SegmentsFor(bytes)
             f == Found(n)
  <2>1. /\ \A i \in f .. f + n - 1 : alloc[i] = Free
        /\ n \in 1 .. Segments /\ f \in Index
        /\ alloc' = Mark(f, n)
    BY <1>1, AllocTable
  <2>2. ASSUME NEW b \in held, NEW i \in Extent(b)
        PROVE  i \in Index /\ alloc[i] # Free
    BY <1>1, <2>2, HeldBlock DEF Extent, Index, Free, Used, Subseq
  <2>3. ASSUME NEW b \in held, NEW i \in Extent(b)
        PROVE  i \notin f .. f + n - 1
    BY <2>1, <2>2, <2>3
  <2> HIDE DEF n, f
  <2>. QED
    BY <2>1, <2>2, <2>3 DEF Mark, Index
<1>2. ASSUME TableInv, NEW b \in held, MEM_PoolFree(b.start)
      PROVE  Undisturbed
  <2>1. ASSUME NEW c \in held, c # b, NEW i \in Extent(c)
        PROVE  i \in Index /\ i \notin Extent(b)
    BY <1>2, <2>1, SharedSegment, HeldBlock
  <2>. QED
    BY <1>2, <2>1, FreeTable
<1>3. ASSUME NEW bytes \in Requests, AllocFail(bytes) PROVE Undisturbed
  BY <1>3 DEF AllocFail
<1>4. ASSUME NEW ptr \in {NullPtr, Foreign}, MEM_PoolFree(ptr)
      PROVE Undisturbed
  BY <1>4, SegmentsAssumption
     DEF MEM_PoolFree, FreeFound, FreeRejected, NullPtr, Foreign, Index
<1>5. SYS_ClrError => Undisturbed
  BY DEF SYS_ClrError
<1>6. TableInv /\ [Next]_vars => [Undisturbed]_vars
  BY <1>1, <1>2, <1>3, <1>4, <1>5 DEF Next, MEM_PoolAlloc
<1>. QED
  BY <1>6, InitTableInv, NextTableInv, PTL DEF Spec, OthersUntouched
-----------------------------------------------------------------------------
(* The counters.                                                           *)
CountInv == TableInv /\ InUseExact /\ WatermarkBounds

LEMMA SegmentsBelowWord == Segments < WordMod
<1>1. (Segments + 1) * SegSize >= Segments + 1
  BY SegmentsAssumption, SegSizeAssumption
<1>. QED
  BY <1>1, PoolFitsAssumption, SegmentsAssumption, SegSizeAssumption,
     WordModAssumption

LEMMA IntervalCount ==
  ASSUME NEW lo \in Int, NEW k \in Nat
  PROVE  IsFiniteSet(lo .. lo + k - 1) /\ Cardinality(lo .. lo + k - 1) = k
<1> DEFINE hi == lo + k - 1
<1>1. hi \in Int /\ hi - lo + 1 = k /\ (lo > hi <=> k = 0)
  OBVIOUS
<1> HIDE DEF hi
<1>2. /\ IsFiniteSet(lo .. hi)
      /\ Cardinality(lo .. hi) = IF lo > hi THEN 0 ELSE hi - lo + 1
  BY <1>1, FS_Interval
<1>3. IsFiniteSet(lo .. hi) /\ Cardinality(lo .. hi) = k
  BY <1>1, <1>2
<1>. QED
  BY <1>3 DEF hi

LEMMA NotFreeFinite ==
  ASSUME NEW a
  PROVE  /\ IsFiniteSet(NotFree(a))
         /\ Cardinality(NotFree(a)) \in 0 .. Segments
<1>1. IsFiniteSet(0 .. Segments - 1)
      /\ Cardinality(0 .. Segments - 1) = Segments
  <2>1. 0 \in Int /\ Segments \in Nat /\ 0 + Segments - 1 = Segments - 1
    BY SegmentsAssumption
  <2>. QED
    BY <2>1, IntervalCount
<1>2. NotFree(a) \in SUBSET (0 .. Segments - 1)
  BY DEF NotFree, Index
<1>3. IsFiniteSet(NotFree(a)) /\ Cardinality(NotFree(a)) <= Segments
  BY <1>1, <1>2, FS_Subset
<1>. QED
  BY <1>3, FS_CardinalityType, SegmentsAssumption

LEMMA AllocOkCounts ==
  ASSUME CountInv, NEW bytes \in Requests, AllocOk(bytes)
  PROVE  InUseExact' /\ WatermarkBounds'
<1> DEFINE n == SegmentsFor(bytes)
           f == Found(n)
           run == f .. f + n - 1
<1>1. /\ n \in 1 .. Segments /\ f \in Index /\ f + n <= Segments
      /\ \A i \in run : alloc[i] = Free
      /\ alloc' = Mark(f, n)
  BY AllocTable DEF CountInv
<1>2. inUse' = (inUse + n) % WordMod
  BY DEF AllocOk
<1>. HIDE DEF n, f
<1>10. f \in Int /\ n \in Nat
  BY <1>1, SegmentsAssumption DEF Index
<1>3. IsFiniteSet(run) /\ Cardinality(run) = n
  BY <1>10, IntervalCount
<1>4. NotFree(alloc') = NotFree(alloc) \cup run
  BY <1>1, SegmentsAssumption DEF Mark, NotFree, Index, Free, Used, Subseq
<1>5. NotFree(alloc) \cap run = {}
  BY <1>1 DEF NotFree
<1> HIDE DEF run
<1>6. Cardinality(NotFree(alloc')) = Cardinality(NotFree(alloc)) + n
  <2>1. Cardinality({}) = 0
    BY FS_EmptySet
  <2>2. Cardinality(NotFree(alloc) \cup run)
          = Cardinality(NotFree(alloc)) + Cardinality(run)
              - Cardinality(NotFree(alloc) \cap run)
    BY <1>3, NotFreeFinite, FS_Union
  <2>. QED
    BY <2>1, <2>2, <1>3, <1>4, <1>5, <1>10, NotFreeFinite, SegmentsAssumption
<1>7. inUse + n \in 0 .. Segments
  BY <1>1, <1>6, NotFreeFinite, SegmentsAssumption DEF CountInv, InUseExact
<1>8. inUse' = inUse + n
  BY <1>2, <1>7, SegmentsBelowWord, SegmentsAssumption, WordModAssumption
<1>. QED
  BY <1>6, <1>7, <1>8, SegmentsAssumption, WordModAssumption
     DEF CountInv, InUseExact, WatermarkBounds, AllocOk, TableInv, TypeOK

LEMMA FreeHeldCounts ==
  ASSUME CountInv, NEW b \in held, MEM_PoolFree(b.start)
  PROVE  InUseExact' /\ WatermarkBounds'
<1>1. /\ b.start \in Index /\ b.len \in 1 .. Segments
      /\ Extent(b) \subseteq Index
      /\ alloc[b.start] = Used
      /\ \A i \in b.start + 1 .. b.start + b.len - 1 : alloc[i] = Subseq
  BY HeldBlock DEF CountInv
<1>2. /\ alloc' = [i \in Index |-> IF i \in Extent(b) THEN Free ELSE alloc[i]]
      /\ FreeFound(b.start)
  BY <1>1, FreeTable DEF CountInv, MEM_PoolFree, FreeRejected
<1>3. inUse' = (inUse - 1 - (b.len - 1)) % WordMod
  BY <1>2, FollowersCount DEF CountInv, FreeFound
<1>4. IsFiniteSet(Extent(b)) /\ Cardinality(Extent(b)) = b.len
  <2> DEFINE s == b.start
             l == b.len
  <2>1. s \in Int /\ l \in Nat
    BY <1>1, SegmentsAssumption DEF Index
  <2>2. Extent(b) = s .. s + l - 1
    BY DEF Extent
  <2> HIDE DEF s, l
  <2>3. IsFiniteSet(s .. s + l - 1) /\ Cardinality(s .. s + l - 1) = l
    BY <2>1, IntervalCount
  <2>. QED
    BY <2>2, <2>3 DEF l
<1>5. Extent(b) \subseteq NotFree(alloc)
  BY <1>1, SegmentsAssumption DEF NotFree, Extent, Index, Free, Used, Subseq
<1>6. NotFree(alloc') = NotFree(alloc) \ Extent(b)
  BY <1>2 DEF NotFree, Index
<1>7. NotFree(alloc) \cap Extent(b) = Extent(b)
  BY <1>5
<1>8. Cardinality(NotFree(alloc')) = Cardinality(NotFree(alloc)) - b.len
  <2>1. Cardinality(NotFree(alloc) \ Extent(b))
          = Cardinality(NotFree(alloc)) - Cardinality(NotFree(alloc)
            \cap Extent(b))
    BY NotFreeFinite, FS_Difference
  <2>. QED
    BY <2>1, <1>4, <1>6, <1>7
<1>9. inUse - b.len \in 0 .. Segments
  BY <1>1, <1>8, NotFreeFinite, SegmentsAssumption DEF CountInv, InUseExact
<1>10. inUse' = inUse - b.len
  <2>1. inUse - 1 - (b.len - 1) = inUse - b.len
    BY <1>1, SegmentsAssumption, WordModAssumption DEF CountInv, TableInv,
       TypeOK
  <2>2. inUse' = (inUse - b.len) % WordMod
    BY <1>3, <2>1
  <2>3. inUse - b.len \in 0 .. WordMod - 1
    BY <1>9, SegmentsBelowWord, SegmentsAssumption, WordModAssumption
  <2>. QED
    BY <2>2, <2>3, WordModAssumption
<1>. QED
  BY <1>1, <1>8, <1>10, SegmentsAssumption, WordModAssumption
     DEF CountInv, InUseExact, WatermarkBounds, TableInv, TypeOK, MEM_PoolFree

LEMMA InitCountInv == Init => CountInv
<1>1. Init => NotFree(alloc) = {}
  BY DEF Init, NotFree, Index, Free
<1>. QED
  BY <1>1, InitTableInv, FS_EmptySet, SegmentsAssumption
     DEF Init, CountInv, InUseExact, WatermarkBounds

LEMMA NextCountInv == CountInv /\ [Next]_vars => CountInv'
<1>1. ASSUME CountInv, NEW ptr \in {NullPtr, Foreign}, MEM_PoolFree(ptr)
      PROVE  UNCHANGED <<alloc, inUse, watermark>>
  BY <1>1, SegmentsAssumption
     DEF MEM_PoolFree, FreeFound, FreeRejected, NullPtr, Foreign, Index
<1>2. ASSUME CountInv, UNCHANGED <<alloc, inUse, watermark>>
      PROVE  InUseExact' /\ WatermarkBounds'
  BY <1>2 DEF CountInv, InUseExact, WatermarkBounds, NotFree
<1>3. ASSUME CountInv, NEW bytes \in Requests, AllocFail(bytes)
      PROVE  UNCHANGED <<alloc, inUse, watermark>>
  BY <1>3 DEF AllocFail
<1>4. CountInv /\ [Next]_vars => InUseExact' /\ WatermarkBounds'
  BY <1>1, <1>2, <1>3, AllocOkCounts, FreeHeldCounts
     DEF Next, MEM_PoolAlloc, SYS_ClrError, vars
<1>. QED
  BY <1>4, NextTableInv DEF CountInv

(* The counters MEM_PoolAlloc and MEM_PoolFree update by hand agree with   *)
(* the table, and the watermark bounds them.                               *)
THEOREM CountersCorrect == Spec => [](InUseExact /\ WatermarkBounds)
<1>1. CountInv => InUseExact /\ WatermarkBounds
  BY DEF CountInv
<1>. QED
  BY <1>1, InitCountInv, NextCountInv, PTL DEF Spec
-----------------------------------------------------------------------------
(* The rounding of MEM_PoolAlloc: n segments cover the request and n - 1   *)
(* do not, unless the sum wraps, and then n is zero.                       *)
LEMMA DivisionFact ==
  ASSUME NEW m \in Nat, NEW d \in Nat \ {0}
  PROVE  /\ m \div d \in Nat
         /\ (m \div d) * d <= m
         /\ m < (m \div d) * d + d
OBVIOUS

LEMMA SegmentsForCovers ==
  ASSUME NEW bytes \in Requests, SegmentsFor(bytes) >= 1
  PROVE  /\ bytes <= SegmentsFor(bytes) * SegSize
         /\ (SegmentsFor(bytes) - 1) * SegSize < bytes
<1>. USE RequestsAssumption, SegSizeAssumption, WordModAssumption
<1> DEFINE m == bytes + SegSize - 1
           n == m \div SegSize
<1>1. m \in Nat /\ bytes \in Nat /\ bytes < WordMod
  OBVIOUS
<1>2. CASE m < WordMod
  <2>1. SegmentsFor(bytes) = n
    BY <1>1, <1>2 DEF SegmentsFor
  <2> HIDE DEF n
  <2>2. n \in Nat /\ n * SegSize <= m /\ m < n * SegSize + SegSize
    BY <1>1, DivisionFact DEF n
  <2>3. (n - 1) * SegSize = n * SegSize - SegSize
    BY <2>2
  <2>4. n * SegSize \in Nat
    BY <2>2
  <2>. QED
    BY <2>1, <2>2, <2>3, <2>4
<1>3. CASE m >= WordMod
  <2>1. m % WordMod = m - WordMod /\ m - WordMod \in 0 .. SegSize - 1
    <3>1. m - WordMod \in 0 .. WordMod - 1
      <4>1. SegSize <= WordMod
        <5>1. (Segments + 1) * SegSize >= SegSize
          BY SegmentsAssumption
        <5>. QED
          BY <5>1, PoolFitsAssumption, SegmentsAssumption
      <4>. QED
        BY <1>1, <1>3, <4>1
    <3>. QED
      BY <1>1, <1>3, <3>1
  <2>2. (m - WordMod) \div SegSize = 0
    BY <2>1
  <2>. QED
    BY <2>1, <2>2 DEF SegmentsFor
<1>. QED
  BY <1>1, <1>2, <1>3

(* A block that fits a request has as many segments as MEM_PoolAlloc looks *)
(* for: the rounding wraps only for requests larger than the whole pool.   *)
LEMMA FittingLength ==
  ASSUME NEW bytes \in Requests, bytes # 0,
         NEW k \in 1 .. Segments,
         bytes <= k * SegSize, (k - 1) * SegSize < bytes
  PROVE  SegmentsFor(bytes) = k
<1>. USE RequestsAssumption, SegSizeAssumption, WordModAssumption,
     SegmentsAssumption
<1> DEFINE m == bytes + SegSize - 1
           n == m \div SegSize
<1>1. m \in Nat /\ bytes \in Nat
  OBVIOUS
<1>2. k * SegSize <= Segments * SegSize
  OBVIOUS
<1>3. m < WordMod
  BY <1>1, <1>2, PoolFitsAssumption
<1>4. SegmentsFor(bytes) = n
  BY <1>1, <1>3 DEF SegmentsFor
<1> HIDE DEF n
<1>5. n \in Nat /\ n * SegSize <= m /\ m < n * SegSize + SegSize
  BY <1>1, DivisionFact DEF n
<1>6. k * SegSize <= m /\ m < k * SegSize + SegSize
  <2>1. (k - 1) * SegSize = k * SegSize - SegSize /\ k * SegSize \in Nat
    OBVIOUS
  <2>. QED
    BY <1>1, <2>1
<1>7. ~(n < k)
  <2>1. SUFFICES ASSUME n + 1 <= k PROVE FALSE
    BY <1>5
  <2>2. (n + 1) * SegSize <= k * SegSize
    BY <1>5, <2>1
  <2>3. (n + 1) * SegSize = n * SegSize + SegSize /\ n * SegSize \in Nat
    BY <1>5
  <2>. QED
    BY <1>1, <1>5, <1>6, <2>2, <2>3
<1>8. ~(k < n)
  <2>1. SUFFICES ASSUME k + 1 <= n PROVE FALSE
    BY <1>5
  <2>2. (k + 1) * SegSize <= n * SegSize
    BY <1>5, <2>1
  <2>3. (k + 1) * SegSize = k * SegSize + SegSize /\ k * SegSize \in Nat
    OBVIOUS
  <2>. QED
    BY <1>1, <1>5, <1>6, <2>2, <2>3
<1>. QED
  BY <1>4, <1>5, <1>7, <1>8

LEMMA GrantStep ==
  ASSUME TableInv, TableInv', NEW bytes \in Requests, AllocOk(bytes)
  PROVE  Abstract!Grant(bytes)
<1> DEFINE n == SegmentsFor(bytes)
           f == Found(n)
           new == [start |-> f, len |-> n]
<1>1. /\ n \in 1 .. Segments /\ f \in Index /\ f + n <= Segments
      /\ \A i \in f .. f + n - 1 : alloc[i] = Free
      /\ held' = held \cup {new}
  BY AllocTable
<1>2. bytes <= n * SegSize /\ (n - 1) * SegSize < bytes
  BY <1>1, SegmentsForCovers, SegmentsAssumption
<1>3. asked' = bytes /\ ret' = f
  BY DEF AllocOk
<1> HIDE DEF n, f
<1>4. new \in Abstract!AllBlocks
  BY <1>1, SegmentsAssumption DEF Abstract!AllBlocks, Index
<1>5. Abstract!Fits(new, bytes)
  <2>1. ASSUME NEW c \in held PROVE Abstract!Extent(new)
        \cap Abstract!Extent(c) = {}
    BY <1>1, HeldBlock, SegmentsAssumption
       DEF Abstract!Extent, Extent, Index, Free, Used, Subseq
  <2>. QED
    BY <1>2, <2>1 DEF Abstract!Fits, TableInv, TableIsHeld
<1>6. TableBlocks' = TableBlocks \cup {new}
  BY <1>1 DEF TableInv, TableIsHeld
<1>. QED
  BY <1>3, <1>4, <1>5, <1>6 DEF Abstract!Grant

LEMMA RefuseStep ==
  ASSUME TableInv, NEW bytes \in Requests, AllocFail(bytes)
  PROVE  Abstract!Refuse(bytes)
<1>1. ASSUME bytes # 0, NEW b \in Abstract!AllBlocks, Abstract!Fits(b, bytes)
      PROVE  FALSE
  <2>1. b.start \in Index /\ b.len \in 1 .. Segments
        /\ b.start + b.len <= Segments
    BY DEF Abstract!AllBlocks, Index
  <2>2. SegmentsFor(bytes) = b.len
    BY <1>1, <2>1, FittingLength DEF Abstract!Fits
  <2>3. \A i \in b.start .. b.start + b.len - 1 : i \in Index
        /\ alloc[i] = Free
    <3>1. SUFFICES ASSUME NEW i \in b.start .. b.start + b.len - 1,
          alloc[i] # Free
                   PROVE  FALSE
      BY <2>1, SegmentsAssumption DEF Index
    <3>2. i \in Index
      BY <2>1, SegmentsAssumption DEF Index
    <3>3. PICK c \in held : i \in Extent(c)
      BY <3>1, <3>2 DEF TableInv, NoLeak, NotFree
    <3>4. c \in TableBlocks
      BY DEF TableInv, TableIsHeld
    <3>5. i \in Abstract!Extent(b) /\ i \in Abstract!Extent(c)
      BY <3>3 DEF Abstract!Extent, Extent
    <3>. QED
      BY <1>1, <3>4, <3>5 DEF Abstract!Fits
  <2>4. b.start \in FreeRuns(0, b.len)
    BY <2>1, <2>3, SegmentsAssumption DEF FreeRuns, Index
  <2>. QED
    BY <1>1, <2>2, <2>4 DEF AllocFail
<1>2. TableBlocks' = TableBlocks
  BY DEF AllocFail, TableBlocks
<1>. QED
  BY <1>1, <1>2 DEF Abstract!Refuse, AllocFail, Abstract!NullPtr, NullPtr

LEMMA ReleaseStep ==
  ASSUME TableInv, TableInv', NEW b \in held, MEM_PoolFree(b.start)
  PROVE  Abstract!Release(b) /\ b \in TableBlocks
<1>1. TableBlocks' = TableBlocks \ {b} /\ b \in TableBlocks
  BY FreeTable DEF TableInv, TableIsHeld
<1>. QED
  BY <1>1 DEF Abstract!Release, MEM_PoolFree

(* MEM_Pool.c implements the abstract pool: what it grants is a free run   *)
(* that covers the request, and it refuses only when there is none.        *)
THEOREM PoolImplementsBlockPool == Spec => ImplementsBlockPool
<1>1. Init => Abstract!Init
  BY InitTableInv DEF Init, TableInv, TableIsHeld, Abstract!Init,
     Abstract!NullPtr, NullPtr
<1>2. TableInv /\ TableInv' /\ [Next]_vars => [Abstract!Next]_(Abstract!bvars)
  <2>1. SUFFICES ASSUME TableInv, TableInv', [Next]_vars
                 PROVE  Abstract!Next \/ UNCHANGED <<TableBlocks, asked, ret>>
    BY DEF Abstract!bvars
  <2>2. ASSUME NEW bytes \in Requests, MEM_PoolAlloc(bytes) PROVE Abstract!Next
    BY <2>1, <2>2, GrantStep, RefuseStep DEF MEM_PoolAlloc, Abstract!Next
  <2>3. ASSUME NEW b \in held, MEM_PoolFree(b.start) PROVE Abstract!Next
    BY <2>1, <2>3, ReleaseStep DEF Abstract!Next
  <2>4. ASSUME NEW ptr \in {NullPtr, Foreign}, MEM_PoolFree(ptr)
        PROVE  UNCHANGED <<TableBlocks, asked, ret>>
    BY <2>4, SegmentsAssumption
       DEF MEM_PoolFree, FreeFound, FreeRejected, NullPtr, Foreign, Index,
         TableBlocks
  <2>5. SYS_ClrError => UNCHANGED <<TableBlocks, asked, ret>>
    BY DEF SYS_ClrError, TableBlocks
  <2>6. UNCHANGED vars => UNCHANGED <<TableBlocks, asked, ret>>
    BY DEF vars, TableBlocks
  <2>. QED
    BY <2>1, <2>2, <2>3, <2>4, <2>5, <2>6 DEF Next
<1>. QED
  BY <1>1, <1>2, InitTableInv, NextTableInv, PTL
     DEF Spec, ImplementsBlockPool, Abstract!Spec
-----------------------------------------------------------------------------
(* MEM_PoolAlloc and MEM_PoolFree access by access, called by one task.    *)
Alone == \A t, u \in Callers : t = u

(* A run of n free segments that starts at s in the table a.               *)
FreeRunAt(a, s, n) ==
  /\ n >= 1 /\ s + n <= Segments
  /\ \A k \in s .. s + n - 1 : a[k] = Free
NoRun(a, from, to, n) == \A s \in from .. to - 1 : ~FreeRunAt(a, s, n)

(* The scans have looked at every start before i ...                       *)
Scanned(c, a, ahead) ==
  /\ c.i >= IF c.pass = 1 THEN ahead ELSE 0
  /\ c.pass \in {1, 2}
  /\ c.pass = 1 => NoRun(a, ahead, c.i, c.n)
  /\ c.pass = 2 => NoRun(a, ahead, Segments, c.n) /\ NoRun(a, 0, c.i, c.n)

(* ... and the inner loop at the segments from i to j.                     *)
Running(c, a) ==
  /\ c.i < c.j /\ (c.j <= c.i + c.n \/ c.j = c.i + 1)
  /\ \A k \in c.i .. c.j - 1 : a[k] = Free

(* The place found is the one MemPool says, and marked up to j.            *)
FirstRun(a, ahead, f, n) ==
  /\ FreeRunAt(a, f, n)
  /\ \/ f >= ahead /\ NoRun(a, ahead, f, n)
     \/ NoRun(a, ahead, Segments, n) /\ NoRun(a, 0, f, n)
Marked(a, f, j) ==
  [i \in Index |-> IF i = f /\ f < j THEN Used
                   ELSE IF i \in f + 1 .. j - 1 THEN Subseq ELSE a[i]]

(* The block is released up to j.                                          *)
Freed(a, f, j) == [i \in Index |-> IF i \in f .. j - 1 THEN Free ELSE a[i]]

CallType ==
  [at : {"idle", "look", "run", "mark", "free"}, n : Nat, i : 0 .. Segments,
   j : 0 .. Segments, f : Index, pass : 0 .. 2]
TableType ==
  [alloc : [Index -> {Free, Used, Subseq}], lookAheadIdx : Index,
   inUse : 0 .. WordMod - 1, asked : Requests \cup {0}]

(* A call of a task, with the table now and as it was when it began.       *)
Searching(c, now, was) ==
  /\ now.alloc = was.alloc /\ now.lookAheadIdx = was.lookAheadIdx
  /\ now.inUse = was.inUse
  /\ Scanned(c, was.alloc, was.lookAheadIdx)
Marking(c, now, was) ==
  /\ FirstRun(was.alloc, was.lookAheadIdx, c.f, c.n)
  /\ c.j \in c.f .. c.f + c.n
  /\ now.alloc = Marked(was.alloc, c.f, c.j)
  /\ now.lookAheadIdx = IF c.f + 1 >= Segments THEN 0 ELSE c.f + 1
  /\ now.inUse = (was.inUse + (c.j - c.f)) % WordMod
Freeing(c, now, was, own) ==
  /\ \E b \in own : b.start = c.f
  /\ c.j > c.f
  /\ now.alloc = Freed(was.alloc, c.f, c.j)
  /\ \A k \in c.f + 1 .. c.j - 1 : was.alloc[k] = Subseq
  /\ now.lookAheadIdx = was.lookAheadIdx /\ now.asked = was.asked
  /\ now.inUse = (was.inUse - (c.j - c.f)) % WordMod
Asking(c, now) == now.asked \in Requests \ {0} /\ c.n = SegmentsFor(now.asked)

CallInv(c, now, was, own) ==
  /\ c.at \in {"look", "run"} => Searching(c, now, was)
  /\ c.at = "run" => Running(c, was.alloc)
  /\ c.at = "mark" => Marking(c, now, was)
  /\ c.at \in {"look", "run", "mark"} => Asking(c, now)
  /\ c.at = "free" => Freeing(c, now, was, own)

LoopInv ==
  /\ TypeOK
  /\ call \in [Callers -> CallType]
  /\ seen \in TableType
  /\ \A t \in Callers : CallInv(call[t], Table, seen, held)
-----------------------------------------------------------------------------
(* Counting one up and one down in unsigned arithmetic.                    *)
LEMMA Remainder ==
  ASSUME NEW M \in Nat \ {0}, NEW x \in Int, NEW q \in Int,
         NEW r \in 0 .. M - 1, x = M * q + r
  PROVE  x % M = r
<1>1. PICK p \in Int, s \in 0 .. M - 1 : x = M * p + s /\ x % M = s
  <2>1. /\ x \div M \in Int /\ x % M \in 0 .. M - 1
        /\ x = M * (x \div M) + (x % M)
    OBVIOUS
  <2> QED
    BY <2>1
<1>2. M * p - M * q = r - s /\ M * p \in Int /\ M * q \in Int
  BY <1>1
<1>3. ~(p < q)
  <2>1. SUFFICES ASSUME p + 1 <= q PROVE FALSE
    OBVIOUS
  <2>2. M * (p + 1) <= M * q /\ M * (p + 1) = M * p + M
    BY <2>1
  <2> QED
    BY <1>2, <2>2
<1>4. ~(q < p)
  <2>1. SUFFICES ASSUME q + 1 <= p PROVE FALSE
    OBVIOUS
  <2>2. M * (q + 1) <= M * p /\ M * (q + 1) = M * q + M
    BY <2>1
  <2> QED
    BY <1>2, <2>2
<1> QED
  BY <1>1, <1>2, <1>3, <1>4

LEMMA CountUp ==
  ASSUME NEW x \in Int, NEW d \in Int
  PROVE  ((x % WordMod) + d) % WordMod = (x + d) % WordMod
<1> DEFINE M == WordMod
           q == x \div M
           r == x % M
           y == r + d
<1>1. M \in Nat \ {0}
  BY WordModAssumption
<1>2. q \in Int /\ r \in 0 .. M - 1 /\ x = M * q + r
  BY <1>1
<1> HIDE DEF M, q, r
<1>3. PICK p \in Int, s \in 0 .. M - 1 : y = M * p + s
  <2>1. /\ y \div M \in Int /\ y % M \in 0 .. M - 1
        /\ y = M * (y \div M) + (y % M)
    BY <1>1, <1>2
  <2> QED
    BY <2>1
<1>4. y % M = s
  <2>1. M \in Nat \ {0} /\ y \in Int /\ p \in Int /\ s \in 0 .. M - 1
    BY <1>1, <1>2, <1>3
  <2> HIDE DEF y
  <2> QED
    BY <1>3, <2>1, Remainder
<1>5. x + d = M * (q + p) + s /\ q + p \in Int
  <2>1. M * (q + p) = M * q + M * p /\ M * q \in Int /\ M * p \in Int
    BY <1>1, <1>2, <1>3
  <2> QED
    BY <1>1, <1>2, <1>3, <2>1
<1>6. (x + d) % M = s
  <2> DEFINE z == x + d
             t == q + p
  <2>1. M \in Nat \ {0} /\ z \in Int /\ t \in Int /\ s \in 0 .. M - 1
        /\ z = M * t + s
    BY <1>1, <1>5
  <2> HIDE DEF z, t
  <2>2. z % M = s
    BY <2>1, Remainder
  <2> QED
    BY <2>2 DEF z
<1> QED
  BY <1>4, <1>6 DEF M, r
-----------------------------------------------------------------------------
LEMMA CallIs ==
  ASSUME Alone, LoopInv, NEW t \in Callers
  PROVE  /\ call[t] \in CallType
         /\ CallInv(call[t], Table, seen, held)
         /\ Table \in TableType /\ seen \in TableType
         /\ TypeOK
         /\ Shown = IF call[t].at = "idle" THEN Table ELSE seen
<1>1. \A u \in Callers : u = t
  BY DEF Alone
<1>2. Table \in TableType
  BY DEF LoopInv, TypeOK, Table, TableType
<1> QED
  BY <1>1, <1>2 DEF LoopInv, Shown, At

LEMMA CallGoesOn ==
  ASSUME Alone, LoopInv, NEW t \in Callers, NEW c \in CallType, Go(t, c),
         TypeOK', seen' \in TableType, CallInv(c, Table', seen', held')
  PROVE  /\ LoopInv'
         /\ Shown' = IF c.at = "idle" THEN Table' ELSE seen'
<1>1. \A u \in Callers : u = t
  BY DEF Alone
<1>2. call' \in [Callers -> CallType] /\ call'[t] = c
  BY DEF LoopInv, Go
<1>3. \A u \in Callers : CallInv(call'[u], Table', seen', held')
  BY <1>1, <1>2
<1>4. LoopInv'
  BY <1>2, <1>3 DEF LoopInv
<1>5. Shown' = IF c.at = "idle" THEN Table' ELSE seen'
  BY <1>1, <1>2 DEF Shown, At
<1> QED
  BY <1>4, <1>5

(* The table entry by entry.                                               *)
LEMMA MarkedGrows ==
  ASSUME NEW a \in [Index -> {Free, Used, Subseq}], NEW f \in Index,
         NEW j \in Index, j >= f,
         NEW entry, entry = IF j = f THEN Used ELSE Subseq
  PROVE  /\ Marked(a, f, f) = a
         /\ [Marked(a, f, j) EXCEPT ![j] = entry] = Marked(a, f, j + 1)
<1>. USE SegmentsAssumption DEF Index
<1>1. \A i \in Index : Marked(a, f, f)[i] = a[i]
  BY DEF Marked
<1>2. Marked(a, f, f) = a
  BY <1>1 DEF Marked
<1>3. [Marked(a, f, j) EXCEPT ![j] = entry] = Marked(a, f, j + 1)
  <2> DEFINE new == [Marked(a, f, j) EXCEPT ![j] = entry]
             all == Marked(a, f, j + 1)
  <2>1. new = [i \in Index |-> new[i]] /\ all = [i \in Index |-> all[i]]
    BY DEF Marked
  <2>2. \A i \in Index : new[i] = all[i]
    BY DEF Marked
  <2> HIDE DEF new, all
  <2>3. new = all
    BY <2>1, <2>2
  <2> QED
    BY <2>3 DEF new, all
<1> QED
  BY <1>2, <1>3

LEMMA FreedGrows ==
  ASSUME NEW a \in [Index -> {Free, Used, Subseq}], NEW f \in Index,
         NEW j \in Index, j >= f
  PROVE  /\ [a EXCEPT ![f] = Free] = Freed(a, f, f + 1)
         /\ [Freed(a, f, j) EXCEPT ![j] = Free] = Freed(a, f, j + 1)
<1>. USE SegmentsAssumption DEF Index
<1>1. [a EXCEPT ![f] = Free] = Freed(a, f, f + 1)
  <2> DEFINE new == [a EXCEPT ![f] = Free]
             all == Freed(a, f, f + 1)
  <2>1. new = [i \in Index |-> new[i]] /\ all = [i \in Index |-> all[i]]
    BY DEF Freed
  <2>2. \A i \in Index : new[i] = all[i]
    BY DEF Freed
  <2> HIDE DEF new, all
  <2>3. new = all
    BY <2>1, <2>2
  <2> QED
    BY <2>3 DEF new, all
<1>2. [Freed(a, f, j) EXCEPT ![j] = Free] = Freed(a, f, j + 1)
  <2> DEFINE new == [Freed(a, f, j) EXCEPT ![j] = Free]
             all == Freed(a, f, j + 1)
  <2>1. new = [i \in Index |-> new[i]] /\ all = [i \in Index |-> all[i]]
    BY DEF Freed
  <2>2. \A i \in Index : new[i] = all[i]
    BY DEF Freed
  <2> HIDE DEF new, all
  <2>3. new = all
    BY <2>1, <2>2
  <2> QED
    BY <2>3 DEF new, all
<1> QED
  BY <1>1, <1>2

(* Within a call, and where one begins, nothing is shown.                  *)
LEMMA NothingShown ==
  ASSUME Shown' = Shown, UNCHANGED <<watermark, sysErr, held, ret>>
  PROVE  UNCHANGED Atomic!vars
BY DEF Atomic!vars

LEMMA WithinACall ==
  ASSUME Alone, LoopInv, NEW t \in Callers, NEW c \in CallType, Go(t, c),
         call[t].at # "idle", c.at # "idle",
         TypeOK', CallInv(c, Table', seen, held),
         UNCHANGED <<watermark, sysErr, held, ret, seen>>
  PROVE  LoopInv' /\ UNCHANGED Atomic!vars
<1>1. Shown = seen /\ seen \in TableType
  BY CallIs
<1>2. seen' \in TableType /\ CallInv(c, Table', seen', held')
  BY <1>1
<1>3. LoopInv' /\ Shown' = IF c.at = "idle" THEN Table' ELSE seen'
  BY <1>2, CallGoesOn
<1> QED
  BY <1>1, <1>3, NothingShown

(* The scans.                                                              *)
LEMMA LookStep ==
  ASSUME Alone, LoopInv, NEW t \in Callers, Look(t)
  PROVE  LoopInv' /\ UNCHANGED Atomic!vars
<1>1. PICK c : c = call[t]
  OBVIOUS
<1>2. /\ c \in CallType /\ c.at = "look" /\ c.i < Segments
      /\ CallInv(c, Table, seen, held) /\ TypeOK
      /\ Table.alloc = alloc /\ seen.alloc = alloc
  BY <1>1, CallIs DEF Look, At, Table, CallInv, Searching
<1>3. PICK d : Go(t, d) /\ d = IF alloc[c.i] = Free
                          THEN [c EXCEPT !.at = "run", !.j = c.i + 1]
                          ELSE [c EXCEPT !.i = c.i + 1]
  BY <1>1 DEF Look
<1>4. UNCHANGED <<vars, seen>> /\ Table' = Table
  BY DEF Look, vars, Table
<1>5. d \in CallType /\ d.at \in {"look", "run"}
  <2>1. c.i + 1 \in 0 .. Segments /\ c.i \in 0 .. Segments
    BY <1>2, SegmentsAssumption DEF CallType
  <2>2. [c EXCEPT !.i = c.i + 1] \in CallType
        /\ [c EXCEPT !.i = c.i + 1].at = "look"
    BY <1>2, <2>1 DEF CallType
  <2>3. [c EXCEPT !.at = "run", !.j = c.i + 1] \in CallType
        /\ [c EXCEPT !.at = "run", !.j = c.i + 1].at = "run"
    BY <1>2, <2>1 DEF CallType
  <2> QED
    BY <1>3, <2>2, <2>3
<1>6. CallInv(d, Table, seen, held)
  <2>1. Searching(c, Table, seen) /\ Asking(c, Table)
    BY <1>2 DEF CallInv
  <2>2. CASE alloc[c.i] = Free
    <3>1. d = [c EXCEPT !.at = "run", !.j = c.i + 1]
      BY <1>3, <2>2
    <3>2. d.at = "run" /\ d.i = c.i /\ d.j = c.i + 1 /\ d.n = c.n
          /\ d.pass = c.pass
      BY <3>1, <1>2 DEF CallType
    <3>3. Running(d, seen.alloc)
      BY <1>2, <2>2, <3>2 DEF Running, CallType
    <3> QED
      BY <2>1, <3>2, <3>3 DEF CallInv, Searching, Scanned, Asking
  <2>3. CASE alloc[c.i] # Free
    <3>1. d = [c EXCEPT !.i = c.i + 1]
      BY <1>3, <2>3
    <3>2. d.at = "look" /\ d.i = c.i + 1 /\ d.n = c.n /\ d.pass = c.pass
      BY <3>1, <1>2 DEF CallType
    <3>3. c.i \in Nat /\ c.n \in Nat
      BY <1>2 DEF CallType
    <3>4. ~FreeRunAt(seen.alloc, c.i, c.n)
      BY <1>2, <2>3, <3>3 DEF FreeRunAt
    <3>5. Scanned(d, seen.alloc, seen.lookAheadIdx)
      BY <2>1, <3>2, <3>3, <3>4, CallIs
         DEF Searching, Scanned, NoRun, TableType, Index
    <3> QED
      BY <2>1, <3>2, <3>5 DEF CallInv, Searching, Asking
  <2> QED
    BY <2>2, <2>3
<1>7. TypeOK'
  BY <1>2, <1>4 DEF vars, TypeOK
<1>8. CallInv(d, Table', seen, held)
  BY <1>4, <1>6
<1> QED
  BY <1>1, <1>2, <1>3, <1>4, <1>5, <1>7, <1>8, WithinACall DEF vars

LEMMA RunStep ==
  ASSUME Alone, LoopInv, NEW t \in Callers, Run(t)
  PROVE  LoopInv' /\ UNCHANGED Atomic!vars
<1>1. PICK c : c = call[t]
  OBVIOUS
<1>2. /\ c \in CallType /\ c.at = "run"
      /\ c.j < Segments /\ c.j < c.i + c.n
      /\ CallInv(c, Table, seen, held) /\ TypeOK
      /\ Table.alloc = alloc /\ seen.alloc = alloc
  BY <1>1, CallIs DEF Run, At, Table, CallInv, Searching
<1>3. PICK d : Go(t, d) /\ d = IF alloc[c.j] = Free
                          THEN [c EXCEPT !.j = c.j + 1]
                          ELSE [c EXCEPT !.at = "look", !.i = c.j + 1]
  BY <1>1 DEF Run
<1>4. UNCHANGED <<vars, seen>> /\ Table' = Table
  BY DEF Run, vars, Table
<1>5. Searching(c, Table, seen) /\ Asking(c, Table) /\ Running(c, seen.alloc)
  BY <1>2 DEF CallInv
<1>6. c.i \in Nat /\ c.j \in Nat /\ c.n \in Nat /\ c.j + 1 \in 0 .. Segments
  BY <1>2, SegmentsAssumption DEF CallType
<1>7. /\ d \in CallType /\ d.at \in {"look", "run"}
      /\ CallInv(d, Table, seen, held)
  <2>1. CASE alloc[c.j] = Free
    <3>1. d = [c EXCEPT !.j = c.j + 1]
      BY <1>3, <2>1
    <3>2. d \in CallType /\ d.at = "run" /\ d.i = c.i /\ d.j = c.j + 1
          /\ d.n = c.n /\ d.pass = c.pass
      BY <3>1, <1>2, <1>6 DEF CallType
    <3>3. Running(d, seen.alloc)
      BY <1>2, <1>5, <1>6, <2>1, <3>2 DEF Running
    <3> QED
      BY <1>5, <3>2, <3>3 DEF CallInv, Searching, Scanned, Asking
  <2>2. CASE alloc[c.j] # Free
    <3>1. d = [c EXCEPT !.at = "look", !.i = c.j + 1]
      BY <1>3, <2>2
    <3>2. d \in CallType /\ d.at = "look" /\ d.i = c.j + 1 /\ d.n = c.n
          /\ d.pass = c.pass
      BY <3>1, <1>2, <1>6 DEF CallType
    <3>3. \A k \in c.i .. c.j : ~FreeRunAt(seen.alloc, k, c.n)
      BY <1>2, <1>6, <2>2 DEF FreeRunAt
    <3>4. c.i < c.j
      BY <1>5 DEF Running
    <3>5. Scanned(d, seen.alloc, seen.lookAheadIdx)
      BY <1>5, <1>6, <3>2, <3>3, <3>4, CallIs
         DEF Searching, Scanned, NoRun, TableType, Index
    <3> QED
      BY <1>5, <3>2, <3>5 DEF CallInv, Searching, Asking
  <2> QED
    BY <2>1, <2>2
<1>8. TypeOK'
  BY <1>2, <1>4 DEF vars, TypeOK
<1>9. CallInv(d, Table', seen, held)
  BY <1>4, <1>7
<1> QED
  BY <1>1, <1>2, <1>3, <1>4, <1>7, <1>8, <1>9, WithinACall DEF vars

LEMMA RunEndsStep ==
  ASSUME Alone, LoopInv, NEW t \in Callers, RunEnds(t)
  PROVE  LoopInv' /\ UNCHANGED Atomic!vars
<1>1. PICK c : c = call[t]
  OBVIOUS
<1>2. /\ c \in CallType /\ c.at = "run"
      /\ c.j >= Segments \/ c.j >= c.i + c.n
      /\ CallInv(c, Table, seen, held) /\ TypeOK
      /\ Table.alloc = alloc /\ seen.alloc = alloc
      /\ Table.asked = asked
      /\ Table.lookAheadIdx = lookAheadIdx /\ Table.inUse = inUse
  BY <1>1, CallIs DEF RunEnds, At, Table, CallInv, Searching
<1>3. UNCHANGED <<alloc, inUse, watermark, sysErr, held, asked, ret, seen>>
  BY DEF RunEnds
<1>4. Searching(c, Table, seen) /\ Asking(c, Table) /\ Running(c, seen.alloc)
  BY <1>2 DEF CallInv
<1>5. c.i \in Nat /\ c.j \in 0 .. Segments /\ c.n \in Nat /\ c.i < c.j
      /\ (c.j <= c.i + c.n \/ c.j = c.i + 1)
  BY <1>2, <1>4, SegmentsAssumption DEF CallType, Running
<1>6. seen \in TableType
  BY CallIs
<1>7. CASE c.j - c.i = c.n
  <2>1. PICK d : Go(t, d) /\ d = [c EXCEPT !.at = "mark", !.f = c.i, !.j = c.i]
    BY <1>1, <1>7 DEF RunEnds
  <2>2. c.i \in Index /\ c.i \in 0 .. Segments
    BY <1>5, SegmentsAssumption DEF Index
  <2>3. d \in CallType /\ d.at = "mark" /\ d.f = c.i /\ d.j = c.i /\ d.n = c.n
    BY <1>2, <2>1, <2>2 DEF CallType
  <2>4. lookAheadIdx' = IF c.i + 1 >= Segments THEN 0 ELSE c.i + 1
    BY <1>1, <1>7 DEF RunEnds
  <2>5. /\ Table'.alloc = alloc /\ Table'.inUse = inUse
        /\ Table'.asked = asked /\ Table'.lookAheadIdx = lookAheadIdx'
    BY <1>3 DEF Table
  <2>6. TypeOK'
    BY <1>2, <1>3, <2>2, <2>4, SegmentsAssumption DEF TypeOK, Index
  <2>7. FreeRunAt(seen.alloc, c.i, c.n)
    BY <1>4, <1>5, <1>7, SegmentsAssumption DEF Running, FreeRunAt
  <2>8. FirstRun(seen.alloc, seen.lookAheadIdx, c.i, c.n)
    BY <1>4, <2>7 DEF Searching, Scanned, FirstRun
  <2>9. alloc = Marked(seen.alloc, d.f, d.j)
    <3>1. seen.alloc \in [Index -> {Free, Used, Subseq}]
      BY <1>6 DEF TableType
    <3>2. c.i >= c.i
      BY <1>5
    <3> QED
      BY <1>2, <2>2, <2>3, <3>1, <3>2, MarkedGrows
  <2>10. inUse = (seen.inUse + (d.j - d.f)) % WordMod
    <3>1. inUse \in 0 .. WordMod - 1 /\ inUse = seen.inUse /\ d.j - d.f = 0
      BY <1>2, <1>4, <1>5, <2>3 DEF TypeOK, Searching
    <3> QED
      BY <3>1, WordModAssumption
  <2>11. Marking(d, Table', seen)
    BY <1>5, <2>3, <2>4, <2>5, <2>8, <2>9, <2>10 DEF Marking
  <2>12. CallInv(d, Table', seen, held)
    BY <1>2, <1>4, <2>3, <2>5, <2>11 DEF CallInv, Asking
  <2> QED
    BY <1>1, <1>2, <1>3, <2>1, <2>3, <2>6, <2>12, WithinACall
<1>8. CASE c.j - c.i # c.n
  <2>1. PICK d : Go(t, d) /\ d = [c EXCEPT !.at = "look", !.i = c.i + 1]
    BY <1>1, <1>8 DEF RunEnds
  <2>2. c.i + 1 \in 0 .. Segments
    BY <1>5, SegmentsAssumption
  <2>3. d \in CallType /\ d.at = "look" /\ d.i = c.i + 1 /\ d.n = c.n
        /\ d.pass = c.pass
    BY <1>2, <2>1, <2>2 DEF CallType
  <2>4. lookAheadIdx' = lookAheadIdx /\ Table' = Table
    BY <1>1, <1>3, <1>8 DEF RunEnds, Table
  <2>5. TypeOK'
    BY <1>2, <1>3, <2>4 DEF TypeOK
  <2>6. ~FreeRunAt(seen.alloc, c.i, c.n)
    BY <1>2, <1>5, <1>8, SegmentsAssumption DEF FreeRunAt
  <2>7. Scanned(d, seen.alloc, seen.lookAheadIdx)
    BY <1>4, <1>5, <1>6, <2>3, <2>6
       DEF Searching, Scanned, NoRun, TableType, Index
  <2>8. CallInv(d, Table', seen, held)
    BY <1>4, <2>3, <2>4, <2>7 DEF CallInv, Searching, Asking
  <2> QED
    BY <1>1, <1>2, <1>3, <2>1, <2>3, <2>5, <2>8, WithinACall
<1> QED
  BY <1>7, <1>8

(* What the scans have found, or not found, in the words of MemPool.       *)
LEMMA FirstIs ==
  ASSUME NEW S \in SUBSET Nat, NEW f \in S, \A s \in S : f <= s
  PROVE  Atomic!First(S) = f
<1>1. \A i \in S : (\A s \in S : i <= s) => i = f
  OBVIOUS
<1> QED
  BY <1>1 DEF Atomic!First

LEMMA RunsAre ==
  ASSUME NEW from, NEW n
  PROVE  Atomic!FreeRuns(from, n)
           = {s \in from .. Segments - 1 : FreeRunAt(Shown.alloc, s, n)}
BY DEF Atomic!FreeRuns, Atomic!Free, Free, FreeRunAt

LEMMA FoundIs ==
  ASSUME NEW n \in Nat, NEW f \in Index, NEW ahead \in Index, NEW a,
         Shown.alloc = a, Shown.lookAheadIdx = ahead, FirstRun(a, ahead, f, n)
  PROVE  Atomic!FreeRuns(0, n) # {} /\ Atomic!Found(n) = f
<1> DEFINE later == Atomic!FreeRuns(ahead, n)
           all == Atomic!FreeRuns(0, n)
<1>1. /\ later = {s \in ahead .. Segments - 1 : FreeRunAt(a, s, n)}
      /\ all = {s \in 0 .. Segments - 1 : FreeRunAt(a, s, n)}
  BY RunsAre
<1>2. Atomic!Found(n) = IF later # {} THEN Atomic!First(later)
                                      ELSE Atomic!First(all)
  BY DEF Atomic!Found
<1> HIDE DEF later, all
<1>3. later \in SUBSET Nat /\ all \in SUBSET Nat /\ f \in all
  BY <1>1, SegmentsAssumption DEF FirstRun, Index
<1>4. CASE f >= ahead /\ NoRun(a, ahead, f, n)
  <2>1. f \in later /\ \A s \in later : f <= s
    BY <1>1, <1>3, <1>4, SegmentsAssumption DEF NoRun, Index
  <2>2. Atomic!First(later) = f
    BY <1>3, <2>1, FirstIs
  <2> QED
    BY <1>2, <1>3, <2>1, <2>2 DEF all
<1>5. CASE NoRun(a, ahead, Segments, n) /\ NoRun(a, 0, f, n)
  <2>1. later = {} /\ \A s \in all : f <= s
    BY <1>1, <1>3, <1>5, SegmentsAssumption DEF NoRun, Index
  <2>2. Atomic!First(all) = f
    BY <1>3, <2>1, FirstIs
  <2> QED
    BY <1>2, <1>3, <2>1, <2>2 DEF all
<1> QED
  BY <1>4, <1>5 DEF FirstRun

LEMMA NoneIs ==
  ASSUME NEW n, NEW a, Shown.alloc = a, NoRun(a, 0, Segments, n)
  PROVE  Atomic!FreeRuns(0, n) = {}
BY RunsAre, SegmentsAssumption DEF NoRun

(* The end of a call.                                                      *)
LEMMA CallEnds ==
  ASSUME Alone, LoopInv, NEW t \in Callers, Go(t, Idle), TypeOK',
         call[t].at # "idle", UNCHANGED seen
  PROVE  LoopInv' /\ Shown = seen /\ Shown' = Table'
<1>1. Idle \in CallType /\ Idle.at = "idle"
  BY SegmentsAssumption DEF Idle, CallType, Index
<1>2. Shown = seen /\ seen' \in TableType
  BY CallIs
<1>3. CallInv(Idle, Table', seen', held')
  BY <1>1 DEF CallInv
<1>4. LoopInv' /\ Shown' = IF Idle.at = "idle" THEN Table' ELSE seen'
  BY <1>1, <1>2, <1>3, CallGoesOn
<1> QED
  BY <1>1, <1>2, <1>4

LEMMA PassEndsStep ==
  ASSUME Alone, LoopInv, NEW t \in Callers, PassEnds(t)
  PROVE  LoopInv' /\ [Atomic!Next]_(Atomic!vars)
<1>1. PICK c : c = call[t]
  OBVIOUS
<1>2. /\ c \in CallType /\ c.at = "look" /\ c.i >= Segments
      /\ CallInv(c, Table, seen, held) /\ TypeOK
  BY <1>1, CallIs DEF PassEnds, At
<1>3. UNCHANGED <<alloc, lookAheadIdx, inUse, watermark, held, asked, seen>>
      /\ Table' = Table
  BY DEF PassEnds, Table
<1>4. Searching(c, Table, seen) /\ Asking(c, Table)
  BY <1>2 DEF CallInv
<1>5. c.i = Segments /\ seen \in TableType
  BY <1>2, CallIs, SegmentsAssumption DEF CallType
<1>6. CASE c.pass = 1
  <2>1. PICK d : Go(t, d) /\ d = [c EXCEPT !.pass = 2, !.i = 0]
    BY <1>1, <1>6 DEF PassEnds
  <2>2. UNCHANGED <<sysErr, ret>>
    BY <1>1, <1>6 DEF PassEnds
  <2>3. d \in CallType /\ d.at = "look" /\ d.i = 0 /\ d.n = c.n /\ d.pass = 2
    <3>1. 0 \in 0 .. Segments /\ 2 \in 0 .. 2
      BY SegmentsAssumption
    <3> QED
      BY <1>2, <2>1, <3>1 DEF CallType
  <2>4. Scanned(d, seen.alloc, seen.lookAheadIdx)
    BY <1>4, <1>5, <1>6, <2>3 DEF Searching, Scanned, NoRun
  <2>5. CallInv(d, Table', seen, held)
    BY <1>3, <1>4, <2>3, <2>4 DEF CallInv, Searching, Asking
  <2>6. TypeOK'
    BY <1>2, <1>3, <2>2 DEF TypeOK
  <2>7. LoopInv' /\ UNCHANGED Atomic!vars
    BY <1>1, <1>2, <1>3, <2>1, <2>2, <2>3, <2>5, <2>6, WithinACall
  <2> QED
    BY <2>7
<1>7. CASE c.pass = 2
  <2>1. Go(t, Idle) /\ sysErr' = sysErr \cup {"OUT_OF_MEM"} /\ ret' = NullPtr
    BY <1>1, <1>7 DEF PassEnds
  <2>2. TypeOK'
    BY <1>2, <1>3, <2>1 DEF TypeOK
  <2>3. LoopInv' /\ Shown = seen /\ Shown' = Table'
    BY <1>1, <1>2, <1>3, <2>1, <2>2, CallEnds
  <2>4. NoRun(seen.alloc, 0, Segments, c.n)
    BY <1>4, <1>5, <1>7 DEF Searching, Scanned
  <2>5. Atomic!FreeRuns(0, c.n) = {}
    BY <2>3, <2>4, NoneIs
  <2>6. asked \in Requests \ {0} /\ c.n = Atomic!SegmentsFor(asked)
    BY <1>4 DEF Asking, Table, SegmentsFor, Atomic!SegmentsFor
  <2>7. /\ Shown'.alloc = Shown.alloc /\ Shown'.inUse = Shown.inUse
        /\ Shown'.lookAheadIdx = Shown.lookAheadIdx /\ Shown'.asked = asked
    BY <1>3, <1>4, <2>3 DEF Searching, Table
  <2>8. Atomic!AllocFail(asked)
    BY <1>3, <2>1, <2>5, <2>6, <2>7 DEF Atomic!AllocFail, Atomic!NullPtr, NullPtr
  <2> QED
    BY <2>3, <2>6, <2>8 DEF Atomic!Next, Atomic!MEM_PoolAlloc
<1> QED
  BY <1>4, <1>6, <1>7 DEF Searching, Scanned

(* The entries are marked, and counted.                                    *)
LEMMA MarkNextStep ==
  ASSUME Alone, LoopInv, NEW t \in Callers, MarkNext(t)
  PROVE  LoopInv' /\ UNCHANGED Atomic!vars
<1>1. PICK c : c = call[t]
  OBVIOUS
<1>2. /\ c \in CallType /\ c.at = "mark" /\ c.j < c.f + c.n
      /\ CallInv(c, Table, seen, held) /\ TypeOK /\ seen \in TableType
      /\ Table.alloc = alloc /\ Table.inUse = inUse /\ Table.asked = asked
      /\ Table.lookAheadIdx = lookAheadIdx
  BY <1>1, CallIs DEF MarkNext, At, Table
<1>3. /\ UNCHANGED <<lookAheadIdx, watermark, sysErr, held, asked, ret, seen>>
      /\ alloc' = [alloc EXCEPT ![c.j] = IF c.j = c.f THEN Used ELSE Subseq]
      /\ inUse' = (inUse + 1) % WordMod
  BY <1>1 DEF MarkNext
<1>4. PICK d : Go(t, d) /\ d = [c EXCEPT !.j = c.j + 1]
  BY <1>1 DEF MarkNext
<1>5. Marking(c, Table, seen) /\ Asking(c, Table)
  BY <1>2 DEF CallInv
<1>6. c.f \in Index /\ c.n \in Nat /\ c.j \in Index /\ c.j >= c.f
      /\ c.f + c.n <= Segments
  BY <1>2, <1>5, SegmentsAssumption
     DEF CallType, Marking, FirstRun, FreeRunAt, Index
<1>7. d \in CallType /\ d.at = "mark" /\ d.f = c.f /\ d.j = c.j + 1 /\ d.n = c.n
  <2>1. c.j + 1 \in 0 .. Segments
    BY <1>6, SegmentsAssumption DEF Index
  <2> QED
    BY <1>2, <1>4, <2>1 DEF CallType
<1>8. alloc' = Marked(seen.alloc, d.f, d.j)
  <2>1. alloc = Marked(seen.alloc, c.f, c.j)
    BY <1>2, <1>5 DEF Marking
  <2>2. seen.alloc \in [Index -> {Free, Used, Subseq}]
    BY <1>2 DEF TableType
  <2>3. PICK a, f, j, entry :
          /\ a = seen.alloc /\ f = c.f /\ j = c.j
          /\ entry = IF j = f THEN Used ELSE Subseq
    OBVIOUS
  <2>4. alloc' = [Marked(a, f, j) EXCEPT ![j] = entry]
    BY <1>3, <2>1, <2>3
  <2>5. a \in [Index -> {Free, Used, Subseq}] /\ f \in Index /\ j \in Index
        /\ j >= f
    BY <1>6, <2>2, <2>3
  <2>6. alloc' = Marked(a, f, j + 1)
    BY <2>3, <2>4, <2>5, MarkedGrows
  <2> QED
    BY <1>7, <2>3, <2>6
<1>9. inUse' = (seen.inUse + (d.j - d.f)) % WordMod
  <2>1. PICK u, k : u = seen.inUse /\ k = c.j - c.f
    OBVIOUS
  <2>2. u \in Int /\ k \in Int /\ u + k \in Int
    BY <1>2, <1>6, <2>1, WordModAssumption DEF TableType, Index
  <2>3. inUse = (u + k) % WordMod
    BY <1>2, <1>5, <2>1 DEF Marking
  <2>4. inUse' = ((u + k) + 1) % WordMod
    BY <1>3, <2>2, <2>3, CountUp
  <2>5. (u + k) + 1 = seen.inUse + (d.j - d.f)
    BY <1>6, <1>7, <2>1, <2>2, SegmentsAssumption DEF Index
  <2> QED
    BY <2>4, <2>5
<1>10. TypeOK'
  <2>1. inUse' \in 0 .. WordMod - 1
    BY <1>2, <1>3, WordModAssumption DEF TypeOK
  <2>2. alloc' \in [Index -> {Free, Used, Subseq}]
    BY <1>2, <1>3, <1>6 DEF TypeOK
  <2> QED
    BY <1>2, <1>3, <2>1, <2>2 DEF TypeOK
<1>11. CallInv(d, Table', seen, held)
  <2>1. /\ Table'.alloc = alloc' /\ Table'.inUse = inUse'
        /\ Table'.asked = asked /\ Table'.lookAheadIdx = lookAheadIdx
    BY <1>3 DEF Table
  <2>2. d.j \in d.f .. d.f + d.n
    BY <1>2, <1>6, <1>7, SegmentsAssumption DEF Index
  <2>3. Marking(d, Table', seen)
    BY <1>2, <1>5, <1>7, <1>8, <1>9, <2>1, <2>2 DEF Marking
  <2> QED
    BY <1>2, <1>5, <1>7, <2>1, <2>3 DEF CallInv, Asking
<1> QED
  BY <1>1, <1>2, <1>3, <1>4, <1>7, <1>10, <1>11, WithinACall

(* The block is granted, as MemPool grants it.                             *)
LEMMA AllocReturnsStep ==
  ASSUME Alone, LoopInv, NEW t \in Callers, AllocReturns(t)
  PROVE  LoopInv' /\ Atomic!Next
<1>1. PICK c : c = call[t]
  OBVIOUS
<1>2. /\ c \in CallType /\ c.at = "mark" /\ c.j = c.f + c.n
      /\ CallInv(c, Table, seen, held) /\ TypeOK /\ seen \in TableType
      /\ Table.alloc = alloc /\ Table.inUse = inUse /\ Table.asked = asked
      /\ Table.lookAheadIdx = lookAheadIdx
  BY <1>1, CallIs DEF AllocReturns, At, Table
<1>3. /\ watermark' = IF watermark < inUse THEN inUse ELSE watermark
      /\ held' = held \cup {[start |-> c.f, len |-> c.n]}
      /\ ret' = c.f
      /\ Go(t, Idle)
      /\ UNCHANGED <<alloc, lookAheadIdx, inUse, sysErr, asked, seen>>
  BY <1>1 DEF AllocReturns
<1>4. Marking(c, Table, seen) /\ Asking(c, Table)
  BY <1>2 DEF CallInv
<1>5. c.f \in Index /\ c.n \in Nat /\ c.n \in 1 .. Segments
      /\ FirstRun(seen.alloc, seen.lookAheadIdx, c.f, c.n)
  BY <1>2, <1>4, SegmentsAssumption
     DEF CallType, Marking, FirstRun, FreeRunAt, Index
<1>6. TypeOK'
  <2>1. [start |-> c.f, len |-> c.n] \in Block
    BY <1>5 DEF Block
  <2>2. watermark' \in 0 .. WordMod - 1
    BY <1>2, <1>3 DEF TypeOK
  <2> QED
    BY <1>2, <1>3, <1>5, <2>1, <2>2 DEF TypeOK
<1>7. LoopInv' /\ Shown = seen /\ Shown' = Table'
  BY <1>1, <1>2, <1>3, <1>6, CallEnds
<1>8. Atomic!FreeRuns(0, c.n) # {} /\ Atomic!Found(c.n) = c.f
  BY <1>2, <1>5, <1>7, FoundIs DEF TableType
<1>9. asked \in Requests \ {0} /\ c.n = Atomic!SegmentsFor(asked)
  BY <1>2, <1>4 DEF Asking, SegmentsFor, Atomic!SegmentsFor
<1>10. /\ Shown'.alloc = alloc /\ Shown'.inUse = inUse
       /\ Shown'.asked = asked /\ Shown'.lookAheadIdx = lookAheadIdx
  BY <1>3, <1>7 DEF Table
<1>11. alloc = Atomic!Mark(c.f, c.n)
  BY <1>2, <1>4, <1>5, <1>7, SegmentsAssumption
     DEF Marking, Marked, Index, Used, Subseq, Atomic!Mark, Atomic!Index,
         Atomic!Used, Atomic!Subseq
<1>12. inUse = (Shown.inUse + c.n) % WordMod
  <2>1. c.j - c.f = c.n
    BY <1>2, <1>5, SegmentsAssumption DEF Index
  <2> QED
    BY <1>2, <1>4, <1>7, <2>1 DEF Marking
<1>13. lookAheadIdx = IF c.f + 1 >= Segments THEN 0 ELSE c.f + 1
  BY <1>2, <1>4 DEF Marking
<1>14. Atomic!AllocOk(asked)
  BY <1>3, <1>8, <1>9, <1>10, <1>11, <1>12, <1>13 DEF Atomic!AllocOk
<1> QED
  BY <1>7, <1>9, <1>14 DEF Atomic!Next, Atomic!MEM_PoolAlloc

(* A release begins, at a block of the table ...                           *)
LEMMA FreeCallStep ==
  ASSUME Alone, LoopInv, NEW t \in Callers, NEW b \in held, FreeCall(t, b)
  PROVE  LoopInv' /\ UNCHANGED Atomic!vars
<1>1. PICK f, was : f = b.start /\ was = Table
  OBVIOUS
<1>2. /\ call[t].at = "idle" /\ TypeOK /\ was \in TableType
      /\ was.alloc = alloc /\ was.inUse = inUse /\ was.asked = asked
      /\ was.lookAheadIdx = lookAheadIdx /\ Shown = was
  BY <1>1, CallIs DEF FreeCall, At, Table
<1>3. /\ alloc' = [alloc EXCEPT ![f] = Free]
      /\ inUse' = (inUse - 1) % WordMod
      /\ seen' = was
      /\ UNCHANGED <<lookAheadIdx, watermark, sysErr, held, asked, ret>>
  BY <1>1 DEF FreeCall
<1>4. PICK d : Go(t, d)
               /\ d = [Idle EXCEPT !.at = "free", !.f = f, !.j = f + 1]
  BY <1>1 DEF FreeCall
<1>5. f \in Index /\ f + 1 \in 0 .. Segments /\ f \in Nat
  BY <1>1, <1>2, SegmentsAssumption DEF TypeOK, Block, Index
<1>6. d \in CallType /\ d.at = "free" /\ d.f = f /\ d.j = f + 1
  <2>1. Idle \in CallType
    BY SegmentsAssumption DEF Idle, CallType, Index
  <2> QED
    BY <1>4, <1>5, <2>1 DEF CallType
<1>7. TypeOK'
  <2>1. inUse' \in 0 .. WordMod - 1
    BY <1>2, <1>3, WordModAssumption DEF TypeOK
  <2>2. alloc' \in [Index -> {Free, Used, Subseq}]
    BY <1>2, <1>3, <1>5 DEF TypeOK
  <2> QED
    BY <1>2, <1>3, <2>1, <2>2 DEF TypeOK
<1>8. CallInv(d, Table', was, held')
  <2>1. /\ Table'.alloc = alloc' /\ Table'.inUse = inUse'
        /\ Table'.asked = asked /\ Table'.lookAheadIdx = lookAheadIdx
    BY <1>3 DEF Table
  <2>2. alloc' = Freed(was.alloc, f, f + 1)
    <3>1. was.alloc \in [Index -> {Free, Used, Subseq}] /\ f >= f
      BY <1>2, <1>5 DEF TableType
    <3> QED
      BY <1>2, <1>3, <1>5, <3>1, FreedGrows
  <2>3. \E own \in held' : own.start = d.f
    BY <1>1, <1>3, <1>6
  <2>4. d.j - d.f = 1 /\ d.j > d.f /\ d.f + 1 .. d.j - 1 = {}
    BY <1>5, <1>6
  <2>5. Freeing(d, Table', was, held')
    BY <1>2, <1>3, <1>6, <2>1, <2>2, <2>3, <2>4 DEF Freeing
  <2> QED
    BY <1>6, <2>5 DEF CallInv
<1>9. seen' \in TableType /\ CallInv(d, Table', seen', held')
  BY <1>2, <1>3, <1>8
<1>10. LoopInv' /\ Shown' = IF d.at = "idle" THEN Table' ELSE seen'
  BY <1>4, <1>6, <1>7, <1>9, CallGoesOn
<1>11. Shown' = Shown
  BY <1>2, <1>3, <1>6, <1>10
<1> QED
  BY <1>3, <1>10, <1>11, NothingShown

(* ... takes the SUBSEQ entries behind it ...                              *)
LEMMA FreeNextStep ==
  ASSUME Alone, LoopInv, NEW t \in Callers, FreeNext(t)
  PROVE  LoopInv' /\ UNCHANGED Atomic!vars
<1>1. PICK c : c = call[t]
  OBVIOUS
<1>2. /\ c \in CallType /\ c.at = "free" /\ c.j < Segments
      /\ alloc[c.j] = Subseq
      /\ CallInv(c, Table, seen, held) /\ TypeOK /\ seen \in TableType
      /\ Table.alloc = alloc /\ Table.inUse = inUse /\ Table.asked = asked
      /\ Table.lookAheadIdx = lookAheadIdx
  BY <1>1, CallIs DEF FreeNext, At, Table
<1>3. /\ UNCHANGED <<lookAheadIdx, watermark, sysErr, held, asked, ret, seen>>
      /\ alloc' = [alloc EXCEPT ![c.j] = Free]
      /\ inUse' = (inUse - 1) % WordMod
  BY <1>1 DEF FreeNext
<1>4. PICK d : Go(t, d) /\ d = [c EXCEPT !.j = c.j + 1]
  BY <1>1 DEF FreeNext
<1>5. Freeing(c, Table, seen, held)
  BY <1>2 DEF CallInv
<1>6. c.f \in Index /\ c.j \in Index /\ c.j > c.f
  BY <1>2, <1>5, SegmentsAssumption DEF CallType, Freeing, Index
<1>7. d \in CallType /\ d.at = "free" /\ d.f = c.f /\ d.j = c.j + 1
  <2>1. c.j + 1 \in 0 .. Segments
    BY <1>6, SegmentsAssumption DEF Index
  <2> QED
    BY <1>2, <1>4, <2>1 DEF CallType
<1>8. alloc' = Freed(seen.alloc, d.f, d.j)
  <2>1. PICK a, f, j : a = seen.alloc /\ f = c.f /\ j = c.j
    OBVIOUS
  <2>2. alloc' = [Freed(a, f, j) EXCEPT ![j] = Free]
    BY <1>2, <1>3, <1>5, <2>1 DEF Freeing
  <2>3. a \in [Index -> {Free, Used, Subseq}] /\ f \in Index /\ j \in Index
        /\ j >= f
    BY <1>2, <1>6, <2>1, SegmentsAssumption DEF TableType, Index
  <2>4. alloc' = Freed(a, f, j + 1)
    BY <2>2, <2>3, FreedGrows
  <2> QED
    BY <1>7, <2>1, <2>4
<1>9. seen.alloc[c.j] = Subseq
  BY <1>2, <1>5, <1>6, SegmentsAssumption DEF Freeing, Freed, Index
<1>10. inUse' = (seen.inUse - (d.j - d.f)) % WordMod
  <2>1. PICK u, k : u = seen.inUse /\ k = c.j - c.f
    OBVIOUS
  <2>2. u \in Int /\ k \in Int /\ u - k \in Int
    BY <1>2, <1>6, <2>1, SegmentsAssumption, WordModAssumption
       DEF TableType, Index
  <2>3. inUse = (u - k) % WordMod /\ inUse \in Int
    BY <1>2, <1>5, <2>1 DEF Freeing, TypeOK
  <2>4. inUse' = (inUse + (-1)) % WordMod
    BY <1>3, <2>3
  <2>5. inUse' = ((u - k) + (-1)) % WordMod
    BY <2>2, <2>3, <2>4, CountUp
  <2>6. (u - k) + (-1) = seen.inUse - (d.j - d.f)
    BY <1>6, <1>7, <2>1, <2>2, SegmentsAssumption DEF Index
  <2> QED
    BY <2>5, <2>6
<1>11. TypeOK'
  <2>1. inUse' \in 0 .. WordMod - 1
    BY <1>2, <1>3, WordModAssumption DEF TypeOK
  <2>2. alloc' \in [Index -> {Free, Used, Subseq}]
    BY <1>2, <1>3, <1>6 DEF TypeOK
  <2> QED
    BY <1>2, <1>3, <2>1, <2>2 DEF TypeOK
<1>12. CallInv(d, Table', seen, held)
  <2>1. /\ Table'.alloc = alloc' /\ Table'.inUse = inUse'
        /\ Table'.asked = asked /\ Table'.lookAheadIdx = lookAheadIdx
    BY <1>3 DEF Table
  <2>2. d.j > d.f /\ \A k \in d.f + 1 .. d.j - 1 : seen.alloc[k] = Subseq
    BY <1>5, <1>6, <1>7, <1>9, SegmentsAssumption DEF Freeing, Index
  <2>3. Freeing(d, Table', seen, held)
    BY <1>2, <1>5, <1>7, <1>8, <1>10, <2>1, <2>2 DEF Freeing
  <2> QED
    BY <1>7, <2>3 DEF CallInv
<1> QED
  BY <1>1, <1>2, <1>3, <1>4, <1>7, <1>11, <1>12, WithinACall

(* The counting of the instance is the same.                               *)
LEMMA SameCount ==
  ASSUME NEW S
  PROVE  Atomic!Cardinality(S) = Cardinality(S)
BY DEF Atomic!Cardinality, Cardinality

(* ... and ends behind the block, as MemPool does.                         *)
LEMMA FreeReturnsStep ==
  ASSUME Alone, LoopInv, NEW t \in Callers, FreeReturns(t)
  PROVE  LoopInv' /\ Atomic!Next
<1>1. PICK c : c = call[t]
  OBVIOUS
<1>2. /\ c \in CallType /\ c.at = "free"
      /\ c.j < Segments => alloc[c.j] # Subseq
      /\ CallInv(c, Table, seen, held) /\ TypeOK /\ seen \in TableType
      /\ Table.alloc = alloc /\ Table.inUse = inUse /\ Table.asked = asked
      /\ Table.lookAheadIdx = lookAheadIdx
  BY <1>1, CallIs DEF FreeReturns, At, Table
<1>3. /\ held' = {b \in held : b.start # c.f}
      /\ Go(t, Idle)
      /\ UNCHANGED <<alloc, lookAheadIdx, inUse, watermark, sysErr, asked, ret,
                     seen>>
  BY <1>1 DEF FreeReturns
<1>4. Freeing(c, Table, seen, held)
  BY <1>2 DEF CallInv
<1>5. c.f \in Index /\ c.j \in 0 .. Segments /\ c.j > c.f
  BY <1>2, <1>4 DEF CallType, Freeing
<1>6. TypeOK'
  BY <1>2, <1>3 DEF TypeOK
<1>7. LoopInv' /\ Shown = seen /\ Shown' = Table'
  BY <1>1, <1>2, <1>3, <1>6, CallEnds
<1>8. /\ Shown'.alloc = alloc /\ Shown'.inUse = inUse
      /\ Shown'.asked = Shown.asked
      /\ Shown'.lookAheadIdx = Shown.lookAheadIdx
  BY <1>2, <1>3, <1>4, <1>7 DEF Table, Freeing
<1>9. Atomic!Followers(c.f) = c.f + 1 .. c.j - 1
  <2>1. \A k \in c.f + 1 .. c.j - 1 : seen.alloc[k] = Subseq
    BY <1>4 DEF Freeing
  <2>2. c.j < Segments => seen.alloc[c.j] # Subseq
    BY <1>2, <1>4, <1>5, SegmentsAssumption DEF Freeing, Freed, Index
  <2>3. ASSUME NEW q \in c.f + 1 .. Segments - 1,
               \A k \in c.f + 1 .. q : seen.alloc[k] = Subseq
        PROVE  q <= c.j - 1
    BY <1>5, <2>2, <2>3, SegmentsAssumption DEF Index
  <2>4. Atomic!Followers(c.f)
          = {q \in c.f + 1 .. Segments - 1 :
               \A k \in c.f + 1 .. q : seen.alloc[k] = Subseq}
    BY <1>7 DEF Atomic!Followers, Atomic!Subseq, Subseq
  <2>5. ASSUME NEW q \in c.f + 1 .. c.j - 1
        PROVE  /\ q \in c.f + 1 .. Segments - 1
               /\ \A k \in c.f + 1 .. q : seen.alloc[k] = Subseq
    BY <1>5, <2>1, SegmentsAssumption DEF Index
  <2> QED
    BY <1>5, <2>3, <2>4, <2>5, SegmentsAssumption DEF Index
<1>10. Cardinality(Atomic!Followers(c.f)) = c.j - c.f - 1
  <2>1. PICK lo, k : lo = c.f + 1 /\ k = c.j - c.f - 1
    OBVIOUS
  <2>2. lo \in Int /\ k \in Nat /\ lo + k - 1 = c.j - 1
    BY <1>5, <2>1, SegmentsAssumption DEF Index
  <2>3. Cardinality(lo .. lo + k - 1) = k
    BY <2>2, IntervalCount
  <2> QED
    BY <1>9, <2>1, <2>2, <2>3
<1>11. inUse = (Shown.inUse - 1 - Atomic!Cardinality(Atomic!Followers(c.f)))
                 % WordMod
  <2>1. seen.inUse \in Int
    BY <1>2, WordModAssumption DEF TableType
  <2>2. seen.inUse - 1 - (c.j - c.f - 1) = seen.inUse - (c.j - c.f)
    BY <1>5, <2>1, SegmentsAssumption DEF Index
  <2> QED
    BY <1>2, <1>4, <1>7, <1>10, <2>2, SameCount DEF Freeing
<1>12. alloc = [i \in Index |-> IF i \in {c.f} \cup Atomic!Followers(c.f)
                               THEN Free ELSE seen.alloc[i]]
  <2>1. {c.f} \cup Atomic!Followers(c.f) = c.f .. c.j - 1
    BY <1>5, <1>9, SegmentsAssumption DEF Index
  <2> QED
    BY <1>2, <1>4, <2>1 DEF Freeing, Freed
<1>13. Atomic!FreeFound(c.f)
  BY <1>3, <1>5, <1>7, <1>8, <1>11, <1>12
     DEF Atomic!FreeFound, Atomic!Index, Index, Atomic!Free, Free
<1>14. Atomic!MEM_PoolFree(c.f)
  BY <1>3, <1>8, <1>13 DEF Atomic!MEM_PoolFree
<1>15. PICK b \in held : b.start = c.f
  BY <1>4 DEF Freeing
<1> QED
  BY <1>7, <1>14, <1>15 DEF Atomic!Next

(* An allocation begins; for no bytes at all it is over at once.           *)
LEMMA AllocCallStep ==
  ASSUME Alone, LoopInv, NEW t \in Callers, NEW bytes \in Requests,
         AllocCall(t, bytes)
  PROVE  LoopInv' /\ [Atomic!Next]_(Atomic!vars)
<1>1. PICK was : was = Table
  OBVIOUS
<1>2. /\ call[t].at = "idle" /\ TypeOK /\ was \in TableType
      /\ was.alloc = alloc /\ was.inUse = inUse /\ was.asked = asked
      /\ was.lookAheadIdx = lookAheadIdx /\ Shown = was
  BY <1>1, CallIs DEF AllocCall, At, Table
<1>3. /\ asked' = bytes /\ seen' = was
      /\ UNCHANGED <<alloc, lookAheadIdx, inUse, watermark, sysErr, held>>
  BY <1>1 DEF AllocCall
<1>4. /\ Table'.alloc = alloc /\ Table'.inUse = inUse
      /\ Table'.asked = bytes /\ Table'.lookAheadIdx = lookAheadIdx
  BY <1>3 DEF Table
<1>5. CASE bytes = 0
  <2>1. ret' = NullPtr /\ UNCHANGED call
    BY <1>5 DEF AllocCall
  <2>2. TypeOK'
    BY <1>2, <1>3, <2>1 DEF TypeOK
  <2>3. call[t] \in CallType /\ Go(t, call[t])
    BY <2>1, CallIs DEF Go, LoopInv
  <2>4. seen' \in TableType /\ CallInv(call[t], Table', seen', held')
    BY <1>2, <1>3 DEF CallInv
  <2>5. LoopInv' /\ Shown' = IF call[t].at = "idle" THEN Table' ELSE seen'
    BY <2>2, <2>3, <2>4, CallGoesOn
  <2>6. Atomic!AllocFail(bytes)
    BY <1>2, <1>3, <1>4, <1>5, <2>1, <2>5
       DEF Atomic!AllocFail, Atomic!NullPtr, NullPtr
  <2> QED
    BY <2>5, <2>6 DEF Atomic!Next, Atomic!MEM_PoolAlloc
<1>6. CASE bytes # 0
  <2>1. PICK d : /\ Go(t, d) /\ UNCHANGED ret
                 /\ d = [Idle EXCEPT !.at = "look", !.pass = 1,
                                     !.i = lookAheadIdx,
                                     !.n = SegmentsFor(bytes)]
    BY <1>6 DEF AllocCall
  <2>2. d \in CallType /\ d.at = "look" /\ d.i = lookAheadIdx
        /\ d.n = SegmentsFor(bytes) /\ d.pass = 1
    <3>1. Idle \in CallType /\ 1 \in 0 .. 2
      BY SegmentsAssumption DEF Idle, CallType, Index
    <3>2. lookAheadIdx \in 0 .. Segments /\ SegmentsFor(bytes) \in Nat
      BY <1>2, SegmentsForType, SegmentsAssumption DEF TypeOK, Index
    <3> QED
      BY <2>1, <3>1, <3>2 DEF CallType
  <2>3. TypeOK'
    BY <1>2, <1>3, <2>1 DEF TypeOK
  <2>4. Scanned(d, was.alloc, was.lookAheadIdx)
    BY <1>2, <2>2, SegmentsAssumption DEF Scanned, NoRun, TypeOK, Index
  <2>5. CallInv(d, Table', seen', held')
    BY <1>2, <1>3, <1>4, <1>6, <2>2, <2>4 DEF CallInv, Searching, Asking
  <2>6. LoopInv' /\ Shown' = IF d.at = "idle" THEN Table' ELSE seen'
    BY <1>2, <1>3, <2>1, <2>2, <2>3, <2>5, CallGoesOn
  <2>7. Shown' = Shown
    BY <1>2, <1>3, <2>2, <2>6
  <2> QED
    BY <1>3, <2>1, <2>6, <2>7, NothingShown
<1> QED
  BY <1>5, <1>6

LEMMA InitLoopInv == RaceInit => LoopInv /\ Atomic!Init
<1> SUFFICES ASSUME RaceInit PROVE LoopInv /\ Atomic!Init
  OBVIOUS
<1>1. TypeOK
  BY InitTableInv DEF RaceInit, TableInv
<1>2. Idle \in CallType /\ Idle.at = "idle"
  BY SegmentsAssumption DEF Idle, CallType, Index
<1>3. seen = Table /\ seen \in TableType
  BY <1>1 DEF RaceInit, Table, TableType, TypeOK
<1>4. call = [t \in Callers |-> Idle]
  BY DEF RaceInit
<1>5. LoopInv
  BY <1>1, <1>2, <1>3, <1>4 DEF LoopInv, CallInv
<1>6. Shown = Table
  BY <1>3 DEF Shown
<1>7. Atomic!Init
  BY <1>6 DEF RaceInit, Init, Table, Atomic!Init, Atomic!Index, Atomic!Free,
              Atomic!NullPtr, Index, Free, NullPtr
<1> QED
  BY <1>5, <1>7

LEMMA LoopStep ==
  ASSUME Alone, LoopInv, [RaceNext]_raceVars
  PROVE  LoopInv' /\ [Atomic!Next]_(Atomic!vars)
<1>1. ASSUME NEW t \in Callers, RaceStep(t)
      PROVE  LoopInv' /\ [Atomic!Next]_(Atomic!vars)
  BY <1>1, AllocCallStep, LookStep, RunStep, RunEndsStep, PassEndsStep,
     MarkNextStep, AllocReturnsStep, FreeCallStep, FreeNextStep,
     FreeReturnsStep DEF RaceStep
<1>2. CASE UNCHANGED raceVars
  <2>1. UNCHANGED vars /\ UNCHANGED <<call, seen>> /\ UNCHANGED Table
    BY <1>2 DEF raceVars, vars, Table
  <2>2. LoopInv'
    BY <2>1 DEF LoopInv, TypeOK, vars
  <2>3. Shown' = Shown
    BY <2>1 DEF Shown, At
  <2> QED
    BY <2>1, <2>2, <2>3, NothingShown DEF vars
<1> QED
  BY <1>1, <1>2 DEF RaceNext

(* Called by one task at a time, the loops of MEM_PoolAlloc and            *)
(* MEM_PoolFree do what MemPool says in one step: no run that is long      *)
(* enough is missed, and the first one from lookAheadIdx on is taken.      *)
THEOREM LoopsAreMemPool ==
  ASSUME Alone PROVE RaceSpec => LoopsImplementMemPool
<1>1. RaceInit => LoopInv /\ Atomic!Init
  BY InitLoopInv
<1>2. LoopInv /\ [RaceNext]_raceVars =>
        LoopInv' /\ [Atomic!Next]_(Atomic!vars)
  BY LoopStep
<1> QED
  BY <1>1, <1>2, PTL DEF RaceSpec, LoopsImplementMemPool, Atomic!Spec
=============================================================================
