------------------------- MODULE PoolClientsProofs -------------------------
(***************************************************************************)
(* Theorems about PoolClients, for any number of tasks, any commands in    *)
(* their lines and any size of the pool.                                   *)
(*                                                                         *)
(* That every block is where a handler finds it needs to know of the stack *)
(* that only a line, usr or sdexec has a handler above it, so that the     *)
(* pointers of qspi in its two globals are those of one handler at most.   *)
(***************************************************************************)
EXTENDS PoolClients, MemPoolProofs, SequenceTheorems

(* The handlers ask for a segment, and one task at most runs qspi, whose   *)
(* pointers are globals.                                                   *)
ClientsAsModelled ==
  /\ SegSize \in Requests
  /\ \A t, u \in Tasks : "qspi" \in Lines[t] /\ "qspi" \in Lines[u] => t = u

Frame == [cmd : Commands \cup {"line"}, phase : {"alloc", "run", "free"},
          blocks : Seq(Int), items : Int, freed : Nat]

StackTyped == stack \in [Tasks -> Seq(Frame)]

(* What qspi has not given back is in its globals.                         *)
QspiFrame(t, h, buf) ==
  /\ "qspi" \in Lines[t]
  /\ h.phase # "free" => h.freed = 0
  /\ h.freed + Len(h.blocks) <= 2
  /\ \A k \in 1 .. Len(h.blocks) : buf[h.freed + k] = h.blocks[k]

QspiInv ==
  /\ qspiBuf \in [1 .. 2 -> Int]
  /\ \A t \in Tasks : \A d \in 1 .. Len(stack[t]) :
       /\ d < Len(stack[t]) => stack[t][d].cmd \in {"line", "usr", "sdexec"}
       /\ stack[t][d].cmd = "qspi" => QspiFrame(t, stack[t][d], qspiBuf)

(* The places of BlocksAccounted, one by one.                              *)
Slot(t, d, k) ==
  /\ t \in Tasks
  /\ d \in 1 .. Len(stack[t])
  /\ k \in 1 .. Len(stack[t][d].blocks)

PtrAt(t, d, k) == stack[t][d].blocks[k]

BlocksFound ==
  \A b \in held : \E t, d, k : Slot(t, d, k) /\ PtrAt(t, d, k) = b.start

PointersHeld ==
  \A t, d, k : Slot(t, d, k) => \E b \in held : b.start = PtrAt(t, d, k)

PointersApart ==
  \A t, d, k, u, e, j :
    Slot(t, d, k) /\ Slot(u, e, j) /\ PtrAt(t, d, k) = PtrAt(u, e, j)
      => t = u /\ d = e /\ k = j

Accounted == BlocksFound /\ PointersHeld /\ PointersApart

ClientInv == TableInv /\ StackTyped /\ QspiInv /\ Accounted
-----------------------------------------------------------------------------
(* The innermost handler of a busy task.                                   *)
LEMMA TopTyped ==
  ASSUME StackTyped, NEW t \in Tasks, Busy(t)
  PROVE  /\ Len(stack[t]) \in Nat \ {0}
         /\ Top(t) \in Frame
         /\ Top(t) = stack[t][Len(stack[t])]
<1>1. stack[t] \in Seq(Frame) /\ stack[t] # <<>>
  BY DEF StackTyped, Busy
<1>2. Len(stack[t]) \in Nat \ {0}
  BY <1>1, EmptySeq
<1>3. Top(t) = stack[t][Len(stack[t])]
  BY DEF Top
<1>. QED
  BY <1>1, <1>2, <1>3, ElementOfSeq

(* What Replace does to the stacks.                                        *)
LEMMA Replaced ==
  ASSUME StackTyped, NEW t \in Tasks, Busy(t), NEW h \in Frame, Replace(t, h)
  PROVE  /\ StackTyped'
         /\ \A u \in Tasks : Len(stack'[u]) = Len(stack[u])
         /\ \A u \in Tasks : \A d \in 1 .. Len(stack[u]) :
              stack'[u][d] = IF u = t /\ d = Len(stack[t]) THEN h
                             ELSE stack[u][d]
<1> DEFINE new == [stack[t] EXCEPT ![Len(stack[t])] = h]
<1>1. stack[t] \in Seq(Frame) /\ Len(stack[t]) \in 1 .. Len(stack[t])
  BY TopTyped DEF StackTyped
<1>2. /\ new \in Seq(Frame)
      /\ Len(new) = Len(stack[t])
      /\ \A d \in 1 .. Len(stack[t]) :
           new[d] = IF d = Len(stack[t]) THEN h ELSE stack[t][d]
  BY <1>1, ExceptSeq
<1>3. stack' = [stack EXCEPT ![t] = new]
  BY DEF Replace
<1> HIDE DEF new
<1>4. \A u \in Tasks : stack'[u] = IF u = t THEN new ELSE stack[u]
  BY <1>3 DEF StackTyped
<1>5. StackTyped'
  BY <1>2, <1>3 DEF StackTyped
<1>. QED
  BY <1>2, <1>4, <1>5

(* What Nest does: the frame below, and a new one above it.                *)
PushOver(t, h, g) ==
  stack' = [stack EXCEPT ![t] = Append([@ EXCEPT ![Len(@)] = h], g)]

(* What that does to the stacks.                                           *)
LEMMA Nested ==
  ASSUME StackTyped, NEW t \in Tasks, Busy(t),
         NEW h \in Frame, NEW g \in Frame,
         PushOver(t, h, g)
  PROVE  /\ StackTyped'
         /\ \A u \in Tasks : Len(stack'[u]) =
              IF u = t THEN Len(stack[t]) + 1 ELSE Len(stack[u])
         /\ stack'[t][Len(stack[t]) + 1] = g
         /\ \A u \in Tasks : \A d \in 1 .. Len(stack[u]) :
              stack'[u][d] = IF u = t /\ d = Len(stack[t]) THEN h
                             ELSE stack[u][d]
<1> DEFINE new == [stack[t] EXCEPT ![Len(stack[t])] = h]
<1>1. stack[t] \in Seq(Frame) /\ Len(stack[t]) \in 1 .. Len(stack[t])
  BY TopTyped DEF StackTyped
<1>2. /\ new \in Seq(Frame)
      /\ Len(new) = Len(stack[t])
      /\ \A d \in 1 .. Len(stack[t]) :
           new[d] = IF d = Len(stack[t]) THEN h ELSE stack[t][d]
  BY <1>1, ExceptSeq
<1>3. stack' = [stack EXCEPT ![t] = Append(new, g)]
  BY DEF PushOver
<1> HIDE DEF new
<1>4. /\ Append(new, g) \in Seq(Frame)
      /\ Len(Append(new, g)) = Len(stack[t]) + 1
      /\ Append(new, g)[Len(stack[t]) + 1] = g
      /\ \A d \in 1 .. Len(stack[t]) : Append(new, g)[d] = new[d]
  BY <1>2, AppendProperties
<1>5. \A u \in Tasks : stack'[u] = IF u = t THEN Append(new, g) ELSE stack[u]
  BY <1>3 DEF StackTyped
<1>6. StackTyped'
  BY <1>3, <1>4 DEF StackTyped
<1>7. ASSUME NEW u \in Tasks, NEW d \in 1 .. Len(stack[u])
      PROVE  stack'[u][d] = IF u = t /\ d = Len(stack[t]) THEN h
                            ELSE stack[u][d]
  <2>1. CASE u = t
    BY <1>2, <1>4, <1>5, <2>1
  <2>2. CASE u # t
    BY <1>5, <2>2
  <2>. QED
    BY <2>1, <2>2
<1>8. stack'[t][Len(stack[t]) + 1] = g
  BY <1>4, <1>5
<1>9. ASSUME NEW u \in Tasks
      PROVE  Len(stack'[u]) = IF u = t THEN Len(stack[t]) + 1
                              ELSE Len(stack[u])
  <2>1. CASE u = t
    BY <1>4, <1>5, <2>1
  <2>2. CASE u # t
    BY <1>5, <2>2
  <2>. QED
    BY <2>1, <2>2
<1>. QED
  BY <1>6, <1>7, <1>8, <1>9

(* What Return does: the innermost handler is gone.                        *)
LEMMA Popped ==
  ASSUME StackTyped, NEW t \in Tasks, Busy(t),
         stack' = [stack EXCEPT ![t] = SubSeq(@, 1, Len(@) - 1)]
  PROVE  /\ StackTyped'
         /\ \A u \in Tasks : Len(stack'[u]) =
              IF u = t THEN Len(stack[t]) - 1 ELSE Len(stack[u])
         /\ \A u \in Tasks : \A d \in 1 .. Len(stack'[u]) :
              stack'[u][d] = stack[u][d]
<1> DEFINE n   == Len(stack[t]) - 1
           new == SubSeq(stack[t], 1, n)
<1>1. /\ stack[t] \in Seq(Frame) /\ n \in Nat
      /\ 1 .. n \subseteq 1 .. Len(stack[t])
  BY TopTyped DEF StackTyped
<1>2. \A d \in 1 .. n : stack[t][d] \in Frame
  BY <1>1, ElementOfSeq
<1>3. stack' = [stack EXCEPT ![t] = new]
  OBVIOUS
<1>4. n = Len(stack[t]) - 1
  OBVIOUS
<1> HIDE DEF n
<1>5. /\ new \in Seq(Frame)
      /\ Len(new) = n
      /\ \A d \in 1 .. n : new[d] = stack[t][d]
  <2>1. /\ new \in Seq(Frame)
        /\ Len(new) = IF 1 <= n THEN n - 1 + 1 ELSE 0
        /\ \A i \in 1 .. n - 1 + 1 : new[i] = stack[t][1 + i - 1]
    BY <1>1, <1>2, SubSeqProperties
  <2>. QED
    BY <1>1, <2>1
<1> HIDE DEF new
<1>6. \A u \in Tasks : stack'[u] = IF u = t THEN new ELSE stack[u]
  BY <1>3 DEF StackTyped
<1>7. StackTyped'
  BY <1>3, <1>5 DEF StackTyped
<1>. QED
  BY <1>4, <1>5, <1>6, <1>7
-----------------------------------------------------------------------------
(* A step that moves no block: every handler that has blocks, before or    *)
(* after it, has the same ones before and after it.                        *)
KeepsBlocks ==
  \A u \in Tasks :
    /\ \A d \in 1 .. Len(stack'[u]) :
         \/ Len(stack'[u][d].blocks) = 0
         \/ /\ d \in 1 .. Len(stack[u])
            /\ stack'[u][d].blocks = stack[u][d].blocks
    /\ \A d \in 1 .. Len(stack[u]) :
         \/ Len(stack[u][d].blocks) = 0
         \/ /\ d \in 1 .. Len(stack'[u])
            /\ stack'[u][d].blocks = stack[u][d].blocks

(* Where no block moves, all are still accounted for.                      *)
LEMMA KeepsAccounted ==
  ASSUME Accounted, KeepsBlocks, held' = held
  PROVE  Accounted'
<1>1. ASSUME NEW t, NEW d, NEW k
      PROVE  /\ Slot(t, d, k)' <=> Slot(t, d, k)
             /\ Slot(t, d, k) => PtrAt(t, d, k)' = PtrAt(t, d, k)
  BY DEF KeepsBlocks, Slot, PtrAt
<1>2. BlocksFound'
  BY <1>1 DEF Accounted, BlocksFound
<1>3. PointersHeld'
  BY <1>1 DEF Accounted, PointersHeld
<1>4. PointersApart'
  BY <1>1 DEF Accounted, PointersApart
<1>. QED
  BY <1>2, <1>3, <1>4 DEF Accounted

(* A handler that goes on with the blocks it has.                          *)
LEMMA ReplaceKeeps ==
  ASSUME StackTyped, NEW t \in Tasks, Busy(t), NEW h \in Frame,
         Replace(t, h), h.blocks = Top(t).blocks
  PROVE  KeepsBlocks
BY Replaced, TopTyped DEF KeepsBlocks

(* A handler that starts has no blocks yet.                                *)
LEMMA NestKeeps ==
  ASSUME StackTyped, NEW t \in Tasks, Busy(t), NEW h \in Frame,
         NEW g \in Frame, h.blocks = Top(t).blocks, g.blocks = <<>>,
         PushOver(t, h, g)
  PROVE  KeepsBlocks
<1>1. Len(g.blocks) = 0
  BY EmptySeq
<1>2. \A u \in Tasks : Len(stack[u]) \in Nat
  BY LenProperties DEF StackTyped
<1>3. /\ \A u \in Tasks : Len(stack'[u]) =
           IF u = t THEN Len(stack[t]) + 1 ELSE Len(stack[u])
      /\ stack'[t][Len(stack[t]) + 1] = g
      /\ \A u \in Tasks : \A d \in 1 .. Len(stack[u]) :
           stack'[u][d] = IF u = t /\ d = Len(stack[t]) THEN h
                          ELSE stack[u][d]
  BY Nested
<1>4. ASSUME NEW u \in Tasks, NEW d \in 1 .. Len(stack[u])
      PROVE  /\ d \in 1 .. Len(stack'[u])
             /\ stack'[u][d].blocks = stack[u][d].blocks
  BY <1>2, <1>3, TopTyped
<1>5. ASSUME NEW u \in Tasks, NEW d \in 1 .. Len(stack'[u])
      PROVE  \/ Len(stack'[u][d].blocks) = 0
             \/ d \in 1 .. Len(stack[u])
  <2>1. d \in 1 .. Len(stack[u]) \/ (u = t /\ d = Len(stack[t]) + 1)
    BY <1>2, <1>3
  <2>. QED
    BY <1>1, <1>3, <2>1
<1>. QED
  BY <1>4, <1>5 DEF KeepsBlocks

(* A handler that returns has none any more.                               *)
LEMMA PopKeeps ==
  ASSUME StackTyped, NEW t \in Tasks, Busy(t), Top(t).blocks = <<>>,
         stack' = [stack EXCEPT ![t] = SubSeq(@, 1, Len(@) - 1)]
  PROVE  KeepsBlocks
<1>1. Len(Top(t).blocks) = 0
  BY EmptySeq
<1>2. \A u \in Tasks : Len(stack[u]) \in Nat
  BY LenProperties DEF StackTyped
<1>. QED
  BY <1>1, <1>2, Popped, TopTyped DEF KeepsBlocks
-----------------------------------------------------------------------------
(* Accounted is BlocksAccounted.                                           *)
LEMMA AccountedPlaces ==
  ASSUME Accounted PROVE BlocksAccounted
<1>1. ASSUME NEW t, NEW d, NEW k, Slot(t, d, k)
      PROVE  <<t, d, k>> \in Places /\ Pointer(<<t, d, k>>) = PtrAt(t, d, k)
  BY <1>1 DEF Places, Slot, Pointer, PtrAt
<1>2. ASSUME NEW p \in Places
      PROVE  \E t, d, k : p = <<t, d, k>> /\ Slot(t, d, k)
  BY DEF Places, Slot
<1>3. \A b \in held : \E p \in Places : Pointer(p) = b.start
  BY <1>1 DEF Accounted, BlocksFound
<1>4. \A p \in Places : \E b \in held : b.start = Pointer(p)
  BY <1>1, <1>2 DEF Accounted, PointersHeld
<1>5. \A p, q \in Places : Pointer(p) = Pointer(q) => p = q
  BY <1>1, <1>2 DEF Accounted, PointersApart
<1>. QED
  BY <1>3, <1>4, <1>5 DEF BlocksAccounted

(* A block just taken is a new one, and in a new place.                    *)
LEMMA TakenAccounted ==
  ASSUME TableInv, StackTyped, Accounted, ClientsAsModelled,
         NEW t \in Tasks, Busy(t), AllocOk(SegSize),
         Replace(t, [Top(t) EXCEPT !.blocks = Append(@, ret')])
  PROVE  StackTyped' /\ Accounted'
<1>. PICK f, n : /\ f \in Index
                 /\ ret' = f
                 /\ held' = held \cup {[start |-> f, len |-> n]}
                 /\ \A b \in held : b.start # f
  <2>1. SegSize \in Requests
    BY DEF ClientsAsModelled
  <2>2. /\ SegmentsFor(SegSize) \in 1 .. Segments
        /\ Found(SegmentsFor(SegSize)) \in Index
        /\ \A i \in Found(SegmentsFor(SegSize)) ..
                    Found(SegmentsFor(SegSize)) + SegmentsFor(SegSize) - 1 :
             alloc[i] = Free
    BY <2>1, AllocTable
  <2>3. alloc[Found(SegmentsFor(SegSize))] = Free
    BY <2>2, SegmentsAssumption DEF Index
  <2>4. \A b \in held : b.start # Found(SegmentsFor(SegSize))
    BY <2>3, HeldBlock DEF Free, Used
  <2>5. /\ ret' = Found(SegmentsFor(SegSize))
        /\ held' = held \cup {[start |-> Found(SegmentsFor(SegSize)),
                               len |-> SegmentsFor(SegSize)]}
    BY DEF AllocOk
  <2>. QED
    BY <2>2, <2>4, <2>5
<1>. PICK top, s : /\ top = Len(stack[t])
                   /\ s = Top(t).blocks
  OBVIOUS
<1> DEFINE h == [Top(t) EXCEPT !.blocks = Append(s, f)]
<1>1. /\ s \in Seq(Int) /\ Top(t) \in Frame /\ top \in Nat \ {0}
      /\ Top(t) = stack[t][top]
  BY TopTyped DEF Frame
<1>2. PICK place \in Nat : place = Len(s) + 1
  BY <1>1, LenProperties
<1>3. f \in Int
  BY SegmentsAssumption DEF Index
<1>4. /\ Append(s, f) \in Seq(Int)
      /\ Len(Append(s, f)) = place
      /\ Append(s, f)[place] = f
      /\ \A k \in 1 .. Len(s) : Append(s, f)[k] = s[k]
      /\ Len(s) \in Nat
  BY <1>1, <1>2, <1>3, AppendProperties, LenProperties
<1>5. h \in Frame /\ h.blocks = Append(s, f)
  BY <1>1, <1>4 DEF Frame
<1>6. Replace(t, h)
  OBVIOUS
<1> HIDE DEF h
<1>7. /\ StackTyped'
      /\ \A u \in Tasks : Len(stack'[u]) = Len(stack[u])
      /\ \A u \in Tasks : \A d \in 1 .. Len(stack[u]) :
           stack'[u][d] = IF u = t /\ d = top THEN h ELSE stack[u][d]
  BY <1>5, <1>6, Replaced
<1>8. ASSUME NEW u, NEW d, NEW k, ~(u = t /\ d = top)
      PROVE  /\ Slot(u, d, k)' <=> Slot(u, d, k)
             /\ Slot(u, d, k) => PtrAt(u, d, k)' = PtrAt(u, d, k)
  BY <1>7, <1>8 DEF Slot, PtrAt
<1>9. /\ stack'[t][top].blocks = Append(s, f)
      /\ stack[t][top].blocks = s
      /\ top \in 1 .. Len(stack[t])
      /\ top \in 1 .. Len(stack'[t])
  BY <1>1, <1>5, <1>7
<1>10. ASSUME NEW k
       PROVE  /\ Slot(t, top, k)' <=> Slot(t, top, k) \/ k = place
              /\ Slot(t, top, k) => PtrAt(t, top, k)' = PtrAt(t, top, k)
  BY <1>2, <1>4, <1>9 DEF Slot, PtrAt
<1>11. Slot(t, top, place)' /\ PtrAt(t, top, place)' = f
  BY <1>4, <1>9, <1>10 DEF PtrAt
<1>12. ASSUME NEW u, NEW d, NEW k, Slot(u, d, k)'
       PROVE  \/ Slot(u, d, k) /\ PtrAt(u, d, k)' = PtrAt(u, d, k)
              \/ u = t /\ d = top /\ k = place /\ PtrAt(u, d, k)' = f
  BY <1>8, <1>10, <1>11, <1>12
<1>13. ASSUME NEW u, NEW d, NEW k, Slot(u, d, k)
       PROVE  Slot(u, d, k)' /\ PtrAt(u, d, k)' = PtrAt(u, d, k)
  BY <1>8, <1>10, <1>13
<1>14. BlocksFound'
  BY <1>11, <1>13 DEF Accounted, BlocksFound
<1>15. PointersHeld'
  <2>1. \E b \in held' : b.start = f
    <3>1. [start |-> f, len |-> n] \in held'
      OBVIOUS
    <3>2. [start |-> f, len |-> n].start = f
      OBVIOUS
    <3>. QED
      BY <3>1, <3>2
  <2>2. held \subseteq held'
    OBVIOUS
  <2>. QED
    BY <1>12, <2>1, <2>2 DEF Accounted, PointersHeld
<1>16. PointersApart'
  <2>1. \A u, d, k : Slot(u, d, k) => PtrAt(u, d, k) # f
    BY DEF Accounted, PointersHeld
  <2>. QED
    BY <1>12, <2>1 DEF Accounted, PointersApart
<1>. QED
  BY <1>7, <1>14, <1>15, <1>16 DEF Accounted

(* A block given back leaves its place, which is the first of its handler; *)
(* the others of the handler move up by one.                               *)
LEMMA GivenAccounted ==
  ASSUME TableInv, StackTyped, Accounted, NEW t \in Tasks, Busy(t),
         Top(t).blocks # <<>>, MEM_PoolFree(Head(Top(t).blocks)),
         NEW h \in Frame, h.blocks = Tail(Top(t).blocks), Replace(t, h)
  PROVE  /\ StackTyped' /\ Accounted'
         /\ \E b \in held : MEM_PoolFree(b.start)
<1>. PICK top, s : /\ top = Len(stack[t])
                   /\ s = Top(t).blocks
  OBVIOUS
<1>1. /\ s \in Seq(Int) /\ s # <<>> /\ top \in Nat \ {0}
      /\ stack[t][top].blocks = s
  BY TopTyped DEF Frame
<1>2. /\ Len(s) \in Nat \ {0}
      /\ Head(s) = s[1]
      /\ Len(Tail(s)) = Len(s) - 1
      /\ \A k \in 1 .. Len(Tail(s)) : Tail(s)[k] = s[k + 1]
  BY <1>1, EmptySeq, HeadTailProperties
<1>3. /\ StackTyped'
      /\ \A u \in Tasks : Len(stack'[u]) = Len(stack[u])
      /\ \A u \in Tasks : \A d \in 1 .. Len(stack[u]) :
           stack'[u][d] = IF u = t /\ d = top THEN h ELSE stack[u][d]
  BY Replaced
<1>4. ASSUME NEW u, NEW d, NEW k, ~(u = t /\ d = top)
      PROVE  /\ Slot(u, d, k)' <=> Slot(u, d, k)
             /\ Slot(u, d, k) => PtrAt(u, d, k)' = PtrAt(u, d, k)
  BY <1>3, <1>4 DEF Slot, PtrAt
<1>5. /\ stack'[t][top].blocks = Tail(s)
      /\ top \in 1 .. Len(stack[t])
      /\ top \in 1 .. Len(stack'[t])
  BY <1>1, <1>3
<1>6. ASSUME NEW k \in Int
      PROVE  /\ Slot(t, top, k)' <=> k # 0 /\ Slot(t, top, k + 1)
             /\ Slot(t, top, k)' => PtrAt(t, top, k)' = PtrAt(t, top, k + 1)
  BY <1>1, <1>2, <1>5 DEF Slot, PtrAt
<1>7. Slot(t, top, 1) /\ PtrAt(t, top, 1) = Head(s)
  BY <1>1, <1>2, <1>5 DEF Slot, PtrAt
<1>8. PICK b \in held : b.start = Head(s)
  BY <1>7 DEF Accounted, PointersHeld
<1>9. MEM_PoolFree(b.start)
  BY <1>8
<1>10. held' = held \ {b}
  BY <1>9, FreeTable
<1>11. ASSUME NEW c \in held, c.start = b.start PROVE c = b
  <2>1. c.start \in Extent(c) /\ c.start \in Extent(b)
    BY <1>11, HeldBlock DEF Extent, Index
  <2>. QED
    BY <2>1, SharedSegment
<1>12. ASSUME NEW u, NEW d, NEW k, Slot(u, d, k)'
       PROVE  IF u = t /\ d = top
              THEN /\ k \in Int /\ k # 0 /\ Slot(t, top, k + 1)
                   /\ PtrAt(u, d, k)' = PtrAt(t, top, k + 1)
              ELSE Slot(u, d, k) /\ PtrAt(u, d, k)' = PtrAt(u, d, k)
  <2>1. k \in Int
    BY <1>12 DEF Slot
  <2>. QED
    BY <1>4, <1>6, <1>12, <2>1
<1>13. ASSUME NEW u, NEW d, NEW k, Slot(u, d, k), PtrAt(u, d, k) # b.start
       PROVE  \E j : Slot(u, d, j)' /\ PtrAt(u, d, j)' = PtrAt(u, d, k)
  <2>1. CASE u = t /\ d = top
    <3>1. k \in Int /\ k - 1 \in Int /\ k - 1 + 1 = k /\ k - 1 # 0
      BY <1>7, <1>8, <1>13, <2>1 DEF Slot
    <3>. QED
      BY <1>6, <1>13, <2>1, <3>1
  <2>2. CASE ~(u = t /\ d = top)
    BY <1>4, <1>13, <2>2
  <2>. QED
    BY <2>1, <2>2
<1>14. BlocksFound'
  <2>1. \A c \in held' : c \in held /\ c.start # b.start
    BY <1>10, <1>11
  <2>. QED
    BY <1>13, <2>1 DEF Accounted, BlocksFound
<1>15. ASSUME NEW u, NEW d, NEW k, Slot(u, d, k)'
       PROVE  PtrAt(u, d, k)' # b.start
  <2>1. CASE u = t /\ d = top
    <3>1. k \in Int /\ k + 1 # 1 /\ Slot(t, top, k + 1)
          /\ PtrAt(u, d, k)' = PtrAt(t, top, k + 1)
      BY <1>12, <1>15, <2>1
    <3>. QED
      BY <1>7, <1>8, <3>1 DEF Accounted, PointersApart
  <2>2. CASE ~(u = t /\ d = top)
    <3>1. Slot(u, d, k) /\ PtrAt(u, d, k)' = PtrAt(u, d, k)
      BY <1>12, <1>15, <2>2
    <3>. QED
      BY <1>7, <1>8, <2>2, <3>1 DEF Accounted, PointersApart
  <2>. QED
    BY <2>1, <2>2
<1>16. PointersHeld'
  <2>1. SUFFICES ASSUME NEW u, NEW d, NEW k, Slot(u, d, k)'
                 PROVE  \E c \in held' : c.start = PtrAt(u, d, k)'
    BY DEF PointersHeld
  <2>2. \E c \in held : c.start = PtrAt(u, d, k)'
    BY <1>12, <2>1 DEF Accounted, PointersHeld
  <2>. QED
    BY <1>10, <1>15, <2>1, <2>2
<1>17. PointersApart'
  <2>1. SUFFICES ASSUME NEW u, NEW d, NEW k, NEW v, NEW e, NEW j,
                        Slot(u, d, k)', Slot(v, e, j)',
                        PtrAt(u, d, k)' = PtrAt(v, e, j)'
                 PROVE  u = v /\ d = e /\ k = j
    BY DEF PointersApart
  <2>2. CASE (u = t /\ d = top) /\ (v = t /\ e = top)
    <3>1. /\ k \in Int /\ j \in Int
          /\ Slot(t, top, k + 1) /\ Slot(t, top, j + 1)
          /\ PtrAt(t, top, k + 1) = PtrAt(t, top, j + 1)
      BY <1>12, <2>1, <2>2
    <3>2. k + 1 = j + 1
      BY <3>1 DEF Accounted, PointersApart
    <3>. QED
      BY <2>2, <3>1, <3>2
  <2>3. CASE (u = t /\ d = top) /\ ~(v = t /\ e = top)
    BY <1>12, <2>1, <2>3 DEF Accounted, PointersApart
  <2>4. CASE ~(u = t /\ d = top) /\ (v = t /\ e = top)
    BY <1>12, <2>1, <2>4 DEF Accounted, PointersApart
  <2>5. CASE ~(u = t /\ d = top) /\ ~(v = t /\ e = top)
    BY <1>12, <2>1, <2>5 DEF Accounted, PointersApart
  <2>. QED
    BY <2>2, <2>3, <2>4, <2>5
<1>. QED
  BY <1>3, <1>9, <1>14, <1>16, <1>17 DEF Accounted
-----------------------------------------------------------------------------
(* What QspiInv says of a qspi that is the innermost handler.              *)
LEMMA TopQspi ==
  ASSUME StackTyped, QspiInv, NEW t \in Tasks, Busy(t), Top(t).cmd = "qspi"
  PROVE  QspiFrame(t, Top(t), qspiBuf)
<1> DEFINE d == Len(stack[t])
<1>1. d \in 1 .. Len(stack[t]) /\ Top(t) = stack[t][d]
  BY TopTyped
<1> HIDE DEF d
<1>2. stack[t][d].cmd = "qspi"
  BY <1>1
<1>. QED
  BY <1>1, <1>2 DEF QspiInv

(* Only the innermost handler of the one task that runs qspi uses the      *)
(* globals, so a handler that changes them disturbs no other.              *)
LEMMA ReplaceQspi ==
  ASSUME StackTyped, QspiInv, ClientsAsModelled, NEW t \in Tasks, Busy(t),
         NEW h \in Frame, Replace(t, h), h.cmd = Top(t).cmd,
         qspiBuf' \in [1 .. 2 -> Int],
         h.cmd = "qspi" => QspiFrame(t, h, qspiBuf'),
         h.cmd # "qspi" => UNCHANGED qspiBuf
  PROVE  QspiInv'
<1>1. /\ \A u \in Tasks : Len(stack'[u]) = Len(stack[u])
      /\ \A u \in Tasks : \A d \in 1 .. Len(stack[u]) :
           stack'[u][d] = IF u = t /\ d = Len(stack[t]) THEN h
                          ELSE stack[u][d]
  BY Replaced
<1>2. Top(t) = stack[t][Len(stack[t])] /\ Len(stack[t]) \in Nat \ {0}
  BY TopTyped
<1>3. ASSUME NEW u \in Tasks, NEW d \in 1 .. Len(stack[u])
      PROVE  /\ d < Len(stack[u]) =>
                  stack'[u][d].cmd \in {"line", "usr", "sdexec"}
             /\ stack'[u][d].cmd = "qspi" =>
                  QspiFrame(u, stack'[u][d], qspiBuf')
  <2>1. CASE u = t /\ d = Len(stack[t])
    <3>1. stack'[u][d] = h
      BY <1>1, <2>1
    <3>2. stack'[u][d].cmd = "qspi" => QspiFrame(u, stack'[u][d], qspiBuf')
      BY <2>1, <3>1
    <3>. QED
      BY <1>2, <2>1, <3>2
  <2>2. CASE ~(u = t /\ d = Len(stack[t]))
    <3>1. stack'[u][d] = stack[u][d]
      BY <1>1, <2>2
    <3>2. /\ d < Len(stack[u]) =>
               stack[u][d].cmd \in {"line", "usr", "sdexec"}
          /\ stack[u][d].cmd = "qspi" => QspiFrame(u, stack[u][d], qspiBuf)
      BY DEF QspiInv
    <3>3. CASE h.cmd # "qspi"
      BY <3>1, <3>2, <3>3
    <3>4. CASE h.cmd = "qspi" /\ stack[u][d].cmd = "qspi"
      <4>1. "qspi" \in Lines[t] /\ "qspi" \in Lines[u]
        BY <3>2, <3>4 DEF QspiFrame
      <4>2. u = t
        BY <4>1 DEF ClientsAsModelled
      <4>3. d < Len(stack[u])
        BY <1>2, <2>2, <4>2
      <4>. QED
        BY <3>2, <3>4, <4>3
    <3>5. CASE h.cmd = "qspi" /\ stack[u][d].cmd # "qspi"
      BY <3>1, <3>2, <3>5
    <3>. QED
      BY <3>3, <3>4, <3>5
  <2>. QED
    BY <2>1, <2>2
<1>. QED
  BY <1>1, <1>3 DEF QspiInv

(* A handler above another is one that the lower one may call.             *)
LEMMA NestQspi ==
  ASSUME StackTyped, QspiInv, NEW t \in Tasks, Busy(t),
         NEW h \in Frame, h.cmd = Top(t).cmd,
         NEW g \in Frame, g.cmd \in Nests(t, h.cmd), g.freed = 0,
         g.blocks = <<>>, UNCHANGED qspiBuf,
         PushOver(t, h, g)
  PROVE  QspiInv'
<1>1. /\ \A u \in Tasks : Len(stack'[u]) =
           IF u = t THEN Len(stack[t]) + 1 ELSE Len(stack[u])
      /\ stack'[t][Len(stack[t]) + 1] = g
      /\ \A u \in Tasks : \A d \in 1 .. Len(stack[u]) :
           stack'[u][d] = IF u = t /\ d = Len(stack[t]) THEN h
                          ELSE stack[u][d]
  BY Nested
<1>2. /\ Top(t) = stack[t][Len(stack[t])]
      /\ \A u \in Tasks : Len(stack[u]) \in Nat
      /\ Len(stack[t]) # 0
  BY TopTyped, LenProperties DEF StackTyped
<1>3. h.cmd \in {"line", "usr", "sdexec"}
  BY DEF Nests
<1>4. g.cmd = "qspi" => QspiFrame(t, g, qspiBuf')
  <2>1. SUFFICES ASSUME g.cmd = "qspi" PROVE QspiFrame(t, g, qspiBuf')
    OBVIOUS
  <2>2. "qspi" \in Lines[t]
    BY <1>3, <2>1 DEF Nests
  <2>3. g.freed = 0 /\ Len(g.blocks) = 0
    BY EmptySeq
  <2>. QED
    BY <2>2, <2>3 DEF QspiFrame
<1>5. ASSUME NEW u \in Tasks, NEW d \in 1 .. Len(stack'[u])
      PROVE  /\ d < Len(stack'[u]) =>
                  stack'[u][d].cmd \in {"line", "usr", "sdexec"}
             /\ stack'[u][d].cmd = "qspi" =>
                  QspiFrame(u, stack'[u][d], qspiBuf')
  <2>1. CASE u = t /\ d = Len(stack[t]) + 1
    <3>1. stack'[u][d] = g /\ ~(d < Len(stack'[u]))
      BY <1>1, <1>2, <2>1
    <3>. QED
      BY <1>4, <2>1, <3>1
  <2>2. CASE u = t /\ d = Len(stack[t])
    <3>1. stack'[u][d] = h
      BY <1>1, <1>2, <2>2
    <3>. QED
      BY <1>3, <3>1
  <2>3. CASE d \in 1 .. Len(stack[u]) /\ ~(u = t /\ d = Len(stack[t]))
    <3>1. stack'[u][d] = stack[u][d]
      BY <1>1, <2>3
    <3>2. d < Len(stack'[u]) => d < Len(stack[u])
      BY <1>1, <1>2, <2>3
    <3>. QED
      BY <2>3, <3>1, <3>2 DEF QspiInv
  <2>. QED
    BY <1>1, <1>2, <2>1, <2>2, <2>3
<1>. QED
  BY <1>5 DEF QspiInv

(* A handler starts without blocks.                                        *)
LEMMA HandlerTyped ==
  ASSUME NEW cmd \in Commands \cup {"line"}
  PROVE  Handler(cmd) \in Frame /\ Handler(cmd).blocks = <<>>
<1>1. Items(cmd) \in Int
  BY MaxItemsAssumption DEF Items
<1>. QED
  BY <1>1, EmptySeq DEF Handler, Frame

(* PtrAt start-up there are no handlers and no blocks.                        *)
LEMMA InitClientInv == ClientInit => ClientInv
<1>. SUFFICES ASSUME ClientInit PROVE ClientInv
  OBVIOUS
<1>1. TableInv
  BY InitTableInv DEF ClientInit
<1>2. StackTyped /\ \A t \in Tasks : Len(stack[t]) = 0
  BY EmptySeq DEF ClientInit, StackTyped
<1>3. QspiInv
  <2>1. <<NullPtr, NullPtr>> \in [1 .. 2 -> Int]
    BY DEF NullPtr
  <2>. QED
    BY <1>2, <2>1 DEF ClientInit, QspiInv
<1>4. Accounted
  <2>1. held = {} /\ \A t, d, k : ~Slot(t, d, k)
    BY <1>2 DEF ClientInit, Init, Slot
  <2>. QED
    BY <2>1 DEF Accounted, BlocksFound, PointersHeld, PointersApart
<1>. QED
  BY <1>1, <1>2, <1>3, <1>4 DEF ClientInv
-----------------------------------------------------------------------------
(* A step that takes or gives no block and leaves the pool's table alone.  *)
LEMMA QuietStep ==
  ASSUME ClientInv, UNCHANGED vars, KeepsBlocks, StackTyped', QspiInv'
  PROVE  ClientInv'
<1>1. TableInv'
  BY NextTableInv DEF ClientInv
<1>2. Accounted'
  BY KeepsAccounted DEF ClientInv, vars
<1>. QED
  BY <1>1, <1>2 DEF ClientInv

(* A handler that only changes its phase.                                  *)
LEMMA PhaseStep ==
  ASSUME ClientInv, ClientsAsModelled, NEW t \in Tasks, Busy(t),
         UNCHANGED <<vars, qspiBuf>>, NEW ph \in {"run", "free"},
         ph = "run" => Top(t).phase # "free",
         Replace(t, [Top(t) EXCEPT !.phase = ph])
  PROVE  ClientInv'
<1> DEFINE h == [Top(t) EXCEPT !.phase = ph]
<1>1. /\ h \in Frame /\ h.cmd = Top(t).cmd /\ h.blocks = Top(t).blocks
      /\ h.phase = ph /\ h.freed = Top(t).freed
  BY TopTyped DEF ClientInv, Frame
<1>2. Replace(t, h)
  OBVIOUS
<1> HIDE DEF h
<1>3. StackTyped' /\ KeepsBlocks
  BY <1>1, <1>2, Replaced, ReplaceKeeps DEF ClientInv
<1>4. ASSUME h.cmd = "qspi" PROVE QspiFrame(t, h, qspiBuf')
  <2>1. QspiFrame(t, Top(t), qspiBuf)
    BY <1>1, <1>4, TopQspi DEF ClientInv
  <2>. QED
    BY <1>1, <2>1 DEF QspiFrame
<1>5. QspiInv'
  BY <1>1, <1>2, <1>4, ReplaceQspi DEF ClientInv, QspiInv
<1>. QED
  BY <1>3, <1>5, QuietStep

(* A line begins, on an empty stack.                                       *)
LEMMA ExecuteStep ==
  ASSUME ClientInv, NEW t \in Tasks, CMD_DEC_execute(t)
  PROVE  ClientInv'
<1>1. /\ stack[t] = <<>> /\ UNCHANGED <<vars, qspiBuf>>
      /\ stack' = [stack EXCEPT ![t] = <<Handler("line")>>]
  BY DEF CMD_DEC_execute, Busy
<1> DEFINE g == Handler("line")
<1>2. g \in Frame /\ g.blocks = <<>> /\ g.cmd = "line"
  BY HandlerTyped DEF Handler
<1> HIDE DEF g
<1>3. <<g>> \in Seq(Frame) /\ Len(<<g>>) = 1 /\ <<g>>[1] = g
  BY <1>2
<1>4. Len(stack[t]) = 0 /\ Len(g.blocks) = 0
  BY <1>1, <1>2, EmptySeq
<1>5. /\ StackTyped'
      /\ \A u \in Tasks : stack'[u] = IF u = t THEN <<g>> ELSE stack[u]
  BY <1>1, <1>3 DEF ClientInv, StackTyped, g
<1>6. KeepsBlocks
  BY <1>3, <1>4, <1>5 DEF KeepsBlocks
<1>7. QspiInv'
  <2>1. ASSUME NEW u \in Tasks, NEW d \in 1 .. Len(stack'[u])
        PROVE  /\ d < Len(stack'[u]) =>
                    stack'[u][d].cmd \in {"line", "usr", "sdexec"}
               /\ stack'[u][d].cmd = "qspi" =>
                    QspiFrame(u, stack'[u][d], qspiBuf')
    <3>1. CASE u = t
      BY <1>2, <1>3, <1>5, <3>1
    <3>2. CASE u # t
      BY <1>1, <1>5, <3>2 DEF ClientInv, QspiInv
    <3>. QED
      BY <3>1, <3>2
  <2>. QED
    BY <1>1, <2>1 DEF ClientInv, QspiInv
<1>. QED
  BY <1>1, <1>5, <1>6, <1>7, QuietStep

(* MEM_PoolAlloc in a handler, granted or refused.                         *)
LEMMA TakeBlockStep ==
  ASSUME ClientInv, ClientsAsModelled, NEW t \in Tasks, TakeBlock(t)
  PROVE  ClientInv'
<1>1. /\ Busy(t) /\ Top(t).phase = "alloc" /\ SegSize \in Requests
      /\ Len(Top(t).blocks) < Needs(Top(t).cmd)
  BY DEF TakeBlock, ClientsAsModelled
<1>2. /\ Top(t) \in Frame /\ Top(t) = stack[t][Len(stack[t])]
      /\ Len(stack[t]) \in Nat \ {0}
  BY <1>1, TopTyped DEF ClientInv
<1>3. CASE TakeOk(t, Top(t))
  <2>1. /\ AllocOk(SegSize)
        /\ Replace(t, [Top(t) EXCEPT !.blocks = Append(@, ret')])
        /\ qspiBuf' = IF Top(t).cmd = "qspi"
             THEN [qspiBuf EXCEPT ![Len(Top(t).blocks) + 1] = ret']
             ELSE qspiBuf
    BY <1>3 DEF TakeOk
  <2>2. StackTyped' /\ Accounted'
    BY <1>1, <2>1, TakenAccounted DEF ClientInv
  <2>3. TableInv'
    BY <1>1, <2>1, NextTableInv DEF ClientInv, Next, MEM_PoolAlloc
  <2>. PICK f, s : f = ret' /\ s = Top(t).blocks
    OBVIOUS
  <2> DEFINE h == [Top(t) EXCEPT !.blocks = Append(s, f)]
  <2>4. f \in Int
    BY <2>3, SegmentsAssumption DEF TableInv, TypeOK, Index, NullPtr
  <2>5. /\ s \in Seq(Int) /\ Len(s) \in Nat
        /\ Append(s, f) \in Seq(Int)
        /\ Len(Append(s, f)) = Len(s) + 1
        /\ Append(s, f)[Len(s) + 1] = f
        /\ \A k \in 1 .. Len(s) : Append(s, f)[k] = s[k]
    <3>1. s \in Seq(Int)
      BY <1>2 DEF Frame
    <3>. QED
      BY <2>4, <3>1, AppendProperties, LenProperties
  <2>6. /\ h \in Frame /\ h.cmd = Top(t).cmd /\ h.blocks = Append(s, f)
        /\ h.freed = Top(t).freed /\ h.phase = "alloc"
    BY <1>1, <1>2, <2>5 DEF Frame
  <2>7. Replace(t, h)
    BY <2>1
  <2> HIDE DEF h
  <2>8. ASSUME h.cmd = "qspi"
        PROVE  qspiBuf' \in [1 .. 2 -> Int] /\ QspiFrame(t, h, qspiBuf')
    <3>1. QspiFrame(t, Top(t), qspiBuf)
      BY <1>1, <2>6, <2>8, TopQspi DEF ClientInv
    <3>2. Top(t).freed = 0 /\ Len(s) < 2
      BY <1>1, <2>6, <2>8, <3>1 DEF QspiFrame, Needs
    <3>3. /\ qspiBuf \in [1 .. 2 -> Int]
          /\ qspiBuf' = [qspiBuf EXCEPT ![Len(s) + 1] = f]
      BY <2>1, <2>6, <2>8 DEF ClientInv, QspiInv
    <3>4. /\ qspiBuf' \in [1 .. 2 -> Int]
          /\ qspiBuf'[Len(s) + 1] = f
          /\ \A k \in 1 .. Len(s) : qspiBuf'[k] = qspiBuf[k]
      BY <2>4, <2>5, <3>2, <3>3
    <3>5. \A k \in 1 .. Len(s) : qspiBuf[k] = s[k]
      BY <2>5, <3>1, <3>2 DEF QspiFrame
    <3>6. \A k \in 1 .. Len(h.blocks) : qspiBuf'[h.freed + k] = h.blocks[k]
      BY <2>5, <2>6, <3>2, <3>4, <3>5
    <3>. QED
      BY <2>5, <2>6, <3>1, <3>2, <3>4, <3>6 DEF QspiFrame
  <2>9. qspiBuf' \in [1 .. 2 -> Int]
    BY <2>1, <2>6, <2>8 DEF ClientInv, QspiInv
  <2>10. QspiInv'
    BY <1>1, <2>1, <2>6, <2>7, <2>8, <2>9, ReplaceQspi DEF ClientInv
  <2>. QED
    BY <2>2, <2>3, <2>10 DEF ClientInv
<1>4. CASE TakeFails(t, Top(t))
  <2>1. /\ AllocFail(SegSize) /\ UNCHANGED qspiBuf
        /\ Replace(t, [Top(t) EXCEPT !.phase = "free"])
    BY <1>4 DEF TakeFails
  <2>2. TableInv' /\ held' = held
    BY <1>1, <2>1, NextTableInv DEF ClientInv, Next, MEM_PoolAlloc, AllocFail
  <2> DEFINE h == [Top(t) EXCEPT !.phase = "free"]
  <2>3. /\ h \in Frame /\ h.cmd = Top(t).cmd /\ h.blocks = Top(t).blocks
        /\ h.phase = "free" /\ h.freed = Top(t).freed
    BY <1>2 DEF Frame
  <2>4. Replace(t, h)
    BY <2>1
  <2> HIDE DEF h
  <2>5. StackTyped' /\ KeepsBlocks
    BY <1>1, <2>3, <2>4, Replaced, ReplaceKeeps DEF ClientInv
  <2>6. ASSUME h.cmd = "qspi" PROVE QspiFrame(t, h, qspiBuf')
    <3>1. QspiFrame(t, Top(t), qspiBuf)
      BY <1>1, <2>3, <2>6, TopQspi DEF ClientInv
    <3>. QED
      BY <2>1, <2>3, <3>1 DEF QspiFrame
  <2>7. QspiInv'
    BY <1>1, <2>1, <2>3, <2>4, <2>6, ReplaceQspi DEF ClientInv, QspiInv
  <2>. QED
    BY <2>2, <2>5, <2>7, KeepsAccounted DEF ClientInv
<1>. QED
  BY <1>3, <1>4 DEF TakeBlock

(* A line runs a command, a script runs a line.                            *)
LEMMA NestStep ==
  ASSUME ClientInv, NEW t \in Tasks, Nest(t)
  PROVE  ClientInv'
<1> DEFINE h == [Top(t) EXCEPT !.items = @ - 1]
<1>1. PICK cmd \in Nests(t, Top(t).cmd) : PushOver(t, h, Handler(cmd))
  BY DEF Nest, PushOver
<1>2. Busy(t) /\ UNCHANGED <<vars, qspiBuf>>
  BY DEF Nest
<1>3. Top(t) \in Frame
  BY <1>2, TopTyped DEF ClientInv
<1>4. /\ h \in Frame /\ h.cmd = Top(t).cmd /\ h.blocks = Top(t).blocks
  BY <1>3 DEF Frame
<1>5. cmd \in Commands \cup {"line"}
  BY LinesAssumption DEF Nests
<1> DEFINE g == Handler(cmd)
<1>6. /\ g \in Frame /\ g.blocks = <<>> /\ g.freed = 0
      /\ g.cmd \in Nests(t, h.cmd)
  <2>1. Handler(cmd) \in Frame /\ Handler(cmd).blocks = <<>>
    BY <1>5, HandlerTyped
  <2>2. Handler(cmd).freed = 0 /\ Handler(cmd).cmd = cmd
    BY DEF Handler
  <2>. QED
    BY <1>4, <2>1, <2>2
<1>7. PushOver(t, h, g)
  BY <1>1
<1> HIDE DEF h, g
<1>8. StackTyped' /\ KeepsBlocks
  BY <1>2, <1>4, <1>6, <1>7, Nested, NestKeeps DEF ClientInv
<1>9. QspiInv'
  BY <1>2, <1>4, <1>6, <1>7, NestQspi DEF ClientInv
<1>. QED
  BY <1>2, <1>8, <1>9, QuietStep

(* MEM_PoolFree in a handler; for qspi, of the pointer in its global.      *)
LEMMA GiveBackStep ==
  ASSUME ClientInv, ClientsAsModelled, NEW t \in Tasks, GiveBack(t)
  PROVE  ClientInv'
<1>1. /\ Busy(t) /\ Top(t).phase = "free" /\ Top(t).blocks # <<>>
      /\ UNCHANGED qspiBuf
  BY DEF GiveBack
<1>. PICK s : s = Top(t).blocks
  OBVIOUS
<1>2. Top(t) \in Frame /\ s \in Seq(Int)
  BY <1>1, TopTyped DEF ClientInv, Frame
<1>3. /\ Head(s) = s[1] /\ Tail(s) \in Seq(Int) /\ Len(s) \in Nat \ {0}
      /\ Len(Tail(s)) = Len(s) - 1
      /\ \A k \in 1 .. Len(Tail(s)) : Tail(s)[k] = s[k + 1]
  BY <1>1, <1>2, EmptySeq, HeadTailProperties
<1>4. Top(t).cmd = "qspi" => qspiBuf[Top(t).freed + 1] = Head(s)
  BY <1>1, <1>3, TopQspi DEF ClientInv, QspiFrame
<1>5. MEM_PoolFree(Head(s))
  <2>1. MEM_PoolFree(IF Top(t).cmd = "qspi" THEN qspiBuf[Top(t).freed + 1]
                     ELSE Head(s))
    BY DEF GiveBack
  <2>2. CASE Top(t).cmd = "qspi"
    BY <1>4, <2>1, <2>2
  <2>3. CASE Top(t).cmd # "qspi"
    BY <2>1, <2>3
  <2>. QED
    BY <2>2, <2>3
<1> DEFINE h == [Top(t) EXCEPT !.blocks = Tail(@), !.freed = @ + 1]
<1>6. /\ h \in Frame /\ h.cmd = Top(t).cmd /\ h.blocks = Tail(s)
      /\ h.phase = "free" /\ h.freed = Top(t).freed + 1
      /\ Top(t).freed \in Nat
  <2>1. /\ Top(t).freed \in Nat /\ Top(t).freed + 1 \in Nat
        /\ Top(t).phase = "free" /\ Tail(s) \in Seq(Int)
    BY <1>1, <1>2, <1>3 DEF Frame
  <2>2. h = [Top(t) EXCEPT !.blocks = Tail(s), !.freed = Top(t).freed + 1]
    OBVIOUS
  <2>3. /\ h.cmd = Top(t).cmd /\ h.phase = Top(t).phase
        /\ h.blocks = Tail(s) /\ h.freed = Top(t).freed + 1
    BY <1>2, <2>2 DEF Frame
  <2>4. h \in Frame
    BY <1>2, <2>1, <2>2 DEF Frame
  <2>. QED
    BY <2>1, <2>3, <2>4
<1>7. Replace(t, h)
  BY DEF GiveBack
<1> HIDE DEF h
<1>8. /\ StackTyped' /\ Accounted'
      /\ \E b \in held : MEM_PoolFree(b.start)
  BY <1>1, <1>5, <1>6, <1>7, GivenAccounted DEF ClientInv
<1>9. TableInv'
  BY <1>8, NextTableInv DEF ClientInv, Next
<1>10. ASSUME h.cmd = "qspi" PROVE QspiFrame(t, h, qspiBuf')
  <2>1. QspiFrame(t, Top(t), qspiBuf)
    BY <1>1, <1>6, <1>10, TopQspi DEF ClientInv
  <2>2. \A k \in 1 .. Len(s) : qspiBuf[Top(t).freed + k] = s[k]
    BY <2>1 DEF QspiFrame
  <2>3. ASSUME NEW k \in 1 .. Len(h.blocks)
        PROVE  qspiBuf'[h.freed + k] = h.blocks[k]
    <3>1. /\ k + 1 \in 1 .. Len(s)
          /\ h.freed + k = Top(t).freed + (k + 1)
          /\ h.blocks[k] = s[k + 1]
      <4>1. h.blocks = Tail(s) /\ Len(h.blocks) = Len(s) - 1
        BY <1>3, <1>6
      <4>2. k \in 1 .. Len(s) - 1 /\ h.blocks[k] = s[k + 1]
        BY <1>3, <4>1
      <4>3. k \in Int /\ k + 1 \in 1 .. Len(s)
        BY <1>3, <4>2
      <4>4. h.freed + k = Top(t).freed + (k + 1)
        <5>1. h.freed = Top(t).freed + 1 /\ Top(t).freed \in Int
          BY <1>6
        <5>. QED
          BY <4>3, <5>1
      <4>. QED
        BY <4>2, <4>3, <4>4
    <3>. QED
      BY <1>1, <2>2, <3>1
  <2>. QED
    BY <1>3, <1>6, <2>1, <2>3 DEF QspiFrame
<1>11. QspiInv'
  BY <1>1, <1>6, <1>7, <1>10, ReplaceQspi DEF ClientInv, QspiInv
<1>. QED
  BY <1>8, <1>9, <1>11 DEF ClientInv

(* A handler ends.                                                         *)
LEMMA ReturnStep ==
  ASSUME ClientInv, NEW t \in Tasks, Return(t)
  PROVE  ClientInv'
<1>1. /\ Busy(t) /\ Top(t).blocks = <<>> /\ UNCHANGED <<vars, qspiBuf>>
      /\ stack' = [stack EXCEPT ![t] = SubSeq(@, 1, Len(@) - 1)]
  BY DEF Return
<1>2. StackTyped' /\ KeepsBlocks
  BY <1>1, Popped, PopKeeps DEF ClientInv
<1>3. QspiInv'
  <2>1. /\ \A u \in Tasks : Len(stack'[u]) =
              IF u = t THEN Len(stack[t]) - 1 ELSE Len(stack[u])
        /\ \A u \in Tasks : \A d \in 1 .. Len(stack'[u]) :
              stack'[u][d] = stack[u][d]
    BY <1>1, Popped DEF ClientInv
  <2>2. Len(stack[t]) \in Nat \ {0}
    BY <1>1, TopTyped DEF ClientInv
  <2>3. ASSUME NEW u \in Tasks, NEW d \in 1 .. Len(stack'[u])
        PROVE  /\ d < Len(stack'[u]) =>
                    stack'[u][d].cmd \in {"line", "usr", "sdexec"}
               /\ stack'[u][d].cmd = "qspi" =>
                    QspiFrame(u, stack'[u][d], qspiBuf')
    <3>1. /\ d \in 1 .. Len(stack[u])
          /\ d < Len(stack'[u]) => d < Len(stack[u])
          /\ stack'[u][d] = stack[u][d]
      <4>1. stack'[u][d] = stack[u][d]
        BY <2>1
      <4>2. CASE u = t
        BY <2>1, <2>2, <4>1, <4>2
      <4>3. CASE u # t
        BY <2>1, <4>1, <4>3
      <4>. QED
        BY <4>2, <4>3
    <3>. QED
      BY <1>1, <3>1 DEF ClientInv, QspiInv
  <2>. QED
    BY <1>1, <2>3 DEF ClientInv, QspiInv
<1>. QED
  BY <1>1, <1>2, <1>3, QuietStep

(* Every step of every task keeps the invariant.                           *)
LEMMA NextClientInv ==
  ASSUME ClientsAsModelled, ClientInv, [ClientNext]_allVars
  PROVE  ClientInv'
<1>1. ASSUME NEW t \in Tasks, OpenFails(t) PROVE ClientInv'
  <2>1. /\ Busy(t) /\ UNCHANGED <<vars, qspiBuf>>
        /\ Replace(t, [Top(t) EXCEPT !.phase = "free"])
    BY <1>1 DEF OpenFails
  <2>. QED
    BY <2>1, PhaseStep
<1>2. ASSUME NEW t \in Tasks, StartBody(t) PROVE ClientInv'
  <2>1. /\ Busy(t) /\ UNCHANGED <<vars, qspiBuf>> /\ Top(t).phase = "alloc"
        /\ Replace(t, [Top(t) EXCEPT !.phase = "run"])
    BY <1>2 DEF StartBody
  <2>. QED
    BY <2>1, PhaseStep
<1>3. ASSUME NEW t \in Tasks, EndBody(t) PROVE ClientInv'
  <2>1. /\ Busy(t) /\ UNCHANGED <<vars, qspiBuf>>
        /\ Replace(t, [Top(t) EXCEPT !.phase = "free"])
    BY <1>3 DEF EndBody
  <2>. QED
    BY <2>1, PhaseStep
<1>4. ASSUME UNCHANGED allVars PROVE ClientInv'
  <2>1. /\ UNCHANGED vars /\ stack' = stack /\ qspiBuf' = qspiBuf
    BY <1>4 DEF allVars, clientVars
  <2>2. StackTyped' /\ QspiInv' /\ KeepsBlocks
    BY <2>1 DEF ClientInv, StackTyped, QspiInv, KeepsBlocks
  <2>. QED
    BY <2>1, <2>2, QuietStep
<1>. QED
  BY <1>1, <1>2, <1>3, <1>4, ExecuteStep, TakeBlockStep, NestStep,
     GiveBackStep, ReturnStep DEF ClientNext, Step
-----------------------------------------------------------------------------
(* No handler of cmd_dec.c, QSPI.c or SDCard.c loses a block, gives one    *)
(* back twice or gives back another task's, on any of its early returns    *)
(* and however deep the scripts nest.                                      *)
THEOREM NoBlockLost ==
  ASSUME ClientsAsModelled PROVE ClientSpec => []BlocksAccounted
<1>1. ClientInv => BlocksAccounted
  BY AccountedPlaces DEF ClientInv
<1>2. ClientInv /\ [ClientNext]_allVars => ClientInv'
  BY NextClientInv
<1>. QED
  BY <1>1, <1>2, InitClientInv, PTL DEF ClientSpec

(* When no command line runs, MEM_PoolAvailable is the whole pool.         *)
THEOREM WholePoolBetweenLines ==
  ASSUME ClientsAsModelled PROVE ClientSpec => []PoolRecovers
<1>1. ClientInv => PoolRecovers
  <2>1. SUFFICES ASSUME ClientInv, \A t \in Tasks : ~Busy(t)
                 PROVE  MEM_PoolAvailable = Segments
    BY DEF PoolRecovers
  <2>2. held = {}
    <3>1. \A t \in Tasks : Len(stack[t]) = 0
      BY <2>1, EmptySeq DEF Busy
    <3>2. \A t, d, k : ~Slot(t, d, k)
      BY <3>1 DEF Slot
    <3>. QED
      BY <2>1, <3>2 DEF ClientInv, Accounted, BlocksFound
  <2>3. {i \in Index : alloc[i] = Free} = Index
    BY <2>1, <2>2 DEF ClientInv, TableInv, NoLeak, NotFree
  <2>4. Cardinality(0 .. 0 + Segments - 1) = Segments
    BY IntervalCount, SegmentsAssumption
  <2>5. 0 .. 0 + Segments - 1 = Index
    BY SegmentsAssumption DEF Index
  <2>. QED
    BY <2>3, <2>4, <2>5 DEF MEM_PoolAvailable
<1>2. ClientInv /\ [ClientNext]_allVars => ClientInv'
  BY NextClientInv
<1>. QED
  BY <1>1, <1>2, InitClientInv, PTL DEF ClientSpec
=============================================================================
