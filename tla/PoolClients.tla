---------------------------- MODULE PoolClients ----------------------------
(***************************************************************************)
(* The tasks that run command lines (CMD_DEC_execute in cmd_dec.c) and the *)
(* blocks of the pool their handlers take and give back.  A task keeps a   *)
(* stack of handlers: a command line runs commands, and sdexec and usr run *)
(* command lines again.  A call of the pool is one step; between two calls *)
(* of a handler the other tasks run.                                       *)
(***************************************************************************)
EXTENDS MemPool, Sequences

CONSTANTS
  Tasks,        \* the tasks that execute command lines
  Lines,        \* [Tasks -> the commands the task's lines may hold]
  MaxItems      \* bound: commands of a line, lines of a script

Commands == {"print", "sdwrite", "sdwrite -m", "sdprint", "sd2qspi",
             "sdinit -f", "qspi", "usr", "sdexec"}

ASSUME LinesAssumption == Lines \in [Tasks -> SUBSET Commands]
ASSUME MaxItemsAssumption == MaxItems \in Nat

VARIABLES
  stack,        \* [Tasks -> the handlers the task is in, the innermost last]
  qspiBuf       \* qspi_aTxBuffer and qspi_aRxBuffer, globals of QSPI.c

clientVars == <<stack, qspiBuf>>
allVars == <<vars, clientVars>>

(* How many blocks a handler takes, each within one segment.               *)
Needs(cmd) ==
  CASE cmd \in {"line", "print", "sdwrite", "sdinit -f"} -> 1
    [] cmd \in {"sdwrite -m", "sdprint", "sd2qspi", "qspi", "sdexec"} -> 2
    [] cmd = "usr" -> 0

(* How many it has when it opens its file, or formats the card.            *)
OpensWith(cmd) ==
  CASE cmd \in {"sdwrite", "sdwrite -m", "sdinit -f"} -> 1
    [] cmd \in {"sdprint", "sd2qspi", "sdexec"} -> 2
    [] OTHER -> 3

Nests(t, cmd) ==
  CASE cmd = "line" -> Lines[t]
    [] cmd \in {"usr", "sdexec"} -> {"line"}
    [] OTHER -> {}

Items(cmd) == IF cmd \in {"line", "sdexec"} THEN MaxItems
              ELSE IF cmd = "usr" THEN 1 ELSE 0

Handler(cmd) ==
  [cmd |-> cmd, phase |-> "alloc", blocks |-> <<>>, items |-> Items(cmd),
   freed |-> 0]

Busy(t) == stack[t] # <<>>
Top(t) == stack[t][Len(stack[t])]
Replace(t, h) == stack' = [stack EXCEPT ![t] = [@ EXCEPT ![Len(@)] = h]]
Push(t, h) == stack' = [stack EXCEPT ![t] = Append(@, h)]

ClientInit ==
  /\ Init
  /\ stack = [t \in Tasks |-> <<>>]
  /\ qspiBuf = <<NullPtr, NullPtr>>

(* A complete line has arrived and is executed.                            *)
CMD_DEC_execute(t) ==
  /\ ~Busy(t)
  /\ stack' = [stack EXCEPT ![t] = <<Handler("line")>>]
  /\ UNCHANGED <<vars, qspiBuf>>

TakeOk(t, h) ==
  /\ AllocOk(SegSize)
  /\ Replace(t, [h EXCEPT !.blocks = Append(@, ret')])
  /\ qspiBuf' = IF h.cmd = "qspi"
                THEN [qspiBuf EXCEPT ![Len(h.blocks) + 1] = ret'] ELSE qspiBuf

TakeFails_xLeaves(t, h) ==
  /\ AllocFail(SegSize)
  /\ Replace(t, [h EXCEPT !.phase = "free", !.blocks = <<>>])
  /\ UNCHANGED qspiBuf

(* Out of memory: what the handler already has is given back.              *)
TakeFails(t, h) ==
  /\ AllocFail(SegSize)
  /\ Replace(t, [h EXCEPT !.phase = "free"])
  /\ UNCHANGED qspiBuf

TakeBlock(t) ==
  LET h == Top(t)
  IN /\ Busy(t)
     /\ h.phase = "alloc"
     /\ Len(h.blocks) < Needs(h.cmd)
     /\ TakeOk(t, h) \/ TakeFails(t, h)

OpenFails_xOneLess(t) ==
  LET h == Top(t)
  IN /\ Busy(t)
     /\ h.phase = "alloc"
     /\ Len(h.blocks) = OpensWith(h.cmd)
     /\ Replace(t, [h EXCEPT !.phase = "free", !.blocks = Tail(@)])
     /\ UNCHANGED <<vars, qspiBuf>>

(* f_open or f_mkfs fails, or there is nothing to write.                   *)
OpenFails(t) ==
  LET h == Top(t)
  IN /\ Busy(t)
     /\ h.phase = "alloc"
     /\ Len(h.blocks) = OpensWith(h.cmd)
     /\ Replace(t, [h EXCEPT !.phase = "free"])
     /\ UNCHANGED <<vars, qspiBuf>>

StartBody(t) ==
  LET h == Top(t)
  IN /\ Busy(t)
     /\ h.phase = "alloc"
     /\ Len(h.blocks) = Needs(h.cmd)
     /\ Replace(t, [h EXCEPT !.phase = "run"])
     /\ UNCHANGED <<vars, qspiBuf>>

Nest_xForever(t) ==
  LET h == Top(t)
  IN /\ Busy(t)
     /\ h.phase = "run"
     /\ h.items > 0
     /\ \E cmd \in Nests(t, h.cmd) : Push(t, Handler(cmd))
     /\ UNCHANGED <<vars, qspiBuf>>

(* The next command of a line, or the next line of a script.               *)
Nest(t) ==
  LET h == Top(t)
      outer == [h EXCEPT !.items = @ - 1]
  IN /\ Busy(t)
     /\ h.phase = "run"
     /\ h.items > 0
     /\ \E cmd \in Nests(t, h.cmd) :
          stack' = [stack EXCEPT ![t] =
                      Append([@ EXCEPT ![Len(@)] = outer], Handler(cmd))]
     /\ UNCHANGED <<vars, qspiBuf>>

EndBody(t) ==
  LET h == Top(t)
  IN /\ Busy(t)
     /\ h.phase = "run"
     /\ Replace(t, [h EXCEPT !.phase = "free"])
     /\ UNCHANGED <<vars, qspiBuf>>

(* The blocks are given back in the order they were taken; qspi finds them *)
(* in its globals.                                                         *)
GiveBack(t) ==
  LET h == Top(t)
      ptr == IF h.cmd = "qspi" THEN qspiBuf[h.freed + 1] ELSE Head(h.blocks)
  IN /\ Busy(t)
     /\ h.phase = "free"
     /\ h.blocks # <<>>
     /\ MEM_PoolFree(ptr)
     /\ Replace(t, [h EXCEPT !.blocks = Tail(@), !.freed = @ + 1])
     /\ UNCHANGED qspiBuf

Return(t) ==
  LET h == Top(t)
  IN /\ Busy(t)
     /\ h.phase = "free"
     /\ h.blocks = <<>>
     /\ stack' = [stack EXCEPT ![t] = SubSeq(@, 1, Len(@) - 1)]
     /\ UNCHANGED <<vars, qspiBuf>>

Step(t) ==
  \/ TakeBlock(t)
  \/ OpenFails(t)
  \/ StartBody(t)
  \/ Nest(t)
  \/ EndBody(t)
  \/ GiveBack(t)
  \/ Return(t)

ClientNext == \E t \in Tasks : CMD_DEC_execute(t) \/ Step(t)

ClientSpec == ClientInit /\ [][ClientNext]_allVars

(* A task in the middle of a line runs on.                                 *)
FairClientSpec == ClientSpec /\ \A t \in Tasks : WF_allVars(Step(t))
-----------------------------------------------------------------------------
(* Where a task keeps a pointer to a block it took and has not given back. *)
Places ==
  UNION {UNION {{<<t, d, k>> : k \in 1 .. Len(stack[t][d].blocks)} :
                  d \in 1 .. Len(stack[t])} : t \in Tasks}

Pointer(p) == stack[p[1]][p[2]].blocks[p[3]]

(* The blocks the pool has handed out are those the handlers in progress   *)
(* still hold, each held in one place: whichever allocation, open or line  *)
(* fails, no handler leaves a block behind, gives one back twice, or gives *)
(* back one of another task.                                               *)
BlocksAccounted ==
  /\ {b.start : b \in held} = {Pointer(p) : p \in Places}
  /\ \A p, q \in Places : Pointer(p) = Pointer(q) => p = q

(* MEM_PoolAvailable: the segments the table shows free.                   *)
MEM_PoolAvailable == Cardinality({i \in Index : alloc[i] = Free})

(* Between command lines the whole pool is available again.                *)
PoolRecovers ==
  (\A t \in Tasks : ~Busy(t)) => MEM_PoolAvailable = Segments

(* Every command line comes to its end, also one whose script executes     *)
(* itself: the pool refuses a block before the nesting is endless.         *)
LineEnds == \A t \in Tasks : Busy(t) ~> ~Busy(t)
=============================================================================
