------------------------------ MODULE PoolRace ------------------------------
(***************************************************************************)
(* MEM_PoolAlloc and MEM_PoolFree of MEM_Pool.c access by access.  Nothing *)
(* locks the table, so another task can run between any two accesses.      *)
(* With one task the loops are the atomic calls of MemPool; with two they  *)
(* are not.                                                                *)
(***************************************************************************)
EXTENDS MemPool

CONSTANT Callers   \* the tasks that call the pool

VARIABLES
  call,      \* [Callers -> where the call of a task is, and its locals]
  seen       \* the table as it was when the last call began (observation)

raceVars == <<vars, call, seen>>

Idle == [at |-> "idle", n |-> 0, i |-> 0, j |-> 0, f |-> 0, pass |-> 0]
Table == [alloc |-> alloc, lookAheadIdx |-> lookAheadIdx, inUse |-> inUse,
          asked |-> asked]

At(t, where) == call[t].at = where
Go(t, c) == call' = [call EXCEPT ![t] = c]

RaceInit == Init /\ call = [t \in Callers |-> Idle] /\ seen = Table

AllocCall(t, bytes) ==
  /\ At(t, "idle")
  /\ IF bytes = 0
     THEN ret' = NullPtr /\ UNCHANGED call
     ELSE /\ Go(t, [Idle EXCEPT !.at = "look", !.pass = 1, !.i = lookAheadIdx,
                                !.n = SegmentsFor(bytes)])
          /\ UNCHANGED ret
  /\ asked' = bytes
  /\ seen' = Table
  /\ UNCHANGED <<alloc, lookAheadIdx, inUse, watermark, sysErr, held>>

Look_xStart(t) ==
  LET c == call[t]
  IN /\ At(t, "look") /\ c.i < Segments
     /\ IF alloc[c.i] = Free
        THEN Go(t, [c EXCEPT !.at = "run", !.j = c.i + 2])
        ELSE Go(t, [c EXCEPT !.i = c.i + 1])
     /\ UNCHANGED <<vars, seen>>

(* The outer loop looks for a free segment ...                             *)
Look(t) ==
  LET c == call[t]
  IN /\ At(t, "look") /\ c.i < Segments
     /\ IF alloc[c.i] = Free
        THEN Go(t, [c EXCEPT !.at = "run", !.j = c.i + 1])
        ELSE Go(t, [c EXCEPT !.i = c.i + 1])
     /\ UNCHANGED <<vars, seen>>

(* ... and the inner one counts those behind it: k is j - i.  A segment in *)
(* use ends it, and the outer loop goes on behind that segment.            *)
Run(t) ==
  LET c == call[t]
  IN /\ At(t, "run") /\ c.j < Segments /\ c.j < c.i + c.n
     /\ IF alloc[c.j] = Free
        THEN Go(t, [c EXCEPT !.j = c.j + 1])
        ELSE Go(t, [c EXCEPT !.at = "look", !.i = c.j + 1])
     /\ UNCHANGED <<vars, seen>>

RunEnds(t) ==
  LET c == call[t]
  IN /\ At(t, "run") /\ (c.j >= Segments \/ c.j >= c.i + c.n)
     /\ IF c.j - c.i = c.n
        THEN /\ Go(t, [c EXCEPT !.at = "mark", !.f = c.i, !.j = c.i])
             /\ lookAheadIdx' = IF c.i + 1 >= Segments THEN 0 ELSE c.i + 1
        ELSE /\ Go(t, [c EXCEPT !.at = "look", !.i = c.i + 1])
             /\ UNCHANGED lookAheadIdx
     /\ UNCHANGED <<alloc, inUse, watermark, sysErr, held, asked, ret, seen>>

(* The end of the table: once more from the beginning, or out of memory.   *)
PassEnds(t) ==
  LET c == call[t]
  IN /\ At(t, "look") /\ c.i >= Segments
     /\ IF c.pass = 1
        THEN /\ Go(t, [c EXCEPT !.pass = 2, !.i = 0])
             /\ UNCHANGED <<sysErr, ret>>
        ELSE /\ Go(t, Idle)
             /\ sysErr' = sysErr \cup {"OUT_OF_MEM"} /\ ret' = NullPtr
     /\ UNCHANGED <<alloc, lookAheadIdx, inUse, watermark, held, asked, seen>>

(* The entries from f on are marked one by one.                            *)
MarkNext(t) ==
  LET c == call[t]
  IN /\ At(t, "mark") /\ c.j < c.f + c.n
     /\ alloc' = [alloc EXCEPT ![c.j] = IF c.j = c.f THEN Used ELSE Subseq]
     /\ inUse' = (inUse + 1) % WordMod
     /\ Go(t, [c EXCEPT !.j = c.j + 1])
     /\ UNCHANGED <<lookAheadIdx, watermark, sysErr, held, asked, ret, seen>>

AllocReturns(t) ==
  LET c == call[t]
  IN /\ At(t, "mark") /\ c.j = c.f + c.n
     /\ watermark' = IF watermark < inUse THEN inUse ELSE watermark
     /\ held' = held \cup {[start |-> c.f, len |-> c.n]}
     /\ ret' = c.f
     /\ Go(t, Idle)
     /\ UNCHANGED <<alloc, lookAheadIdx, inUse, sysErr, asked, seen>>

FreeCall(t, b) ==
  /\ At(t, "idle")
  /\ \A u \in Callers \ {t} : ~(At(u, "free") /\ call[u].f = b.start)
  /\ alloc' = [alloc EXCEPT ![b.start] = Free]
  /\ inUse' = (inUse - 1) % WordMod
  /\ Go(t, [Idle EXCEPT !.at = "free", !.f = b.start, !.j = b.start + 1])
  /\ seen' = Table
  /\ UNCHANGED <<lookAheadIdx, watermark, sysErr, held, asked, ret>>

FreeNext(t) ==
  LET c == call[t]
  IN /\ At(t, "free") /\ c.j < Segments /\ alloc[c.j] = Subseq
     /\ alloc' = [alloc EXCEPT ![c.j] = Free]
     /\ inUse' = (inUse - 1) % WordMod
     /\ Go(t, [c EXCEPT !.j = c.j + 1])
     /\ UNCHANGED <<lookAheadIdx, watermark, sysErr, held, asked, ret, seen>>

FreeReturns(t) ==
  LET c == call[t]
  IN /\ At(t, "free") /\ (c.j < Segments => alloc[c.j] # Subseq)
     /\ held' = {b \in held : b.start # c.f}
     /\ Go(t, Idle)
     /\ UNCHANGED <<alloc, lookAheadIdx, inUse, watermark, sysErr, asked, ret,
                    seen>>

RaceStep(t) ==
  \/ \E bytes \in Requests : AllocCall(t, bytes)
  \/ Look(t) \/ Run(t) \/ RunEnds(t) \/ PassEnds(t)
  \/ MarkNext(t) \/ AllocReturns(t)
  \/ \E b \in held : FreeCall(t, b)
  \/ FreeNext(t) \/ FreeReturns(t)

RaceNext == \E t \in Callers : RaceStep(t)
RaceSpec == RaceInit /\ [][RaceNext]_raceVars
-----------------------------------------------------------------------------
(* Between calls the table is as it is; within one, as it was before.      *)
Shown == IF \A t \in Callers : At(t, "idle") THEN Table ELSE seen

Atomic == INSTANCE MemPool WITH
  alloc <- Shown.alloc, lookAheadIdx <- Shown.lookAheadIdx,
  inUse <- Shown.inUse, asked <- Shown.asked

(* Undisturbed, the loops of MEM_PoolAlloc and MEM_PoolFree do what the    *)
(* operations of MemPool say in one step: the first run long enough behind *)
(* lookAheadIdx, else the first one of the table, and no run is missed.    *)
LoopsImplementMemPool == Atomic!Spec

(* "found free entry for requested segments" (MEM_Pool.c:80): the segments *)
(* found free are free when they are marked.                               *)
FoundStaysFree ==
  \A t \in Callers :
    At(t, "mark") =>
      \A i \in call[t].j .. call[t].f + call[t].n - 1 : alloc[i] = Free
=============================================================================
