---------------------------- MODULE PicocScript ----------------------------
(***************************************************************************)
(* A picoc script read from the SD card, beside the command lines of other *)
(* tasks: PlatformReadFile of picoc/src/platform_unix.c takes a FIL and a  *)
(* buffer from the pool, and PlatformScanFile parses what it returns.      *)
(***************************************************************************)
EXTENDS PoolClients

VARIABLE reader    \* where PlatformReadFile is, and its two pointers

At(where) ==
  /\ reader.at = where
  /\ UNCHANGED clientVars

Take(next, name) ==
  /\ AllocOk(SegSize)
  /\ reader' = [reader EXCEPT !.at = next, ![name] = ret']

GiveBackTo(next, ptr) ==
  /\ MEM_PoolFree(ptr)
  /\ reader' = [reader EXCEPT !.at = next]

GoTo(next) ==
  /\ reader' = [reader EXCEPT !.at = next]
  /\ UNCHANGED vars

PlatformReadFile ==
  \/ At("call")   /\ Take("file", "MyFile")
  \/ At("call")   /\ AllocFail(SegSize) /\ UNCHANGED reader
  \/ At("file")   /\ Take("both", "scriptBuf")
  \/ At("file")   /\ AllocFail(SegSize)
                  /\ reader' = [reader EXCEPT !.at = "failed"]
  \/ At("failed") /\ GiveBackTo("call", reader.MyFile)
  \/ At("both")   /\ GoTo("call")         \* f_open fails: plain return
  \/ At("both")   /\ GoTo("read")
  \/ At("read")   /\ GiveBackTo("closed", reader.MyFile)
  \/ At("closed") /\ GiveBackTo("parse", reader.scriptBuf)
  \/ At("closed") /\ GiveBackTo("call", reader.scriptBuf)   \* empty file

PlatformScanFile == At("parse") /\ GoTo("call")

PicocInit ==
  /\ ClientInit
  /\ reader = [at |-> "call", MyFile |-> NullPtr, scriptBuf |-> NullPtr]

PicocNext ==
  \/ PlatformReadFile
  \/ PlatformScanFile
  \/ ClientNext /\ UNCHANGED reader

PicocSpec == PicocInit /\ [][PicocNext]_<<allVars, reader>>
-----------------------------------------------------------------------------
(* "buffer for the script" (platform_unix.c:113), "we allocate here memory *)
(* - this works!" (l.109): nobody else is given the memory that holds the  *)
(* script while it is parsed.                                              *)
ScriptUndisturbed ==
  reader.at = "parse" =>
    \A b \in held : reader.scriptBuf \notin Extent(b)
=============================================================================
