--------------------------- MODULE GpioInterrupt ---------------------------
(***************************************************************************)
(* The interrupt of pin PJ9: EXTI9_5_IRQHandler of stm32h7xx_it.c disables *)
(* itself and wakes GPIOINTTask of main.c, which runs a handler of Pico-C  *)
(* or the text of the command aint and enables the interrupt again, while  *)
(* the shells configure it with cint and rewrite the text.  main enables   *)
(* it before it makes the semaphore the interrupt releases.                *)
(***************************************************************************)
EXTENDS Naturals, Sequences

CONSTANTS
  Shells,        \* the tasks that run command lines
  Words,         \* the words of command lines
  Texts,         \* what the command aint is given, split in words
  BufSize,       \* USR_CMD_STR_SIZE
  MaxEdges,      \* bound: edges at the pin
  MaxTexts       \* bound: uses of aint

NUL == "NUL"
Separator == ";"

ASSUME TextsAssumption ==
  /\ {NUL, Separator} \subseteq Words
  /\ Texts \subseteq Seq(Words) \ {<<>>}
  /\ \A text \in Texts : \A i \in DOMAIN text : text[i] # NUL
ASSUME BoundsAssumption ==
  /\ BufSize \in Nat \ {0, 1}
  /\ {MaxEdges, MaxTexts} \subseteq Nat

VARIABLES
  edges,
  exti,          \* "idle" or "edge": what is latched
  nvic,          \* EXTI9_5_IRQn is enabled
  isr,           \* where the interrupt is: "none", "entered", "cleared"
  xSemaphoreGPIOINT,
  task,          \* where GPIOINTTask is; "boot" before the semaphore is made
  offset,        \* where in the text it is
  intCmdBuf,     \* the words of the text
  copy,          \* [Shells -> the strncpy of its CMD_aint]
  texts,
  picoc,         \* [picoc_IsRunning, picoc_INThandlerCMD is not empty]
  asked,         \* the last cint enabled the interrupt (observation)
  unserved,      \* there was an edge since the task woke up, and it has not
                 \* been lost (observation)
  early,         \* the interrupt came before the semaphore was made, and has
                 \* not been configured since (observation)
  defined,       \* the text if it is whole, else Torn (observation)
  steady,        \* nobody has written it since the task looked (observation)
  ran            \* what the task has run of it (observation)

pinVars ==
  <<edges, exti, nvic, isr, xSemaphoreGPIOINT, asked, unserved, early>>
textVars == <<intCmdBuf, copy, texts, defined, steady>>
vars == <<pinVars, textVars, task, offset, ran, picoc>>

Torn == <<NUL>>
NoCopy == [text |-> <<>>, done |-> 0, alone |-> FALSE]

(* main has called GPIO_INTConfig(0, 1).                                   *)
Init ==
  /\ edges = 0
  /\ exti = "idle"
  /\ nvic = TRUE
  /\ isr = "none"
  /\ xSemaphoreGPIOINT = 0
  /\ task = "boot"
  /\ offset = 1
  /\ intCmdBuf = [i \in 1 .. BufSize |-> NUL]
  /\ copy = [s \in Shells |-> NoCopy]
  /\ texts = 0
  /\ picoc = [runs |-> FALSE, handler |-> FALSE]
  /\ asked = TRUE
  /\ unserved = FALSE
  /\ early = FALSE
  /\ defined = <<>>
  /\ steady = FALSE
  /\ ran = <<>>
-----------------------------------------------------------------------------
(* An edge of the configured kind is latched, enabled or not.              *)
Edge ==
  /\ edges < MaxEdges
  /\ edges' = edges + 1
  /\ exti' = "edge"
  /\ unserved' = (unserved \/ asked)
  /\ UNCHANGED <<nvic, isr, xSemaphoreGPIOINT, asked, early, textVars, task,
                 offset, ran, picoc>>

(* The handler; an edge may come between any two of its lines.             *)
EXTI9_5_Enter ==
  /\ isr = "none" /\ isr' = "entered"
  /\ nvic /\ exti = "edge"
  /\ nvic' = FALSE
  /\ UNCHANGED <<edges, exti, xSemaphoreGPIOINT, asked, unserved, early,
                 textVars, task, offset, ran, picoc>>

EXTI9_5_Clear ==
  /\ isr = "entered" /\ isr' = "cleared"
  /\ exti' = "idle"
  /\ UNCHANGED <<edges, nvic, xSemaphoreGPIOINT, asked, unserved, early,
                 textVars, task, offset, ran, picoc>>

EXTI9_5_Release_xNot ==
  /\ isr = "cleared" /\ isr' = "none"
  /\ xSemaphoreGPIOINT' = IF task = "wait" THEN 1 ELSE xSemaphoreGPIOINT
  /\ early' = (early \/ task = "boot")
  /\ UNCHANGED <<edges, exti, nvic, asked, unserved, textVars, task, offset,
                 ran, picoc>>

(* Without a semaphore osSemaphoreRelease fails, which is not looked at:   *)
(* the edge is lost, but for one that has been latched since.              *)
EXTI9_5_Release ==
  /\ isr = "cleared" /\ isr' = "none"
  /\ \/ /\ task = "boot"
        /\ early' = TRUE
        /\ unserved' = (exti = "edge")
        /\ UNCHANGED xSemaphoreGPIOINT
     \/ /\ task # "boot"
        /\ xSemaphoreGPIOINT' = 1
        /\ UNCHANGED <<early, unserved>>
  /\ UNCHANGED <<edges, exti, nvic, asked, textVars, task, offset, ran, picoc>>

EXTI9_5_IRQHandler == EXTI9_5_Enter \/ EXTI9_5_Clear \/ EXTI9_5_Release
-----------------------------------------------------------------------------
(* The semaphore is made, then the tasks, which run from then on.          *)
osSemaphoreNew ==
  /\ isr = "none"
  /\ task = "boot" /\ task' = "wait"
  /\ UNCHANGED <<pinVars, textVars, offset, ran, picoc>>

(* GPIO_INTConfig: the pin, then the interrupt.  What was latched stays.   *)
GPIO_INTConfig(enable) ==
  /\ nvic' = enable
  /\ asked' = enable
  /\ early' = FALSE
  /\ UNCHANGED <<edges, exti, isr, xSemaphoreGPIOINT, unserved>>

TasksRun == isr = "none" /\ task # "boot"
Idle(s) == TasksRun /\ copy[s] = NoCopy

CMD_cint(s, enable) ==
  /\ Idle(s)
  /\ GPIO_INTConfig(enable)
  /\ UNCHANGED <<textVars, task, offset, ran, picoc>>

(* A copy that another one, or a deletion, falls into leaves a torn text.  *)
Disturbed(r) ==
  IF copy[r] = NoCopy THEN NoCopy ELSE [copy[r] EXCEPT !.alone = FALSE]
NoneCopies == \A r \in Shells : copy[r] = NoCopy

CMD_aintDelete(s) ==
  /\ Idle(s)
  /\ texts < MaxTexts
  /\ texts' = texts + 1
  /\ intCmdBuf' = [intCmdBuf EXCEPT ![1] = NUL]
  /\ copy' = [r \in Shells |-> Disturbed(r)]
  /\ defined' = IF NoneCopies THEN <<>> ELSE Torn
  /\ steady' = FALSE
  /\ UNCHANGED <<pinVars, task, offset, ran, picoc>>

CMD_aint(s, text) ==
  /\ Idle(s)
  /\ texts < MaxTexts
  /\ texts' = texts + 1
  /\ copy' = [r \in Shells |->
                IF r = s THEN [text |-> text, done |-> 0, alone |-> NoneCopies]
                ELSE Disturbed(r)]
  /\ UNCHANGED <<intCmdBuf, defined, steady, pinVars, task, offset, ran,
                 picoc>>

Written_xNoPad(text, i) == IF i \in DOMAIN text THEN text[i] ELSE intCmdBuf[i]
Written(text, i) == IF i \in DOMAIN text THEN text[i] ELSE NUL

Last_xWhole(i) == i = BufSize
Last(i) == i = BufSize - 1

(* strncpy, one word after the other: what does not fit is cut, and all    *)
(* but the last place is filled.                                           *)
Strncpy(s) ==
  LET i == copy[s].done + 1
  IN /\ TasksRun
     /\ copy[s] # NoCopy
     /\ intCmdBuf' = [intCmdBuf EXCEPT ![i] = Written(copy[s].text, i)]
     /\ copy' = [copy EXCEPT ![s] = IF Last(i) THEN NoCopy
                                    ELSE [@ EXCEPT !.done = i]]
     /\ defined' = IF Last(i) /\ copy[s].alone
                   THEN SubSeq(copy[s].text, 1, IF Len(copy[s].text) < BufSize
                                                THEN Len(copy[s].text)
                                                ELSE BufSize - 1)
                   ELSE Torn
     /\ steady' = FALSE
     /\ UNCHANGED <<texts, pinVars, task, offset, ran, picoc>>

(* Pico-C is started or ends, or registers a handler, which stays.         *)
Script ==
  /\ TasksRun
  /\ \/ picoc' = [picoc EXCEPT !.runs = ~@]
     \/ picoc.runs /\ picoc' = [picoc EXCEPT !.handler = TRUE]
  /\ UNCHANGED <<pinVars, textVars, task, offset, ran>>

Shell(s) ==
  \/ \E enable \in BOOLEAN : CMD_cint(s, enable)
  \/ CMD_aintDelete(s)
  \/ \E text \in Texts : CMD_aint(s, text)
  \/ Strncpy(s)
  \/ Script
-----------------------------------------------------------------------------
Acquire ==
  /\ isr = "none"
  /\ task = "wait" /\ task' = "look"
  /\ xSemaphoreGPIOINT = 1
  /\ xSemaphoreGPIOINT' = 0
  /\ unserved' = FALSE
  /\ UNCHANGED <<edges, exti, nvic, isr, asked, early, textVars, offset, ran,
                 picoc>>

(* The handler of a script comes first.                                    *)
picoc_INThandler ==
  /\ isr = "none"
  /\ task = "look" /\ task' = "enable"
  /\ picoc.runs /\ picoc.handler
  /\ steady' = FALSE
  /\ UNCHANGED <<pinVars, intCmdBuf, copy, texts, defined, offset, ran, picoc>>

(* Without memory from the pool CMD_DEC_execute runs nothing.              *)
CMD_invokeAINT ==
  /\ isr = "none"
  /\ task = "look"
  /\ ~(picoc.runs /\ picoc.handler)
  /\ ran' = <<>>
  /\ offset' = 1
  /\ \/ /\ task' = IF intCmdBuf[1] = NUL THEN "enable" ELSE "execute"
        /\ steady' = (defined # Torn)
     \/ task' = "enable" /\ steady' = FALSE
  /\ UNCHANGED <<pinVars, intCmdBuf, copy, texts, defined, picoc>>

Stop(i) == intCmdBuf[i] \in {Separator, NUL}

(* One command of the text, up to the first separator or the end.          *)
Execute ==
  LET to   == CHOOSE i \in offset .. BufSize :
                Stop(i) /\ \A j \in offset .. i - 1 : ~Stop(j)
      word == SubSeq(intCmdBuf, offset, to - 1)
      more == intCmdBuf[to] = Separator
  IN /\ isr = "none"
     /\ task = "execute"
     /\ ran' = ran \o word \o (IF more THEN <<Separator>> ELSE <<>>)
     /\ task' = IF more THEN "execute" ELSE "enable"
     /\ offset' = IF more THEN to + 1 ELSE 1
     /\ IF word \in {<<"on">>, <<"off">>}
        THEN GPIO_INTConfig(word = <<"on">>)
        ELSE UNCHANGED pinVars
     /\ UNCHANGED <<textVars, picoc>>

EnableIRQ_xAsked ==
  /\ isr = "none"
  /\ task = "enable" /\ task' = "wait"
  /\ nvic' = (nvic /\ asked)
  /\ UNCHANGED <<edges, exti, isr, xSemaphoreGPIOINT, asked, unserved,
                 early, textVars, offset, ran, picoc>>

EnableIRQ ==
  /\ isr = "none"
  /\ task = "enable" /\ task' = "wait"
  /\ nvic' = TRUE
  /\ UNCHANGED <<edges, exti, isr, xSemaphoreGPIOINT, asked, unserved,
                 early, textVars, offset, ran, picoc>>

GPIOINTTask ==
  Acquire \/ picoc_INThandler \/ CMD_invokeAINT \/ Execute \/ EnableIRQ

Next ==
  \/ Edge \/ EXTI9_5_IRQHandler \/ osSemaphoreNew \/ GPIOINTTask
  \/ \E s \in Shells : Shell(s)

Spec == Init /\ [][Next]_vars

(* The interrupt and its task, which blocks no longer than a command does. *)
FairSpec == Spec /\ WF_vars(EXTI9_5_IRQHandler) /\ WF_vars(GPIOINTTask)
-----------------------------------------------------------------------------
Copies == [text : Seq(Words), done : 0 .. BufSize - 2, alone : BOOLEAN]

(* The text always ends inside its buffer, however copies, deletions and   *)
(* the task's reading interleave (cmd_dec.c:2554, 2566).                   *)
TypeOK ==
  /\ edges \in 0 .. MaxEdges
  /\ exti \in {"idle", "edge"}
  /\ nvic \in BOOLEAN
  /\ isr \in {"none", "entered", "cleared"}
  /\ xSemaphoreGPIOINT \in {0, 1}
  /\ task \in {"boot", "wait", "look", "execute", "enable"}
  /\ offset \in 1 .. BufSize
  /\ intCmdBuf \in [1 .. BufSize -> Words] /\ intCmdBuf[BufSize] = NUL
  /\ copy \in [Shells -> Copies]
  /\ texts \in 0 .. MaxTexts
  /\ picoc \in [runs : BOOLEAN, handler : BOOLEAN]
  /\ {asked, unserved, early, steady} \subseteq BOOLEAN
  /\ {defined, ran} \subseteq Seq(Words)

(* The interrupt that disables itself is enabled again: when the task has  *)
(* nothing to do and nothing is on its way to it, it is enabled if it is   *)
(* asked for (stm32h7xx_it.c:188, main.c:616, GPIO_user.c:61-66).  The     *)
(* exception is the one main leaves open: it enables the interrupt before  *)
(* there is a semaphore (main.c:181, 235), and after an edge in between it *)
(* stays disabled until the next cint.                                     *)
NeverLeftDisabled ==
  asked /\ isr = "none" /\ xSemaphoreGPIOINT = 0 /\ task \in {"boot", "wait"}
    => nvic \/ early

(* Every edge is served: by a run that starts after it, though edges while *)
(* the interrupt is disabled, or between two of its lines, share one latch *)
(* and runs share one binary semaphore.  It is lost only if the interrupt  *)
(* came before its semaphore, and then all are until the next cint.        *)
EdgesServed == unserved ~> ~unserved \/ ~asked \/ early

(* An interrupt that finds a whole text, and is not overtaken by a shell   *)
(* that writes another, runs exactly that text, not the tail of an older   *)
(* and longer one (cmd_dec.c:2552-2567, 753-800).                          *)
RunsTheText == task = "enable" /\ steady => ran = defined
=============================================================================
