------------------------------- MODULE SpiBus -------------------------------
(***************************************************************************)
(* The transfers of CM7/Core/Src/SPI.c: two semaphores, the DMA of the HAL *)
(* with its completion interrupt, and the chip select.  Several tasks call *)
(* SPI_TransmitReceive and SPI_SetConfig at any time; a step of the model  *)
(* ends where the task can block or be overtaken.                          *)
(***************************************************************************)
EXTENDS SpiClock

CONSTANTS
  Tasks,         \* the tasks that use the bus
  Shells,        \* those that run command lines
  TotalLen,      \* SPI_TOTAL_LEN, the largest 16 bit DMA length
  Lens,          \* the transfer lengths asked for
  HwNss,         \* the values of CFG_SPI_CFG_HWNSS at power-on
  Early          \* CFG_SPI_CFG_EARLY

ASSUME ShellsAssumption == Shells \subseteq Tasks
ASSUME TotalLenAssumption == TotalLen \in Nat \ {0}
ASSUME LensAssumption == Lens \subseteq Nat
ASSUME HwNssAssumption == HwNss \subseteq BOOLEAN
ASSUME EarlyAssumption == Early \in BOOLEAN

VARIABLES
  pc,            \* [Tasks -> where in the call a task is]
  len,           \* [Tasks -> the length of its call]
  rest,          \* [Tasks -> remLen]
  moved,         \* [Tasks -> bytes the DMA has moved for its call]
  semSPI2,       \* the count of xSemaphoreSPI2
  semSPI2Rx,     \* the count of xSemaphoreSPI2Rx
  dma,           \* the transfer in progress; its state is hspi2.State
  hwnss,         \* CFG_SPI_CFG_HWNSS
  nss            \* the mode and the output level of the NSS pin

busVars == <<pc, len, rest, moved, semSPI2, semSPI2Rx, dma, hwnss, nss>>
vars == <<busVars, clockVars>>

NoTask == "none"
Ready == [task |-> NoTask, size |-> 0]
IsReady == dma = Ready

Goto(t, where) == pc' = [pc EXCEPT ![t] = where]

(* Between two calls, all a caller leaves behind is forgotten.             *)
Forget(t) ==
  /\ len' = [len EXCEPT ![t] = 0]
  /\ rest' = [rest EXCEPT ![t] = 0]
  /\ moved' = [moved EXCEPT ![t] = 0]

Init ==
  /\ ClockInit
  /\ pc = [t \in Tasks |-> "idle"]
  /\ len = [t \in Tasks |-> 0]
  /\ rest = [t \in Tasks |-> 0]
  /\ moved = [t \in Tasks |-> 0]
  /\ semSPI2 = 1
  /\ semSPI2Rx = 0
  /\ dma = Ready
  /\ hwnss \in HwNss
  /\ nss = [mode |-> IF hwnss THEN "AF" ELSE "GPIO", level |-> 1]

(* A command line or a binary network request has its bytes ready.         *)
Fill(t, l) ==
  /\ started
  /\ pc[t] = "idle"
  /\ len' = [len EXCEPT ![t] = l]
  /\ Goto(t, "filled")
  /\ UNCHANGED <<rest, moved, semSPI2, semSPI2Rx, dma, hwnss, nss, clockVars>>

(* Queued network requests (0x03) write the pin low before they have the   *)
(* bus; the pin shows it only while it is an output.                       *)
SelectEarly(t) ==
  /\ Early
  /\ t \notin Shells
  /\ pc[t] = "filled"
  /\ nss' = [nss EXCEPT !.level = 0]
  /\ UNCHANGED <<pc, len, rest, moved, semSPI2, semSPI2Rx, dma, hwnss,
                 clockVars>>

Acquire(t) ==
  /\ pc[t] = "filled"
  /\ semSPI2 = 1
  /\ semSPI2' = 0
  /\ Goto(t, "acquired")
  /\ UNCHANGED <<len, rest, moved, semSPI2Rx, dma, hwnss, nss, clockVars>>

(* HAL_SPI_TransmitReceive_DMA: its result is ignored, so a call it        *)
(* refuses is one that never completes.                                    *)
HAL_SPI_TransmitReceive_DMA(t, size) ==
  IF IsReady /\ size # 0
  THEN dma' = [task |-> t, size |-> size]
  ELSE UNCHANGED dma

SPI_SWNSSAssert   == nss' = [mode |-> "GPIO", level |-> 0]
SPI_SWNSSDeassert == nss' = [mode |-> "AF", level |-> 1]

StartFirst_xNoNss(t) ==
  LET remLen == IF len[t] > TotalLen THEN len[t] - TotalLen ELSE 0
  IN /\ pc[t] = "acquired"
     /\ rest' = [rest EXCEPT ![t] = remLen]
     /\ HAL_SPI_TransmitReceive_DMA(t, len[t] - remLen)
     /\ Goto(t, IF remLen # 0 THEN "first" ELSE "last")
     /\ UNCHANGED <<len, moved, semSPI2, semSPI2Rx, hwnss, nss, clockVars>>

(* A transfer too long for one DMA holds the chip select by hand.          *)
StartFirst(t) ==
  LET remLen == IF len[t] > TotalLen THEN len[t] - TotalLen ELSE 0
  IN /\ pc[t] = "acquired"
     /\ rest' = [rest EXCEPT ![t] = remLen]
     /\ IF hwnss /\ remLen # 0 THEN SPI_SWNSSAssert ELSE UNCHANGED nss
     /\ HAL_SPI_TransmitReceive_DMA(t, len[t] - remLen)
     /\ Goto(t, IF remLen # 0 THEN "first" ELSE "last")
     /\ UNCHANGED <<len, moved, semSPI2, semSPI2Rx, hwnss, clockVars>>

StartRest_xNoWait(t) ==
  /\ pc[t] = "first"
  /\ HAL_SPI_TransmitReceive_DMA(t, rest[t] % (TotalLen + 1))
  /\ Goto(t, "last")
  /\ UNCHANGED <<len, rest, moved, semSPI2, semSPI2Rx, hwnss, nss, clockVars>>

StartRest_xShort(t) ==
  /\ pc[t] = "first"
  /\ semSPI2Rx = 1
  /\ semSPI2Rx' = 0
  /\ HAL_SPI_TransmitReceive_DMA(t, rest[t] % TotalLen)
  /\ Goto(t, "last")
  /\ UNCHANGED <<len, rest, moved, semSPI2, hwnss, nss, clockVars>>

(* The rest of a long transfer, its length cast to uint16_t.               *)
StartRest(t) ==
  /\ pc[t] = "first"
  /\ semSPI2Rx = 1
  /\ semSPI2Rx' = 0
  /\ HAL_SPI_TransmitReceive_DMA(t, rest[t] % (TotalLen + 1))
  /\ Goto(t, "last")
  /\ UNCHANGED <<len, rest, moved, semSPI2, hwnss, nss, clockVars>>

WaitLast_xNoToken(t) ==
  /\ pc[t] = "last"
  /\ Goto(t, "moved")
  /\ UNCHANGED <<len, rest, moved, semSPI2, semSPI2Rx, dma, hwnss,
                 nss, clockVars>>

WaitLast(t) ==
  /\ pc[t] = "last"
  /\ semSPI2Rx = 1
  /\ semSPI2Rx' = 0
  /\ Goto(t, "moved")
  /\ UNCHANGED <<len, rest, moved, semSPI2, dma, hwnss, nss, clockVars>>

(* The chip select follows the configuration as it is now.                 *)
Release(t) ==
  /\ pc[t] = "moved"
  /\ IF ~hwnss THEN nss' = [nss EXCEPT !.level = 1]
     ELSE IF rest[t] # 0 THEN SPI_SWNSSDeassert ELSE UNCHANGED nss
  /\ semSPI2' = 1
  /\ Forget(t)
  /\ Goto(t, "idle")
  /\ UNCHANGED <<semSPI2Rx, dma, hwnss, clockVars>>

(* The interrupt: the state is READY again, then the callback releases the *)
(* second semaphore, whose count is at most one.                           *)
HAL_SPI_TxRxCpltCallback ==
  /\ ~IsReady
  /\ dma' = Ready
  /\ moved' = [moved EXCEPT ![dma.task] = @ + dma.size]
  /\ semSPI2Rx' = 1
  /\ UNCHANGED <<pc, len, rest, semSPI2, hwnss, nss, clockVars>>

(* StartUARTTask has created the semaphores before it sets the clock.      *)
Boot ==
  /\ StartUARTTask
  /\ UNCHANGED busVars

ConfigAcquire(t) ==
  /\ started
  /\ t \in Shells
  /\ pc[t] = "idle"
  /\ semSPI2 = 1
  /\ semSPI2' = 0
  /\ Goto(t, "config")
  /\ UNCHANGED <<len, rest, moved, semSPI2Rx, dma, hwnss, nss, clockVars>>

ConfigSet_xNoLock(t, khz) ==
  /\ pc[t] = "idle"
  /\ CMD_spiclk(khz)
  /\ UNCHANGED busVars

(* PLL2 is stopped and the peripheral set up again with the mutex held.    *)
ConfigSet(t, khz) ==
  /\ pc[t] = "config"
  /\ CMD_spiclk(khz)
  /\ semSPI2' = 1
  /\ Goto(t, "idle")
  /\ UNCHANGED <<len, rest, moved, semSPI2Rx, dma, hwnss, nss>>

(* A reset, at any time; the backup registers keep hwnss too.              *)
BusRestart ==
  /\ Restart
  /\ pc' = [t \in Tasks |-> "idle"]
  /\ len' = [t \in Tasks |-> 0]
  /\ rest' = [t \in Tasks |-> 0]
  /\ moved' = [t \in Tasks |-> 0]
  /\ semSPI2' = 1
  /\ semSPI2Rx' = 0
  /\ dma' = Ready
  /\ nss' = [mode |-> IF hwnss THEN "AF" ELSE "GPIO", level |-> 1]
  /\ UNCHANGED hwnss

Step(t) ==
  \/ Acquire(t)
  \/ StartFirst(t)
  \/ StartRest(t)
  \/ WaitLast(t)
  \/ Release(t)
  \/ \E khz \in Freqs : ConfigSet(t, khz)

Next ==
  \/ Boot
  \/ \E t \in Tasks :
       \/ \E l \in Lens : Fill(t, l)
       \/ Step(t)
       \/ SelectEarly(t)
       \/ ConfigAcquire(t)
  \/ HAL_SPI_TxRxCpltCallback
  \/ BusRestart

Spec == Init /\ [][Next]_vars

(* A task that can run does, and a transfer the DMA accepted completes.    *)
FairSpec ==
  /\ Spec
  /\ \A t \in Tasks : WF_vars(Step(t))
  /\ WF_vars(HAL_SPI_TxRxCpltCallback)
-----------------------------------------------------------------------------
Holders == {t \in Tasks :
              pc[t] \in {"acquired", "first", "last", "moved", "config"}}

(* The types of the state, with counts of binary semaphores.               *)
BusTypeOK ==
  /\ pc \in [Tasks -> {"idle", "filled", "acquired", "first", "last", "moved",
                       "config"}]
  /\ len \in [Tasks -> Lens \cup {0}]
  /\ rest \in [Tasks -> Nat]
  /\ moved \in [Tasks -> Nat]
  /\ semSPI2 \in {0, 1}
  /\ semSPI2Rx \in {0, 1}
  /\ dma \in {Ready} \cup [task : Tasks, size : 1 .. TotalLen]
  /\ hwnss \in BOOLEAN
  /\ nss \in [mode : {"AF", "GPIO"}, level : {0, 1}]
TypeOK == ClockTypeOK /\ BusTypeOK

(* The bus is one task's or nobody's, and when it is nobody's no DMA runs  *)
(* and no completion is left over that the next caller would take for the  *)
(* end of its own transfer.                                                *)
BusExclusive ==
  /\ \A t, u \in Holders : t = u
  /\ semSPI2 = 1 <=> Holders = {}
  /\ semSPI2 = 1 => IsReady /\ semSPI2Rx = 0

(* A call returns when exactly the bytes it was asked for have been moved, *)
(* those beyond SPI_TOTAL_LEN included.                                    *)
WholeTransfer == \A t \in Tasks : pc[t] = "moved" => moved[t] = len[t]

(* The clock does not change under a running transfer: "we should actually *)
(* make sure the SPIs are not in use!" (SPI.c:535).  A reset may end it.   *)
ClockStableInTransfer ==
  [][IsReady \/ ~started' \/ UNCHANGED <<divN2, sSPIdivider, prescaler>>]_vars

(* In a transfer of two parts the device stays selected from before the    *)
(* first byte to after the last one, and the chip select is left to the    *)
(* peripheral again before another task gets the bus.                      *)
SelectedThroughout ==
  /\ \A t \in Tasks :
       hwnss /\ pc[t] \in {"first", "last"} /\ rest[t] # 0
         => nss = [mode |-> "GPIO", level |-> 0]
  /\ hwnss /\ semSPI2 = 1 => nss.mode = "AF"

(* Whoever gets the bus gives it back.                                     *)
BusReturned == semSPI2 = 0 ~> semSPI2 = 1
=============================================================================
