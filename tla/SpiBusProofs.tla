---------------------------- MODULE SpiBusProofs ----------------------------
(***************************************************************************)
(* Theorems about SpiBus: for any number of tasks, any requested frequency *)
(* and any length of transfer.                                             *)
(*                                                                         *)
(* The bus needs one invariant that ties the two semaphores, the DMA and   *)
(* the places of the tasks together, one about the NSS pin, one that       *)
(* counts bytes, and one that ties the PLL and the divider to the saved    *)
(* bitrate.  The arithmetic of SPI_SetConfig comes first: within one       *)
(* divider the clock grows with DIVN2, and the clocks at the ends of the   *)
(* ranges of two neighbouring dividers do not cross.                       *)
(***************************************************************************)
EXTENDS SpiBus, TLAPS

Dividers == {2, 4, 8, 16, 32, 64, 128}

(* The clock SPI_SetConfig makes of a frequency.                           *)
ClockFor(khz) == SPI_GetClock(DivN2(khz, Divider(khz)), Divider(khz))

(* The lowest and the highest clock of a divider.                          *)
Lowest(d) ==
  IF d = 128 THEN 77 ELSE IF d = 64 THEN 1880 ELSE IF d = 32 THEN 3760
  ELSE IF d = 16 THEN 7520 ELSE IF d = 8 THEN 15039 ELSE IF d = 4 THEN 30078
  ELSE 60156
Highest(d) ==
  IF d = 128 THEN 1872 ELSE IF d = 64 THEN 3743 ELSE IF d = 32 THEN 7503
  ELSE IF d = 16 THEN 15007 ELSE IF d = 8 THEN 30013 ELSE IF d = 4 THEN 60026
  ELSE 120052

(* The frequencies that are left after clamping.                           *)
InRange(f) == f \in Nat /\ f >= 74 /\ f <= 119792

LEMMA ClampedRange == ASSUME NEW khz \in Int PROVE InRange(Clamp(khz))
<1>1. CASE khz < 74
  BY <1>1 DEF Clamp, Top, InRange
<1>2. CASE khz > 119792
  BY <1>2 DEF Clamp, Top, InRange
<1>3. CASE khz >= 74 /\ khz <= 119792
  BY <1>3 DEF Clamp, Top, InRange
<1> QED
  BY <1>1, <1>2, <1>3

LEMMA DividerType == ASSUME NEW f \in Int PROVE Divider(f) \in Dividers
BY DEF Divider, Dividers, Top

LEMMA PrescalerIsDivider ==
  ASSUME NEW d \in Dividers PROVE Prescaler(d) = d
BY DEF Prescaler, Dividers

(* The ranges of the table.                                                *)
LEMMA Ranges ==
  ASSUME NEW f \in Nat, InRange(f)
  PROVE  \/ f <= 1871 /\ Divider(f) = 128
         \/ f >= 1872 /\ f <= 3743 /\ Divider(f) = 64
         \/ f >= 3744 /\ f <= 7487 /\ Divider(f) = 32
         \/ f >= 7488 /\ f <= 14974 /\ Divider(f) = 16
         \/ f >= 14975 /\ f <= 29948 /\ Divider(f) = 8
         \/ f >= 29949 /\ f <= 59896 /\ Divider(f) = 4
         \/ f >= 59897 /\ Divider(f) = 2
<1>1. 29948 \div 16 = 1871 /\ 29948 \div 8 = 3743 /\ 29948 \div 4 = 7487
        /\ 29948 \div 2 = 14974
  OBVIOUS
<1> QED
  BY <1>1 DEF Divider, Top

(* The clocks of a divider lie between its lowest and its highest.         *)
LEMMA ClockBounds ==
  ASSUME NEW f \in Nat, InRange(f)
  PROVE  /\ ClockFor(f) \in Nat
         /\ Lowest(Divider(f)) <= ClockFor(f)
         /\ ClockFor(f) <= Highest(Divider(f))
<1> USE DEF DivN2, ClockFor, SPI_GetClock, Lowest, Highest,
            Xtal, P2, PLL_DIVM2, InRange
<1>1. CASE f >= 74 /\ f <= 1871 /\ Divider(f) = 128
  BY <1>1
<1>2. CASE f >= 1872 /\ f <= 3743 /\ Divider(f) = 64
  BY <1>2
<1>3. CASE f >= 3744 /\ f <= 7487 /\ Divider(f) = 32
  BY <1>3
<1>4. CASE f >= 7488 /\ f <= 14974 /\ Divider(f) = 16
  BY <1>4
<1>5. CASE f >= 14975 /\ f <= 29948 /\ Divider(f) = 8
  BY <1>5
<1>6. CASE f >= 29949 /\ f <= 59896 /\ Divider(f) = 4
  BY <1>6
<1>7. CASE f >= 59897 /\ f <= 119792 /\ Divider(f) = 2
  BY <1>7
<1> HIDE DEF DivN2, ClockFor, SPI_GetClock, Lowest, Highest
<1> QED
  BY <1>1, <1>2, <1>3, <1>4, <1>5, <1>6, <1>7, Ranges

(* A DIVN2 that its field can hold, and a clock that is the frequency or   *)
(* at most one step above it.                                              *)
LEMMA ClockOf ==
  ASSUME NEW f \in Nat, InRange(f)
  PROVE  /\ DivN2(f, Divider(f)) \in 4 .. 512
         /\ f <= ClockFor(f)
         /\ ClockFor(f) <= f + StepKHz(Divider(f))
<1> USE DEF DivN2, ClockFor, SPI_GetClock, StepKHz, Xtal, P2, PLL_DIVM2,
            InRange
<1>1. CASE f >= 74 /\ f <= 1871 /\ Divider(f) = 128
  BY <1>1
<1>2. CASE f >= 1872 /\ f <= 3743 /\ Divider(f) = 64
  BY <1>2
<1>3. CASE f >= 3744 /\ f <= 7487 /\ Divider(f) = 32
  BY <1>3
<1>4. CASE f >= 7488 /\ f <= 14974 /\ Divider(f) = 16
  BY <1>4
<1>5. CASE f >= 14975 /\ f <= 29948 /\ Divider(f) = 8
  BY <1>5
<1>6. CASE f >= 29949 /\ f <= 59896 /\ Divider(f) = 4
  BY <1>6
<1>7. CASE f >= 59897 /\ f <= 119792 /\ Divider(f) = 2
  BY <1>7
<1> HIDE DEF DivN2, ClockFor, SPI_GetClock, StepKHz
<1> QED
  BY <1>1, <1>2, <1>3, <1>4, <1>5, <1>6, <1>7, Ranges

(* A higher frequency never makes a slower clock.                          *)
LEMMA Monotone ==
  ASSUME NEW d \in Dividers, NEW f \in Nat, NEW g \in Nat, f <= g
  PROVE  SPI_GetClock(DivN2(f, d), d) <= SPI_GetClock(DivN2(g, d), d)
BY DEF Dividers, SPI_GetClock, DivN2, Xtal, P2, PLL_DIVM2

LEMMA ClockGrows ==
  ASSUME NEW f \in Nat, InRange(f), NEW g \in Nat, InRange(g), f <= g
  PROVE  ClockFor(f) <= ClockFor(g)
<1>0. Divider(f) \in Dividers
  BY DividerType
<1>1. CASE Divider(f) = Divider(g)
  BY <1>0, <1>1, Monotone DEF ClockFor
<1>2. CASE Divider(f) # Divider(g)
  <2>1. Divider(g) < Divider(f) /\ Divider(g) \in Dividers
          /\ Divider(f) \in Dividers
    BY <1>2, Ranges DEF Dividers
  <2>2. Highest(Divider(f)) < Lowest(Divider(g))
    BY <2>1 DEF Highest, Lowest, Dividers
  <2>3. Highest(Divider(f)) \in Int /\ Lowest(Divider(g)) \in Int
    BY DEF Highest, Lowest
  <2> QED
    BY <2>2, <2>3, ClockBounds
<1> QED
  BY <1>1, <1>2
-----------------------------------------------------------------------------
(* The peripheral divides by sSPIdivider, and once StartUARTTask has run   *)
(* the PLL and the divider are those of the saved bitrate.                 *)
ClockInv ==
  /\ ClockTypeOK
  /\ prescaler = sSPIdivider
  /\ started => /\ sSPIdivider = Divider(Clamp(bitrate))
                /\ divN2 = DivN2(Clamp(bitrate), Divider(Clamp(bitrate)))

LEMMA BitrateType == ASSUME ClockTypeOK PROVE bitrate \in Int
<1>1. bitrate \in Freqs => bitrate \in Int
  BY FreqsAssumption
<1> QED
  BY <1>1 DEF ClockTypeOK

LEMMA ClockInitial == ASSUME ClockInit PROVE ClockInv
<1>1. Prescaler(128) = 128
  BY DEF Prescaler
<1>2. /\ divN2 \in 4 .. 512
      /\ sSPIdivider = 128 /\ prescaler = 128
      /\ bitrate \in Freqs \cup {10000}
  BY <1>1 DEF ClockInit
<1>3. started \in BOOLEAN
  BY DEF ClockInit
<1>4. prescaler = sSPIdivider /\ ~started
  BY <1>1 DEF ClockInit
<1> QED
  BY <1>2, <1>3, <1>4 DEF ClockInv, ClockTypeOK

LEMMA ClockReset == ASSUME ClockInv, Restart PROVE ClockInv'
<1>1. Prescaler(128) = 128
  BY DEF Prescaler
<1>2. /\ divN2' \in 4 .. 512
      /\ sSPIdivider' = 128 /\ prescaler' = 128
      /\ bitrate' \in Freqs \cup {10000}
  BY <1>1 DEF Restart, ClockInv, ClockTypeOK
<1>3. started' \in BOOLEAN
  BY DEF Restart
<1>4. prescaler' = sSPIdivider' /\ ~started'
  BY <1>1 DEF Restart
<1> QED
  BY <1>2, <1>3, <1>4 DEF ClockInv, ClockTypeOK

LEMMA SetConfig ==
  ASSUME ClockInv, NEW khz \in Freqs \cup {10000}, SPI_SetConfig(khz),
         started' \in BOOLEAN
  PROVE  ClockInv'
<1>1. khz \in Int
  <2>1. khz \in Freqs => khz \in Int
    BY FreqsAssumption
  <2> QED
    BY <2>1
<1> DEFINE f == Clamp(khz)
           d == Divider(f)
           n == DivN2(f, d)
<1>2. f \in Nat /\ InRange(f)
  BY <1>1, ClampedRange DEF InRange
<1>3. d \in Dividers /\ n \in 4 .. 512
  BY <1>2, DividerType, ClockOf
<1>4. /\ divN2' = ((n - 1) % 512) + 1
      /\ IF d # sSPIdivider
         THEN sSPIdivider' = d /\ prescaler' = Prescaler(d)
         ELSE UNCHANGED <<sSPIdivider, prescaler>>
      /\ bitrate' = khz
  BY DEF SPI_SetConfig, SPI_PLLConfig
<1> HIDE DEF f, d, n
<1>5. (n - 1) % 512 = n - 1
  BY <1>3
<1>6. divN2' = n
  BY <1>3, <1>4, <1>5
<1>7. sSPIdivider' = d /\ prescaler' = d
  BY <1>3, <1>4, PrescalerIsDivider DEF ClockInv
<1>8. ClockTypeOK'
  BY <1>3, <1>4, <1>6, <1>7 DEF ClockTypeOK, Dividers
<1> QED
  BY <1>4, <1>6, <1>7, <1>8 DEF ClockInv, f, d, n

LEMMA ClockIsFor ==
  ASSUME ClockInv, started
  PROVE  Clock = ClockFor(Clamp(bitrate))
BY DEF ClockInv, Clock, ClockFor
-----------------------------------------------------------------------------

Holds(t) == pc[t] \in {"acquired", "first", "last", "moved", "config"}
Transfers(t) == pc[t] \in {"first", "last"}

(* At most one task is behind the mutex, a DMA runs only for one that      *)
(* waits for it, and a completion is pending only while one waits.         *)
OneHolder ==
  /\ \A t, u \in Tasks : Holds(t) /\ Holds(u) => t = u
  /\ semSPI2 = 1 <=> \A t \in Tasks : ~Holds(t)
OneTransfer ==
  /\ ~IsReady => Transfers(dma.task) /\ semSPI2Rx = 0
  /\ semSPI2Rx = 1 => \E t \in Tasks : Transfers(t)
IdleBeforeStart == ~started => \A t \in Tasks : pc[t] = "idle"

BusInv == BusTypeOK /\ OneHolder /\ OneTransfer /\ IdleBeforeStart
-----------------------------------------------------------------------------
Places == {"idle", "filled", "acquired", "first", "last", "moved", "config"}
Transfer == [task : Tasks, size : 1 .. TotalLen]

(* A transfer in progress is one of a task, with a length the DMA takes.   *)
LEMMA DmaType ==
  ASSUME BusTypeOK, ~IsReady
  PROVE  dma \in Transfer /\ dma.task \in Tasks /\ dma.size \in 1 .. TotalLen
BY DEF BusTypeOK, IsReady, Transfer

LEMMA LengthType ==
  ASSUME BusTypeOK, NEW t \in Tasks
  PROVE  len[t] \in Nat
<1>1. len[t] \in Lens \/ len[t] = 0
  BY DEF BusTypeOK
<1>2. len[t] \in Lens => len[t] \in Nat
  BY LensAssumption
<1> QED
  BY <1>1, <1>2

(* The HAL starts a transfer or leaves everything as it was.               *)
LEMMA StartedDma ==
  ASSUME NEW t \in Tasks, NEW size \in 0 .. TotalLen, BusTypeOK,
         HAL_SPI_TransmitReceive_DMA(t, size)
  PROVE  /\ dma' \in {Ready} \cup Transfer
         /\ dma' = dma \/ dma' = [task |-> t, size |-> size]
BY TotalLenAssumption
   DEF HAL_SPI_TransmitReceive_DMA, BusTypeOK, Transfer

(* The first part is what one DMA can move, the second what the 16 bits    *)
(* of its length keep of the rest.                                         *)
LEMMA Parts ==
  ASSUME NEW l \in Nat
  PROVE  LET remLen == IF l > TotalLen THEN l - TotalLen ELSE 0
         IN remLen \in Nat /\ l - remLen \in 0 .. TotalLen
                /\ l % (TotalLen + 1) \in 0 .. TotalLen
BY TotalLenAssumption

LEMMA BusInit == ASSUME Init PROVE BusInv
<1>1. BusTypeOK
  BY HwNssAssumption DEF Init, BusTypeOK
<1>2. \A t \in Tasks : pc[t] = "idle"
  BY DEF Init
<1> QED
  BY <1>1, <1>2
     DEF Init, BusInv, OneHolder, Holds, OneTransfer, IsReady, IdleBeforeStart

LEMMA BusTypeStep == ASSUME BusTypeOK, [Next]_vars PROVE BusTypeOK'
<1> USE DEF BusTypeOK
<1>1. CASE Boot
  BY <1>1 DEF Boot, busVars
<1>2. ASSUME NEW t \in Tasks, NEW l \in Lens, Fill(t, l) PROVE BusTypeOK'
  BY <1>2 DEF Fill, Goto
<1>3. ASSUME NEW t \in Tasks, SelectEarly(t) PROVE BusTypeOK'
  BY <1>3 DEF SelectEarly
<1>4. ASSUME NEW t \in Tasks, Acquire(t) PROVE BusTypeOK'
  BY <1>4 DEF Acquire, Goto
<1>5. ASSUME NEW t \in Tasks, StartFirst(t) PROVE BusTypeOK'
  <2> DEFINE remLen == IF len[t] > TotalLen THEN len[t] - TotalLen ELSE 0
  <2>1. len[t] \in Nat
    BY LengthType
  <2>2. remLen \in Nat /\ len[t] - remLen \in 0 .. TotalLen
    BY <2>1, Parts
  <2>3. /\ rest' = [rest EXCEPT ![t] = remLen]
        /\ HAL_SPI_TransmitReceive_DMA(t, len[t] - remLen)
        /\ IF hwnss /\ remLen # 0 THEN SPI_SWNSSAssert ELSE UNCHANGED nss
        /\ pc' = [pc EXCEPT ![t] = IF remLen # 0 THEN "first" ELSE "last"]
        /\ UNCHANGED <<len, moved, semSPI2, semSPI2Rx, hwnss>>
    BY <1>5 DEF StartFirst, Goto
  <2> HIDE DEF remLen
  <2>4. dma' \in {Ready} \cup Transfer
    BY <2>2, <2>3, StartedDma
  <2>5. nss' \in [mode : {"AF", "GPIO"}, level : {0, 1}]
    BY <2>3 DEF SPI_SWNSSAssert
  <2>6. pc' \in [Tasks -> Places] /\ rest' \in [Tasks -> Nat]
    BY <2>2, <2>3 DEF Places
  <2> QED
    BY <2>3, <2>4, <2>5, <2>6 DEF Transfer, Places
<1>6. ASSUME NEW t \in Tasks, StartRest(t) PROVE BusTypeOK'
  <2>1. rest[t] % (TotalLen + 1) \in 0 .. TotalLen
    BY Parts
  <2>2. dma' \in {Ready} \cup Transfer
    BY <1>6, <2>1, StartedDma DEF StartRest
  <2> QED
    BY <1>6, <2>2 DEF StartRest, Goto, Transfer
<1>7. ASSUME NEW t \in Tasks, WaitLast(t) PROVE BusTypeOK'
  BY <1>7 DEF WaitLast, Goto
<1>8. ASSUME NEW t \in Tasks, Release(t) PROVE BusTypeOK'
  <2>1. nss' \in [mode : {"AF", "GPIO"}, level : {0, 1}]
    BY <1>8 DEF Release, SPI_SWNSSDeassert
  <2> QED
    BY <1>8, <2>1 DEF Release, Goto, Forget
<1>9. CASE HAL_SPI_TxRxCpltCallback
  <2>1. dma.task \in Tasks /\ dma.size \in Nat
    BY <1>9, DmaType DEF HAL_SPI_TxRxCpltCallback
  <2> QED
    BY <1>9, <2>1 DEF HAL_SPI_TxRxCpltCallback
<1>10. ASSUME NEW t \in Tasks, ConfigAcquire(t) PROVE BusTypeOK'
  BY <1>10 DEF ConfigAcquire, Goto
<1>11. ASSUME NEW t \in Tasks, NEW khz \in Freqs, ConfigSet(t, khz)
       PROVE BusTypeOK'
  BY <1>11 DEF ConfigSet, Goto
<1>12. CASE BusRestart
  BY <1>12 DEF BusRestart
<1>13. CASE UNCHANGED vars
  BY <1>13 DEF vars, busVars
<1> QED
  BY <1>1, <1>2, <1>3, <1>4, <1>5, <1>6, <1>7, <1>8, <1>9, <1>10, <1>11,
     <1>12, <1>13 DEF Next, Step

(* A step that moves one task and touches neither the mutex nor the DMA.   *)
LEMMA BusStep == ASSUME BusInv, [Next]_vars PROVE BusInv'
<1> USE DEF BusInv
<1>0. BusTypeOK'
  BY BusTypeStep
<1>p. pc \in [Tasks -> Places]
  BY DEF BusTypeOK, Places
<1>d. ~IsReady => dma.task \in Tasks
  BY DmaType
<1> USE DEF OneHolder, OneTransfer, IdleBeforeStart, Holds, Transfers
<1>1. CASE Boot
  BY <1>0, <1>1 DEF Boot, busVars, StartUARTTask, IsReady
<1>2. ASSUME NEW t \in Tasks, NEW l \in Lens, Fill(t, l) PROVE BusInv'
  BY <1>0, <1>p, <1>d, <1>2 DEF Fill, Goto, IsReady, clockVars
<1>3. ASSUME NEW t \in Tasks, SelectEarly(t) PROVE BusInv'
  BY <1>0, <1>3 DEF SelectEarly, IsReady, clockVars
<1>4. ASSUME NEW t \in Tasks, Acquire(t) PROVE BusInv'
  BY <1>0, <1>p, <1>d, <1>4 DEF Acquire, Goto, IsReady, clockVars
<1>5. ASSUME NEW t \in Tasks, StartFirst(t) PROVE BusInv'
  <2> DEFINE remLen == IF len[t] > TotalLen THEN len[t] - TotalLen ELSE 0
  <2>1. len[t] \in Nat
    BY LengthType
  <2>2. len[t] - remLen \in 0 .. TotalLen
    BY <2>1, Parts
  <2>3. /\ pc[t] = "acquired"
        /\ HAL_SPI_TransmitReceive_DMA(t, len[t] - remLen)
        /\ pc' = [pc EXCEPT ![t] = IF remLen # 0 THEN "first" ELSE "last"]
        /\ UNCHANGED <<semSPI2, semSPI2Rx, started>>
    BY <1>5 DEF StartFirst, Goto, clockVars
  <2>4. IsReady /\ semSPI2Rx = 0
    BY <1>p, <1>d, <2>3 DEF BusTypeOK
  <2>5. dma' = Ready \/ dma'.task = t
    BY <2>2, <2>3, <2>4, StartedDma DEF IsReady
  <2> HIDE DEF remLen
  <2>6. pc'[t] \in {"first", "last"} /\ \A u \in Tasks \ {t} : pc'[u] = pc[u]
    BY <1>p, <2>3
  <2> QED
    BY <1>0, <1>p, <2>3, <2>4, <2>5, <2>6 DEF IsReady
<1>6. ASSUME NEW t \in Tasks, StartRest(t) PROVE BusInv'
  <2>1. rest[t] % (TotalLen + 1) \in 0 .. TotalLen
    BY Parts DEF BusTypeOK
  <2>2. IsReady
    BY <1>6 DEF StartRest
  <2>3. dma' = Ready \/ dma'.task = t
    BY <1>6, <2>1, <2>2, StartedDma DEF StartRest, IsReady
  <2> QED
    BY <1>0, <1>p, <1>6, <2>3 DEF StartRest, Goto, IsReady, clockVars
<1>7. ASSUME NEW t \in Tasks, WaitLast(t) PROVE BusInv'
  BY <1>0, <1>p, <1>7 DEF WaitLast, Goto, IsReady, clockVars
<1>8. ASSUME NEW t \in Tasks, Release(t) PROVE BusInv'
  <2>1. IsReady /\ semSPI2Rx = 0
    BY <1>p, <1>d, <1>8 DEF Release, BusTypeOK
  <2> QED
    BY <1>0, <1>p, <1>8, <2>1 DEF Release, Goto, IsReady, clockVars
<1>9. CASE HAL_SPI_TxRxCpltCallback
  BY <1>0, <1>d, <1>9 DEF HAL_SPI_TxRxCpltCallback, IsReady, clockVars
<1>10. ASSUME NEW t \in Tasks, ConfigAcquire(t) PROVE BusInv'
  BY <1>0, <1>p, <1>d, <1>10 DEF ConfigAcquire, Goto, IsReady, clockVars
<1>11. ASSUME NEW t \in Tasks, NEW khz \in Freqs, ConfigSet(t, khz)
       PROVE BusInv'
  <2>1. IsReady /\ semSPI2Rx = 0
    BY <1>p, <1>d, <1>11 DEF ConfigSet, BusTypeOK
  <2> QED
    BY <1>0, <1>p, <1>11, <2>1 DEF ConfigSet, Goto, IsReady, CMD_spiclk
<1>12. CASE BusRestart
  BY <1>0, <1>12 DEF BusRestart, IsReady
<1>13. CASE UNCHANGED vars
  BY <1>0, <1>13 DEF vars, busVars, clockVars, IsReady
<1> QED
  BY <1>1, <1>2, <1>3, <1>4, <1>5, <1>6, <1>7, <1>8, <1>9, <1>10, <1>11,
     <1>12, <1>13 DEF Next, Step

LEMMA BusAlways == Spec => []BusInv
<1>1. BusInv /\ [Next]_vars => BusInv'
  BY BusStep
<1> QED
  BY BusInit, <1>1, PTL DEF Spec

(* The bus is one task's or nobody's, and what the next caller finds when  *)
(* it takes the mutex is a DMA at rest and no completion left over.        *)
THEOREM BusIsExclusive == Spec => []BusExclusive
<1>1. ASSUME BusInv PROVE BusExclusive
  <2>1. \A t \in Tasks : t \in Holders <=> Holds(t)
    BY DEF Holders, Holds
  <2>2. \A t, u \in Holders : t = u
    BY <1>1, <2>1 DEF BusInv, OneHolder, Holders
  <2>3. semSPI2 = 1 <=> Holders = {}
    BY <1>1, <2>1 DEF BusInv, OneHolder, Holders
  <2>4. \A t \in Tasks : Transfers(t) => Holds(t)
    BY DEF Transfers, Holds
  <2>5. semSPI2 = 1 => IsReady
    BY <1>1, <2>4, DmaType DEF BusInv, OneHolder, OneTransfer
  <2>6. semSPI2 = 1 => semSPI2Rx = 0
    BY <1>1, <2>4 DEF BusInv, BusTypeOK, OneHolder, OneTransfer
  <2> QED
    BY <2>2, <2>3, <2>5, <2>6 DEF BusExclusive
<1> QED
  BY <1>1, BusAlways, PTL

(* The clock stands still under a transfer: CMD_spiclk has the mutex when  *)
(* it changes PLL2, and StartUARTTask sets it before any task transfers.   *)
THEOREM ClockIsStable == Spec => ClockStableInTransfer
<1> DEFINE Stands ==
      IsReady \/ ~started' \/ UNCHANGED <<divN2, sSPIdivider, prescaler>>
<1>1. ASSUME BusInv, [Next]_vars PROVE [Stands]_vars
  <2>1. CASE UNCHANGED clockVars
    BY <2>1 DEF clockVars
  <2>2. CASE Boot
    <3>1. \A t \in Tasks : pc[t] = "idle"
      BY <1>1, <2>2 DEF Boot, StartUARTTask, BusInv, IdleBeforeStart
    <3> QED
      BY <1>1, <3>1, DmaType DEF BusInv, OneTransfer, Transfers
  <2>3. ASSUME NEW t \in Tasks, NEW khz \in Freqs, ConfigSet(t, khz)
        PROVE IsReady
    <3>1. pc[t] = "config"
      BY <2>3 DEF ConfigSet
    <3> QED
      BY <1>1, <3>1, DmaType
         DEF BusInv, OneHolder, OneTransfer, Holds, Transfers
  <2>4. CASE BusRestart
    BY <2>4 DEF BusRestart, Restart
  <2> QED
    BY <1>1, <2>1, <2>2, <2>3, <2>4
       DEF Next, Step, Fill, SelectEarly, Acquire, StartFirst, StartRest,
           WaitLast, Release, HAL_SPI_TxRxCpltCallback, ConfigAcquire, vars
<1> QED
  BY <1>1, BusAlways, PTL DEF Spec, ClockStableInTransfer
-----------------------------------------------------------------------------
(* A task with a second part to come, or behind it, holds the chip select  *)
(* by hand; otherwise the peripheral drives it.                            *)
TwoParts(t) == pc[t] \in {"first", "last", "moved"} /\ rest[t] # 0

NssInv ==
  hwnss => /\ \A t \in Tasks :
                TwoParts(t) => nss = [mode |-> "GPIO", level |-> 0]
           /\ (\A t \in Tasks : ~TwoParts(t)) => nss.mode = "AF"

LEMMA NssStep == ASSUME BusInv, NssInv, [Next]_vars PROVE NssInv'
<1> USE DEF NssInv, TwoParts
<1>p. /\ pc \in [Tasks -> Places]
      /\ rest \in [Tasks -> Nat]
      /\ nss \in [mode : {"AF", "GPIO"}, level : {0, 1}]
  BY DEF BusInv, BusTypeOK, Places
<1>h. \A t, u \in Tasks : Holds(t) /\ Holds(u) => t = u
  BY DEF BusInv, OneHolder
<1>1. CASE UNCHANGED <<nss, hwnss, pc, rest>>
  BY <1>1
<1>2. ASSUME NEW t \in Tasks,
             UNCHANGED <<nss, hwnss, rest>>,
             NEW where \in Places, pc' = [pc EXCEPT ![t] = where],
             TwoParts(t) <=> where \in {"first", "last", "moved"} /\ rest[t] # 0
      PROVE  NssInv'
  BY <1>p, <1>2
<1>3. ASSUME NEW t \in Tasks, SelectEarly(t) PROVE NssInv'
  BY <1>p, <1>3 DEF SelectEarly
<1>5. ASSUME NEW t \in Tasks, StartFirst(t) PROVE NssInv'
  <2> DEFINE remLen == IF len[t] > TotalLen THEN len[t] - TotalLen ELSE 0
  <2>1. /\ pc[t] = "acquired"
        /\ rest' = [rest EXCEPT ![t] = remLen]
        /\ IF hwnss /\ remLen # 0 THEN SPI_SWNSSAssert ELSE UNCHANGED nss
        /\ pc' = [pc EXCEPT ![t] = IF remLen # 0 THEN "first" ELSE "last"]
        /\ UNCHANGED hwnss
    BY <1>5 DEF StartFirst, Goto
  <2> HIDE DEF remLen
  <2>2. \A u \in Tasks : ~TwoParts(u)
    BY <1>h, <2>1 DEF Holds
  <2>3. \A u \in Tasks \ {t} : pc'[u] = pc[u] /\ rest'[u] = rest[u]
    BY <1>p, <2>1
  <2>4. rest'[t] = remLen /\ pc'[t] \in {"first", "last"}
    BY <1>p, <2>1
  <2> QED
    BY <2>1, <2>2, <2>3, <2>4 DEF SPI_SWNSSAssert
<1>8. ASSUME NEW t \in Tasks, Release(t) PROVE NssInv'
  <2>1. \A u \in Tasks \ {t} : ~TwoParts(u)
    BY <1>h, <1>8 DEF Holds, Release
  <2>2. \A u \in Tasks : pc'[u] = IF u = t THEN "idle" ELSE pc[u]
    BY <1>p, <1>8 DEF Release, Goto
  <2>3. \A u \in Tasks : rest'[u] = IF u = t THEN 0 ELSE rest[u]
    BY <1>p, <1>8 DEF Release, Forget
  <2>4. \A u \in Tasks : ~TwoParts(u)'
    BY <2>1, <2>2, <2>3
  <2>5. hwnss => nss'.mode = "AF"
    BY <1>8, <2>1 DEF Release, SPI_SWNSSDeassert
  <2> QED
    BY <1>8, <2>4, <2>5 DEF Release
<1>12. CASE BusRestart
  BY <1>12 DEF BusRestart
<1>13. ASSUME NEW t \in Tasks,
              \/ \E l \in Lens : Fill(t, l)
              \/ Acquire(t)
              \/ StartRest(t)
              \/ WaitLast(t)
              \/ ConfigAcquire(t)
              \/ \E khz \in Freqs : ConfigSet(t, khz)
       PROVE  NssInv'
  <2>1. ASSUME NEW l \in Lens, Fill(t, l) PROVE NssInv'
    BY <1>2, <2>1 DEF Fill, Goto, Places
  <2>2. CASE Acquire(t)
    BY <1>2, <2>2 DEF Acquire, Goto, Places
  <2>3. CASE StartRest(t)
    BY <1>2, <2>3 DEF StartRest, Goto, Places
  <2>4. CASE WaitLast(t)
    BY <1>2, <2>4 DEF WaitLast, Goto, Places
  <2>5. CASE ConfigAcquire(t)
    BY <1>2, <2>5 DEF ConfigAcquire, Goto, Places
  <2>6. ASSUME NEW khz \in Freqs, ConfigSet(t, khz) PROVE NssInv'
    BY <1>2, <2>6 DEF ConfigSet, Goto, Places
  <2> QED
    BY <1>13, <2>1, <2>2, <2>3, <2>4, <2>5, <2>6
<1> QED
  BY <1>1, <1>3, <1>5, <1>8, <1>12, <1>13
     DEF Next, Step, Boot, HAL_SPI_TxRxCpltCallback, vars, busVars

(* In a transfer of two parts the device stays selected from before the    *)
(* first byte to after the last one, and the chip select is back with the  *)
(* peripheral when the mutex is free.                                      *)
THEOREM DeviceStaysSelected == Spec => []SelectedThroughout
<1>1. Init => NssInv
  BY DEF Init, NssInv, TwoParts
<1>2. BusInv /\ NssInv /\ [Next]_vars => NssInv'
  BY NssStep
<1>3. BusInv /\ NssInv => SelectedThroughout
  BY DEF BusInv, OneHolder, Holds, NssInv, TwoParts, SelectedThroughout
<1> QED
  BY <1>1, <1>2, <1>3, BusAlways, PTL DEF Spec
-----------------------------------------------------------------------------
(* The bytes moved for a call and those still to come make up its length,  *)
(* when no call is longer than two DMA transfers can carry: the length of  *)
(* the second one is cast to 16 bits.                                      *)
ShortEnough == \A l \in Lens : l <= 2 * TotalLen

Behind(t, n) == IF ~IsReady /\ dma.task = t THEN moved[t] + dma.size = n
                ELSE semSPI2Rx = 1 => moved[t] = n

CountInv ==
  \A t \in Tasks :
    /\ pc[t] \in {"idle", "filled", "acquired"} => moved[t] = 0
    /\ pc[t] = "first" =>
         /\ rest[t] \in 1 .. TotalLen
         /\ len[t] = TotalLen + rest[t]
         /\ Behind(t, TotalLen)
    /\ pc[t] = "last" => Behind(t, len[t])
    /\ pc[t] = "moved" => moved[t] = len[t]
    /\ pc[t] = "config" => moved[t] = 0

LEMMA CountStep ==
  ASSUME ShortEnough, BusInv, CountInv, [Next]_vars
  PROVE  CountInv'
<1>p. /\ pc \in [Tasks -> Places]
      /\ len \in [Tasks -> Lens \cup {0}]
      /\ rest \in [Tasks -> Nat]
      /\ moved \in [Tasks -> Nat]
  BY DEF BusInv, BusTypeOK, Places
<1>h. \A t, u \in Tasks : Holds(t) /\ Holds(u) => t = u
  BY DEF BusInv, OneHolder
<1>r. semSPI2Rx = 1 => IsReady
  BY DEF BusInv, OneTransfer
<1> DEFINE Counted(t) ==
      /\ pc[t] \in {"idle", "filled", "acquired"} => moved[t] = 0
      /\ pc[t] = "first" =>
           /\ rest[t] \in 1 .. TotalLen
           /\ len[t] = TotalLen + rest[t]
           /\ Behind(t, TotalLen)
      /\ pc[t] = "last" => Behind(t, len[t])
      /\ pc[t] = "moved" => moved[t] = len[t]
      /\ pc[t] = "config" => moved[t] = 0
<1>c. \A t \in Tasks : Counted(t)
  BY DEF CountInv
<1> SUFFICES ASSUME NEW u \in Tasks PROVE Counted(u)'
  BY DEF CountInv
<1>1. CASE UNCHANGED <<pc, len, rest, moved, semSPI2Rx, dma>>
  BY <1>c, <1>1 DEF Behind, IsReady
<1>2. ASSUME NEW t \in Tasks, t # u, pc'[u] = pc[u], len'[u] = len[u],
             rest'[u] = rest[u], moved'[u] = moved[u], ~Transfers(u)
      PROVE  Counted(u)'
  BY <1>c, <1>2 DEF Transfers
<1>3. ASSUME NEW t \in Tasks, NEW l \in Lens, Fill(t, l)
      PROVE  Counted(u)'
  <2>1. CASE t = u
    BY <1>p, <1>c, <1>3, <2>1 DEF Fill, Goto
  <2>2. CASE t # u
    BY <1>p, <1>c, <1>3, <2>2 DEF Fill, Goto, Behind, IsReady
  <2> QED
    BY <2>1, <2>2
<1>4. ASSUME NEW t \in Tasks, Acquire(t) \/ ConfigAcquire(t)
      PROVE  Counted(u)'
  <2>1. CASE t = u
    BY <1>p, <1>c, <1>4, <2>1 DEF Acquire, ConfigAcquire, Goto
  <2>2. CASE t # u
    BY <1>p, <1>c, <1>4, <2>2
       DEF Acquire, ConfigAcquire, Goto, Behind, IsReady
  <2> QED
    BY <2>1, <2>2
<1>5. ASSUME NEW t \in Tasks, StartFirst(t) PROVE Counted(u)'
  <2> DEFINE remLen == IF len[t] > TotalLen THEN len[t] - TotalLen ELSE 0
  <2>1. len[t] \in Nat /\ len[t] <= 2 * TotalLen
    <3>1. len[t] \in Lens \/ len[t] = 0
      BY <1>p
    <3>2. len[t] \in Lens => len[t] <= 2 * TotalLen
      BY DEF ShortEnough
    <3> QED
      BY <3>1, <3>2, LengthType, TotalLenAssumption DEF BusInv
  <2>2. /\ remLen \in 0 .. TotalLen
        /\ remLen # 0 => len[t] = TotalLen + remLen
        /\ len[t] - remLen \in 0 .. TotalLen
        /\ remLen # 0 => len[t] - remLen = TotalLen
    BY <2>1, TotalLenAssumption
  <2>3. /\ pc[t] = "acquired"
        /\ rest' = [rest EXCEPT ![t] = remLen]
        /\ HAL_SPI_TransmitReceive_DMA(t, len[t] - remLen)
        /\ pc' = [pc EXCEPT ![t] = IF remLen # 0 THEN "first" ELSE "last"]
        /\ UNCHANGED <<len, moved, semSPI2Rx>>
    BY <1>5 DEF StartFirst, Goto
  <2> HIDE DEF remLen
  <2>4. CASE t = u
    <3>1. moved[t] = 0 /\ IsReady /\ semSPI2Rx = 0
      BY <1>c, <1>h, <2>3, DmaType
         DEF Holds, BusInv, BusTypeOK, OneTransfer, Transfers
    <3>2. \/ dma' = [task |-> t, size |-> len[t] - remLen]
          \/ dma' = Ready
      BY <2>3, <3>1 DEF HAL_SPI_TransmitReceive_DMA, IsReady
    <3>3. CASE dma' = [task |-> t, size |-> len[t] - remLen] /\ ~IsReady'
      <4>1. dma'.task = t /\ dma'.size = len[t] - remLen
        BY <3>3
      <4>2. pc'[t] = IF remLen # 0 THEN "first" ELSE "last"
        BY <1>p, <2>3
      <4>3. rest'[t] = remLen /\ moved'[t] = 0 /\ len'[t] = len[t]
        BY <1>p, <2>3, <3>1
      <4> QED
        BY <2>1, <2>2, <2>4, <3>3, <4>1, <4>2, <4>3 DEF Behind
    <3>4. CASE IsReady'
      <4>1. pc'[t] = IF remLen # 0 THEN "first" ELSE "last"
        BY <1>p, <2>3
      <4>2. rest'[t] = remLen /\ moved'[t] = 0 /\ len'[t] = len[t]
              /\ semSPI2Rx' = 0
        BY <1>p, <2>3, <3>1
      <4> QED
        BY <2>1, <2>2, <2>4, <3>4, <4>1, <4>2 DEF Behind
    <3> QED
      BY <3>2, <3>3, <3>4 DEF IsReady
  <2>5. CASE t # u
    BY <1>2, <1>p, <1>h, <2>3, <2>5 DEF Holds, Transfers
  <2> QED
    BY <2>4, <2>5
<1>6. ASSUME NEW t \in Tasks, StartRest(t) PROVE Counted(u)'
  <2>1. CASE t = u
    <3>1. /\ rest[t] \in 1 .. TotalLen
          /\ len[t] = TotalLen + rest[t]
          /\ moved[t] = TotalLen
      BY <1>c, <1>r, <1>6 DEF StartRest, Behind
    <3>2. rest[t] % (TotalLen + 1) = rest[t]
      BY <3>1, TotalLenAssumption
    <3>3. dma' = [task |-> t, size |-> rest[t]] /\ semSPI2Rx' = 0
      BY <1>r, <1>6, <3>1, <3>2
         DEF StartRest, HAL_SPI_TransmitReceive_DMA
    <3>4. pc'[t] = "last" /\ len'[t] = len[t] /\ moved'[t] = moved[t]
      BY <1>p, <1>6 DEF StartRest, Goto
    <3>5. dma'.task = t /\ dma'.size = rest[t]
      BY <3>3
    <3> QED
      BY <2>1, <3>1, <3>3, <3>4, <3>5, TotalLenAssumption DEF Behind
  <2>2. CASE t # u
    BY <1>2, <1>p, <1>h, <1>6, <2>2 DEF StartRest, Goto, Holds, Transfers
  <2> QED
    BY <2>1, <2>2
<1>7. ASSUME NEW t \in Tasks, WaitLast(t) PROVE Counted(u)'
  <2>1. CASE t = u
    BY <1>p, <1>c, <1>r, <1>7, <2>1 DEF WaitLast, Goto, Behind
  <2>2. CASE t # u
    BY <1>2, <1>p, <1>h, <1>7, <2>2 DEF WaitLast, Goto, Holds, Transfers
  <2> QED
    BY <2>1, <2>2
<1>8. ASSUME NEW t \in Tasks, Release(t) PROVE Counted(u)'
  <2>1. CASE t = u
    BY <1>p, <1>8, <2>1 DEF Release, Goto, Forget
  <2>2. CASE t # u
    BY <1>2, <1>p, <1>h, <1>8, <2>2
       DEF Release, Goto, Forget, Holds, Transfers
  <2> QED
    BY <2>1, <2>2
<1>9. CASE HAL_SPI_TxRxCpltCallback
  <2>1. dma.task \in Tasks /\ dma.size \in Nat /\ Transfers(dma.task)
    BY <1>9, DmaType
       DEF HAL_SPI_TxRxCpltCallback, BusInv, OneTransfer
  <2>2. /\ ~IsReady /\ IsReady' /\ semSPI2Rx' = 1
        /\ moved' = [moved EXCEPT ![dma.task] = @ + dma.size]
        /\ UNCHANGED <<pc, len, rest>>
    BY <1>9 DEF HAL_SPI_TxRxCpltCallback, IsReady
  <2>3. CASE u = dma.task
    <3>1. moved'[u] = moved[u] + dma.size
      BY <1>p, <2>1, <2>2, <2>3
    <3> QED
      BY <1>c, <2>1, <2>2, <2>3, <3>1 DEF Transfers, Behind
  <2>4. CASE u # dma.task
    BY <1>2, <1>p, <1>h, <2>1, <2>2, <2>4 DEF Holds, Transfers
  <2> QED
    BY <2>3, <2>4
<1>10. ASSUME NEW t \in Tasks, NEW khz \in Freqs, ConfigSet(t, khz)
       PROVE  Counted(u)'
  <2>1. CASE t = u
    BY <1>p, <1>c, <1>10, <2>1 DEF ConfigSet, Goto
  <2>2. CASE t # u
    BY <1>p, <1>c, <1>10, <2>2 DEF ConfigSet, Goto, Behind, IsReady
  <2> QED
    BY <2>1, <2>2
<1>11. CASE BusRestart
  BY <1>11 DEF BusRestart
<1> QED
  BY <1>1, <1>3, <1>4, <1>5, <1>6, <1>7, <1>8, <1>9, <1>10, <1>11
     DEF Next, Step, Boot, SelectEarly, vars, busVars

(* A call returns when exactly its bytes have been moved, if it asks for   *)
(* no more than two DMA transfers can carry; of a longer one the code      *)
(* truncates the length of the second part.                                *)
THEOREM TransfersAreWhole ==
  ASSUME ShortEnough PROVE Spec => []WholeTransfer
<1>1. Init => CountInv
  BY DEF Init, CountInv
<1>2. BusInv /\ CountInv /\ [Next]_vars => CountInv'
  BY CountStep
<1>3. CountInv => WholeTransfer
  BY DEF CountInv, WholeTransfer
<1> QED
  BY <1>1, <1>2, <1>3, BusAlways, PTL DEF Spec
-----------------------------------------------------------------------------
LEMMA ClockStep == ASSUME ClockInv, [Next]_vars PROVE ClockInv'
<1>1. CASE UNCHANGED clockVars
  BY <1>1 DEF clockVars, ClockInv, ClockTypeOK
<1>2. CASE Boot
  <2>1. SPI_SetConfig(bitrate) /\ started' \in BOOLEAN
    BY <1>2 DEF Boot, StartUARTTask
  <2>2. bitrate \in Freqs \cup {10000}
    BY DEF ClockInv, ClockTypeOK
  <2> QED
    BY <2>1, <2>2, SetConfig
<1>3. ASSUME NEW t \in Tasks, NEW khz \in Freqs, ConfigSet(t, khz)
      PROVE  ClockInv'
  <2>1. SPI_SetConfig(khz) /\ started' \in BOOLEAN
    BY <1>3 DEF ConfigSet, CMD_spiclk, ClockInv, ClockTypeOK
  <2> QED
    BY <2>1, SetConfig
<1>4. CASE BusRestart
  BY <1>4, ClockReset DEF BusRestart
<1> QED
  BY <1>1, <1>2, <1>3, <1>4
     DEF Next, Step, Fill, SelectEarly, Acquire, StartFirst, StartRest,
         WaitLast, Release, HAL_SPI_TxRxCpltCallback, ConfigAcquire, vars

LEMMA ClockAlways == Spec => []ClockInv
<1>1. Init => ClockInv
  BY ClockInitial DEF Init
<1>2. ClockInv /\ [Next]_vars => ClockInv'
  BY ClockStep
<1> QED
  BY <1>1, <1>2, PTL DEF Spec

(* Whatever frequency was asked for last, the clock in effect is that one, *)
(* clamped, or at most one step of DIVN2 above it.                         *)
THEOREM ClockIsTheRequested == Spec => []ClockMeetsRequest
<1>1. ASSUME ClockInv PROVE ClockMeetsRequest
  <2>1. Clamp(bitrate) \in Nat /\ InRange(Clamp(bitrate))
    BY <1>1, BitrateType, ClampedRange DEF ClockInv, InRange
  <2> QED
    BY <1>1, <2>1, ClockOf, ClockIsFor DEF ClockMeetsRequest, ClockInv
<1> QED
  BY <1>1, ClockAlways, PTL

(* The clock in effect is always the one a restart would set again.        *)
THEOREM RestartKeepsClock == Spec => []RestartRestores
<1>1. ClockInv => RestartRestores
  BY DEF ClockInv, RestartRestores, Clock
<1> QED
  BY <1>1, ClockAlways, PTL

(* Asking for more never gives a slower clock.                             *)
THEOREM ClockIsMonotone == Spec => FasterIsFaster
<1>1. ASSUME ClockInv, ClockInv', started, started',
             Clamp(bitrate') >= Clamp(bitrate)
      PROVE  Clock' >= Clock
  <2>1. Clamp(bitrate) \in Nat /\ InRange(Clamp(bitrate))
    BY <1>1, BitrateType, ClampedRange DEF ClockInv, InRange
  <2>2. bitrate' \in Int
    <3>1. bitrate' \in Freqs => bitrate' \in Int
      BY FreqsAssumption
    <3> QED
      BY <1>1, <3>1 DEF ClockInv, ClockTypeOK
  <2>3. Clamp(bitrate') \in Nat /\ InRange(Clamp(bitrate'))
    BY <2>2, ClampedRange DEF InRange
  <2>4. ClockFor(Clamp(bitrate)) <= ClockFor(Clamp(bitrate'))
    BY <1>1, <2>1, <2>3, ClockGrows DEF InRange
  <2>5. Clock = ClockFor(Clamp(bitrate))
    BY <1>1, ClockIsFor
  <2>6. Clock' = ClockFor(Clamp(bitrate'))
    BY <1>1 DEF ClockInv, Clock, ClockFor
  <2>7. ClockFor(Clamp(bitrate)) \in Nat /\ ClockFor(Clamp(bitrate')) \in Nat
    BY <2>1, <2>3, ClockBounds
  <2> QED
    BY <2>4, <2>5, <2>6, <2>7
<1>2. ClockInv /\ ClockInv' /\ [Next]_vars =>
        [started /\ started' =>
           (Clamp(bitrate') >= Clamp(bitrate) => Clock' >= Clock)]_clockVars
  BY <1>1
<1> QED
  BY <1>2, ClockAlways, PTL DEF Spec, FasterIsFaster
=============================================================================
