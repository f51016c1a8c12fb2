--------------------------- MODULE EthernetProofs ---------------------------
(***************************************************************************)
(* Theorems about EthRx, for every number of descriptors and pbufs, every  *)
(* size of the mailbox and any number of frames, and about Link, for all   *)
(* speeds, leases and bounds.                                              *)
(*                                                                         *)
(* The inductive invariant of the frames measures the ring backwards from  *)
(* the DMA: the buffer filled Lag(d) frames ago holds the frame            *)
(* arrived - Lag(d), and the descriptors with a frame for the thread are   *)
(* those from CurRxDesc to the DMA.  What a pbuf points to, and the order  *)
(* of the frames, follow from the place of CurRxDesc in that order; the    *)
(* tcpip thread reads the frame a pbuf was made for unless the DMA is a    *)
(* whole ring ahead of it.                                                 *)
(*                                                                         *)
(* That no lease replaces the static address rests on DHCP_Thread: it has  *)
(* taken that address away whenever it is about to start a client.         *)
(***************************************************************************)
EXTENDS EthRx, Link, Integers, TLAPS

(* How many frames have been stored since the one in d, with m the DMA's.  *)
Lag(d, m) == IF d < m THEN m - 1 - d ELSE m - 1 - d + DescCnt

Stored ==
  /\ \A d \in Desc :
       Rx_Buff[d] = IF arrived > Lag(d, dma) THEN arrived - Lag(d, dma) ELSE 0
  /\ \A d \in Desc : ~DMARxDscrTab[d] => arrived > Lag(d, dma)

WaitingInOrder ==
  /\ DMARxDscrTab[CurRxDesc] =>
       dma = CurRxDesc /\ \A d \in Desc : DMARxDscrTab[d]
  /\ ~DMARxDscrTab[CurRxDesc] =>
       \A d \in Desc : ~DMARxDscrTab[d] <=> Lag(d, dma) <= Lag(CurRxDesc, dma)

PointingInv ==
  \A p \in Pointing :
    p.frame >= 1 /\ (IsIn(p) \/ arrived >= p.frame + DescCnt)

(* Frames are on their way in ascending order ...                          *)
TakenBefore(n) == late \/ taken < n

Ascending ==
  /\ \A i \in DOMAIN mbox : TakenBefore(mbox[i].frame)
  /\ \A i, j \in DOMAIN mbox : i < j => mbox[i].frame < mbox[j].frame
  /\ thread.st = "input" =>
       /\ TakenBefore(thread.p.frame)
       /\ \A i \in DOMAIN mbox : mbox[i].frame < thread.p.frame

(* ... and none of them is newer than n.                                   *)
NoneNewer(n) ==
  /\ TakenBefore(n + 1)
  /\ \A i \in DOMAIN mbox : mbox[i].frame <= n
  /\ thread.st = "input" => thread.p.frame <= n

OrderInv ==
  /\ Ascending
  /\ NoneNewer(arrived)
  /\ ~DMARxDscrTab[CurRxDesc] => NoneNewer(Rx_Buff[CurRxDesc] - 1)

RingInv == TypeOK /\ Stored /\ WaitingInOrder
IInv == RingInv /\ PbufsAccounted /\ PointingInv /\ OrderInv
-----------------------------------------------------------------------------
LEMMA RingType ==
  ASSUME TypeOK
  PROVE  DescCnt \in Nat \ {0} /\ dma \in 0 .. DescCnt - 1
BY EthAssumption DEF TypeOK, Desc

LEMMA LagType ==
  ASSUME TypeOK, NEW d \in Desc
  PROVE  Lag(d, dma) \in 0 .. DescCnt - 1
BY RingType DEF Desc, Lag

LEMMA LagInjective ==
  ASSUME TypeOK, NEW d \in Desc, NEW e \in Desc, Lag(d, dma) = Lag(e, dma)
  PROVE  d = e
BY RingType DEF Desc, Lag

LEMMA IncrType ==
  ASSUME NEW d \in Desc
  PROVE  Incr(d) \in Desc
BY EthAssumption DEF Desc, Incr

(* The next descriptor is one frame younger, unless it is the DMA's next.  *)
LEMMA LagOfNext ==
  ASSUME TypeOK, NEW d \in Desc
  PROVE  IF Incr(d) = dma THEN Lag(d, dma) = 0 ELSE Lag(Incr(d), dma) = Lag(d, dma) - 1
BY RingType DEF Desc, Lag, Incr

LEMMA LagOfDma ==
  ASSUME TypeOK
  PROVE  Lag(dma, dma) = DescCnt - 1
BY RingType DEF Lag

LEMMA LagAfterArrive ==
  ASSUME TypeOK, Arrive, NEW d \in Desc
  PROVE  Lag(d, dma') = IF d = dma THEN 0 ELSE Lag(d, dma) + 1
<1>1. dma' = Incr(dma)
  BY DEF Arrive
<1>. QED
  BY <1>1, RingType DEF Desc, Lag, Incr
-----------------------------------------------------------------------------
LEMMA TypeOKStep ==
  ASSUME TypeOK, PbufsAccounted, [Next]_vars
  PROVE  TypeOK' /\ PbufsAccounted'
<1>. USE EthAssumption DEF takenVars
<1>1. CASE Arrive
  BY <1>1, IncrType DEF Arrive, TypeOK, PbufsAccounted, Posting
<1>2. CASE HAL_ETH_RxCpltCallback
  BY <1>2 DEF HAL_ETH_RxCpltCallback, osSemaphoreRelease, ringVars,
              TypeOK, PbufsAccounted, Posting
<1>3. CASE ClearRequest
  BY <1>3 DEF ClearRequest, ringVars, TypeOK, PbufsAccounted, Posting
<1>4. CASE Acquire
  BY <1>4 DEF Acquire, ringVars, TypeOK, PbufsAccounted, Posting
<1>5. CASE low_level_input
  <2>1. /\ thread.st = "read"
        /\ DMARxDscrTab' \in [Desc -> BOOLEAN]
        /\ CurRxDesc' \in Desc
        /\ starved' \in BOOLEAN
    <3>1. CASE DMARxDscrTab[CurRxDesc]
      BY <1>5, <3>1 DEF low_level_input, TypeOK
    <3>2. CASE ~DMARxDscrTab[CurRxDesc]
      BY <1>5, <3>2, IncrType
         DEF low_level_input, HAL_ETH_BuildRxDescriptors, TypeOK
    <3>. QED
      BY <3>1, <3>2
  <2>2. \/ pool' = pool /\ thread' = [st |-> "wait", p |-> NoPbuf]
        \/ /\ pool > 0 /\ pool' = pool - 1
           /\ thread' = [st |-> "input", p |-> [desc |-> CurRxDesc,
                                              frame |-> Rx_Buff[CurRxDesc]]]
    BY <1>5 DEF low_level_input
  <2>3. thread' \in [st : {"wait", "read", "input"}, p : Pbufs]
    BY <2>2 DEF TypeOK, Pbufs, NoPbuf, Desc
  <2>4. \/ pool' = pool /\ Posting = 0 /\ Posting' = 0
        \/ pool > 0 /\ pool' = pool - 1 /\ Posting = 0 /\ Posting' = 1
    BY <2>1, <2>2 DEF Posting
  <2>5. UNCHANGED <<arrived, Rx_Buff, dma, irq, RxPktSemaphore, mbox, kept, takenVars>>
    BY <1>5 DEF low_level_input
  <2>6. TypeOK'
    BY <2>1, <2>3, <2>4, <2>5 DEF TypeOK
  <2>7. pool \in Nat /\ Len(mbox) \in Nat /\ Len(kept) \in Nat
    BY DEF TypeOK
  <2>8. PbufsAccounted'
    BY <2>4, <2>5, <2>7 DEF PbufsAccounted
  <2>. QED
    BY <2>6, <2>8
<1>6. CASE netif_input
  <2>1. thread' = [st |-> "read", p |-> NoPbuf] /\ NoPbuf \in Pbufs
    BY <1>6 DEF netif_input, Again, NoPbuf, Pbufs, Desc
  <2>2. thread' \in [st : {"wait", "read", "input"}, p : Pbufs]
    BY <2>1
  <2>3. Posting = 1 /\ Posting' = 0
    BY <1>6, <2>1 DEF netif_input, Posting
  <2>4. UNCHANGED <<ringVars, CurRxDesc, irq, RxPktSemaphore, kept, takenVars, starved>>
    BY <1>6 DEF netif_input
  <2>5. thread.p \in Pbufs /\ Len(kept) \in Nat /\ Len(mbox) \in Nat
    BY DEF TypeOK
  <2>6. CASE Len(mbox) < MboxSize
    <3>1. mbox' = Append(mbox, thread.p) /\ pool' = pool
      BY <1>6, <2>6 DEF netif_input
    <3>2. mbox' \in Seq(Pbufs) /\ Len(mbox') = Len(mbox) + 1
      BY <2>5, <3>1 DEF TypeOK
    <3>. QED
      BY <2>2, <2>3, <2>4, <2>5, <2>6, <3>1, <3>2
         DEF ringVars, TypeOK, PbufsAccounted
  <2>7. CASE ~(Len(mbox) < MboxSize)
    <3>1. mbox' = mbox /\ pool' = pool + 1
      BY <1>6, <2>7 DEF netif_input
    <3>. QED
      BY <2>2, <2>3, <2>4, <2>5, <2>7, <3>1 DEF ringVars, TypeOK, PbufsAccounted
  <2>. QED
    BY <2>6, <2>7
<1>7. CASE tcpip_thread
  <2>1. /\ Head(mbox) \in Pbufs /\ mbox' \in Seq(Pbufs)
        /\ Len(mbox') = Len(mbox) - 1
        /\ Len(mbox) > 0 /\ Len(mbox) \in Nat
        /\ taken' \in Nat /\ late' \in BOOLEAN
    <3>1. mbox \in Seq(Pbufs) /\ mbox # <<>>
      BY <1>7 DEF tcpip_thread, TypeOK
    <3>2. /\ mbox' = Tail(mbox) /\ taken' = Rx_Buff[Head(mbox).desc]
          /\ late' = (late \/ arrived >= Head(mbox).frame + DescCnt)
      BY <1>7 DEF tcpip_thread
    <3>3. Head(mbox) \in Pbufs
      BY <3>1
    <3>4. taken' \in Nat /\ late' \in BOOLEAN
      BY <3>2, <3>3 DEF Pbufs, TypeOK
    <3>. QED
      BY <3>1, <3>2, <3>3, <3>4
  <2>2. /\ UNCHANGED <<ringVars, CurRxDesc, irq, RxPktSemaphore, thread, starved>>
        /\ Posting' = Posting /\ Posting \in {0, 1} /\ Len(kept) \in Nat
    BY <1>7 DEF tcpip_thread, Posting, TypeOK
  <2>3. CASE pool' = pool + 1 /\ kept' = kept
    BY <2>1, <2>2, <2>3 DEF ringVars, TypeOK, PbufsAccounted
  <2>4. CASE Len(kept) < MaxKept /\ kept' = Append(kept, Head(mbox)) /\ pool' = pool
    <3>1. kept' \in Seq(Pbufs) /\ Len(kept') = Len(kept) + 1
      BY <2>1, <2>4 DEF TypeOK
    <3>. QED
      BY <2>1, <2>2, <2>4, <3>1 DEF ringVars, TypeOK, PbufsAccounted
  <2>. QED
    BY <1>7, <2>3, <2>4 DEF tcpip_thread
<1>8. CASE Application
  BY <1>8 DEF Application, ringVars, TypeOK, PbufsAccounted, Posting
<1>9. CASE UNCHANGED vars
  BY <1>9 DEF vars, ringVars, TypeOK, PbufsAccounted, Posting
<1>. QED
  BY <1>1, <1>2, <1>3, <1>4, <1>5, <1>6, <1>7, <1>8, <1>9
     DEF Next, Interrupt, ethernetif_input
-----------------------------------------------------------------------------
(* The other actions leave the ring and its reader alone.                  *)
LEMMA RingUntouched ==
  ASSUME [Next]_vars, ~Arrive, ~low_level_input
  PROVE  UNCHANGED <<arrived, DMARxDscrTab, Rx_Buff, dma, CurRxDesc>>
BY DEF Next, Interrupt, ethernetif_input, HAL_ETH_RxCpltCallback, ClearRequest,
       Acquire, netif_input, tcpip_thread, Application, vars, ringVars

LEMMA ArriveRing ==
  ASSUME RingInv, Arrive
  PROVE  Stored' /\ WaitingInOrder'
<1>1. /\ arrived \in Nat /\ arrived' = arrived + 1
      /\ dma \in Desc /\ CurRxDesc \in Desc /\ CurRxDesc' = CurRxDesc
      /\ DMARxDscrTab[dma]
      /\ \A d \in Desc : Rx_Buff'[d] = IF d = dma THEN arrived + 1 ELSE Rx_Buff[d]
      /\ \A d \in Desc : DMARxDscrTab'[d] <=> d # dma /\ DMARxDscrTab[d]
  BY DEF RingInv, TypeOK, Arrive
<1>2. \A d \in Desc :
        /\ Lag(d, dma) \in 0 .. DescCnt - 1
        /\ Lag(d, dma') = IF d = dma THEN 0 ELSE Lag(d, dma) + 1
  BY LagType, LagAfterArrive DEF RingInv
<1>3. DescCnt \in Nat
  BY RingType DEF RingInv
<1>4. ASSUME NEW d \in Desc
      PROVE  /\ Rx_Buff'[d] = IF arrived' > Lag(d, dma')
                             THEN arrived' - Lag(d, dma') ELSE 0
             /\ ~DMARxDscrTab'[d] => arrived' > Lag(d, dma')
  <2>1. /\ Rx_Buff[d] = IF arrived > Lag(d, dma) THEN arrived - Lag(d, dma) ELSE 0
        /\ ~DMARxDscrTab[d] => arrived > Lag(d, dma)
    BY DEF RingInv, Stored
  <2>2. CASE d = dma
    BY <1>1, <1>2, <2>2
  <2>3. CASE d # dma
    BY <1>1, <1>2, <1>3, <2>1, <2>3
  <2>. QED
    BY <2>2, <2>3
<1>5. ASSUME NEW d \in Desc
      PROVE  ~DMARxDscrTab'[d] <=> Lag(d, dma') <= Lag(CurRxDesc, dma')
  <2>1. CASE DMARxDscrTab[CurRxDesc]
    <3>1. dma = CurRxDesc /\ DMARxDscrTab[d]
      BY <2>1 DEF RingInv, WaitingInOrder
    <3>. QED
      BY <1>1, <1>2, <1>3, <3>1
  <2>2. CASE ~DMARxDscrTab[CurRxDesc]
    <3>1. ~DMARxDscrTab[d] <=> Lag(d, dma) <= Lag(CurRxDesc, dma)
      BY <2>2 DEF RingInv, WaitingInOrder
    <3>2. CurRxDesc # dma
      BY <1>1, <2>2
    <3>. QED
      BY <1>1, <1>2, <1>3, <3>1, <3>2
  <2>. QED
    BY <2>1, <2>2
<1>6. ~DMARxDscrTab'[CurRxDesc]
  BY <1>1, <1>2, <1>3, <1>5
<1>. QED
  BY <1>1, <1>4, <1>5, <1>6 DEF Stored, WaitingInOrder

LEMMA ReadRing ==
  ASSUME RingInv, low_level_input
  PROVE  Stored' /\ WaitingInOrder'
<1>1. UNCHANGED <<arrived, dma, Rx_Buff>>
  BY DEF low_level_input
<1>2. CASE DMARxDscrTab[CurRxDesc]
  BY <1>1, <1>2 DEF low_level_input, RingInv, Stored, WaitingInOrder
<1>3. CASE ~DMARxDscrTab[CurRxDesc]
  <2>1. /\ CurRxDesc \in Desc /\ CurRxDesc' = Incr(CurRxDesc)
        /\ CurRxDesc' \in Desc
        /\ \A d \in Desc : DMARxDscrTab'[d] <=> d = CurRxDesc \/ DMARxDscrTab[d]
    BY <1>3, IncrType
       DEF low_level_input, HAL_ETH_BuildRxDescriptors, RingInv, TypeOK
  <2>2. \A d \in Desc : Lag(d, dma) \in 0 .. DescCnt - 1
    BY LagType DEF RingInv
  <2>3. \A d \in Desc : ~DMARxDscrTab[d] <=> Lag(d, dma) <= Lag(CurRxDesc, dma)
    BY <1>3 DEF RingInv, WaitingInOrder
  <2>4. \A d \in Desc : Lag(d, dma) = Lag(CurRxDesc, dma) => d = CurRxDesc
    BY <2>1, LagInjective DEF RingInv
  <2>5. DescCnt \in Nat
    BY RingType DEF RingInv
  <2>6. Stored'
    BY <1>1, <2>1 DEF RingInv, Stored
  <2>7. CASE CurRxDesc' = dma
    <3>1. Lag(CurRxDesc, dma) = 0
      BY <2>1, <2>7, LagOfNext DEF RingInv
    <3>2. \A d \in Desc : DMARxDscrTab'[d]
      BY <2>1, <2>2, <2>3, <2>4, <2>5, <3>1
    <3>. QED
      BY <1>1, <2>1, <2>6, <2>7, <3>2 DEF WaitingInOrder
  <2>8. CASE CurRxDesc' # dma
    <3>1. Lag(CurRxDesc', dma) = Lag(CurRxDesc, dma) - 1
      BY <2>1, <2>8, LagOfNext DEF RingInv
    <3>2. \A d \in Desc :
            ~DMARxDscrTab'[d] <=> Lag(d, dma) <= Lag(CurRxDesc', dma)
      BY <2>1, <2>2, <2>3, <2>4, <2>5, <3>1
    <3>3. ~DMARxDscrTab'[CurRxDesc']
      BY <2>1, <2>2, <2>5, <3>2
    <3>. QED
      BY <1>1, <2>1, <2>6, <3>2, <3>3 DEF WaitingInOrder
  <2>. QED
    BY <2>7, <2>8
<1>. QED
  BY <1>2, <1>3
-----------------------------------------------------------------------------
LEMMA PointingType ==
  ASSUME TypeOK, NEW p \in Pointing
  PROVE  p.desc \in Desc /\ p.frame \in Nat
<1>1. p \in Pbufs
  BY DEF TypeOK, Pointing
<1>. QED
  BY <1>1 DEF Pbufs

(* Only low_level_input makes a pbuf point to a buffer.                    *)
LEMMA PointingStep ==
  ASSUME TypeOK, [Next]_vars, NEW p \in Pointing'
  PROVE  \/ p \in Pointing
         \/ /\ low_level_input /\ ~DMARxDscrTab[CurRxDesc]
            /\ p = [desc |-> CurRxDesc, frame |-> Rx_Buff[CurRxDesc]]
<1>1. CASE UNCHANGED <<mbox, kept, thread>>
  BY <1>1 DEF Pointing
<1>2. CASE Acquire
  BY <1>2 DEF Acquire, Pointing
<1>3. CASE low_level_input
  BY <1>3 DEF low_level_input, Pointing
<1>4. CASE netif_input
  <2>1. thread.st = "input" /\ kept' = kept /\ thread'.st # "input"
    BY <1>4 DEF netif_input, Again
  <2>2. mbox' = mbox \/ mbox' = Append(mbox, thread.p)
    BY <1>4 DEF netif_input
  <2>3. thread.p \in Pbufs /\ mbox \in Seq(Pbufs)
    BY DEF TypeOK
  <2>4. \A i \in DOMAIN mbox' : mbox'[i] = thread.p \/ \E j \in DOMAIN mbox : mbox'[i] = mbox[j]
    BY <2>2, <2>3
  <2>. QED
    BY <2>1, <2>4 DEF Pointing
<1>5. CASE tcpip_thread
  <2>1. /\ thread' = thread /\ mbox' = Tail(mbox) /\ mbox # <<>>
        /\ kept' = kept \/ kept' = Append(kept, Head(mbox))
    BY <1>5 DEF tcpip_thread
  <2>2. kept \in Seq(Pbufs) /\ mbox \in Seq(Pbufs)
    BY DEF TypeOK
  <2>3. Head(mbox) = mbox[1] /\ 1 \in DOMAIN mbox /\ Head(mbox) \in Pbufs
    BY <2>1, <2>2
  <2>4. \A i \in DOMAIN kept' : kept'[i] = mbox[1] \/ \E j \in DOMAIN kept : kept'[i] = kept[j]
    <3>1. CASE kept' = kept
      BY <3>1
    <3>2. CASE kept' = Append(kept, mbox[1])
      BY <2>2, <2>3, <3>2
    <3>. QED
      BY <2>1, <2>3, <3>1, <3>2
  <2>5. \A i \in DOMAIN mbox' : i + 1 \in DOMAIN mbox /\ mbox'[i] = mbox[i + 1]
    BY <2>1, <2>2
  <2>. QED
    BY <2>1, <2>3, <2>4, <2>5 DEF Pointing
<1>6. CASE Application
  <2>1. thread' = thread /\ mbox' = mbox /\ kept' = Tail(kept) /\ kept # <<>>
    BY <1>6 DEF Application
  <2>2. kept \in Seq(Pbufs)
    BY DEF TypeOK
  <2>3. \A i \in DOMAIN kept' : i + 1 \in DOMAIN kept /\ kept'[i] = kept[i + 1]
    BY <2>1, <2>2
  <2>. QED
    BY <2>1, <2>3 DEF Pointing
<1>. QED
  BY <1>1, <1>2, <1>3, <1>4, <1>5, <1>6
     DEF Next, Interrupt, ethernetif_input, Arrive, HAL_ETH_RxCpltCallback,
         ClearRequest, vars, takenVars

LEMMA PointingInvStep ==
  ASSUME RingInv, PointingInv, [Next]_vars
  PROVE  PointingInv'
<1>. SUFFICES ASSUME NEW p \in Pointing'
              PROVE  /\ p.frame >= 1
                     /\ Rx_Buff'[p.desc] = p.frame \/ arrived' >= p.frame + DescCnt
  BY DEF PointingInv, IsIn
<1>1. CASE p \in Pointing
  <2>1. /\ p.desc \in Desc /\ p.frame \in Nat /\ p.frame >= 1
        /\ Rx_Buff[p.desc] = p.frame \/ arrived >= p.frame + DescCnt
    BY <1>1, PointingType DEF PointingInv, IsIn, RingInv
  <2>2. CASE Arrive
    <3>1. /\ arrived \in Nat /\ arrived' = arrived + 1 /\ DescCnt \in Nat
          /\ p.desc # dma => Rx_Buff'[p.desc] = Rx_Buff[p.desc]
      BY <2>1, <2>2, RingType DEF Arrive, RingInv, TypeOK
    <3>2. p.desc = dma /\ Rx_Buff[p.desc] = p.frame => arrived = p.frame + DescCnt - 1
      BY <2>1, <3>1, LagOfDma DEF RingInv, Stored
    <3>. QED
      BY <2>1, <3>1, <3>2
  <2>3. CASE low_level_input
    BY <2>1, <2>3 DEF low_level_input
  <2>4. CASE ~Arrive /\ ~low_level_input
    BY <2>1, <2>4, RingUntouched
  <2>. QED
    BY <2>2, <2>3, <2>4
<1>2. CASE /\ low_level_input /\ ~DMARxDscrTab[CurRxDesc]
           /\ p = [desc |-> CurRxDesc, frame |-> Rx_Buff[CurRxDesc]]
  <2>1. Rx_Buff' = Rx_Buff /\ arrived' = arrived
    BY <1>2 DEF low_level_input
  <2>2. /\ CurRxDesc \in Desc /\ arrived \in Nat
        /\ Lag(CurRxDesc, dma) \in 0 .. DescCnt - 1 /\ DescCnt \in Nat
    BY LagType, RingType DEF RingInv, TypeOK
  <2>3. Rx_Buff[CurRxDesc] >= 1
    BY <1>2, <2>2 DEF RingInv, Stored
  <2>. QED
    BY <1>2, <2>1, <2>3
<1>. QED
  BY <1>1, <1>2, PointingStep DEF RingInv
-----------------------------------------------------------------------------
(* The frame behind the one that is read is a younger one.                 *)
LEMMA NextIsYounger ==
  ASSUME RingInv, low_level_input, ~DMARxDscrTab[CurRxDesc],
         ~DMARxDscrTab'[CurRxDesc']
  PROVE  Rx_Buff[CurRxDesc'] > Rx_Buff[CurRxDesc]
<1>1. /\ CurRxDesc \in Desc /\ CurRxDesc' = Incr(CurRxDesc) /\ CurRxDesc' \in Desc
      /\ UNCHANGED <<dma, arrived, Rx_Buff>> /\ arrived \in Nat
      /\ \A d \in Desc : DMARxDscrTab'[d] <=> d = CurRxDesc \/ DMARxDscrTab[d]
  BY IncrType DEF low_level_input, HAL_ETH_BuildRxDescriptors, RingInv, TypeOK
<1>2. WaitingInOrder'
  BY ReadRing
<1>3. CurRxDesc' # CurRxDesc /\ ~DMARxDscrTab[CurRxDesc']
  BY <1>1
<1>4. /\ Lag(CurRxDesc, dma) \in 0 .. DescCnt - 1
      /\ Lag(CurRxDesc', dma) \in 0 .. DescCnt - 1
      /\ DescCnt \in Nat
  BY <1>1, LagType, RingType DEF RingInv
<1>5. Lag(CurRxDesc', dma) <= Lag(CurRxDesc, dma)
  BY <1>1, <1>3 DEF RingInv, WaitingInOrder
<1>6. Lag(CurRxDesc', dma) # Lag(CurRxDesc, dma)
  BY <1>1, <1>3, LagInjective DEF RingInv
<1>7. /\ Rx_Buff[CurRxDesc] = arrived - Lag(CurRxDesc, dma)
      /\ Rx_Buff[CurRxDesc'] = arrived - Lag(CurRxDesc', dma)
  BY <1>1, <1>3 DEF RingInv, Stored
<1>. QED
  BY <1>1, <1>4, <1>5, <1>6, <1>7

LEMMA FramesAreNumbers ==
  ASSUME TypeOK
  PROVE  /\ taken \in Nat /\ arrived \in Nat
         /\ mbox \in Seq(Pbufs)
         /\ \A i \in DOMAIN mbox : mbox[i].frame \in Nat
         /\ thread.p.frame \in Nat
         /\ \A d \in Desc : Rx_Buff[d] \in Nat
<1>1. /\ \A i \in DOMAIN mbox : mbox[i] \in Pbufs
      /\ thread.p \in Pbufs
  BY DEF TypeOK
<1>. QED
  BY <1>1 DEF TypeOK, Pbufs

LEMMA OrderStep ==
  ASSUME RingInv, PointingInv, OrderInv, [Next]_vars
  PROVE  OrderInv' /\ (Len(mbox') < Len(mbox) => taken' > taken \/ late')
<1>. USE DEF RingInv, OrderInv, Ascending, NoneNewer, TakenBefore, takenVars
<1>0. /\ taken \in Nat /\ arrived \in Nat
      /\ mbox \in Seq(Pbufs)
      /\ \A i \in DOMAIN mbox : mbox[i].frame \in Nat
      /\ thread.p.frame \in Nat
      /\ \A d \in Desc : Rx_Buff[d] \in Nat
  BY FramesAreNumbers
<1>. USE <1>0
<1>1. CASE Arrive
  <2>1. /\ UNCHANGED <<mbox, thread, taken, late, CurRxDesc>>
        /\ arrived' = arrived + 1 /\ dma \in Desc /\ CurRxDesc \in Desc
        /\ Rx_Buff'[CurRxDesc] =
             IF CurRxDesc = dma THEN arrived + 1 ELSE Rx_Buff[CurRxDesc]
        /\ DMARxDscrTab'[CurRxDesc] <=> CurRxDesc # dma /\ DMARxDscrTab[CurRxDesc]
    BY <1>1 DEF Arrive, TypeOK
  <2>2. CurRxDesc # dma => ~DMARxDscrTab[CurRxDesc]
    BY DEF WaitingInOrder
  <2>3. Ascending' /\ NoneNewer(arrived)'
    BY <2>1
  <2>4. NoneNewer(Rx_Buff[CurRxDesc] - 1)'
    <3>1. CASE CurRxDesc = dma
      BY <2>1, <3>1
    <3>2. CASE CurRxDesc # dma
      BY <2>1, <2>2, <3>2
    <3>. QED
      BY <3>1, <3>2
  <2>. QED
    BY <2>1, <2>3, <2>4
<1>2. CASE UNCHANGED <<arrived, DMARxDscrTab, Rx_Buff, CurRxDesc, mbox, thread, taken, late>>
  BY <1>2
<1>3. CASE Acquire
  BY <1>3 DEF Acquire, ringVars, TypeOK
<1>4. CASE low_level_input
  <2>1. UNCHANGED <<mbox, taken, late, arrived, Rx_Buff>>
    BY <1>4 DEF low_level_input
  <2>2. CASE DMARxDscrTab[CurRxDesc]
    BY <1>4, <2>1, <2>2 DEF low_level_input
  <2>3. CASE ~DMARxDscrTab[CurRxDesc]
    <3>1. /\ CurRxDesc \in Desc /\ CurRxDesc' \in Desc
          /\ Rx_Buff[CurRxDesc] <= arrived
      <4>1. /\ CurRxDesc \in Desc /\ CurRxDesc' = Incr(CurRxDesc)
        BY <1>4, <2>3 DEF low_level_input, TypeOK
      <4>2. Lag(CurRxDesc, dma) \in Nat
        BY <4>1, LagType, RingType
      <4>. QED
        BY <2>3, <4>1, <4>2, IncrType DEF Stored
    <3>2. ~DMARxDscrTab'[CurRxDesc'] =>
            Rx_Buff[CurRxDesc'] > Rx_Buff[CurRxDesc] /\ Rx_Buff[CurRxDesc'] \in Nat
      BY <1>4, <2>3, <3>1, NextIsYounger
    <3>3. /\ late \/ taken < Rx_Buff[CurRxDesc]
          /\ \A i \in DOMAIN mbox : mbox[i].frame < Rx_Buff[CurRxDesc]
          /\ thread.st = "input" => thread.p.frame < Rx_Buff[CurRxDesc]
          /\ Rx_Buff[CurRxDesc] \in Nat
      BY <2>3, <3>1
    <3>4. \/ thread'.st = "wait"
          \/ thread'.st = "input" /\ thread'.p.frame = Rx_Buff[CurRxDesc]
      BY <1>4, <2>3 DEF low_level_input
    <3>5. Ascending'
      BY <2>1, <3>1, <3>3, <3>4
    <3>6. NoneNewer(arrived)'
      BY <2>1, <3>1, <3>3, <3>4
    <3>7. ~DMARxDscrTab'[CurRxDesc'] => NoneNewer(Rx_Buff[CurRxDesc] - 1)'
      <4>. SUFFICES ASSUME ~DMARxDscrTab'[CurRxDesc']
                    PROVE  NoneNewer(Rx_Buff[CurRxDesc] - 1)'
        OBVIOUS
      <4>1. \A n \in Nat : n <= Rx_Buff[CurRxDesc] => n <= Rx_Buff'[CurRxDesc'] - 1
        BY <2>1, <3>2, <3>3
      <4>2. late' \/ taken' < Rx_Buff'[CurRxDesc'] - 1 + 1
        BY <2>1, <3>2, <3>3
      <4>3. \A i \in DOMAIN mbox' : mbox'[i].frame <= Rx_Buff'[CurRxDesc'] - 1
        BY <2>1, <3>3, <4>1
      <4>4. thread'.st = "input" => thread'.p.frame <= Rx_Buff'[CurRxDesc'] - 1
        BY <3>3, <3>4, <4>1
      <4>. QED
        BY <4>2, <4>3, <4>4
    <3>. QED
      BY <2>1, <3>5, <3>6, <3>7
  <2>. QED
    BY <2>2, <2>3
<1>5. CASE netif_input
  <2>1. /\ UNCHANGED <<arrived, DMARxDscrTab, Rx_Buff, CurRxDesc, taken, late>>
        /\ thread.st = "input" /\ thread'.st = "read"
        /\ mbox' = mbox \/ mbox' = Append(mbox, thread.p)
    BY <1>5 DEF netif_input, ringVars, Again
  <2>2. CASE mbox' = mbox
    BY <2>1, <2>2
  <2>3. CASE mbox' = Append(mbox, thread.p)
    <3>1. thread.p \in Pbufs
      BY DEF TypeOK
    <3>2. \A i \in DOMAIN mbox' :
            IF i \in DOMAIN mbox THEN mbox'[i] = mbox[i]
            ELSE mbox'[i] = thread.p /\ \A j \in DOMAIN mbox : j < i
      BY <2>3, <3>1
    <3>3. \A i, j \in DOMAIN mbox' : i < j => i \in DOMAIN mbox
      BY <2>3, <3>1
    <3>4. Ascending'
      BY <2>1, <3>2, <3>3
    <3>5. NoneNewer(arrived)'
      BY <2>1, <3>2
    <3>6. ~DMARxDscrTab[CurRxDesc] => NoneNewer(Rx_Buff[CurRxDesc] - 1)'
      BY <2>1, <3>2
    <3>. QED
      BY <2>1, <3>4, <3>5, <3>6
  <2>. QED
    BY <2>1, <2>2, <2>3
<1>6. CASE tcpip_thread
  <2>1. /\ UNCHANGED <<arrived, DMARxDscrTab, Rx_Buff, CurRxDesc, thread>>
        /\ mbox # <<>> /\ mbox' = Tail(mbox)
        /\ taken' = Rx_Buff[Head(mbox).desc]
        /\ late' = (late \/ arrived >= Head(mbox).frame + DescCnt)
    BY <1>6 DEF tcpip_thread, ringVars
  <2>0. Head(mbox) = mbox[1] /\ 1 \in DOMAIN mbox
    BY <2>1 DEF TypeOK
  <2>6. late' \/ (~late /\ taken' = mbox[1].frame)
    BY <2>0, <2>1 DEF PointingInv, Pointing, IsIn
  <2>2. /\ 1 \in DOMAIN mbox /\ (late' \/ taken' = mbox[1].frame)
        /\ \A i \in DOMAIN mbox' : /\ i + 1 \in DOMAIN mbox /\ 1 < i + 1
                                  /\ mbox'[i] = mbox[i + 1]
        /\ \A i, j \in DOMAIN mbox' : i < j => i + 1 < j + 1
    BY <2>0, <2>1, <2>6
  <2>3. Ascending'
    BY <2>1, <2>2, <2>6
  <2>4. NoneNewer(arrived)'
    BY <2>1, <2>2, <2>6
  <2>5. ~DMARxDscrTab[CurRxDesc] => NoneNewer(Rx_Buff[CurRxDesc] - 1)'
    <3>. SUFFICES ASSUME ~DMARxDscrTab[CurRxDesc]
                  PROVE  NoneNewer(Rx_Buff[CurRxDesc] - 1)'
      OBVIOUS
    <3>1. /\ \A i \in DOMAIN mbox : mbox[i].frame <= Rx_Buff[CurRxDesc] - 1
          /\ Rx_Buff[CurRxDesc] \in Nat
      BY DEF TypeOK
    <3>2. late' \/ taken' < Rx_Buff[CurRxDesc] - 1 + 1
      BY <2>2, <3>1
    <3>3. \A i \in DOMAIN mbox' : mbox'[i].frame <= Rx_Buff[CurRxDesc] - 1
      BY <2>2, <3>1
    <3>. QED
      BY <2>1, <3>1, <3>2, <3>3
  <2>. QED
    BY <2>1, <2>2, <2>3, <2>4, <2>5, <2>6
<1>. QED
  BY <1>1, <1>2, <1>3, <1>4, <1>5, <1>6
     DEF Next, Interrupt, ethernetif_input, HAL_ETH_RxCpltCallback,
         ClearRequest, Application, ringVars, vars
-----------------------------------------------------------------------------
LEMMA InitIInv == Init => IInv
<1>. SUFFICES ASSUME Init PROVE IInv
  OBVIOUS
<1>1. TypeOK /\ PbufsAccounted
  <2>1. NoPbuf \in Pbufs /\ 0 \in Desc
    BY EthAssumption DEF NoPbuf, Pbufs, Desc
  <2>. QED
    BY <2>1, EthAssumption DEF Init, TypeOK, PbufsAccounted, Posting
<1>2. \A d \in Desc : Lag(d, dma) \in 0 .. DescCnt - 1
  BY <1>1, LagType
<1>3. Stored /\ WaitingInOrder
  BY <1>1, <1>2, RingType DEF Init, Stored, WaitingInOrder, Desc
<1>4. Pointing = {}
  BY DEF Init, Pointing
<1>5. OrderInv
  BY <1>1 DEF Init, OrderInv, Ascending, NoneNewer, TakenBefore, Desc, TypeOK
<1>. QED
  BY <1>1, <1>3, <1>4, <1>5 DEF IInv, RingInv, PointingInv

LEMMA NextIInv == IInv /\ [Next]_vars => IInv'
<1>. SUFFICES ASSUME IInv, [Next]_vars PROVE IInv'
  OBVIOUS
<1>1. TypeOK' /\ PbufsAccounted'
  BY TypeOKStep DEF IInv, RingInv
<1>2. Stored' /\ WaitingInOrder'
  <2>1. CASE Arrive
    BY <2>1, ArriveRing DEF IInv
  <2>2. CASE low_level_input
    BY <2>2, ReadRing DEF IInv
  <2>3. CASE ~Arrive /\ ~low_level_input
    BY <2>3, RingUntouched DEF IInv, RingInv, Stored, WaitingInOrder
  <2>. QED
    BY <2>1, <2>2, <2>3
<1>3. PointingInv'
  BY PointingInvStep DEF IInv
<1>4. OrderInv'
  BY OrderStep DEF IInv
<1>. QED
  BY <1>1, <1>2, <1>3, <1>4 DEF IInv, RingInv

LEMMA Invariance == Spec => []IInv
BY InitIInv, NextIInv, PTL DEF Spec

(* The ring, the counters and the queues are what their users take them    *)
(* for.                                                                    *)
THEOREM RingTypeCorrect == Spec => []TypeOK
<1>1. IInv => TypeOK
  BY DEF IInv, RingInv
<1>. QED
  BY <1>1, Invariance, PTL

(* No way through ethernetif_input, the mailbox or LwIP loses a pbuf.      *)
THEOREM NoPbufLost == Spec => []PbufsAccounted
<1>1. IInv => PbufsAccounted
  BY DEF IInv
<1>. QED
  BY <1>1, Invariance, PTL

(* Whatever the size of the ring, the DMA needs all of it to reach the     *)
(* buffer of a pbuf that LwIP still reads.                                 *)
THEOREM BufferLastsALap == Spec => []OverwrittenALapLater
<1>1. IInv => OverwrittenALapLater
  BY DEF IInv, PointingInv, OverwrittenALapLater
<1>. QED
  BY <1>1, Invariance, PTL

(* As long as the tcpip thread is not a whole ring behind the DMA, frames  *)
(* are lost, never repeated or reordered, with any number of interrupts    *)
(* merged into one and whatever the size of the ring and the mailbox.      *)
THEOREM FramesInOrder == Spec => InOrder
<1>1. IInv /\ [Next]_vars =>
        [Len(mbox') < Len(mbox) => taken' > taken \/ late']_vars
  BY OrderStep DEF IInv
<1>. QED
  BY <1>1, Invariance, PTL DEF Spec, InOrder
-----------------------------------------------------------------------------
(* Link.                                                                   *)

LinkInv ==
  /\ LinkTypeOK
  /\ StaticHasNoClient
  /\ at = "dhcp_start" => addr # StaticAddr

LEMMA InitLinkInv == LinkInit => LinkInv
BY SpeedsAssumption, BootAssumption, NumbersAssumption
   DEF LinkInit, LinkInv, LinkTypeOK, StaticHasNoClient, None, StaticAddr,
       NoClient, Off, Clients

(* The states of the client.                                               *)
LEMMA ClientStates ==
  /\ NoClient \in Off /\ "OFF" \in Off /\ Off \subseteq Clients
  /\ \A c \in {"SELECTING", "REQUESTING", "CHECKING", "BACKING_OFF",
              "BOUND", "REBOOTING"} : c \in Clients \ Off
BY DEF NoClient, Off, Clients

(* The link thread and the cable.                                          *)
LEMMA LinkStep ==
  ASSUME LinkInv, Plug \/ Negotiate \/ LinkDown \/ LinkUp
  PROVE  LinkInv'
<1>. USE NumbersAssumption DEF LinkInv, LinkTypeOK, StaticHasNoClient
<1>1. CASE Plug
  BY <1>1 DEF Plug, dhcpVars
<1>2. CASE Negotiate
  BY <1>2 DEF Negotiate, dhcpVars
<1>3. CASE LinkDown
  BY <1>3 DEF LinkDown
<1>4. CASE LinkUp
  <2>1. PICK new : /\ new = IF phy \in Speeds THEN phy ELSE chosen
                   /\ chosen' = new
                   /\ IF new # None
                      THEN /\ mac' = new
                           /\ up' = TRUE
                           /\ DHCP_state' = "START"
                           /\ dhcp_network_changed
                      ELSE UNCHANGED <<mac, up, DHCP_state, dhcp, tries>>
                   /\ UNCHANGED <<phy, plugs, at, addr, gIPAddr>>
    BY <1>4 DEF LinkUp, Chosen
  <2>2. new \in Speeds \cup {None}
    BY <2>1
  <2>3. CASE new = None
    BY <2>1, <2>2, <2>3
  <2>4. CASE new # None
    <3>1. new \in Speeds
      BY <2>2, <2>4
    <3>2. \/ UNCHANGED <<dhcp, tries>>
          \/ dhcp \notin Off /\ dhcp' \in Clients /\ tries' = 1
      BY <2>1, <2>4, ClientStates DEF dhcp_network_changed
    <3>. QED
      BY <2>1, <2>4, <3>1, <3>2
  <2>. QED
    BY <2>3, <2>4
<1>. QED
  BY <1>1, <1>2, <1>3, <1>4

(* DHCP_Thread.                                                            *)
LEMMA ThreadStep ==
  ASSUME LinkInv, DHCP_Thread
  PROVE  LinkInv'
<1>. USE NumbersAssumption, ClientStates
     DEF LinkInv, LinkTypeOK, StaticHasNoClient, linkVars
<1>1. CASE Loop
  BY <1>1 DEF Loop
<1>2. CASE StartWaits
  BY <1>2 DEF StartWaits, None, StaticAddr
<1>3. CASE dhcp_start
  BY <1>3 DEF dhcp_start
<1>4. CASE WaitLooks \/ Assigned \/ WaitGoesOn \/ WaitGivesUp
  BY <1>4 DEF WaitLooks, Assigned, WaitGoesOn, WaitGivesUp
<1>5. CASE TimedOut
  BY <1>5 DEF TimedOut, dhcp_stop, StaticAddr
<1>6. CASE LinkIsDown
  BY <1>6 DEF LinkIsDown, dhcp_stop, Kept, None, StaticAddr
<1>. QED
  BY <1>1, <1>2, <1>3, <1>4, <1>5, <1>6 DEF DHCP_Thread

(* The client of LwIP: it acts only when it is on, so that the interface   *)
(* does not have the static address, and gives it none.                    *)
LEMMA ClientStep ==
  ASSUME LinkInv, dhcp_timeout \/ Server
  PROVE  LinkInv'
<1>1. /\ UNCHANGED <<linkVars, DHCP_state, at, gIPAddr>>
      /\ dhcp \notin Off
  BY ClientStates
     DEF dhcp_timeout, Server, DhcpOffer, DhcpAck, dhcp_handle_nak,
         dhcp_arp_reply, LeaseExpires
<1>2. dhcp' \in Clients /\ tries' \in 0 .. CountedTries
  BY NumbersAssumption, ClientStates
     DEF dhcp_timeout, Server, DhcpOffer, DhcpAck, dhcp_handle_nak,
         dhcp_arp_reply, LeaseExpires, Ask, StartOver, dhcp_bind,
         LinkInv, LinkTypeOK
<1>3. addr' = addr \/ addr' = None \/ addr' \in Leases
  BY DEF dhcp_timeout, Server, DhcpOffer, DhcpAck, dhcp_handle_nak,
         dhcp_arp_reply, LeaseExpires, StartOver, dhcp_bind
<1>4. addr' # StaticAddr
  BY <1>1, <1>3, LeasesAssumption DEF LinkInv, StaticHasNoClient, None, StaticAddr
<1>. QED
  BY <1>1, <1>2, <1>3, <1>4
     DEF LinkInv, LinkTypeOK, StaticHasNoClient, linkVars

LEMMA LinkInvariance == LinkSpec => []LinkInv
<1>1. LinkInv /\ [LinkNext]_netifVars => LinkInv'
  <2>1. CASE UNCHANGED netifVars
    BY <2>1
       DEF netifVars, linkVars, dhcpVars, LinkInv, LinkTypeOK, StaticHasNoClient
  <2>. QED
    BY <2>1, LinkStep, ThreadStep, ClientStep DEF LinkNext
<1>. QED
  BY <1>1, InitLinkInv, PTL DEF LinkSpec

(* Every variable of the two threads and the client stays in its range.    *)
THEOREM LinkTypeCorrect == LinkSpec => []LinkTypeOK
<1>1. LinkInv => LinkTypeOK
  BY DEF LinkInv
<1>. QED
  BY <1>1, LinkInvariance, PTL

(* From the start, whatever the cable and the servers do, and however the  *)
(* two threads and the client interleave, there is no client that would    *)
(* replace the static address while the interface has it.                  *)
THEOREM StaticAddressIsSafe == LinkSpec => []StaticHasNoClient
<1>1. LinkInv => StaticHasNoClient
  BY DEF LinkInv
<1>. QED
  BY <1>1, LinkInvariance, PTL

(* No step puts the address of a lease in the place of the static one:     *)
(* DHCP_Thread has to take that away first.                                *)
THEOREM NoLeaseReplacesStatic ==
  LinkSpec => [][addr = StaticAddr => addr' \notin Leases]_netifVars
<1>1. ASSUME LinkInv, LinkInv', LinkNext, addr = StaticAddr
      PROVE  addr' \notin Leases
  <2>1. dhcp \in Off
    BY <1>1 DEF LinkInv, StaticHasNoClient
  <2>2. CASE dhcp_timeout \/ Server
    BY <2>1, <2>2, ClientStates
       DEF dhcp_timeout, Server, DhcpOffer, DhcpAck, dhcp_handle_nak,
           dhcp_arp_reply, LeaseExpires
  <2>3. CASE DHCP_Thread
    <3>1. addr' \in {addr, None, StaticAddr}
      BY <2>3
         DEF DHCP_Thread, Loop, StartWaits, dhcp_start, WaitLooks, Assigned,
             WaitGoesOn, WaitGivesUp, TimedOut, LinkIsDown, Kept
    <3>. QED
      BY <1>1, <3>1, LeasesAssumption
  <2>4. CASE Plug \/ Negotiate \/ LinkDown \/ LinkUp
    <3>1. addr' = addr
      BY <2>4 DEF Plug, Negotiate, LinkDown, LinkUp, dhcpVars
    <3>. QED
      BY <1>1, <3>1, LeasesAssumption
  <2>. QED
    BY <1>1, <2>2, <2>3, <2>4 DEF LinkNext
<1>2. LinkInv /\ LinkInv' /\ [LinkNext]_netifVars =>
        [addr = StaticAddr => addr' \notin Leases]_netifVars
  BY <1>1
<1>. QED
  BY <1>2, LinkInvariance, PTL DEF LinkSpec
=============================================================================
