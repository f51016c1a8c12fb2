------------------------------- MODULE EthRx -------------------------------
(***************************************************************************)
(* Frames received by CM7/Core/Src/ethernetif.c: the ring of descriptors   *)
(* the DMA fills, the interrupt and its binary semaphore, the thread that  *)
(* wraps a buffer of the ring in a pbuf without copying it and posts it,   *)
(* and the tcpip thread and applications that read and free it.            *)
(***************************************************************************)
EXTENDS Naturals, Sequences

CONSTANTS
  DescCnt,       \* ETH_RX_DESC_CNT
  RxPool,        \* the pbufs of RX_POOL
  MboxSize,      \* TCPIP_MBOX_SIZE
  MaxKept,       \* bound: pbufs TCP holds for its application
  MaxFrames      \* bound: frames that arrive

ASSUME EthAssumption ==
  /\ {DescCnt, RxPool, MboxSize} \subseteq Nat \ {0}
  /\ {MaxKept, MaxFrames} \subseteq Nat

VARIABLES
  arrived,       \* frames the DMA has stored; they are numbered from 1
  DMARxDscrTab,  \* [descriptor -> it is the DMA's (the bit OWN)]
  Rx_Buff,       \* [descriptor -> the frame its buffer holds]
  dma,           \* the descriptor the DMA fills next
  CurRxDesc,     \* the descriptor the thread looks at next
  irq,           \* "none", "pending", or "served" but not cleared
  RxPktSemaphore,
  thread,        \* [st, p]: ethernetif_input, with the pbuf it is posting
  pool,          \* free pbufs
  mbox,          \* pbufs on the way to the tcpip thread
  kept,          \* pbufs TCP has queued for its application
  taken,         \* the frame the tcpip thread read last (observation)
  late,          \* it was a whole ring behind the DMA once (observation)
  starved        \* the thread sleeps for want of a pbuf (observation)

ringVars == <<arrived, DMARxDscrTab, Rx_Buff, dma>>
takenVars == <<taken, late>>
vars == <<ringVars, CurRxDesc, irq, RxPktSemaphore, thread, pool, mbox, kept,
          takenVars, starved>>

Desc == 0 .. DescCnt - 1
(* INCR_RX_DESC_INDEX                                                      *)
Incr_xEarly(i) == IF i + 2 >= DescCnt THEN 0 ELSE i + 1
Incr(i) == IF i + 1 >= DescCnt THEN i + 1 - DescCnt ELSE i + 1
NoPbuf == [desc |-> 0, frame |-> 0]

Init ==
  /\ arrived = 0
  /\ DMARxDscrTab = [d \in Desc |-> TRUE]
  /\ Rx_Buff = [d \in Desc |-> 0]
  /\ dma = 0
  /\ CurRxDesc = 0
  /\ irq = "none"
  /\ RxPktSemaphore = 1
  /\ thread = [st |-> "wait", p |-> NoPbuf]
  /\ pool = RxPool
  /\ mbox = <<>>
  /\ kept = <<>>
  /\ taken = 0
  /\ late = FALSE
  /\ starved = FALSE
-----------------------------------------------------------------------------
(* A frame is stored, if the next descriptor is the DMA's; otherwise it is *)
(* lost.  It may come while the handler of an earlier one runs.            *)
Arrive ==
  /\ arrived < MaxFrames
  /\ DMARxDscrTab[dma]
  /\ arrived' = arrived + 1
  /\ Rx_Buff' = [Rx_Buff EXCEPT ![dma] = arrived + 1]
  /\ DMARxDscrTab' = [DMARxDscrTab EXCEPT ![dma] = FALSE]
  /\ dma' = Incr(dma)
  /\ irq' = IF irq = "none" THEN "pending" ELSE irq
  /\ UNCHANGED <<CurRxDesc, RxPktSemaphore, thread, pool, mbox, kept, takenVars,
                 starved>>

osSemaphoreRelease(sem) == 1

(* HAL_ETH_IRQHandler calls back first and clears the request afterwards,  *)
(* that of a frame which arrived in between included.                      *)
HAL_ETH_RxCpltCallback ==
  /\ irq = "pending"
  /\ RxPktSemaphore' = osSemaphoreRelease(RxPktSemaphore)
  /\ irq' = "served"
  /\ UNCHANGED <<ringVars, CurRxDesc, thread, pool, mbox, kept, takenVars,
                 starved>>

ClearRequest ==
  /\ irq = "served"
  /\ irq' = "none"
  /\ UNCHANGED <<ringVars, CurRxDesc, RxPktSemaphore, thread, pool, mbox, kept,
                 takenVars, starved>>
-----------------------------------------------------------------------------
(* ethernetif_input.  No thread runs inside the interrupt.                 *)
Acquire ==
  /\ irq # "served"
  /\ thread.st = "wait"
  /\ RxPktSemaphore = 1
  /\ RxPktSemaphore' = 0
  /\ thread' = [thread EXCEPT !.st = "read"]
  /\ starved' = FALSE
  /\ UNCHANGED <<ringVars, CurRxDesc, irq, pool, mbox, kept, takenVars>>

HAL_ETH_BuildRxDescriptors_xLeft(d) == DMARxDscrTab
HAL_ETH_BuildRxDescriptors(d) == [DMARxDscrTab EXCEPT ![d] = TRUE]

(* low_level_input: the descriptor is built anew at once, so the DMA may   *)
(* fill the buffer the pbuf points to.  Without a pbuf the frame is        *)
(* dropped and the thread waits again, whatever else there is in the ring. *)
low_level_input ==
  /\ irq # "served"
  /\ thread.st = "read"
  /\ IF DMARxDscrTab[CurRxDesc]
     THEN /\ thread' = [st |-> "wait", p |-> NoPbuf]
          /\ UNCHANGED <<CurRxDesc, pool, starved, DMARxDscrTab>>
     ELSE /\ DMARxDscrTab' = HAL_ETH_BuildRxDescriptors(CurRxDesc)
          /\ CurRxDesc' = Incr(CurRxDesc)
          /\ starved' = (pool = 0)
          /\ IF pool > 0
             THEN /\ pool' = pool - 1
                  /\ thread' = [st |-> "input",
                                p |-> [desc |-> CurRxDesc,
                                       frame |-> Rx_Buff[CurRxDesc]]]
             ELSE /\ thread' = [st |-> "wait", p |-> NoPbuf]
                  /\ UNCHANGED pool
  /\ UNCHANGED <<arrived, Rx_Buff, dma, irq, RxPktSemaphore, mbox, kept,
                 takenVars>>

(* The loop goes on until there is no frame.                               *)
Again_xOnce(p) == [st |-> "wait", p |-> p]
Again(p) == [st |-> "read", p |-> p]

(* netif->input, which is tcpip_input: the pbuf is posted, or freed.       *)
netif_input_xNoFree ==
  /\ irq # "served"
  /\ thread.st = "input"
  /\ mbox' = IF Len(mbox) < MboxSize THEN Append(mbox, thread.p) ELSE mbox
  /\ thread' = Again(NoPbuf)
  /\ UNCHANGED <<ringVars, CurRxDesc, irq, RxPktSemaphore, pool, kept, takenVars,
                 starved>>

netif_input ==
  /\ irq # "served"
  /\ thread.st = "input"
  /\ IF Len(mbox) < MboxSize
     THEN mbox' = Append(mbox, thread.p) /\ UNCHANGED pool
     ELSE pool' = pool + 1 /\ UNCHANGED mbox
  /\ thread' = Again(NoPbuf)
  /\ UNCHANGED <<ringVars, CurRxDesc, irq, RxPktSemaphore, kept, takenVars,
                 starved>>
-----------------------------------------------------------------------------
(* The tcpip thread is done with a frame, or queues it for an application, *)
(* which reads it later.  The pbuf refers to the buffer of the ring: what  *)
(* is read is what the buffer holds by now.  pbuf_free_custom gives the    *)
(* pbuf back.                                                              *)
tcpip_thread ==
  /\ irq # "served"
  /\ mbox # <<>>
  /\ mbox' = Tail(mbox)
  /\ taken' = Rx_Buff[Head(mbox).desc]
  /\ late' = (late \/ arrived >= Head(mbox).frame + DescCnt)
  /\ \/ pool' = pool + 1 /\ UNCHANGED kept
     \/ /\ Len(kept) < MaxKept
        /\ kept' = Append(kept, Head(mbox))
        /\ UNCHANGED pool
  /\ UNCHANGED <<ringVars, CurRxDesc, irq, RxPktSemaphore, thread, starved>>

Application ==
  /\ irq # "served"
  /\ kept # <<>>
  /\ kept' = Tail(kept)
  /\ pool' = pool + 1
  /\ UNCHANGED <<ringVars, CurRxDesc, irq, RxPktSemaphore, thread, mbox, takenVars,
                 starved>>

Interrupt == HAL_ETH_RxCpltCallback \/ ClearRequest
ethernetif_input == Acquire \/ low_level_input \/ netif_input
Next == Arrive \/ Interrupt \/ ethernetif_input \/ tcpip_thread \/ Application

Spec == Init /\ [][Next]_vars

(* Interrupts are taken; the input thread has the highest priority, and    *)
(* the tcpip thread runs when it waits.                                    *)
FairSpec ==
  /\ Spec
  /\ WF_vars(Interrupt)
  /\ WF_vars(ethernetif_input)
  /\ WF_vars(tcpip_thread)
-----------------------------------------------------------------------------
Pbufs == [desc : Desc, frame : Nat]

TypeOK ==
  /\ arrived \in Nat
  /\ DMARxDscrTab \in [Desc -> BOOLEAN]
  /\ Rx_Buff \in [Desc -> Nat]
  /\ dma \in Desc
  /\ CurRxDesc \in Desc
  /\ irq \in {"none", "pending", "served"}
  /\ RxPktSemaphore \in {0, 1}
  /\ thread \in [st : {"wait", "read", "input"}, p : Pbufs]
  /\ pool \in 0 .. RxPool
  /\ mbox \in Seq(Pbufs) /\ Len(mbox) <= MboxSize
  /\ kept \in Seq(Pbufs) /\ Len(kept) <= MaxKept
  /\ taken \in Nat /\ late \in BOOLEAN
  /\ starved \in BOOLEAN

(* Every pbuf is free or in one place, whichever of the ways out of the    *)
(* loop a frame takes (ethernetif.c:453-457, 486-488, 570-575).            *)
Posting == IF thread.st = "input" THEN 1 ELSE 0
PbufsAccounted == pool + Len(mbox) + Len(kept) + Posting = RxPool

(* A buffer is overwritten while a pbuf points to it only by the frame     *)
(* that comes a whole ring later, though the descriptor was given back     *)
(* before anybody looked at the frame (ethernetif.c:440-457).              *)
IsIn(p) == Rx_Buff[p.desc] = p.frame
Pointing ==
  {mbox[i] : i \in DOMAIN mbox} \cup {kept[i] : i \in DOMAIN kept}
    \cup (IF thread.st = "input" THEN {thread.p} ELSE {})
OverwrittenALapLater ==
  \A p \in Pointing : IsIn(p) \/ arrived >= p.frame + DescCnt

(* As long as the tcpip thread takes its pbufs before the DMA is a whole   *)
(* ring ahead, LwIP reads the frames in the order of their arrival and     *)
(* none of them twice, though it reads them in buffers the DMA has been    *)
(* given back (ethernetif.c:440-457).                                      *)
InOrder == [][Len(mbox') < Len(mbox) => taken' > taken \/ late']_vars

(* As long as pbufs last no frame is left in the ring with the thread      *)
(* asleep: neither by the two frames that share one interrupt, nor by a    *)
(* request cleared after the next frame has come, nor by a semaphore that  *)
(* counts to one (ethernetif.c:215-218, 480-491).                          *)
Waiting == \E d \in Desc : ~DMARxDscrTab[d]
FramesAreTaken == Waiting ~> ~Waiting \/ starved
=============================================================================
