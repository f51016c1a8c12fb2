---------------------------- MODULE SerialInput ----------------------------
(***************************************************************************)
(* The receive side of CM7/Core/Src/usbd_cdc_if.c: one buffer that the USB *)
(* interrupt fills with a packet and CDC_GetRx empties a byte at a time.   *)
(* Nothing holds the next packet back, so a packet replaces one that has   *)
(* not been read.                                                          *)
(***************************************************************************)
EXTENDS Naturals, Sequences

VARIABLES
  UserRxBufferHS,      \* its bytes, those of older packets behind the last
  UserRxBufferHSSize,
  UserRxBufferHSIdx

inputVars == <<UserRxBufferHS, UserRxBufferHSSize, UserRxBufferHSIdx>>

InputInit ==
  /\ UserRxBufferHS = <<>>
  /\ UserRxBufferHSSize = 0
  /\ UserRxBufferHSIdx = 0

Unread == (UserRxBufferHSSize - UserRxBufferHSIdx) % 65536
ByteAt(i) == IF i < Len(UserRxBufferHS) THEN UserRxBufferHS[i + 1] ELSE "NUL"

CDC_Receive_HS(p) ==
  /\ UserRxBufferHS' = p \o SubSeq(UserRxBufferHS, Len(p) + 1,
                                   Len(UserRxBufferHS))
  /\ UserRxBufferHSSize' = Len(p)
  /\ UNCHANGED UserRxBufferHSIdx

CDC_GetRx_xNoReset ==
  /\ Unread # 0
  /\ UserRxBufferHSIdx' = UserRxBufferHSIdx + 1
  /\ UNCHANGED <<UserRxBufferHS, UserRxBufferHSSize>>

(* CDC_GetRx(&rx, 1) when there is something to read.                      *)
CDC_GetRx ==
  /\ Unread # 0
  /\ IF UserRxBufferHSIdx + 1 = UserRxBufferHSSize
     THEN UserRxBufferHSIdx' = 0 /\ UserRxBufferHSSize' = 0
     ELSE UserRxBufferHSIdx' = UserRxBufferHSIdx + 1
          /\ UNCHANGED UserRxBufferHSSize
  /\ UNCHANGED UserRxBufferHS
=============================================================================
