--------------------------- MODULE UartLineProofs ---------------------------
(***************************************************************************)
(* Theorems about UartLine, for any characters and sizes of the buffers.   *)
(* A packet never arrives in the middle of another, so that its bytes, the *)
(* index and ignoreNext agree.                                             *)
(***************************************************************************)
EXTENDS UartLine, SequenceTheorems, WellFoundedInduction, TLAPS

Typed == Chars \cup {"CR"}
Bytes == Typed \cup {"BS", "TAB", "ESC", "[", "A", "B"}
Lines == {s \in Seq(Typed) : Len(s) < LineLen}

(* What is in the packet buffer, and how much of it has been read: a byte, *)
(* or the three of an escape sequence, of which ignoreNext are to come.    *)
Packet ==
  /\ UserRxBufferHS \in Seq(Bytes)
  /\ UserRxBufferHSSize <= Len(UserRxBufferHS)
  /\ \/ /\ UserRxBufferHSSize = 0 /\ UserRxBufferHSIdx = 0 /\ ignoreNext = 0
     \/ /\ UserRxBufferHSSize = 1 /\ UserRxBufferHSIdx = 0 /\ ignoreNext = 0
        /\ UserRxBufferHS[1] \in Typed \cup {"BS", "TAB"}
        /\ UserRxBufferHS[1] = "TAB" => Len(line) + 4 < LineLen
     \/ /\ UserRxBufferHSSize = 3 /\ UserRxBufferHS[1] = "ESC"
        /\ \/ UserRxBufferHSIdx = 0 /\ ignoreNext = 0
           \/ UserRxBufferHSIdx = 1 /\ ignoreNext = 2
           \/ UserRxBufferHSIdx = 2 /\ ignoreNext = 1

LineInv ==
  /\ Packet
  /\ keys \in 0 .. MaxKeys
  /\ line \in Lines /\ lastUARTStr \in Lines /\ strRxBuf \in Lines
  /\ state \in {"read", "execute", "prompt"}
  /\ state # "read" => line = <<>>
  /\ offset \in Nat /\ offset <= Len(strRxBuf)
  /\ state # "execute" => offset = 0

(* What a key sends.                                                       *)
LEMMA KeysSend ==
  ASSUME NEW k \in DOMAIN KeyBytes
  PROVE  \/ \E b \in Typed \cup {"BS", "TAB"} :
              KeyBytes[k] = <<b>> /\ (b = "TAB" => k = "Tab")
         \/ \E b \in {"A", "B"} : KeyBytes[k] = <<"ESC", "[", b>>
<1>1. CASE k \in {"Enter", "Rub", "Tab"}
  <2>1. \/ KeyBytes[k] = <<"CR">> \/ KeyBytes[k] = <<"BS">>
        \/ KeyBytes[k] = <<"TAB">> /\ k = "Tab"
    BY <1>1 DEF KeyBytes
  <2>. QED
    BY <2>1 DEF Typed
<1>2. CASE k \in {"Up", "Down"}
  BY <1>2 DEF KeyBytes
<1>3. CASE k \notin {"Enter", "Rub", "Tab", "Up", "Down"}
  <2>1. k \in Chars /\ KeyBytes[k] = <<k>>
    BY <1>3 DEF KeyBytes
  <2>. QED
    BY <2>1, CharsAssumption DEF Typed
<1>. QED
  BY <1>1, <1>2, <1>3

LEMMA LeastOf ==
  ASSUME NEW S \in SUBSET Nat, S # {}
  PROVE  Min(S) \in S /\ \A j \in S : Min(S) <= j
<1> DEFINE R == {ss \in Nat \X Nat : ss[1] < ss[2]}
<1>1. IsWellFoundedOn(R, Nat)
  BY NatLessThanWellFounded DEF OpToRel
<1>2. PICK i \in S : \A j \in S : <<j, i>> \notin R
  BY <1>1, WFMin
<1>3. ASSUME NEW j \in S PROVE i <= j
  <2>1. i \in Nat /\ j \in Nat /\ ~(j < i)
    BY <1>2
  <2>. QED
    BY <2>1
<1>. QED
  BY <1>3 DEF Min

(* The end of a command: within the text, or the place behind it.          *)
LEMMA EndIsStop ==
  ASSUME NEW s \in Lines, NEW from \in 1 .. Len(s) + 1
  PROVE  LET S == {p \in from .. Len(s) + 1 : At(s, p) \in Stop}
         IN Min(S) \in from .. Len(s) + 1
<1> DEFINE S == {p \in from .. Len(s) + 1 : At(s, p) \in Stop}
<1>1. Len(s) + 1 \in S
  <2>1. s \in Seq(Typed) /\ Len(s) \in Nat
    BY DEF Lines
  <2>2. DOMAIN s = 1 .. Len(s)
    BY <2>1
  <2>3. At(s, Len(s) + 1) = "CR"
    BY <2>1, <2>2 DEF At
  <2>4. At(s, Len(s) + 1) \in Stop
    BY <2>3 DEF Stop
  <2>5. Len(s) + 1 \in from .. Len(s) + 1
    BY <2>1
  <2>. QED
    BY <2>4, <2>5
<1>2. S \in SUBSET Nat
  BY DEF Lines
<1>3. Min(S) \in S
  BY <1>1, <1>2, LeastOf
<1>. QED
  BY <1>3

LEMMA InitLine == Init => LineInv
BY LineLenAssumption, BoundAssumption
   DEF Init, InputInit, LineInv, Packet, Lines, Typed, Bytes

(* The byte that is read, and what is left of the packet.                  *)
LEMMA NextByte ==
  ASSUME LineInv, Got
  PROVE  LET ch == ByteAt(UserRxBufferHSIdx)
         IN \/ /\ ignoreNext = 0 /\ UserRxBufferHSSize = 1
               /\ ch \in Typed \cup {"BS", "TAB"}
               /\ ch = "TAB" => Len(line) + 4 < LineLen
               /\ UserRxBufferHSSize' = 0 /\ UserRxBufferHSIdx' = 0
            \/ /\ ignoreNext = 0 /\ UserRxBufferHSSize = 3 /\ ch = "ESC"
               /\ UserRxBufferHSSize' = 3 /\ UserRxBufferHSIdx' = 1
            \/ /\ ignoreNext = 2 /\ UserRxBufferHSSize = 3
               /\ UserRxBufferHSSize' = 3 /\ UserRxBufferHSIdx' = 2
            \/ /\ ignoreNext = 1 /\ UserRxBufferHSSize = 3
               /\ UserRxBufferHSSize' = 0 /\ UserRxBufferHSIdx' = 0
BY DEF LineInv, Packet, Got, CDC_GetRx, Unread, ByteAt

LEMMA PressStep ==
  ASSUME LineInv, NEW k \in DOMAIN KeyBytes, Press(k)
  PROVE  LineInv'
<1> DEFINE p == KeyBytes[k]
<1>1. PICK n \in {1, 3} :
        /\ p \in Seq(Bytes) /\ Len(p) = n
        /\ n = 1 => /\ p[1] \in Typed \cup {"BS", "TAB"}
                    /\ p[1] = "TAB" => k = "Tab"
        /\ n = 3 => p[1] = "ESC"
  <2>1. CASE \E b \in Typed \cup {"BS", "TAB"} :
               p = <<b>> /\ (b = "TAB" => k = "Tab")
    BY <2>1 DEF Bytes
  <2>2. CASE \E b \in {"A", "B"} : p = <<"ESC", "[", b>>
    BY <2>2 DEF Bytes
  <2>. QED
    BY <2>1, <2>2, KeysSend
<1> HIDE DEF p
<1>2. /\ UserRxBufferHS' \in Seq(Bytes)
      /\ n <= Len(UserRxBufferHS')
      /\ UserRxBufferHS'[1] = p[1]
  <2> DEFINE rest == SubSeq(UserRxBufferHS, Len(p) + 1, Len(UserRxBufferHS))
  <2>1. UserRxBufferHS' = p \o rest
    BY DEF Press, CDC_Receive_HS, p
  <2>2. UserRxBufferHS \in Seq(Bytes)
    BY DEF LineInv, Packet
  <2>3. rest \in Seq(Bytes)
    BY <1>1, <2>2
  <2> HIDE DEF rest
  <2>. QED
    BY <1>1, <2>1, <2>3
<1>3. /\ UserRxBufferHSSize' = n
      /\ UserRxBufferHSIdx = 0 /\ UserRxBufferHSIdx' = 0
      /\ ignoreNext = 0
      /\ UNCHANGED lineVars
      /\ keys' = keys + 1 /\ keys < MaxKeys
      /\ k = "Tab" => state # "read" \/ Len(line) + 4 < LineLen
  BY <1>1 DEF Press, CDC_Receive_HS, p, LineInv, Packet
<1>4. k = "Tab" => Len(line) + 4 < LineLen
  BY <1>3, LineLenAssumption DEF LineInv
<1>. QED
  BY <1>1, <1>2, <1>3, <1>4, BoundAssumption
     DEF LineInv, Packet, lineVars

(* What a byte does to the line.                                           *)
LEMMA LineEdits ==
  ASSUME NEW l \in Lines, LineLen \in Nat
  PROVE  /\ <<>> \in Lines
         /\ l # <<>> => Front(l) \in Lines
         /\ Len(l) + 4 < LineLen => l \o Blanks \in Lines
         /\ \A j \in 1 .. Len(l) + 1 : SubSeq(l, 1, j - 1) \in Lines
<1>1. <<>> \in Lines
  BY DEF Lines
<1>2. ASSUME l # <<>> PROVE Front(l) \in Lines
  BY <1>2 DEF Lines, Front
<1>3. ASSUME Len(l) + 4 < LineLen
      PROVE  l \o Blanks \in Lines
  <2>1. Blanks \in Seq(Typed) /\ Len(Blanks) = 4
    <3>1. " " \in Typed
      BY CharsAssumption DEF Typed
    <3>2. ASSUME NEW b \in Typed
          PROVE  <<b, b, b, b>> \in Seq(Typed) /\ Len(<<b, b, b, b>>) = 4
      OBVIOUS
    <3>. QED
      BY <3>1, <3>2 DEF Blanks
  <2>2. l \in Seq(Typed) /\ Len(l) \in Nat
    BY DEF Lines
  <2>3. /\ l \o Blanks \in Seq(Typed)
        /\ Len(l \o Blanks) = Len(l) + Len(Blanks)
    BY <2>1, <2>2, ConcatProperties
  <2>. QED
    BY <1>3, <2>1, <2>2, <2>3 DEF Lines
<1>4. ASSUME NEW j \in 1 .. Len(l) + 1
      PROVE  SubSeq(l, 1, j - 1) \in Lines
  BY DEF Lines
<1>. QED
  BY <1>1, <1>2, <1>3, <1>4

LEMMA EscapeStep ==
  ASSUME LineInv, Escape(ByteAt(UserRxBufferHSIdx))
  PROVE  LineInv'
<1>1. Got /\ ignoreNext # 0
  BY DEF Escape
<1>2. \/ /\ ignoreNext = 2 /\ ignoreNext' = 1
         /\ UserRxBufferHSSize' = 3 /\ UserRxBufferHSIdx' = 2
      \/ /\ ignoreNext = 1 /\ ignoreNext' = 0
         /\ UserRxBufferHSSize' = 0 /\ UserRxBufferHSIdx' = 0
  BY <1>1, NextByte DEF Escape
<1>3. UNCHANGED <<UserRxBufferHS, keys, offset, cmdRes, lastUARTStr,
                  strRxBuf, state>>
  BY DEF Escape, Got, CDC_GetRx, Editing
<1>4. line' \in Lines /\ state = "read"
  BY DEF Escape, Got, LineInv
<1>5. Packet'
  BY <1>1, <1>2, <1>3 DEF LineInv, Packet, Got, CDC_GetRx, Unread
<1>. QED
  BY <1>3, <1>4, <1>5 DEF LineInv

LEMMA ControlStep ==
  ASSUME LineInv, Control(ByteAt(UserRxBufferHSIdx))
  PROVE  LineInv'
<1> DEFINE ch == ByteAt(UserRxBufferHSIdx)
<1>1. /\ Got /\ ignoreNext = 0 /\ state = "read"
      /\ ch \in {"BS", "TAB", "ESC", "NUL"}
      /\ UNCHANGED <<UserRxBufferHS, keys, offset, cmdRes, lastUARTStr,
                     strRxBuf, state>>
  BY DEF Control, Got, CDC_GetRx, Editing
<1> HIDE DEF ch
<1>2. \/ /\ ch = "TAB" => Len(line) + 4 < LineLen
         /\ ch # "ESC"
         /\ UserRxBufferHSSize' = 0 /\ UserRxBufferHSIdx' = 0
      \/ /\ ch = "ESC" /\ UserRxBufferHSSize = 3
         /\ UserRxBufferHSSize' = 3 /\ UserRxBufferHSIdx' = 1
  <2>1. ch \notin Typed \/ ch \notin {"BS", "TAB", "ESC", "NUL"}
    BY CharsAssumption DEF Typed
  <2>2. \/ /\ ch \in Typed \cup {"BS", "TAB"}
           /\ ch = "TAB" => Len(line) + 4 < LineLen
           /\ UserRxBufferHSSize' = 0 /\ UserRxBufferHSIdx' = 0
        \/ /\ UserRxBufferHSSize = 3 /\ ch = "ESC"
           /\ UserRxBufferHSSize' = 3 /\ UserRxBufferHSIdx' = 1
    BY <1>1, NextByte DEF ch
  <2>. QED
    BY <1>1, <2>1, <2>2
<1>3. ignoreNext' = IF ch = "ESC" THEN 2 ELSE 0
  BY DEF Control, ch
<1>4. line' \in Lines
  <2>1. line' = CASE ch = "BS" /\ line # <<>> -> Front(line)
                  [] ch = "TAB" -> line \o Blanks
                  [] OTHER -> line
    BY DEF Control, ch
  <2>2. line \in Lines /\ LineLen \in Nat
    BY LineLenAssumption DEF LineInv
  <2>3. /\ line # <<>> => Front(line) \in Lines
        /\ Len(line) + 4 < LineLen
             => line \o Blanks \in Lines
    BY <2>2, LineEdits
  <2>4. ch = "TAB" => Len(line) + 4 < LineLen
    BY <1>2
  <2>. QED
    BY <2>1, <2>2, <2>3, <2>4
<1>5. Packet'
  BY <1>1, <1>2, <1>3 DEF LineInv, Packet
<1>. QED
  BY <1>1, <1>4, <1>5 DEF LineInv

LEMMA CharacterStep ==
  ASSUME LineInv, Character(ByteAt(UserRxBufferHSIdx))
  PROVE  LineInv'
<1> DEFINE ch == ByteAt(UserRxBufferHSIdx)
           buf == Append(line, ch)
<1>1. /\ Got /\ ignoreNext = 0 /\ ignoreNext' = 0 /\ state = "read"
      /\ ch \notin {"BS", "TAB", "ESC", "NUL"}
      /\ UNCHANGED <<UserRxBufferHS, keys, offset, cmdRes>>
  BY DEF Character, Got, CDC_GetRx
<1>2. /\ ch \in Typed
      /\ UserRxBufferHSSize' = 0 /\ UserRxBufferHSIdx' = 0
  BY <1>1, NextByte
<1>3. Packet'
  BY <1>1, <1>2 DEF LineInv, Packet
<1>4. /\ line \in Seq(Typed) /\ Len(line) < LineLen /\ line \in Lines
      /\ lastUARTStr \in Lines /\ strRxBuf \in Lines
      /\ LineLen \in Nat /\ LineLen > 4
      /\ offset = 0
  BY <1>1, LineLenAssumption DEF LineInv, Lines
<1>5. <<>> \in Lines
  BY <1>4, LineEdits
<1>6. CASE Len(buf) >= LineLen - 1
  <2>1. /\ strRxBuf' = SubSeq(buf, 1, LineLen - 1)
        /\ lastUARTStr' = SubSeq(buf, 1, LineLen - 1)
        /\ line' = <<>> /\ state' = "execute"
    BY <1>6 DEF Character
  <2>2. buf \in Seq(Typed) /\ Len(buf) = Len(line) + 1
    BY <1>2, <1>4
  <2> HIDE DEF buf
  <2>3. SubSeq(buf, 1, LineLen - 1) \in Lines
    BY <1>4, <1>6, <2>2 DEF Lines
  <2>. QED
    BY <1>1, <1>3, <1>4, <1>5, <2>1, <2>3 DEF LineInv, Lines
<1>7. CASE Len(buf) < LineLen - 1
  <2>1. buf \in Lines
    BY <1>2, <1>4, <1>7 DEF Lines
  <2>2. \/ /\ strRxBuf' = buf /\ line' = <<>> /\ state' = "execute"
           /\ lastUARTStr' \in {line, lastUARTStr}
        \/ line' = buf /\ UNCHANGED <<strRxBuf, lastUARTStr, state>>
    <3>1. ~(Len(buf) >= LineLen - 1)
      BY <1>2, <1>4, <1>7
    <3>. QED
      BY <3>1 DEF Character
  <2> HIDE DEF buf
  <2>3. line' \in Lines /\ lastUARTStr' \in Lines /\ strRxBuf' \in Lines
    BY <1>4, <1>5, <2>1, <2>2
  <2>4. offset <= Len(strRxBuf')
    BY <1>4, <2>3 DEF Lines
  <2>. QED
    BY <1>1, <1>3, <1>4, <2>2, <2>3, <2>4 DEF LineInv
<1>. QED
  BY <1>2, <1>4, <1>6, <1>7

(* A turn of the decoder ends at a place of the line or behind it.         *)
LEMMA ExecuteStep ==
  ASSUME LineInv, Execute
  PROVE  LineInv'
<1> DEFINE from == offset + 1
           to   == Min({p \in from .. Len(strRxBuf) + 1 :
                          At(strRxBuf, p) \in Stop})
           more == At(strRxBuf, to) = ";"
<1>1. /\ state = "execute"
      /\ strRxBuf' = IF more THEN strRxBuf ELSE SubSeq(strRxBuf, 1, to - 1)
      /\ offset' = IF more THEN to ELSE 0
      /\ state' = IF more THEN "execute" ELSE "prompt"
      /\ UNCHANGED <<UserRxBufferHS, UserRxBufferHSSize, UserRxBufferHSIdx,
                     keys, ignoreNext, line, lastUARTStr>>
  BY DEF Execute, inputVars
<1>2. /\ strRxBuf \in Lines /\ strRxBuf \in Seq(Typed)
      /\ LineLen \in Nat /\ from \in 1 .. Len(strRxBuf) + 1
  BY LineLenAssumption DEF LineInv, Lines
<1>3. to \in from .. Len(strRxBuf) + 1
  BY <1>2, EndIsStop
<1>4. more => to \in 1 .. Len(strRxBuf)
  <2>1. to \notin 1 .. Len(strRxBuf) => At(strRxBuf, to) = "CR"
    BY <1>2 DEF At
  <2>. QED
    BY <1>2, <1>3, <2>1
<1> HIDE DEF to, more
<1>5. SubSeq(strRxBuf, 1, to - 1) \in Lines
  <2>1. \A j \in 1 .. Len(strRxBuf) + 1 : SubSeq(strRxBuf, 1, j - 1) \in Lines
    BY <1>2, LineEdits
  <2>. QED
    BY <1>2, <1>3, <2>1
<1>6. /\ Packet' /\ keys' \in 0 .. MaxKeys
      /\ line' \in Lines /\ line' = <<>> /\ lastUARTStr' \in Lines
  BY <1>1 DEF LineInv, Packet
<1>7. CASE more
  BY <1>1, <1>2, <1>4, <1>6, <1>7 DEF LineInv
<1>8. CASE ~more
  BY <1>1, <1>2, <1>5, <1>6, <1>8 DEF LineInv, Lines
<1>. QED
  BY <1>7, <1>8

LEMMA PromptStep ==
  ASSUME LineInv, Prompt
  PROVE  LineInv'
<1>1. strRxBuf \in Lines /\ LineLen \in Nat
  BY LineLenAssumption DEF LineInv
<1>2. <<>> \in Lines /\ (strRxBuf # <<>> => Front(strRxBuf) \in Lines)
  BY <1>1, LineEdits
<1>3. /\ lastUARTStr' \in {lastUARTStr, strRxBuf}
           \cup (IF strRxBuf = <<>> THEN {} ELSE {Front(strRxBuf)})
      /\ state = "prompt" /\ state' = "read" /\ strRxBuf' = <<>>
      /\ UNCHANGED <<UserRxBufferHS, UserRxBufferHSSize, UserRxBufferHSIdx,
                     keys, ignoreNext, line, offset>>
  BY DEF Prompt, inputVars
<1>. QED
  BY <1>1, <1>2, <1>3 DEF LineInv, Packet

LEMMA LineStep == LineInv /\ [Next]_vars => LineInv'
<1> SUFFICES ASSUME LineInv, [Next]_vars PROVE LineInv'
  OBVIOUS
<1>1. CASE \E k \in DOMAIN KeyBytes : Press(k)
  BY <1>1, PressStep
<1>2. CASE UART_getString
  BY <1>2, EscapeStep, ControlStep, CharacterStep DEF UART_getString
<1>3. CASE Execute
  BY <1>3, ExecuteStep
<1>4. CASE Prompt
  BY <1>4, PromptStep
<1>5. CASE UNCHANGED vars
  BY <1>5 DEF vars, inputVars, lineVars, LineInv, Packet
<1>. QED
  BY <1>1, <1>2, <1>3, <1>4, <1>5 DEF Next, StartUARTTask

LEMMA LineTypes == LineInv => TypeOK
BY LineLenAssumption DEF LineInv, Packet, Lines, TypeOK, Typed

(* UART_getString never writes behind uartRxStrBuf, whatever is typed and  *)
(* recalled, but for a TAB that finds no room (Press), and CMD_DEC_execute *)
(* never leaves the line it runs (VCP_UART.c:82-213, cmd_dec.c:624-800).   *)
THEOREM LineBuffersKept == Spec => []TypeOK
BY InitLine, LineStep, LineTypes, PTL DEF Spec
=============================================================================
