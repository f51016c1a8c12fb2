------------------------------ MODULE UartLine ------------------------------
(***************************************************************************)
(* The shell on the serial line: UART_getString of CM7/Core/Src/VCP_UART.c *)
(* takes the bytes of SerialInput one by one, CMD_DEC_execute of cmd_dec.c *)
(* splits the finished line, and StartUARTTask of main.c goes round.       *)
(***************************************************************************)
EXTENDS SerialInput, CommandLine, SequencesExt

CONSTANTS
  Chars,         \* what can stand in a line
  LineLen,       \* UART_STR_SIZE, the size of both line buffers
  MaxKeys        \* bound: how many keys are pressed

ASSUME LineLenAssumption == LineLen \in Nat \ 0 .. 4    \* a TAB is four blanks
ASSUME BoundAssumption == MaxKeys \in Nat
ASSUME CharsAssumption ==
  /\ {" ", ";", "#", "-"} \subseteq Chars
  /\ Chars \cap {"CR", "BS", "TAB", "ESC", "NUL"} = {}

VARIABLES
  keys,          \* how many keys have been pressed
  ignoreNext,    \* bytes of an escape sequence that are still to come
  line,          \* uartRxStrBuf, up to idx
  lastUARTStr,
  strRxBuf,      \* the line that is executed
  offset,        \* where in it
  state,         \* what StartUARTTask does: "read", "execute" or "prompt"
  cmdRes         \* the command that was decoded last

lineVars == <<ignoreNext, line, lastUARTStr, strRxBuf, offset, state, cmdRes>>
vars == <<inputVars, keys, lineVars>>

(* What the terminal sends for a key.                                      *)
KeyBytes ==
  [k \in Chars \cup {"Enter", "Rub", "Tab", "Up", "Down"} |->
     CASE k = "Enter" -> <<"CR">>
       [] k = "Rub"   -> <<"BS">>
       [] k = "Tab"   -> <<"TAB">>
       [] k = "Up"    -> <<"ESC", "[", "A">>
       [] k = "Down"  -> <<"ESC", "[", "B">>
       [] OTHER       -> <<k>>]

NoCommand == [name |-> <<>>, opt |-> 0, arg |-> 0]

Init ==
  /\ InputInit
  /\ keys = 0
  /\ ignoreNext = 0
  /\ line = <<>>
  /\ lastUARTStr = <<>>
  /\ strRxBuf = <<>>
  /\ offset = 0
  /\ state = "read"
  /\ cmdRes = NoCommand
-----------------------------------------------------------------------------
(* Keys come one by one while the shell has looked at every byte, or while *)
(* it runs a command; a person is slower than the shell is between the     *)
(* bytes of one key.  Nobody presses TAB where four blanks do not fit.     *)
Press(k) ==
  /\ keys < MaxKeys
  /\ UserRxBufferHSIdx = 0
  /\ k = "Tab" => state # "read" \/ Len(line) + 4 < LineLen
  /\ keys' = keys + 1
  /\ CDC_Receive_HS(KeyBytes[k])
  /\ UNCHANGED lineVars

(* What a TAB stands for.                                                  *)
Blanks == <<" ", " ", " ", " ">>

(* UART_getChar has got a byte.                                            *)
Got ==
  /\ state = "read"
  /\ CDC_GetRx
  /\ UNCHANGED <<keys, offset, cmdRes>>

Editing == UNCHANGED <<lastUARTStr, strRxBuf, state>>

Escape(ch) ==
  /\ Got
  /\ ignoreNext # 0
  /\ ignoreNext' = ignoreNext - 1
  /\ line' = IF ignoreNext = 1 /\ ch = "A" /\ line = <<>> THEN lastUARTStr
             ELSE line
  /\ Editing

Control_xShort(ch) ==
  /\ Got
  /\ ignoreNext = 0
  /\ ch \in {"BS", "TAB", "ESC", "NUL"}
  /\ ignoreNext' = IF ch = "ESC" THEN 1 ELSE 0
  /\ line' = CASE ch = "BS" /\ line # <<>> -> Front(line)
               [] ch = "TAB" -> line \o Blanks
               [] OTHER -> line
  /\ Editing

Control(ch) ==
  /\ Got
  /\ ignoreNext = 0
  /\ ch \in {"BS", "TAB", "ESC", "NUL"}
  /\ ignoreNext' = IF ch = "ESC" THEN 2 ELSE 0
  /\ line' = CASE ch = "BS" /\ line # <<>> -> Front(line)
               [] ch = "TAB" -> line \o Blanks
               [] OTHER -> line
  /\ Editing

Character_xNoEnd(ch) ==
  LET buf == Append(line, ch)
  IN /\ Got
     /\ ignoreNext = 0
     /\ ch \notin {"BS", "TAB", "ESC", "NUL"}
     /\ IF ch = "CR"
        THEN /\ strRxBuf' = buf
             /\ lastUARTStr' = IF Len(buf) > 1 THEN line ELSE lastUARTStr
             /\ line' = <<>>
             /\ state' = "execute"
        ELSE /\ line' = buf
             /\ UNCHANGED <<strRxBuf, lastUARTStr, state>>
     /\ UNCHANGED ignoreNext

(* Both ends of UART_getString: the buffer is full, or the line is.        *)
Character(ch) ==
  LET buf == Append(line, ch)
  IN /\ Got
     /\ ignoreNext = 0
     /\ ch \notin {"BS", "TAB", "ESC", "NUL"}
     /\ IF Len(buf) >= LineLen - 1
        THEN /\ strRxBuf' = SubSeq(buf, 1, LineLen - 1)
             /\ lastUARTStr' = strRxBuf'
             /\ line' = <<>>
             /\ state' = "execute"
        ELSE IF ch = "CR"
        THEN /\ strRxBuf' = buf
             /\ lastUARTStr' = IF Len(buf) > 1 THEN line ELSE lastUARTStr
             /\ line' = <<>>
             /\ state' = "execute"
        ELSE /\ line' = buf
             /\ UNCHANGED <<strRxBuf, lastUARTStr, state>>
     /\ UNCHANGED ignoreNext

UART_getString ==
  LET ch == ByteAt(UserRxBufferHSIdx)
  IN Escape(ch) \/ Control(ch) \/ Character(ch)
-----------------------------------------------------------------------------
(* CMD_DEC_decode: what the character c at p does to its state r.at and to *)
(* the pointers in res.  Blanks skip to the character behind them, which   *)
(* is looked at in the same turn, even if the command ends there: with no  *)
(* name yet cmd stays at the end, and behind an option str does.           *)
Decoded(r, c, p) ==
  IF c = " "
  THEN [r EXCEPT !.at = CASE @ = 1 -> 2 [] @ \in {3, 5} -> 4 [] OTHER -> @]
  ELSE IF c \in Stop
  THEN [r EXCEPT !.cmd = IF r.at = 0 THEN p ELSE @,
                 !.str = IF r.at = 4 /\ @ = 0 THEN p ELSE @]
  ELSE CASE r.at = 0 -> [r EXCEPT !.cmd = p, !.cmdLen = 1, !.at = 1]
         [] r.at = 1 -> [r EXCEPT !.cmdLen = @ + 1]
         [] r.at = 2 /\ c = "-" -> [r EXCEPT !.opt = p, !.at = 3]
         [] r.at \in {3, 5} -> r
         [] OTHER -> [r EXCEPT !.str = IF @ = 0 THEN p ELSE @, !.at = 5]

CMD_DEC_decode(s, from, to) ==
  LET end == IF to > from /\ s[to - 1] = " " THEN to ELSE to - 1
  IN FoldLeft(LAMBDA r, p : Decoded(r, At(s, p), p),
              [at |-> 0, cmd |-> 0, cmdLen |-> 0, opt |-> 0, str |-> 0],
              [i \in 1 .. end + 1 - from |-> from + i - 1])

(* One turn of the loop of CMD_DEC_execute, the handler included.  The end *)
(* of the text, or its comment, is overwritten with a NUL.  Blanks before  *)
(* a separator leave cmd at the separator: a command without a name.       *)
Execute ==
  LET from == offset + 1
      to   == Min({p \in from .. Len(strRxBuf) + 1 : At(strRxBuf, p) \in Stop})
      more == At(strRxBuf, to) = ";"
      r    == CMD_DEC_decode(strRxBuf, from, to)
  IN /\ state = "execute"
     /\ strRxBuf' = IF more THEN strRxBuf ELSE SubSeq(strRxBuf, 1, to - 1)
     /\ cmdRes' = IF r.cmd # 0 /\ (r.cmdLen > 0 \/ more)
                  THEN [name |-> SubSeq(strRxBuf, r.cmd, r.cmd + r.cmdLen - 1),
                        opt |-> r.opt, arg |-> r.str]
                  ELSE cmdRes
     /\ offset' = IF more THEN to ELSE 0
     /\ state' = IF more THEN "execute" ELSE "prompt"
     /\ UNCHANGED <<inputVars, keys, ignoreNext, line, lastUARTStr>>

(* SendPrompt, and UART_setLastString with what the decoder left.          *)
Prompt ==
  LET text == IF strRxBuf # <<>> /\ Last(strRxBuf) = "CR" THEN Front(strRxBuf)
              ELSE strRxBuf
  IN /\ state = "prompt"
     /\ state' = "read"
     /\ lastUARTStr' = IF text = <<>> THEN lastUARTStr ELSE text
     /\ strRxBuf' = <<>>
     /\ UNCHANGED <<inputVars, keys, ignoreNext, line, offset, cmdRes>>

StartUARTTask == UART_getString \/ Execute \/ Prompt

Next == (\E k \in DOMAIN KeyBytes : Press(k)) \/ StartUARTTask

Spec == Init /\ [][Next]_vars

(* The shell polls whenever nothing of higher priority runs.               *)
FairSpec == Spec /\ WF_vars(StartUARTTask)
-----------------------------------------------------------------------------
(* The line as a person knows it: what has not been read whole is waiting, *)
(* what has not been decoded is still to be run.                           *)
KeyOf == AntiFunction(KeyBytes)

Editor == INSTANCE LineEditor WITH
  key  <- IF UserRxBufferHSSize = 0 THEN "none"
          ELSE KeyOf[SubSeq(UserRxBufferHS, 1, UserRxBufferHSSize)],
  last <- IF state = "read" \/ Bare(strRxBuf) = <<>> THEN lastUARTStr
          ELSE Bare(strRxBuf),
  busy <- state # "read",
  todo <- IF state = "execute" THEN Commands(strRxBuf, offset + 1) ELSE <<>>,
  ran  <- cmdRes

(* The bytes of the keys, escape sequences that arrive in one packet and   *)
(* are read in three calls, the two buffers a line passes through and the  *)
(* decoder that scans it with six states make up the editor a person uses  *)
(* at the terminal, with every command of a line run once, in order, with  *)
(* its own option and argument (VCP_UART.c:82-213, cmd_dec.c:624-800).     *)
ImplementsLineEditor == Editor!EditSpec

(* Every key is taken in the end: nothing that was pressed while a command *)
(* ran leaves the index behind the size, where no byte is found any more   *)
(* (usbd_cdc_if.c:278-288).                                                *)
KeysAreTaken == UserRxBufferHSSize # 0 ~> UserRxBufferHSSize = 0

(* The line buffers, and the packet buffer, are never left.                *)
TypeOK ==
  /\ UserRxBufferHSIdx <= UserRxBufferHSSize
  /\ UserRxBufferHSSize <= Len(UserRxBufferHS)
  /\ keys \in 0 .. MaxKeys
  /\ ignoreNext \in 0 .. 2
  /\ line \in Seq(Chars \cup {"CR"}) /\ Len(line) < LineLen
  /\ lastUARTStr \in Seq(Chars \cup {"CR"}) /\ Len(lastUARTStr) < LineLen
  /\ strRxBuf \in Seq(Chars \cup {"CR"}) /\ Len(strRxBuf) < LineLen
  /\ offset \in 0 .. LineLen
  /\ state \in {"read", "execute", "prompt"}
=============================================================================
