----------------------------- MODULE GpioProofs -----------------------------
(***************************************************************************)
(* Theorems about GpioInterrupt, for any number of shells and edges, every *)
(* size of the buffer and every text of aint.                              *)
(*                                                                         *)
(* That the task runs exactly the text needs an invariant about the writer *)
(* (a copy that is alone has written the first words of its text), one     *)
(* about the buffer (a whole text stands in it, with an end behind it),    *)
(* and one about the reader (what has been run is the buffer up to the     *)
(* offset, with no end in between).                                        *)
(***************************************************************************)
EXTENDS GpioInterrupt, SequenceTheorems, WellFoundedInduction, TLAPS

CopyInv ==
  \A s \in Shells : copy[s].alone =>
    /\ copy[s].text \in Texts
    /\ \A r \in Shells \ {s} : copy[r] = NoCopy
    /\ \A i \in 1 .. copy[s].done : intCmdBuf[i] = Written(copy[s].text, i)

(* The text stands in the buffer.                                          *)
Stands(text) ==
  /\ Len(text) < BufSize
  /\ \A i \in 1 .. Len(text) : intCmdBuf[i] = text[i] /\ text[i] # NUL
  /\ intCmdBuf[Len(text) + 1] = NUL

BufferInv == defined # Torn => Stands(defined)

ReaderInv ==
  /\ steady => defined # Torn
  /\ task = "execute" /\ steady =>
       /\ ran = SubSeq(intCmdBuf, 1, offset - 1)
       /\ \A i \in 1 .. offset - 1 : intCmdBuf[i] # NUL
  /\ RunsTheText

IInv == TypeOK /\ NeverLeftDisabled /\ CopyInv /\ BufferInv /\ ReaderInv
-----------------------------------------------------------------------------
LEMMA BufferType ==
  ASSUME TypeOK
  PROVE  /\ intCmdBuf \in Seq(Words) /\ Len(intCmdBuf) = BufSize
         /\ BufSize \in Nat /\ BufSize > 1
         /\ offset \in 1 .. BufSize
         /\ ran \in Seq(Words) /\ defined \in Seq(Words)
         /\ NUL \in Words
<1>1. BufSize \in Nat /\ BufSize > 1
  BY BoundsAssumption
<1>2. intCmdBuf \in Seq(Words) /\ Len(intCmdBuf) = BufSize
  BY <1>1 DEF TypeOK
<1>. QED
  BY <1>1, <1>2, TextsAssumption DEF TypeOK

(* Sequences of one word.                                                  *)
LEMMA Single ==
  ASSUME NEW x \in Words
  PROVE  <<x>> \in Seq(Words) /\ Len(<<x>>) = 1 /\ <<x>>[1] = x
OBVIOUS

(* A nonempty set of naturals has a least element.                         *)
LEMMA LeastNumber ==
  ASSUME NEW S \in SUBSET Nat, S # {}
  PROVE  \E i \in S : \A j \in S : ~(j < i)
<1> DEFINE R == {ss \in Nat \X Nat : ss[1] < ss[2]}
<1>1. IsWellFoundedOn(R, Nat)
  BY NatLessThanWellFounded DEF OpToRel
<1> HIDE DEF R
<1>2. PICK i \in S : \A j \in S : <<j, i>> \notin R
  BY <1>1, WFMin
<1>. QED
  BY <1>2 DEF R

(* The end of a command is where the decoder finds it.                     *)
NextStop ==
  CHOOSE i \in offset .. BufSize :
    Stop(i) /\ \A j \in offset .. i - 1 : ~Stop(j)

LEMMA StopIsFound ==
  ASSUME TypeOK
  PROVE  /\ NextStop \in offset .. BufSize
         /\ Stop(NextStop)
         /\ \A j \in offset .. NextStop - 1 : ~Stop(j)
<1>1. offset \in 1 .. BufSize /\ BufSize \in Nat
  BY BoundsAssumption DEF TypeOK
<1> DEFINE Stops == {i \in offset .. BufSize : Stop(i)}
<1>2. BufSize \in Stops
  <2>1. Stop(BufSize)
    BY DEF TypeOK, Stop
  <2>. QED
    BY <1>1, <2>1
<1>3. Stops \in SUBSET Nat
  BY <1>1
<1>4. PICK i \in Stops : \A j \in Stops : ~(j < i)
  BY <1>2, <1>3, LeastNumber
<1>5. \A j \in offset .. i - 1 : ~Stop(j)
  BY <1>1, <1>4
<1>. QED
  BY <1>4, <1>5 DEF NextStop

LEMMA ExecuteStep ==
  ASSUME TypeOK, Execute
  PROVE  /\ task = "execute"
         /\ IF intCmdBuf[NextStop] = Separator
            THEN /\ ran' = ran \o SubSeq(intCmdBuf, offset, NextStop - 1) \o <<Separator>>
                 /\ task' = "execute" /\ offset' = NextStop + 1
            ELSE /\ ran' = ran \o SubSeq(intCmdBuf, offset, NextStop - 1) \o <<>>
                 /\ task' = "enable" /\ offset' = 1
         /\ UNCHANGED <<textVars, picoc>>
         /\ \/ \E enable \in BOOLEAN : GPIO_INTConfig(enable)
            \/ UNCHANGED pinVars
BY DEF Execute, NextStop

-----------------------------------------------------------------------------
LEMMA CopyType ==
  ASSUME TypeOK, NEW s \in Shells
  PROVE  /\ copy[s] \in Copies
         /\ copy[s].text \in Seq(Words)
         /\ copy[s].done \in 0 .. BufSize - 2
         /\ copy[s].alone \in BOOLEAN
<1>1. copy[s] \in Copies
  BY DEF TypeOK
<1>. QED
  BY <1>1 DEF Copies

LEMMA NoCopyType == NoCopy \in Copies /\ NoCopy.alone = FALSE
<1>1. 0 \in 0 .. BufSize - 2
  BY BoundsAssumption
<1>. QED
  BY <1>1 DEF NoCopy, Copies

(* A disturbed copy is the same copy, no longer alone.                     *)
LEMMA DisturbedType ==
  ASSUME TypeOK, NEW r \in Shells
  PROVE  Disturbed(r) \in Copies /\ Disturbed(r).alone = FALSE
<1>1. CASE copy[r] = NoCopy
  BY <1>1, NoCopyType DEF Disturbed
<1>2. CASE copy[r] # NoCopy
  BY <1>2, CopyType DEF Disturbed, Copies
<1>. QED
  BY <1>1, <1>2

(* One word of a copy, and what is known of the place it goes to.          *)
Place(s) == copy[s].done + 1

LEMMA StrncpyStep ==
  ASSUME TypeOK, NEW s \in Shells, Strncpy(s)
  PROVE  /\ Place(s) \in 1 .. BufSize - 1
         /\ copy[s].text \in Seq(Words)
         /\ intCmdBuf' \in [1 .. BufSize -> Words]
         /\ \A j \in 1 .. BufSize :
              intCmdBuf'[j] = IF j = Place(s) THEN Written(copy[s].text, Place(s))
                              ELSE intCmdBuf[j]
         /\ copy' = [copy EXCEPT ![s] = IF Place(s) = BufSize - 1 THEN NoCopy
                                       ELSE [copy[s] EXCEPT !.done = Place(s)]]
         /\ defined' = IF Place(s) = BufSize - 1 /\ copy[s].alone
                       THEN SubSeq(copy[s].text, 1,
                                   IF Len(copy[s].text) < BufSize
                                   THEN Len(copy[s].text) ELSE BufSize - 1)
                       ELSE Torn
         /\ steady' = FALSE
         /\ UNCHANGED <<texts, pinVars, task, offset, ran, picoc>>
<1> DEFINE i == Place(s)
           text == copy[s].text
<1>1. /\ i \in 1 .. BufSize - 1 /\ i \in 1 .. BufSize
      /\ text \in Seq(Words)
  BY BufferType, CopyType DEF Place
<1>2. Written(text, i) \in Words
  <2>1. i \in DOMAIN text => text[i] \in Words
    BY <1>1
  <2>. QED
    BY <2>1, TextsAssumption DEF Written
<1>3. /\ intCmdBuf' = [intCmdBuf EXCEPT ![i] = Written(text, i)]
      /\ copy' = [copy EXCEPT ![s] = IF i = BufSize - 1 THEN NoCopy
                                    ELSE [copy[s] EXCEPT !.done = i]]
      /\ defined' = IF i = BufSize - 1 /\ copy[s].alone
                    THEN SubSeq(text, 1, IF Len(text) < BufSize
                                         THEN Len(text) ELSE BufSize - 1)
                    ELSE Torn
      /\ steady' = FALSE
      /\ UNCHANGED <<texts, pinVars, task, offset, ran, picoc>>
  BY DEF Strncpy, Last, Place
<1>4. intCmdBuf \in [1 .. BufSize -> Words]
  BY DEF TypeOK
<1>5. /\ intCmdBuf' \in [1 .. BufSize -> Words]
      /\ \A j \in 1 .. BufSize :
           intCmdBuf'[j] = IF j = i THEN Written(text, i) ELSE intCmdBuf[j]
  BY <1>1, <1>2, <1>3, <1>4
<1>. QED
  BY <1>1, <1>3, <1>5
-----------------------------------------------------------------------------
(* The parts of the type invariant, each with the actions that change it.  *)
TextTypeOK ==
  /\ intCmdBuf \in [1 .. BufSize -> Words] /\ intCmdBuf[BufSize] = NUL
  /\ copy \in [Shells -> Copies]
  /\ defined \in Seq(Words)

LEMMA TextTypeStep ==
  ASSUME TypeOK, [Next]_vars
  PROVE  TextTypeOK'
<1>1. TextTypeOK
  BY DEF TypeOK, TextTypeOK
<1>2. NUL \in Words /\ Torn \in Seq(Words) /\ <<>> \in Seq(Words)
  BY TextsAssumption, Single DEF Torn
<1>3. CASE UNCHANGED <<intCmdBuf, copy, defined>>
  BY <1>1, <1>3 DEF TextTypeOK
<1>4. ASSUME NEW s \in Shells, CMD_aintDelete(s)
      PROVE  TextTypeOK'
  <2>1. copy' \in [Shells -> Copies]
    BY <1>4, DisturbedType DEF CMD_aintDelete
  <2>2. defined' \in Seq(Words)
    BY <1>2, <1>4 DEF CMD_aintDelete
  <2>3. intCmdBuf' \in [1 .. BufSize -> Words] /\ intCmdBuf'[BufSize] = NUL
    <3>1. intCmdBuf' = [intCmdBuf EXCEPT ![1] = NUL]
      BY <1>4 DEF CMD_aintDelete
    <3>2. BufSize \in Nat /\ BufSize > 1
      BY BufferType
    <3>. QED
      BY <1>1, <1>2, <3>1, <3>2 DEF TextTypeOK
  <2>. QED
    BY <2>1, <2>2, <2>3 DEF TextTypeOK
<1>5. ASSUME NEW s \in Shells, NEW text \in Texts, CMD_aint(s, text)
      PROVE  TextTypeOK'
  <2>1. [text |-> text, done |-> 0, alone |-> NoneCopies] \in Copies
    <3>1. text \in Seq(Words) /\ 0 \in 0 .. BufSize - 2
      BY TextsAssumption, BoundsAssumption
    <3>2. NoneCopies \in BOOLEAN
      BY DEF NoneCopies
    <3>. QED
      BY <3>1, <3>2 DEF Copies
  <2>2. copy' \in [Shells -> Copies]
    BY <1>5, <2>1, DisturbedType DEF CMD_aint
  <2>. QED
    BY <1>1, <1>5, <2>2 DEF CMD_aint, TextTypeOK
<1>6. ASSUME NEW s \in Shells, Strncpy(s)
      PROVE  TextTypeOK'
  <2> DEFINE i == Place(s)
             text == copy[s].text
  <2>2. /\ i \in 1 .. BufSize - 1
        /\ text \in Seq(Words)
        /\ intCmdBuf' \in [1 .. BufSize -> Words]
        /\ \A j \in 1 .. BufSize :
             intCmdBuf'[j] = IF j = i THEN Written(text, i) ELSE intCmdBuf[j]
    BY <1>6, StrncpyStep
  <2>1. intCmdBuf'[BufSize] = intCmdBuf[BufSize]
    <3>1. BufSize \in 1 .. BufSize /\ BufSize # i
      BY <2>2, BufferType
    <3>. QED
      BY <2>2, <3>1
  <2>3. copy' \in [Shells -> Copies]
    <3>1. [copy[s] EXCEPT !.done = i] \in Copies \/ i = BufSize - 1
      <4>1. /\ copy[s] \in Copies
            /\ i = BufSize - 1 \/ i \in 0 .. BufSize - 2
        BY <2>2, BufferType, CopyType
      <4>. QED
        BY <4>1 DEF Copies
    <3>2. copy' = [copy EXCEPT ![s] = IF i = BufSize - 1 THEN NoCopy
                                      ELSE [copy[s] EXCEPT !.done = i]]
      BY <1>6, StrncpyStep
    <3>. QED
      BY <1>1, <3>1, <3>2, NoCopyType DEF TextTypeOK
  <2>4. SubSeq(text, 1, IF Len(text) < BufSize THEN Len(text) ELSE BufSize - 1)
          \in Seq(Words)
    <3> DEFINE n == IF Len(text) < BufSize THEN Len(text) ELSE BufSize - 1
    <3>1. n \in Int /\ n <= Len(text) /\ Len(text) \in Nat
      BY <2>2, BufferType
    <3>2. \A j \in 1 .. n : text[j] \in Words
      BY <2>2, <3>1
    <3>. QED
      BY <3>1, <3>2, SubSeqProperties
  <2>5. defined' \in Seq(Words)
    BY <1>2, <1>6, <2>4, StrncpyStep
  <2>. QED
    BY <1>1, <2>2, <2>1, <2>3, <2>5 DEF TextTypeOK
<1>. QED
  BY <1>3, <1>4, <1>5, <1>6, ExecuteStep
     DEF Next, osSemaphoreNew, GPIOINTTask, Shell, Edge, EXTI9_5_IRQHandler, EXTI9_5_Enter,
         EXTI9_5_Clear, EXTI9_5_Release, CMD_cint, Script, Acquire,
         picoc_INThandler, CMD_invokeAINT, EnableIRQ, vars, textVars
-----------------------------------------------------------------------------
LEMMA TypeOKStep ==
  ASSUME TypeOK, [Next]_vars
  PROVE  TypeOK'
<1>1. TextTypeOK'
  BY TextTypeStep
<1>2. /\ edges' \in 0 .. MaxEdges
      /\ exti' \in {"idle", "edge"}
      /\ nvic' \in BOOLEAN
      /\ isr' \in {"none", "entered", "cleared"}
      /\ xSemaphoreGPIOINT' \in {0, 1}
      /\ asked' \in BOOLEAN /\ unserved' \in BOOLEAN /\ early' \in BOOLEAN
  <2>1. CASE UNCHANGED pinVars
    BY <2>1 DEF TypeOK, pinVars
  <2>2. CASE Edge
    BY <2>2, BoundsAssumption DEF Edge, TypeOK
  <2>3. CASE \E enable \in BOOLEAN : GPIO_INTConfig(enable)
    BY <2>3 DEF GPIO_INTConfig, TypeOK
  <2>4. CASE EXTI9_5_IRQHandler
    BY <2>4 DEF EXTI9_5_IRQHandler, EXTI9_5_Enter, EXTI9_5_Clear,
                EXTI9_5_Release, TypeOK
  <2>5. CASE Acquire \/ EnableIRQ
    BY <2>5 DEF Acquire, EnableIRQ, TypeOK
  <2>. QED
    BY <2>1, <2>2, <2>3, <2>4, <2>5, ExecuteStep
       DEF Next, osSemaphoreNew, GPIOINTTask, Shell, CMD_cint, CMD_aintDelete, CMD_aint, Strncpy,
           Script, picoc_INThandler, CMD_invokeAINT, vars
<1>3. /\ texts' \in 0 .. MaxTexts
      /\ steady' \in BOOLEAN
  <2>1. CASE UNCHANGED <<texts, steady>>
    BY <2>1 DEF TypeOK
  <2>2. ASSUME NEW s \in Shells,
               CMD_aintDelete(s) \/ \E text \in Texts : CMD_aint(s, text)
        PROVE  texts' \in 0 .. MaxTexts /\ steady' \in BOOLEAN
    <3>1. /\ texts < MaxTexts /\ texts' = texts + 1
          /\ steady' = FALSE \/ steady' = steady
      BY <2>2 DEF CMD_aintDelete, CMD_aint
    <3>2. texts' \in 0 .. MaxTexts
      BY <3>1, BoundsAssumption DEF TypeOK
    <3>3. steady' \in BOOLEAN
      BY <3>1 DEF TypeOK
    <3>. QED
      BY <3>2, <3>3
  <2>3. CASE UNCHANGED texts /\ steady' = FALSE
    BY <2>3 DEF TypeOK
  <2>4. CASE CMD_invokeAINT
    BY <2>4 DEF CMD_invokeAINT, TypeOK
  <2>. QED
    BY <2>1, <2>2, <2>3, <2>4, ExecuteStep
       DEF Next, osSemaphoreNew, GPIOINTTask, Shell, Edge, EXTI9_5_IRQHandler, EXTI9_5_Enter,
           EXTI9_5_Clear, EXTI9_5_Release, CMD_cint, Strncpy, Script, Acquire,
           picoc_INThandler, EnableIRQ, vars, textVars
<1>4. picoc' \in [runs : BOOLEAN, handler : BOOLEAN]
  <2>1. CASE UNCHANGED picoc
    BY <2>1 DEF TypeOK
  <2>2. CASE Script
    BY <2>2 DEF Script, TypeOK
  <2>. QED
    BY <2>1, <2>2, ExecuteStep
       DEF Next, osSemaphoreNew, GPIOINTTask, Shell, Edge, EXTI9_5_IRQHandler, EXTI9_5_Enter,
           EXTI9_5_Clear, EXTI9_5_Release, CMD_cint, CMD_aintDelete, CMD_aint,
           Strncpy, Acquire, picoc_INThandler, CMD_invokeAINT, EnableIRQ, vars
<1>5. /\ task' \in {"boot", "wait", "look", "execute", "enable"}
      /\ offset' \in 1 .. BufSize
      /\ ran' \in Seq(Words)
  <2>1. CASE UNCHANGED <<task, offset, ran>>
    BY <2>1 DEF TypeOK
  <2>2. CASE osSemaphoreNew \/ Acquire \/ picoc_INThandler \/ EnableIRQ
    BY <2>2 DEF osSemaphoreNew, Acquire, picoc_INThandler, EnableIRQ, TypeOK
  <2>3. CASE CMD_invokeAINT
    BY <2>3, BufferType DEF CMD_invokeAINT
  <2>4. CASE Execute
    <3>1. /\ NextStop \in offset .. BufSize
          /\ NextStop = BufSize => intCmdBuf[NextStop] = NUL
      BY StopIsFound DEF TypeOK
    <3>2. offset' \in 1 .. BufSize
      <4>1. CASE intCmdBuf[NextStop] = Separator
        <5>1. NextStop # BufSize
          BY <3>1, <4>1 DEF NUL, Separator
        <5>. QED
          BY <2>4, <3>1, <4>1, <5>1, ExecuteStep, BufferType
      <4>2. CASE intCmdBuf[NextStop] # Separator
        BY <2>4, <4>2, ExecuteStep, BufferType
      <4>. QED
        BY <4>1, <4>2
    <3>3. SubSeq(intCmdBuf, offset, NextStop - 1) \in Seq(Words)
      <4>1. /\ offset \in Int /\ NextStop - 1 \in Int
            /\ \A j \in offset .. NextStop - 1 : intCmdBuf[j] \in Words
        BY <3>1, BufferType
      <4>. QED
        BY <4>1, SubSeqProperties
    <3>4. ran \in Seq(Words) /\ <<Separator>> \in Seq(Words) /\ <<>> \in Seq(Words)
      BY BufferType, TextsAssumption, Single
    <3>5. \A u \in {<<Separator>>, <<>>} :
            ran \o SubSeq(intCmdBuf, offset, NextStop - 1) \o u \in Seq(Words)
      BY <3>3, <3>4, ConcatProperties
    <3>. QED
      BY <2>4, <3>2, <3>5, ExecuteStep
  <2>. QED
    BY <2>1, <2>2, <2>3, <2>4
       DEF Next, osSemaphoreNew, GPIOINTTask, Shell, Edge, EXTI9_5_IRQHandler, EXTI9_5_Enter,
           EXTI9_5_Clear, EXTI9_5_Release, CMD_cint, CMD_aintDelete, CMD_aint,
           Strncpy, Script, vars
<1>. QED
  BY <1>1, <1>2, <1>3, <1>4, <1>5 DEF TextTypeOK, TypeOK
-----------------------------------------------------------------------------
LEMMA NeverLeftDisabledStep ==
  ASSUME TypeOK, NeverLeftDisabled, [Next]_vars
  PROVE  NeverLeftDisabled'
<1>. USE DEF NeverLeftDisabled
<1>1. CASE UNCHANGED <<pinVars, task>>
  BY <1>1 DEF pinVars
<1>2. CASE Edge
  BY <1>2 DEF Edge
<1>3. CASE EXTI9_5_IRQHandler
  BY <1>3 DEF EXTI9_5_IRQHandler, EXTI9_5_Enter, EXTI9_5_Clear, EXTI9_5_Release
<1>4. ASSUME NEW enable \in BOOLEAN, GPIO_INTConfig(enable)
      PROVE  NeverLeftDisabled'
  BY <1>4 DEF GPIO_INTConfig
<1>5. CASE Execute
  BY <1>5, ExecuteStep
<1>6. CASE Acquire \/ picoc_INThandler \/ CMD_invokeAINT \/ EnableIRQ
  BY <1>6 DEF Acquire, picoc_INThandler, CMD_invokeAINT, EnableIRQ, pinVars
<1>7. CASE osSemaphoreNew
  BY <1>7 DEF osSemaphoreNew, pinVars
<1>. QED
  BY <1>1, <1>2, <1>3, <1>4, <1>5, <1>6, <1>7
     DEF Next, osSemaphoreNew, GPIOINTTask, Shell, CMD_cint, CMD_aintDelete, CMD_aint, Strncpy,
         Script, vars
-----------------------------------------------------------------------------
(* A copy that is alone stays so until somebody else begins one.           *)
LEMMA CopyInvStep ==
  ASSUME TypeOK, CopyInv, [Next]_vars
  PROVE  CopyInv'
<1>1. CASE UNCHANGED <<copy, intCmdBuf>>
  BY <1>1 DEF CopyInv, Written
<1>2. ASSUME NEW s \in Shells, CMD_aintDelete(s)
      PROVE  CopyInv'
  <2>1. \A r \in Shells : copy'[r].alone = FALSE
    BY <1>2, DisturbedType DEF CMD_aintDelete
  <2>. QED
    BY <2>1 DEF CopyInv
<1>3. ASSUME NEW s \in Shells, NEW text \in Texts, CMD_aint(s, text)
      PROVE  CopyInv'
  <2>1. \A r \in Shells \ {s} : copy'[r] = Disturbed(r) /\ copy'[r].alone = FALSE
    BY <1>3, DisturbedType DEF CMD_aint
  <2>2. copy'[s] = [text |-> text, done |-> 0, alone |-> NoneCopies]
    BY <1>3 DEF CMD_aint
  <2>3. NoneCopies => \A r \in Shells \ {s} : copy'[r] = NoCopy
    BY <2>1 DEF NoneCopies, Disturbed
  <2>4. SUFFICES ASSUME copy'[s].alone
                 PROVE  /\ copy'[s].text \in Texts
                        /\ \A r \in Shells \ {s} : copy'[r] = NoCopy
                        /\ copy'[s].done = 0
    BY <2>1 DEF CopyInv
  <2>. QED
    BY <2>2, <2>3, <2>4
<1>4. ASSUME NEW s \in Shells, Strncpy(s)
      PROVE  CopyInv'
  <2>1. /\ copy[s] # NoCopy /\ copy[s] \in Copies
        /\ copy \in [Shells -> Copies]
        /\ BufSize \in Nat
    BY <1>4, CopyType, BufferType DEF Strncpy, TypeOK
  <2>2. Place(s) \in Nat /\ Place(s) \in 1 .. BufSize - 1
    <3>1. Place(s) \in 1 .. BufSize - 1
      BY <1>4, StrncpyStep
    <3>. QED
      BY <2>1, <3>1
  <2>3. copy' = [copy EXCEPT ![s] = IF Place(s) = BufSize - 1 THEN NoCopy
                                   ELSE [copy[s] EXCEPT !.done = Place(s)]]
    BY <1>4, StrncpyStep
  <2>4. \A r \in Shells \ {s} : copy'[r] = copy[r] /\ ~copy[r].alone
    BY <2>1, <2>3 DEF CopyInv
  <2>5. CASE Place(s) = BufSize - 1
    <3>1. copy'[s] = NoCopy
      BY <2>1, <2>3, <2>5
    <3>. QED
      BY <2>4, <3>1, NoCopyType DEF CopyInv
  <2>6. CASE Place(s) # BufSize - 1
    <3>1. copy'[s] = [copy[s] EXCEPT !.done = Place(s)]
      BY <2>1, <2>3, <2>6
    <3>2. /\ copy'[s].done = Place(s) /\ copy'[s].alone = copy[s].alone
          /\ copy'[s].text = copy[s].text
      BY <2>1, <3>1 DEF Copies
    <3>3. ASSUME copy[s].alone, NEW j \in 1 .. Place(s)
          PROVE  intCmdBuf'[j] = Written(copy[s].text, j)'
      <4>1. /\ j \in 1 .. BufSize
            /\ intCmdBuf'[j] = IF j = Place(s) THEN Written(copy[s].text, j)
                               ELSE intCmdBuf[j]
        <5>1. j \in 1 .. BufSize
          BY <2>1, <2>2
        <5>2. \A k \in 1 .. BufSize :
                intCmdBuf'[k] = IF k = Place(s) THEN Written(copy[s].text, k)
                                ELSE intCmdBuf[k]
          BY <1>4, StrncpyStep
        <5>. QED
          BY <5>1, <5>2
      <4>2. j # Place(s) => j \in 1 .. copy[s].done
        BY <2>1, <2>2, CopyType DEF Place
      <4>3. intCmdBuf'[j] = Written(copy[s].text, j)
        BY <3>3, <4>1, <4>2 DEF CopyInv
      <4>. QED
        BY <3>2, <4>3 DEF Written
    <3>4. copy[s].alone => /\ copy[s].text \in Texts
                           /\ \A r \in Shells \ {s} : copy[r] = NoCopy
      BY DEF CopyInv
    <3>. QED
      BY <2>4, <3>2, <3>3, <3>4 DEF CopyInv, Written
  <2>. QED
    BY <2>5, <2>6
<1>. QED
  BY <1>1, <1>2, <1>3, <1>4, ExecuteStep
     DEF Next, osSemaphoreNew, GPIOINTTask, Shell, Edge, EXTI9_5_IRQHandler, EXTI9_5_Enter,
         EXTI9_5_Clear, EXTI9_5_Release, CMD_cint, Script, Acquire,
         picoc_INThandler, CMD_invokeAINT, EnableIRQ, vars, textVars
-----------------------------------------------------------------------------
(* A text is whole when a copy that is alone is complete.                  *)
LEMMA BufferInvStep ==
  ASSUME TypeOK, CopyInv, BufferInv, [Next]_vars
  PROVE  BufferInv'
<1>1. CASE UNCHANGED <<intCmdBuf, defined>>
  BY <1>1 DEF BufferInv, Stands
<1>2. ASSUME NEW s \in Shells, CMD_aintDelete(s)
      PROVE  BufferInv'
  <2>1. /\ defined' \in {<<>>, Torn}
        /\ intCmdBuf' = [intCmdBuf EXCEPT ![1] = NUL]
        /\ intCmdBuf \in [1 .. BufSize -> Words]
        /\ BufSize \in Nat /\ BufSize > 1
    BY <1>2, BufferType DEF CMD_aintDelete, TypeOK
  <2>2. intCmdBuf'[1] = NUL
    BY <2>1
  <2>. QED
    BY <2>1, <2>2 DEF BufferInv, Stands
<1>3. ASSUME NEW s \in Shells, Strncpy(s)
      PROVE  BufferInv'
  <2> DEFINE text == copy[s].text
             n == IF Len(text) < BufSize THEN Len(text) ELSE BufSize - 1
  <2>1. SUFFICES ASSUME defined' # Torn PROVE Stands(defined)'
    BY DEF BufferInv
  <2>2. /\ Place(s) = BufSize - 1 /\ copy[s].alone
        /\ defined' = SubSeq(text, 1, n)
    BY <1>3, <2>1, StrncpyStep
  <2>3. /\ text \in Seq(Words) /\ Len(text) \in Nat
        /\ BufSize \in Nat /\ BufSize > 1
        /\ n \in Nat /\ n <= Len(text) /\ n < BufSize
    BY CopyType, BufferType
  <2>4. \A j \in 1 .. BufSize - 1 : intCmdBuf'[j] = Written(text, j)
    <3>1. \A j \in 1 .. BufSize :
            intCmdBuf'[j] = IF j = Place(s) THEN Written(text, Place(s))
                            ELSE intCmdBuf[j]
      BY <1>3, StrncpyStep
    <3>2. copy[s].done = BufSize - 2
      BY <2>2, <2>3, CopyType DEF Place
    <3>3. \A j \in 1 .. BufSize - 2 : intCmdBuf[j] = Written(text, j)
      BY <2>2, <3>2 DEF CopyInv
    <3>. QED
      BY <2>2, <2>3, <3>1, <3>3
  <2>5. /\ defined' \in Seq(Words) /\ Len(defined') = n
        /\ \A j \in 1 .. n : defined'[j] = text[j]
    <3>1. \A j \in 1 .. n : text[j] \in Words
      BY <2>3
    <3>2. 1 \in Int /\ n \in Int
      BY <2>3
    <3>3. /\ SubSeq(text, 1, n) \in Seq(Words)
          /\ Len(SubSeq(text, 1, n)) = IF 1 <= n THEN n - 1 + 1 ELSE 0
          /\ \A j \in 1 .. n - 1 + 1 : SubSeq(text, 1, n)[j] = text[1 + j - 1]
      BY <3>1, <3>2, SubSeqProperties
    <3>. QED
      BY <2>2, <2>3, <3>3
  <2>6. \A j \in 1 .. n : intCmdBuf'[j] = text[j] /\ text[j] # NUL
    <3>1. \A j \in DOMAIN text : text[j] # NUL
      BY <2>2, TextsAssumption DEF CopyInv
    <3>2. \A j \in 1 .. n : j \in DOMAIN text /\ j \in 1 .. BufSize - 1
      BY <2>3
    <3>. QED
      BY <2>4, <3>1, <3>2 DEF Written
  <2>7. intCmdBuf'[n + 1] = NUL
    <3>1. CASE n = BufSize - 1
      <4>1. intCmdBuf'[BufSize] = NUL
        BY TextTypeStep DEF TextTypeOK
      <4>. QED
        BY <2>3, <3>1, <4>1
    <3>2. CASE n # BufSize - 1
      <4>1. n + 1 \in 1 .. BufSize - 1 /\ n + 1 \notin DOMAIN text
        BY <2>3, <3>2
      <4>. QED
        BY <2>4, <4>1 DEF Written
    <3>. QED
      BY <3>1, <3>2
  <2> HIDE DEF n, text
  <2>8. /\ Len(defined') < BufSize
        /\ \A j \in 1 .. Len(defined') :
             intCmdBuf'[j] = defined'[j] /\ defined'[j] # NUL
        /\ intCmdBuf'[Len(defined') + 1] = NUL
    BY <2>3, <2>5, <2>6, <2>7
  <2>. QED
    BY <2>8 DEF Stands
<1>. QED
  BY <1>1, <1>2, <1>3, ExecuteStep
     DEF Next, osSemaphoreNew, GPIOINTTask, Shell, Edge, EXTI9_5_IRQHandler, EXTI9_5_Enter,
         EXTI9_5_Clear, EXTI9_5_Release, CMD_cint, CMD_aint, Script, Acquire,
         picoc_INThandler, CMD_invokeAINT, EnableIRQ, vars, textVars
-----------------------------------------------------------------------------
(* A whole text ends at the first NUL of the buffer.                       *)
LEMMA EndOfText ==
  ASSUME TypeOK, NEW text \in Seq(Words), Stands(text),
         NEW to \in 1 .. BufSize, intCmdBuf[to] = NUL,
         \A j \in 1 .. to - 1 : intCmdBuf[j] # NUL
  PROVE  text = SubSeq(intCmdBuf, 1, to - 1)
<1>1. /\ Len(text) \in Nat /\ to \in Nat
      /\ intCmdBuf \in Seq(Words) /\ Len(intCmdBuf) = BufSize
  BY BufferType
<1>2. Len(text) = to - 1
  <2>1. ~(Len(text) < to - 1)
    <3>1. intCmdBuf[Len(text) + 1] = NUL
      BY DEF Stands
    <3>. QED
      BY <1>1, <3>1
  <2>2. ~(to <= Len(text))
    <3>1. to <= Len(text) => intCmdBuf[to] # NUL
      BY <1>1 DEF Stands
    <3>. QED
      BY <3>1
  <2>. QED
    BY <1>1, <2>1, <2>2
<1>3. \A j \in 1 .. to - 1 : intCmdBuf[j] \in Words /\ intCmdBuf[j] = text[j]
  BY <1>1, <1>2, BufferType DEF Stands
<1>4. 1 \in Int /\ to - 1 \in Int
  BY <1>1
<1>5. /\ SubSeq(intCmdBuf, 1, to - 1) \in Seq(Words)
      /\ Len(SubSeq(intCmdBuf, 1, to - 1)) =
           IF 1 <= to - 1 THEN to - 1 - 1 + 1 ELSE 0
      /\ \A j \in 1 .. to - 1 - 1 + 1 :
           SubSeq(intCmdBuf, 1, to - 1)[j] = intCmdBuf[1 + j - 1]
  BY <1>3, <1>4, SubSeqProperties
<1>6. /\ Len(text) = Len(SubSeq(intCmdBuf, 1, to - 1))
      /\ \A j \in 1 .. Len(text) : text[j] = SubSeq(intCmdBuf, 1, to - 1)[j]
  BY <1>1, <1>2, <1>3, <1>5
<1>. QED
  BY <1>5, <1>6, SeqEqual
-----------------------------------------------------------------------------
LEMMA ReadsOn ==
  ASSUME TypeOK, ReaderInv, BufferInv, Execute, steady
  PROVE  /\ task' = "execute" =>
              /\ ran' = SubSeq(intCmdBuf, 1, offset' - 1)
              /\ \A i \in 1 .. offset' - 1 : intCmdBuf[i] # NUL
         /\ task' = "enable" => ran' = defined
<1> DEFINE word == SubSeq(intCmdBuf, offset, NextStop - 1)
<1>1. /\ NextStop \in offset .. BufSize /\ offset \in 1 .. BufSize
      /\ BufSize \in Nat
      /\ intCmdBuf \in Seq(Words) /\ Len(intCmdBuf) = BufSize
      /\ intCmdBuf[NextStop] \in {Separator, NUL}
      /\ \A j \in offset .. NextStop - 1 : intCmdBuf[j] \notin {Separator, NUL}
  BY StopIsFound, BufferType DEF Stop
<1>2. /\ ran = SubSeq(intCmdBuf, 1, offset - 1)
      /\ \A i \in 1 .. offset - 1 : intCmdBuf[i] # NUL
      /\ defined # Torn
  BY ExecuteStep DEF ReaderInv
<1>3. \A i \in 1 .. NextStop - 1 : intCmdBuf[i] # NUL
  BY <1>1, <1>2
<1>4. ran \o word = SubSeq(intCmdBuf, 1, NextStop - 1)
  <2>1. /\ 1 \in 1 .. Len(intCmdBuf) + 1
        /\ offset - 1 \in 1 - 1 .. Len(intCmdBuf)
        /\ NextStop - 1 \in offset - 1 .. Len(intCmdBuf)
        /\ (offset - 1) + 1 = offset
    BY <1>1
  <2>. QED
    BY <1>1, <1>2, <2>1, ConcatAdjacentSubSeq
<1>5. CASE intCmdBuf[NextStop] = Separator
  <2>1. /\ ran' = ran \o word \o <<Separator>>
        /\ task' = "execute" /\ offset' = NextStop + 1
    BY <1>5, ExecuteStep
  <2>2. SubSeq(intCmdBuf, 1, NextStop) =
          SubSeq(intCmdBuf, 1, NextStop - 1) \o <<intCmdBuf[NextStop]>>
    <3>1. 1 \in 1 .. Len(intCmdBuf) /\ NextStop \in 1 .. Len(intCmdBuf)
      BY <1>1
    <3>. QED
      BY <1>1, <3>1, SubSeqRecursiveSecond
  <2>3. offset' - 1 = NextStop
    BY <1>1, <2>1
  <2>4. ran' = SubSeq(intCmdBuf, 1, offset' - 1)
    BY <1>4, <1>5, <2>1, <2>2, <2>3
  <2>5. NUL # Separator
    BY DEF NUL, Separator
  <2>6. \A i \in 1 .. NextStop : intCmdBuf[i] # NUL
    BY <1>1, <1>3, <1>5, <2>5
  <2>. QED
    BY <2>1, <2>3, <2>4, <2>6
<1>6. CASE intCmdBuf[NextStop] # Separator
  <2>1. ran' = ran \o word \o <<>> /\ task' = "enable"
    BY <1>6, ExecuteStep
  <2>2. SubSeq(intCmdBuf, 1, NextStop - 1) \in Seq(Words)
    <3>1. /\ 1 \in Int /\ NextStop - 1 \in Int
          /\ \A j \in 1 .. NextStop - 1 : intCmdBuf[j] \in Words
      BY <1>1
    <3>. QED
      BY <3>1, SubSeqProperties
  <2>3. ran' = SubSeq(intCmdBuf, 1, NextStop - 1)
    BY <1>4, <2>1, <2>2, ConcatEmptySeq
  <2>4. defined = SubSeq(intCmdBuf, 1, NextStop - 1)
    <3>1. defined \in Seq(Words) /\ Stands(defined)
      BY <1>2, BufferType DEF BufferInv
    <3>2. NextStop \in 1 .. BufSize /\ intCmdBuf[NextStop] = NUL
      BY <1>1, <1>6
    <3>. QED
      BY <1>3, <3>1, <3>2, EndOfText
  <2>. QED
    BY <2>1, <2>3, <2>4
<1>. QED
  BY <1>5, <1>6

LEMMA ReaderInvStep ==
  ASSUME TypeOK, ReaderInv, BufferInv, [Next]_vars
  PROVE  ReaderInv'
<1>1. CASE UNCHANGED <<intCmdBuf, defined, steady, task, offset, ran>>
  BY <1>1 DEF ReaderInv, RunsTheText
<1>2. CASE ~steady'
  BY <1>2 DEF ReaderInv, RunsTheText
<1>3. CASE osSemaphoreNew \/ Acquire \/ EnableIRQ
  BY <1>3 DEF osSemaphoreNew, Acquire, EnableIRQ, textVars, ReaderInv, RunsTheText
<1>4. CASE CMD_invokeAINT /\ steady'
  <2>1. /\ defined # Torn /\ ran' = <<>> /\ offset' = 1
        /\ task' = IF intCmdBuf[1] = NUL THEN "enable" ELSE "execute"
        /\ UNCHANGED <<intCmdBuf, defined>>
    BY <1>4 DEF CMD_invokeAINT
  <2>2. SubSeq(intCmdBuf, 1, offset' - 1) = <<>>
    BY <2>1, SubSeqEmpty
  <2>3. intCmdBuf[1] = NUL => defined = <<>>
    <3>1. SUFFICES ASSUME intCmdBuf[1] = NUL PROVE defined = <<>>
      OBVIOUS
    <3>2. 1 \in 1 .. BufSize /\ \A j \in 1 .. 1 - 1 : intCmdBuf[j] # NUL
      BY BufferType
    <3>3. defined \in Seq(Words) /\ Stands(defined)
      BY <2>1, BufferType DEF BufferInv
    <3>4. defined = SubSeq(intCmdBuf, 1, 1 - 1)
      BY <3>1, <3>2, <3>3, EndOfText
    <3>. QED
      BY <3>4, SubSeqEmpty
  <2>4. offset' - 1 = 0
    BY <2>1
  <2>. QED
    BY <2>1, <2>2, <2>3, <2>4 DEF ReaderInv, RunsTheText
<1>5. CASE Execute /\ steady'
  <2>1. steady /\ UNCHANGED <<intCmdBuf, defined, steady>>
    BY <1>5, ExecuteStep DEF textVars
  <2>. QED
    BY <1>5, <2>1, ReadsOn DEF ReaderInv, RunsTheText
<1>. QED
  BY <1>1, <1>2, <1>3, <1>4, <1>5
     DEF Next, osSemaphoreNew, GPIOINTTask, Shell, Edge, EXTI9_5_IRQHandler, EXTI9_5_Enter,
         EXTI9_5_Clear, EXTI9_5_Release, CMD_cint, CMD_aintDelete, CMD_aint,
         Strncpy, Script, picoc_INThandler, vars, textVars
-----------------------------------------------------------------------------
LEMMA InitIInv == Init => IInv
<1>. SUFFICES ASSUME Init PROVE IInv
  OBVIOUS
<1>1. NUL \in Words /\ BufSize \in Nat /\ BufSize > 1 /\ <<>> \in Seq(Words)
      /\ MaxEdges \in Nat /\ MaxTexts \in Nat
  BY TextsAssumption, BoundsAssumption
<1>2. intCmdBuf \in [1 .. BufSize -> Words] /\ intCmdBuf[BufSize] = NUL
      /\ intCmdBuf[1] = NUL
  BY <1>1 DEF Init
<1>3. copy \in [Shells -> Copies] /\ \A s \in Shells : ~copy[s].alone
  BY NoCopyType DEF Init
<1>4. TypeOK
  <2>1. /\ edges \in 0 .. MaxEdges /\ texts \in 0 .. MaxTexts
        /\ offset \in 1 .. BufSize /\ xSemaphoreGPIOINT \in {0, 1}
    BY <1>1 DEF Init
  <2>2. /\ exti \in {"idle", "edge"} /\ isr \in {"none", "entered", "cleared"}
        /\ task \in {"boot", "wait", "look", "execute", "enable"}
    BY DEF Init
  <2>3. /\ nvic \in BOOLEAN /\ {asked, unserved, early, steady} \subseteq BOOLEAN
        /\ picoc \in [runs : BOOLEAN, handler : BOOLEAN]
    BY DEF Init
  <2>4. {defined, ran} \subseteq Seq(Words)
    BY <1>1 DEF Init
  <2>. QED
    BY <1>2, <1>3, <2>1, <2>2, <2>3, <2>4 DEF TypeOK
<1>5. BufferInv
  BY <1>1, <1>2 DEF Init, BufferInv, Stands
<1>. QED
  BY <1>3, <1>4, <1>5
     DEF Init, IInv, NeverLeftDisabled, CopyInv, ReaderInv, RunsTheText

LEMMA NextIInv == IInv /\ [Next]_vars => IInv'
BY TypeOKStep, NeverLeftDisabledStep, CopyInvStep, BufferInvStep, ReaderInvStep
   DEF IInv

LEMMA Invariance == Spec => []IInv
BY InitIInv, NextIInv, PTL DEF Spec

(* The buffer of the text always has its end, whatever is copied into it   *)
(* by however many shells.                                                 *)
THEOREM TextEndsInBuffer == Spec => []TypeOK
<1>1. IInv => TypeOK
  BY DEF IInv
<1>. QED
  BY <1>1, Invariance, PTL

(* The interrupt cannot stay disabled while it is asked for, unless it     *)
(* came before its semaphore was made and nobody has configured it since.  *)
THEOREM InterruptComesBack == Spec => []NeverLeftDisabled
<1>1. IInv => NeverLeftDisabled
  BY DEF IInv
<1>. QED
  BY <1>1, Invariance, PTL

(* A service that is not overtaken runs the text last given, or as much of *)
(* it as the buffer holds, for every text and every size.                  *)
THEOREM ServiceRunsTheText == Spec => []RunsTheText
<1>1. IInv => RunsTheText
  BY DEF IInv, ReaderInv
<1>. QED
  BY <1>1, Invariance, PTL
=============================================================================
