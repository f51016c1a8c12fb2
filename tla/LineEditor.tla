----------------------------- MODULE LineEditor -----------------------------
(***************************************************************************)
(* What a person at the serial terminal may rely on: a key is taken whole  *)
(* or, if the next one is pressed before the shell looks, not at all; keys *)
(* edit a line; the line is split in commands that run one by one, in      *)
(* order; one line is remembered.                                          *)
(***************************************************************************)
EXTENDS CommandLine

CONSTANTS
  Chars,         \* what can stand in a line
  LineLen,       \* UART_STR_SIZE, one more than the longest line
  MaxKeys        \* bound: how many keys are pressed

VARIABLES
  keys,          \* how many keys have been pressed
  key,           \* the key that has not been taken yet
  line,          \* the line as the terminal shows it
  last,          \* the line that the arrow brings back
  busy,          \* the commands of a line are run
  todo,          \* those that are still to be run
  ran            \* the last one that was

editVars == <<keys, key, line, last, busy, todo, ran>>

NoCommand == [name |-> <<>>, opt |-> 0, arg |-> 0]
NoKey == "none"
Keys == Chars \cup {"Enter", "Rub", "Tab", "Up", "Down"}

EditInit ==
  /\ keys = 0
  /\ key = NoKey
  /\ line = <<>>
  /\ last = <<>>
  /\ busy = FALSE
  /\ todo = <<>>
  /\ ran = NoCommand

Press(k) ==
  /\ keys < MaxKeys
  /\ keys' = keys + 1
  /\ key' = k
  /\ UNCHANGED <<line, last, busy, todo, ran>>

Take(k) == ~busy /\ key = k /\ key' = NoKey

Deliver(s) ==
  /\ line' = <<>>
  /\ last' = Remembered(s, last)
  /\ busy' = TRUE
  /\ todo' = Commands(s, 1)
  /\ UNCHANGED <<keys, ran>>

Type(c) ==
  /\ Take(c)
  /\ IF Len(line) + 2 < LineLen
     THEN /\ line' = Append(line, c)
          /\ UNCHANGED <<keys, last, busy, todo, ran>>
     ELSE Deliver(SubSeq(Append(line, c), 1, LineLen - 1))

(* A line that fills the buffer keeps its end.                             *)
Enter ==
  /\ Take("Enter")
  /\ Deliver(IF Len(line) + 2 < LineLen THEN line
             ELSE SubSeq(Append(line, "CR"), 1, LineLen - 1))

Edit(k, s) ==
  /\ Take(k)
  /\ line' = s
  /\ UNCHANGED <<keys, last, busy, todo, ran>>

Rub  == Edit("Rub", IF line = <<>> THEN line
                    ELSE SubSeq(line, 1, Len(line) - 1))
Tab  == Edit("Tab", line \o [i \in 1 .. 4 |-> " "])
Up   == Edit("Up", IF line = <<>> THEN last ELSE line)
Down == Edit("Down", line)

Run ==
  /\ busy
  /\ todo # <<>>
  /\ ran' = Head(todo)
  /\ todo' = Tail(todo)
  /\ UNCHANGED <<keys, key, line, last, busy>>

Prompt ==
  /\ busy
  /\ todo = <<>>
  /\ busy' = FALSE
  /\ UNCHANGED <<keys, key, line, last, todo, ran>>

EditNext ==
  \/ \E k \in Keys : Press(k)
  \/ \E c \in Chars : Type(c)
  \/ Enter \/ Rub \/ Tab \/ Up \/ Down
  \/ Run \/ Prompt

EditSpec == EditInit /\ [][EditNext]_editVars
=============================================================================
