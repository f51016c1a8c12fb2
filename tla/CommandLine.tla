---------------------------- MODULE CommandLine ----------------------------
(***************************************************************************)
(* The grammar of a command line, as its users know it: commands between   *)
(* separators, each a name, an option and an argument between blanks, then *)
(* a comment.  An option with nothing but blanks behind it takes what      *)
(* follows as the argument, which is the separator and the commands after  *)
(* it, if there are any.                                                   *)
(***************************************************************************)
EXTENDS Naturals, SequencesExt

(* Positions in a text s.  A command ends with its text or at a separator. *)
Stop == {";", "#", "CR"}
At(s, p) == IF p \in DOMAIN s THEN s[p] ELSE "CR"
Ends(s, i) == Min({p \in i .. Len(s) + 1 : At(s, p) \in Stop})
Blank(s, p) == At(s, p) = " "

(* The words of s from position i on, up to the end of the command.        *)
WordStarts(s, i) ==
  {p \in i .. Ends(s, i) - 1 : ~Blank(s, p) /\ (p = i \/ Blank(s, p - 1))}
WordEnd(s, p) == Min({q \in p .. Ends(s, p) : Blank(s, q) \/ q = Ends(s, p)})
First(S) == IF S = {} THEN 0 ELSE Min(S)

Command(s, i) ==
  LET words == WordStarts(s, i)
      name  == First(words)
      more  == words \ {name}
      opt   == IF At(s, First(more)) = "-" THEN First(more) ELSE 0
      rest  == more \ {opt}
      none  == IF opt # 0 /\ Blank(s, Ends(s, i) - 1) THEN Ends(s, i) ELSE 0
  IN [name |-> IF words = {} THEN <<>>
                             ELSE SubSeq(s, name, WordEnd(s, name) - 1),
      opt  |-> opt,
      arg  |-> IF rest = {} THEN none ELSE First(rest)]

(* A command that is blank is left out if the line ends behind it, and     *)
(* stands for an unknown command if a separator does.                      *)
IsCommand(s, i) ==
  \/ WordStarts(s, i) # {}
  \/ At(s, Ends(s, i)) = ";" /\ Ends(s, i) > i

(* The commands of s from position i on, up to the comment.                *)
Commands(s, i) ==
  LET text   == Min({p \in i .. Len(s) + 1 : At(s, p) \in Stop \ {";"}})
      starts ==
        {p \in i .. text : IsCommand(s, p) /\ (p = i \/ s[p - 1] = ";")}
      order  == SetToSortSeq(starts, <)
  IN [n \in DOMAIN order |-> Command(s, order[n])]

(* Of what was typed the comment is forgotten, if something is left.       *)
Bare(s) ==
  SubSeq(s, 1, Min({p \in 1 .. Len(s) + 1 : At(s, p) \in {"#", "CR"}}) - 1)
Remembered(s, old) ==
  CASE Bare(s) # <<>> -> Bare(s)
    [] Bare(s) = <<>> /\ s # <<>> -> s
    [] s = <<>> -> old
=============================================================================
