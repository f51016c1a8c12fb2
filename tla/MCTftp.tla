------------------------------- MODULE MCTftp -------------------------------
(* Tftp for TLC: a client that asks for whole transfers, and one that      *)
(* comes in between.                                                       *)
EXTENDS Tftp, TLC
CONSTANTS c1, c2
MCFiles == {[full |-> 1, tail |-> TRUE], [full |-> 0, tail |-> FALSE]}
MCSends == (c1 :> 3) @@ (c2 :> 1)
=============================================================================
