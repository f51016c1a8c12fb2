------------------------------ MODULE MCSpiBus ------------------------------
(* SpiBus for TLC: one task with the command line, one with the network.   *)
(* SPI_TOTAL_LEN is 3; 4 and 6 need the second part.  The frequencies are  *)
(* those around the borders of the divider table, the clamped ends, and a  *)
(* coarse sweep of what lies between.                                      *)
EXTENDS SpiBus

MCTasks == {"UART", "HTTP"}
MCLens  == {1, 3, 4, 6}

Borders == {74, Top \div 16, Top \div 8, Top \div 4, Top \div 2, Top,
            2 * Top, 4 * Top}
MCFreqs == {f + o : f \in Borders, o \in 0 .. 1} \cup {-1, 935, 1000, 10000}
             \cup {f * 9973 : f \in 1 .. 12}
=============================================================================
