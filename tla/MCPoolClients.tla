--------------------------- MODULE MCPoolClients ---------------------------
(* PoolClients for TLC: the shell of the serial line, whose lines nest,    *)
(* and that of the HTTP server, on a pool that a nested script exhausts.   *)
EXTENDS PoolClients

MCTasks == {"UART", "HTTP"}
MCLines == [UART |-> {"sdexec"}, HTTP |-> {"qspi"}]
MCRequests == {SegSize}
=============================================================================
